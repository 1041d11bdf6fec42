----------------------------- MODULE Resources -----------------------------
(***************************************************************************)
(* Resource scopes: resource_matches of                                    *)
(* src/agentkernel/authority/service.py, which the authority service and   *)
(* the policy engine share.  A resource is the sequence of its segments; a *)
(* scope names one resource, everything below one (`/**'), or carries a    *)
(* wildcard that is not supported.                                         *)
(***************************************************************************)
EXTENDS Naturals, Sequences

WellFormed(scope) == scope.kind \in {"exact", "below"}

IsProperPrefix(s, t) == Len(s) < Len(t) /\ \A i \in 1 .. Len(s) : s[i] = t[i]

(* on a scope that is not well formed the code raises instead *)
ResourceMatches(scope, requested) ==
  \/ scope.kind = "exact" /\ scope.path = requested
  \/ scope.kind = "below" /\ IsProperPrefix(scope.path, requested)
=============================================================================
