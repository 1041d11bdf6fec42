------------------------- MODULE MCJournalAndGuards -------------------------
(***************************************************************************)
(* Small instances of the journal under arbitrary callers, and of the two  *)
(* guards of an action: the authority service, two of them with one ledger *)
(* of uses (a table of the same journal), and the policy engine.  They     *)
(* share no state here, so a behaviour is about one of them, and the       *)
(* others stay as they start.                                              *)
(***************************************************************************)
EXTENDS Journal, Authority, PolicyEngine, TLC

CONSTANTS s1, s2, cap1, cap2, cap3, alice, bob, write, tree, file, star

VARIABLE about  \* what the behaviour is about
mcvars == <<about, jvars, vars, policyVars>>

Symmetry == Permutations(Transactions)

-----------------------------------------------------------------------------
(* Authority: a grant of one file and one of the tree it is in, both of one *)
(* identity, and a third with no budget.                                    *)

OneFile == <<tree, file>>
Exact(p) == [kind |-> "exact", path |-> p]
Below(p) == [kind |-> "below", path |-> p]
Unsupported == [kind |-> "unsupported", path |-> <<star>>]

GrantOf(c, who, scopes, from, until, max) ==
  [capability |-> c, identity |-> who, actions |-> {write}, resources |-> scopes,
   notBefore |-> from, expiresAt |-> until, maxUses |-> max]
TwoViews ==
  (s1 :> << GrantOf(cap1, alice, <<Exact(OneFile)>>, 0, 2, 1),
            GrantOf(cap2, alice, <<Below(<<tree>>)>>, 1, 3, 2) >>)
  @@ (s2 :> << GrantOf(cap2, alice, <<Exact(OneFile), Below(<<tree>>), Unsupported>>, 0, 3, 1),
               GrantOf(cap1, alice, <<Exact(OneFile)>>, 0, 2, 1),
               GrantOf(cap3, bob, <<Below(<<tree>>), Unsupported>>, 0, 3, 0) >>)
Ask(who, what) == [identity |-> who, action |-> write, resource |-> what]
Asked == {Ask(alice, OneFile), Ask(alice, <<tree>>), Ask(bob, <<tree>>)}

-----------------------------------------------------------------------------
(* Policy: grants of overlapping modes, denials and obligations under       *)
(* nested conditions, and rules that must not compile.                      *)

Leaf(key, value) == [key |-> key, value |-> value]
Both(c, d) == Leaf("all", <<c, d>>)
Either(c, d) == Leaf("any", <<c, d>>)
TooDeep(c) == Leaf("all", <<Leaf("any", <<Leaf("all", <<c>>)>>)>>)

Writes == Leaf("action_in", <<write>>)
Untrusted == Leaf("provenance_trust_in", <<"MODEL_GENERATED", "UNKNOWN">>)
Risky == Leaf("risk_class_in", <<"R2">>)
Expands == Leaf("requested_scope_expands", TRUE)

PolicyRule(id, effect, when, modes) == [rule_id |-> id, effect |-> effect, when |-> when, modes |-> modes]
SomeRules ==
  { PolicyRule("g1", "GRANT", Writes, {"stage", "commit_reversible"}),
    PolicyRule("g2", "GRANT", Both(Writes, Leaf("resource_within", Below(<<tree>>))), {"stage"}),
    PolicyRule("g3", "GRANT", Either(Risky, Writes), {"read", "commit_reversible"}),
    PolicyRule("d1", "DENY", Both(Untrusted, Either(Risky, Expands)), {}),
    PolicyRule("d2", "DENY", Leaf("data_class_in", <<"secret">>), {}),
    PolicyRule("a1", "REQUIRE_APPROVAL", Risky, {}),
    PolicyRule("s1", "REQUIRE_SHADOW", Either(Leaf("destination_external", TRUE), Untrusted), {}),
    PolicyRule("w1", "DENY", Both(Expands, Leaf("resource_within", Unsupported)), {}),
    PolicyRule("x1", "GRANT", Writes, {}),
    PolicyRule("x2", "DENY", Leaf("weather_in", <<"rain">>), {}),
    PolicyRule("x3", "DENY", Leaf("action_in", WrongType), {}),
    PolicyRule("x4", "GRANT", TooDeep(Writes), {"stage"}) }

WithParts(cs) == cs \cup UNION {ToSet(c.value) : c \in {d \in cs : Combines(d)}}
SomeConditions == WithParts(WithParts(WithParts({r.when : r \in SomeRules})))

Proposed(trust, risk, expands, classes) ==
  [action |-> write, resource |-> OneFile, provenance_trust |-> trust,
   requested_scope_expands |-> expands, data_classes |-> classes,
   destination_external |-> FALSE, risk_class |-> risk]
SomeContexts ==
  { Proposed({"USER"}, "R1", FALSE, {}),
    Proposed({"MODEL_GENERATED"}, "R2", FALSE, {}),
    Proposed({"USER", "UNKNOWN"}, "R1", TRUE, {"secret"}) }

-----------------------------------------------------------------------------
MCInit ==
  /\ about \in {"journal", "authority", "policy"}
  /\ JInit
  /\ Init
  /\ PolicyInit
  /\ about # "policy" => default = "DENY" /\ context = CHOOSE c \in SomeContexts : TRUE
JournalStep == about = "journal" /\ JNext /\ UNCHANGED <<about, vars, policyVars>>
AuthorityStep == about = "authority" /\ Next /\ UNCHANGED <<about, jvars, policyVars>>
PolicyStep == about = "policy" /\ PolicyNext /\ UNCHANGED <<about, jvars, vars>>
MCNext == JournalStep \/ AuthorityStep \/ PolicyStep
MCSpec == MCInit /\ [][MCNext]_mcvars
=============================================================================
