-------------------------- MODULE AdapterRegistry --------------------------
(***************************************************************************)
(* adapters/registry.py: admission of adapters under the digest of their   *)
(* manifest.  A manifest is an object its adapter may change at any time,  *)
(* its name included, so the registry reads it anew at every resolution.   *)
(* A digest is the manifest itself: canonical.py tells different ones      *)
(* apart.                                                                  *)
(***************************************************************************)
EXTENDS Naturals, FiniteSets

CONSTANTS
  Adapters,    \* objects with a manifest
  Names,       \* what a manifest may say its name is
  Operations,  \* what a manifest may declare its adapter does
  NONE         \* nothing registered, nothing returned

Manifests == [name : Names, operations : Operations]
Registered == [adapter : Adapters, manifest_digest : Manifests, reviewed : BOOLEAN]

ASSUME NoneIsNothing == NONE \notin Adapters /\ NONE \notin Registered

VARIABLES
  declared,    \* the manifest object of each adapter
  _adapters,   \* name -> registration
  answer       \* what was resolved last, with the manifest as it was then
registryVars == <<declared, _adapters, answer>>

NoAnswer == [adapter |-> NONE]

IsFree(name) == _adapters[name] = NONE

Register(adapter, reviewed) ==
  LET name == declared[adapter].name IN
    /\ IsFree(name)
    /\ _adapters' = [_adapters EXCEPT ![name] =
         [adapter |-> adapter, manifest_digest |-> declared[adapter], reviewed |-> reviewed]]
    /\ answer' = NoAnswer
    /\ UNCHANGED declared

\* the caller's digest must be the admitted one, and the adapter's still
Bug_AdmittedOnly(name, expected) == _adapters[name].manifest_digest = expected
IsPinned(name, expected) ==
  /\ _adapters[name].manifest_digest = expected
  /\ declared[_adapters[name].adapter] = _adapters[name].manifest_digest

Resolves(name, expected, enforcement) ==
  /\ ~IsFree(name)
  /\ IsPinned(name, expected)
  /\ enforcement => _adapters[name].reviewed

\* a resolution that raises returns nothing and changes nothing
Resolve(name, expected, enforcement) ==
  /\ Resolves(name, expected, enforcement)
  /\ answer' = [adapter |-> _adapters[name].adapter, name |-> name, expected |-> expected,
                enforced |-> enforcement, manifest |-> declared[_adapters[name].adapter]]
  /\ UNCHANGED <<declared, _adapters>>

\* the world: anybody who holds an adapter may change its manifest
ManifestChanges(adapter) ==
  /\ \E m \in Manifests \ {declared[adapter]} : declared' = [declared EXCEPT ![adapter] = m]
  /\ UNCHANGED <<_adapters, answer>>

RegistryInit ==
  /\ declared \in [Adapters -> Manifests]
  /\ _adapters = [name \in Names |-> NONE]
  /\ answer = NoAnswer
RegistryNext ==
  \/ \E adapter \in Adapters, reviewed \in BOOLEAN : Register(adapter, reviewed)
  \/ \E name \in Names, expected \in Manifests, enforcement \in BOOLEAN :
       Resolve(name, expected, enforcement)
  \/ \E adapter \in Adapters : ManifestChanges(adapter)
RegistrySpec == RegistryInit /\ [][RegistryNext]_registryVars

-----------------------------------------------------------------------------
(* Properties                                                               *)

(* A registration is of a manifest that bore its name, and an answer is of  *)
(* an adapter.                                                              *)
RegistryTypeOK ==
  /\ declared \in [Adapters -> Manifests]
  /\ \A name \in Names : _adapters[name] # NONE =>
       /\ _adapters[name] \in Registered
       /\ _adapters[name].manifest_digest.name = name
  /\ answer # NoAnswer => answer.adapter \in Adapters /\ answer.manifest \in Manifests

(* Whatever was changed since admission, and back: who resolves a name gets *)
(* an adapter that says it has that name and that declared, at that moment, *)
(* the operations its caller was authorized for, as admitted; and for an    *)
(* enforcement profile, as reviewed.                                        *)
ResolvedIsAsAuthorized ==
  answer # NoAnswer =>
    /\ answer.manifest = answer.expected
    /\ answer.manifest.name = answer.name
    /\ \E name \in Names :
         /\ _adapters[name] # NONE
         /\ _adapters[name].adapter = answer.adapter
         /\ _adapters[name].manifest_digest = answer.manifest
         /\ answer.enforced => _adapters[name].reviewed

(* An adapter that was renamed and registered again is never to be had      *)
(* under two names at one time: one of its admissions does not resolve.     *)
OneNameAtATime ==
  \A n1, n2 \in Names : \A d1, d2 \in Manifests :
    (Resolves(n1, d1, FALSE) /\ Resolves(n2, d2, FALSE)
       /\ _adapters[n1].adapter = _adapters[n2].adapter) => n1 = n2 /\ d1 = d2

(* What was admitted stays admitted as it was: neither a second adapter of  *)
(* the same name nor a change of the manifest moves a digest or a review.   *)
AdmissionIsFinal ==
  [][\A name \in Names : _adapters[name] # NONE => _adapters'[name] = _adapters[name]]_registryVars
=============================================================================
