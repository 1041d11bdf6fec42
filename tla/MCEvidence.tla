----------------------------- MODULE MCEvidence -----------------------------
(***************************************************************************)
(* Small instances of what keeps the evidence: the hash chain, with one    *)
(* edit of the stored list, and signatures; the store of artifacts, which  *)
(* three processes share; and the migrations of the journal, of a first    *)
(* release, of a second that adds one, and of one that edited the first.   *)
(* They share no state, so a behaviour is about one of them, and the       *)
(* others stay as they start.                                              *)
(***************************************************************************)
EXTENDS EvidenceLedger, ArtifactStore, Migrations

VARIABLE about
mcvars == <<about, vars, storeVars, openingVars>>

Initial == [version |-> 1, digest |-> "initial", tables |-> <<"transactions", "events">>]
InitialEdited == [Initial EXCEPT !.digest = "edited"]
CapabilityUses == [version |-> 2, digest |-> "capability_uses", tables |-> <<"capability_uses">>]
ThreeReleases == {<<Initial>>, <<Initial, CapabilityUses>>, <<InitialEdited, CapabilityUses>>}

MCInit ==
  /\ about \in {"ledger", "artifacts", "migrations"}
  /\ Init
  /\ StoreInit
  /\ OpeningInit
LedgerStep == about = "ledger" /\ Next /\ UNCHANGED <<about, storeVars, openingVars>>
ArtifactStep == about = "artifacts" /\ StoreNext /\ UNCHANGED <<about, vars, openingVars>>
MigrationStep == about = "migrations" /\ OpeningNext /\ UNCHANGED <<about, vars, storeVars>>
MCNext == LedgerStep \/ ArtifactStep \/ MigrationStep
MCSpec == MCInit /\ [][MCNext]_mcvars
=============================================================================
