----------------------------- MODULE MCAdapters -----------------------------
(***************************************************************************)
(* Small instances of the registry, of the filesystem adapter and of the   *)
(* mock adapter.  They share no state, so they stand side by side: a       *)
(* behaviour is about one of them, and the others stay as they start.      *)
(*                                                                         *)
(* The filesystem adapter is there three times, over the same variables:   *)
(* with two transactions of one intent, where the second retries what the  *)
(* first left; again so (Resumed) with an intent that writes one file,     *)
(* while the other changes and changes back, so that the two attempts stage *)
(* different trees; and (Separate) with two intents that write different   *)
(* files, where private state may be corrupted.                            *)
(***************************************************************************)
EXTENDS AdapterRegistry, FilesystemAdapter, MockAdapter, TLC

CONSTANTS t1, t2, h1, h2, fileA, fileB, old, new, other

VARIABLE about  \* what the behaviour is about
mcvars == <<about, registryVars, vars, mockVars>>

TwoPaths == <<fileA, fileB>>
OneFile == (fileA :> old) @@ (fileB :> Absent)
OneIntent == (t1 :> h1) @@ (t2 :> h1)
WriteBoth == h1 :> [x \in {fileA, fileB} |-> new]
TwoIntents == (t1 :> h1) @@ (t2 :> h2)

Separate == INSTANCE FilesystemAdapter WITH
  IntentOf <- TwoIntents, WritesOf <- (h1 :> (fileA :> new)) @@ (h2 :> (fileB :> new)),
  ForeignContents <- {new},
  MaxForeign <- 1, MaxCorruption <- 1, MaxFaults <- 1, MaxCrashes <- 0
Resumed == INSTANCE FilesystemAdapter WITH
  WritesOf <- h1 :> (fileB :> new), ForeignContents <- {old, other},
  MaxForeign <- 2, MaxCorruption <- 0, MaxFaults <- 1, MaxCrashes <- 0
OneSharesWithBoth == (h1 :> (fileA :> new)) @@ (h2 :> [x \in {fileA, fileB} |-> old])

SomeManifests == [a \in Adapters |-> CHOOSE m \in Manifests : TRUE]
MCInit ==
  /\ about \in {"registry", "retries", "resumed", "separate", "mock"}
  /\ RegistryInit /\ (about # "registry" => declared = SomeManifests)
  /\ Init
  /\ MockInit
RegistryStep == about = "registry" /\ RegistryNext /\ UNCHANGED <<about, vars, mockVars>>
RetryStep == about = "retries" /\ Next /\ UNCHANGED <<about, registryVars, mockVars>>
ResumedStep == about = "resumed" /\ Resumed!Next /\ UNCHANGED <<about, registryVars, mockVars>>
SeparateStep == about = "separate" /\ Separate!Next /\ UNCHANGED <<about, registryVars, mockVars>>
MockStep == about = "mock" /\ MockNext /\ UNCHANGED <<about, registryVars, vars>>
MCNext == RegistryStep \/ RetryStep \/ ResumedStep \/ SeparateStep \/ MockStep
MCSpec == MCInit /\ [][MCNext]_mcvars
=============================================================================
