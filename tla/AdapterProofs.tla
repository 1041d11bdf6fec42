---------------------------- MODULE AdapterProofs ----------------------------
(***************************************************************************)
(* Theorems about FilesystemAdapter, for any transactions, intents, trees, *)
(* foreign writers and bounds, about AdapterRegistry, for any adapters,    *)
(* names and operations, and about MockAdapter, for any callers, intents   *)
(* and values.                                                             *)
(*                                                                         *)
(* Inv ties the step an operation stands at to the trees and the manifests *)
(* on disk: what it has found out, booked, moved away and restored.        *)
(***************************************************************************)
EXTENDS AdapterRegistry, FilesystemAdapter, MockAdapter, FiniteSetTheorems, TLAPS

MaybeTree == Trees \cup {Nothing}
Phases == {"new", "inspected", "staged", "executed", "verified", "failed", "done"}
Steps == {"backup", "prepare", "copy", "replace", "check", "mark", "clean",
          "refill", "displace", "install", "putback", "drop", "note"}
Manifest == [status : {"PREPARED", "COMMITTED", "ROLLED_BACK"}, before : Trees, after : Trees, backup : Trees]
Session == [phase : Phases, base : MaybeTree, staged : MaybeTree]
Spent == [foreign : Nat, corruption : 0 .. MaxCorruption, faults : 0 .. MaxFaults,
          crashes : 0 .. MaxCrashes, incidents : Nat]

(* An operation in progress, with what is left to promote of any form.      *)
InProgress(o) ==
  /\ o = [kind |-> o.kind, tx |-> o.tx, step |-> o.step, receipt |-> o.receipt, start |-> o.start,
          todo |-> o.todo, copy |-> o.copy, verdict |-> o.verdict, faults |-> o.faults]
  /\ o.kind \in {"commit", "rollback"} /\ o.tx \in Transactions /\ o.step \in Steps
  /\ o.receipt \in Transactions \cup {"none"} /\ o.start \in Trees /\ o.copy \in MaybeTree
  /\ o.verdict \in {"none", "error", "VERIFICATION_FAILED"} /\ o.faults \in Nat

Typed ==
  /\ ws \in MaybeTree
  /\ stage \in [Transactions -> MaybeTree]
  /\ session \in [Transactions -> Session]
  /\ manifest \in [Transactions -> Manifest \cup {NoManifest}]
  /\ replacement \in MaybeTree /\ displaced \in MaybeTree
  /\ up \in BOOLEAN
  /\ op = Idle \/ InProgress(op)
  /\ spent \in Spent

-----------------------------------------------------------------------------
(* The inductive invariant                                                  *)

Exists(r) == r \in Transactions /\ manifest[r] # NoManifest
NoRetries == \A r, t \in Transactions : IntentOf[r] = IntentOf[t] => r = t

(* A receipt is booked by the last call of its transaction.                 *)
BookedByCommit == \A t \in Transactions : session[t].phase # "done" => manifest[t] = NoManifest
(* Backups are what was backed up, as long as nobody corrupts one.          *)
BackupsAreGood ==
  spent.corruption = 0 => \A r \in Transactions : Exists(r) => manifest[r].backup = manifest[r].before
(* A tree that a commit may take for the one to restore.                    *)
IsFormer(tree) ==
  \E r \in Transactions : /\ Exists(r)
                          /\ \/ tree = manifest[r].before
                             \/ tree = manifest[r].backup /\ spent.corruption > 0 /\ ~NoRetries
BothTreesAreThere ==
  (MaxCorruption <= 1 \/ NoRetries) => (ws = Nothing => displaced \in Trees /\ IsFormer(replacement))

(* Before a receipt is booked nothing has been touched.                     *)
Untouched(o) ==
  /\ o.kind = "commit" /\ ws = o.start /\ o.receipt = "none" /\ o.faults = 0
  /\ \A r \in Transactions : IntentOf[r] = IntentOf[o.tx] => manifest[r] = NoManifest

(* What a commit has found out about its stage stays so until it ends, and  *)
(* what it has booked, or found booked by an earlier attempt.               *)
CommitIsBound(o) ==
  /\ session[o.tx].phase = "done" /\ session[o.tx].base = o.start
  /\ session[o.tx].staged = stage[o.tx] /\ stage[o.tx] \in Trees
CommitIsBooked(o) ==
  /\ Exists(o.receipt) /\ IntentOf[o.receipt] = IntentOf[o.tx]
  /\ manifest[o.receipt].before = o.start
  /\ o.receipt = o.tx => manifest[o.receipt].after = stage[o.tx]
  /\ o.receipt = o.tx \/ spent.corruption = 0 => manifest[o.receipt].backup = o.start
RollbackIsBooked(o) ==
  /\ Exists(o.receipt)
  /\ manifest[o.receipt].after = o.start
  /\ manifest[o.receipt].backup = manifest[o.receipt].before
Booking(o) == IF o.kind = "commit" THEN CommitIsBooked(o) ELSE RollbackIsBooked(o)

Promotes(o) == o.kind = "commit" /\ CommitIsBooked(o) /\ ws \in Trees /\ o.faults = 0

(* A restore, of a commit that has failed or of a rollback that has not.    *)
Restores(o, tree) ==
  /\ Booking(o)
  /\ tree \in Trees
  /\ IF o.kind = "commit" THEN o.faults > 0 ELSE o.faults = 0 /\ tree = o.start
StandsAt(o) ==
  /\ o.step = "backup" => Untouched(o)
  /\ o.step = "prepare" => Untouched(o) /\ o.copy = o.start
  /\ o.step \in {"copy", "replace", "check"} => Promotes(o)
  /\ o.step \in {"mark", "clean"} => Promotes(o) /\ ws = stage[o.tx]
  /\ o.step = "refill" => Restores(o, ws)
  /\ o.step = "displace" => Restores(o, ws) /\ replacement = manifest[o.receipt].backup
  /\ o.step = "install" =>
       ws = Nothing /\ Restores(o, displaced) /\ replacement = manifest[o.receipt].backup
  /\ o.step = "putback" =>
       /\ ws = Nothing /\ displaced \in Trees /\ replacement = manifest[o.receipt].backup
       /\ Booking(o)
       /\ IF o.kind = "commit" THEN o.faults > 1 ELSE o.faults = 1 /\ displaced = o.start
  /\ o.step \in {"drop", "note"} =>
       /\ Booking(o) /\ ws = manifest[o.receipt].backup
       /\ IF o.kind = "commit" THEN o.faults > 0 ELSE o.faults = 0

Underway(o) ==
  /\ up
  /\ o.kind = "commit" => CommitIsBound(o)
  /\ o.kind = "rollback" => o.receipt = o.tx
  /\ StandsAt(o)

Inv ==
  /\ Typed /\ BookedByCommit /\ BackupsAreGood /\ BothTreesAreThere
  /\ op # Idle => Underway(op)

-----------------------------------------------------------------------------
(* Facts about the values                                                   *)

(* The stand-ins for "nothing" are none of the things they stand for.       *)
LEMMA NothingIsNothing ==
  /\ Nothing \notin Trees /\ "none" \notin Transactions
  /\ NoManifest \notin Manifest
  /\ \A o : InProgress(o) => o # Idle
  /\ MaxForeign \in Nat /\ MaxCorruption \in Nat /\ MaxFaults \in Nat /\ MaxCrashes \in Nat
<1>1. \A m \in Manifest : m.status # NoManifest.status
  BY DEF Manifest, NoManifest
<1>2. \A o : InProgress(o) => o.kind # Idle.kind
  BY DEF InProgress, Idle
<1> QED
  BY <1>1, <1>2, NamesAreDistinct, BoundsAreNaturals

(* Writing into a tree gives a tree: what an execution, a foreign writer, a *)
(* temporary file and a promoted file make of one.                          *)
LEMMA TreesStayTrees ==
  ASSUME NEW tree \in Trees
  PROVE  /\ \A t \in Transactions : Written(tree, IntentOf[t]) \in Trees
         /\ \A p \in Paths, c \in ForeignContents : [tree EXCEPT !.files[p] = c] \in Trees
         /\ \A n \in 0 .. MaxIncidents : [tree EXCEPT !.temps = @ \cup {n}] \in Trees
         /\ \A p, n : \A other \in Trees :
              [tree EXCEPT !.files[p] = other.files[p], !.temps = @ \ {n}] \in Trees
<1>1. /\ tree = [files |-> tree.files, temps |-> tree.temps]
      /\ tree.files \in [Paths -> Contents \cup {Absent}]
      /\ tree.temps \in SUBSET (0 .. MaxIncidents)
  BY DEF Trees
<1>2. ASSUME NEW t \in Transactions
      PROVE  Written(tree, IntentOf[t]) \in Trees
  <2>1. Written(tree, IntentOf[t]) =
          [files |-> [p \in Paths |-> IF p \in DOMAIN WritesOf[IntentOf[t]]
                                      THEN WritesOf[IntentOf[t]][p] ELSE tree.files[p]],
           temps |-> tree.temps]
    BY <1>1 DEF Written
  <2>2. [p \in Paths |-> IF p \in DOMAIN WritesOf[IntentOf[t]]
                         THEN WritesOf[IntentOf[t]][p] ELSE tree.files[p]]
          \in [Paths -> Contents \cup {Absent}]
    BY <1>1, ConstantsAreTyped
  <2> QED
    BY <1>1, <2>1, <2>2 DEF Trees
<1>3. ASSUME NEW p \in Paths, NEW c \in ForeignContents
      PROVE  [tree EXCEPT !.files[p] = c] \in Trees
  <2>1. [tree.files EXCEPT ![p] = c] \in [Paths -> Contents \cup {Absent}]
    BY <1>1, ConstantsAreTyped
  <2> QED
    BY <1>1, <2>1 DEF Trees
<1>4. ASSUME NEW n \in 0 .. MaxIncidents
      PROVE  [tree EXCEPT !.temps = @ \cup {n}] \in Trees
  BY <1>1 DEF Trees
<1>5. ASSUME NEW p, NEW n, NEW other \in Trees
      PROVE  [tree EXCEPT !.files[p] = other.files[p], !.temps = @ \ {n}] \in Trees
  <2>1. other.files \in [Paths -> Contents \cup {Absent}]
    BY DEF Trees
  <2>2. [tree.files EXCEPT ![p] = other.files[p]] \in [Paths -> Contents \cup {Absent}]
    BY <1>1, <2>1
  <2>3. tree.temps \ {n} \in SUBSET (0 .. MaxIncidents)
    BY <1>1
  <2>4. PICK f, g : tree = [files |-> f, temps |-> g]
    BY <1>1
  <2> DEFINE u == [tree EXCEPT !.files[p] = other.files[p]]
  <2>5. u = [files |-> [f EXCEPT ![p] = other.files[p]], temps |-> g] /\ tree.files = f /\ tree.temps = g
    BY <2>4
  <2>6. [tree EXCEPT !.files[p] = other.files[p], !.temps = @ \ {n}] = [u EXCEPT !.temps = tree.temps \ {n}]
    BY Zenon
  <2> HIDE DEF u
  <2>7. [u EXCEPT !.temps = tree.temps \ {n}] =
          [files |-> [f EXCEPT ![p] = other.files[p]], temps |-> g \ {n}]
    BY <2>5
  <2>8. [tree EXCEPT !.files[p] = other.files[p], !.temps = @ \ {n}] =
          [files |-> [f EXCEPT ![p] = other.files[p]], temps |-> g \ {n}]
    BY <2>6, <2>7, Zenon
  <2> QED
    BY <2>2, <2>3, <2>5, <2>8 DEF Trees
<1> QED
  BY <1>2, <1>3, <1>4, <1>5

(* Init.                                                                    *)
LEMMA InvInit ==
  ASSUME Init
  PROVE  Inv
<1>1. ws \in Trees
  BY ConstantsAreTyped DEF Init, Trees
<1>2. op = Idle
  BY DEF Init
<1>3. Typed
  <2>1. /\ stage \in [Transactions -> MaybeTree] /\ session \in [Transactions -> Session]
        /\ manifest \in [Transactions -> Manifest \cup {NoManifest}]
    BY DEF Init, MaybeTree, Session, Phases
  <2>2. spent \in Spent
    BY BoundsAreNaturals DEF Init, Spent
  <2> QED
    BY <1>1, <1>2, <2>1, <2>2 DEF Init, Typed, MaybeTree
<1>4. \A r \in Transactions : manifest[r] = NoManifest
  BY DEF Init
<1> QED
  BY <1>1, <1>2, <1>3, <1>4, NothingIsNothing
     DEF Inv, BookedByCommit, BackupsAreGood, BothTreesAreThere, Exists

-----------------------------------------------------------------------------
(* The invariant is inductive                                               *)

(* What a step that books, corrupts and stages nothing leaves as it was.    *)
Frame == UNCHANGED <<stage, session, manifest>> /\ spent' \in Spent /\ spent'.corruption = spent.corruption

LEMMA FrameKeeps ==
  ASSUME Inv, Frame
  PROVE  /\ stage' \in [Transactions -> MaybeTree] /\ session' \in [Transactions -> Session]
         /\ manifest' \in [Transactions -> Manifest \cup {NoManifest}]
         /\ BookedByCommit' /\ BackupsAreGood'
         /\ \A tree : IsFormer(tree) => IsFormer(tree)'
         /\ \A o : /\ CommitIsBound(o) => CommitIsBound(o)'
                   /\ Booking(o) => Booking(o)'
<1>1. /\ \A r : Exists(r)' <=> Exists(r)
      /\ \A tree : IsFormer(tree) => IsFormer(tree)'
  BY DEF Frame, Exists, IsFormer
<1>2. \A o : /\ CommitIsBound(o) => CommitIsBound(o)'
             /\ CommitIsBooked(o) => CommitIsBooked(o)'
             /\ RollbackIsBooked(o) => RollbackIsBooked(o)'
  BY <1>1 DEF Frame, CommitIsBound, CommitIsBooked, RollbackIsBooked
<1>3. \A o : Booking(o) => Booking(o)'
  BY <1>2 DEF Booking
<1> QED
  BY <1>1, <1>2, <1>3 DEF Frame, Inv, Typed, BookedByCommit, BackupsAreGood

(* A step that leaves no operation in progress.                             *)
LEMMA EndKeeps ==
  ASSUME Inv, Frame, op' = Idle, up' \in BOOLEAN,
         ws' \in MaybeTree, replacement' \in MaybeTree, displaced' \in MaybeTree,
         ws' # Nothing \/ UNCHANGED <<ws, replacement, displaced>>
  PROVE  Inv'
<1>1. BothTreesAreThere'
  BY FrameKeeps DEF Inv, BothTreesAreThere
<1>2. Typed'
  BY FrameKeeps DEF Typed, Frame
<1> QED
  BY <1>1, <1>2, FrameKeeps DEF Inv

(* A step from which an operation goes on.                                  *)
LEMMA GoKeeps ==
  ASSUME Inv, Frame, InProgress(op)', up' = up, up,
         ws' \in MaybeTree, replacement' \in MaybeTree, displaced' \in MaybeTree,
         ws' # Nothing \/ UNCHANGED <<ws, replacement, displaced>>,
         op'.kind = "commit" => CommitIsBound(op'), op'.kind = "rollback" => op'.receipt = op'.tx,
         StandsAt(op)'
  PROVE  Inv'
<1>1. BothTreesAreThere'
  BY FrameKeeps DEF Inv, BothTreesAreThere
<1>2. Typed'
  BY FrameKeeps DEF Typed, Frame, Inv
<1>3. Underway(op)'
  BY FrameKeeps DEF Underway
<1> QED
  BY <1>1, <1>2, <1>3, FrameKeeps DEF Inv

(* Counting a fault stays within the bound.                                 *)
LEMMA SpentStays ==
  ASSUME Inv, Fault, NEW i \in Nat,
         spent' = [spent EXCEPT !.faults = @ + 1] \/ spent' = [spent EXCEPT !.faults = @ + 1, !.incidents = @ + i]
  PROVE  spent' \in Spent /\ spent'.corruption = spent.corruption
<1>1. spent \in Spent
  BY DEF Inv, Typed
<1>2. PICK f \in Nat, c \in 0 .. MaxCorruption, u \in 0 .. MaxFaults, k \in 0 .. MaxCrashes, n \in Nat :
        spent = [foreign |-> f, corruption |-> c, faults |-> u, crashes |-> k, incidents |-> n]
  BY <1>1 DEF Spent
<1>3. u + 1 \in 0 .. MaxFaults /\ n + i \in Nat
  BY <1>2, NothingIsNothing DEF Fault
<1>4. \/ spent' = [foreign |-> f, corruption |-> c, faults |-> u + 1, crashes |-> k, incidents |-> n]
      \/ spent' = [foreign |-> f, corruption |-> c, faults |-> u + 1, crashes |-> k, incidents |-> n + i]
  BY <1>2
<1> QED
  BY <1>2, <1>3, <1>4 DEF Spent

(* A failure nobody handles.                                                *)
LEMMA RaiseKeeps ==
  ASSUME Inv, NEW v, Raise(v), UNCHANGED <<stage, session, manifest, up>>,
         ws' \in MaybeTree, replacement' \in MaybeTree, displaced' \in MaybeTree,
         ws' # Nothing \/ UNCHANGED <<ws, replacement, displaced>>
  PROVE  Inv'
<1>1. Frame
  <2>1. (IF Unhandled THEN 1 ELSE 0) \in Nat
    OBVIOUS
  <2> QED
    BY <2>1, SpentStays DEF Raise, Frame
<1>2. op' = Idle /\ up' \in BOOLEAN
  BY DEF Raise, Inv, Typed
<1> QED
  BY <1>1, <1>2, EndKeeps

(* Private work, and what answers at once: nothing is in progress.          *)
LEMMA IdleKeeps ==
  ASSUME Inv, op = Idle, op' = Idle, UNCHANGED <<ws, manifest, replacement, displaced, up>>,
         stage' \in [Transactions -> MaybeTree], session' \in [Transactions -> Session],
         spent' \in Spent, spent'.corruption = spent.corruption,
         \A t \in Transactions : session'[t].phase # "done" => session[t].phase # "done"
  PROVE  Inv'
<1>1. \A tree : IsFormer(tree)' <=> IsFormer(tree)
  BY DEF Exists, IsFormer
<1>2. BookedByCommit' /\ BackupsAreGood' /\ BothTreesAreThere'
  BY <1>1 DEF Inv, BookedByCommit, BackupsAreGood, BothTreesAreThere, Exists
<1>3. Typed'
  BY DEF Inv, Typed
<1> QED
  BY <1>2, <1>3 DEF Inv

(* A session stays one when its phase, or all of it, changes.               *)
LEMMA PhaseMoves ==
  ASSUME Inv, NEW t \in Transactions, NEW ph \in Phases, session' = [session EXCEPT ![t].phase = ph]
  PROVE  /\ session' \in [Transactions -> Session]
         /\ session'[t].phase = ph
         /\ session'[t].base = session[t].base /\ session'[t].staged = session[t].staged
         /\ \A u \in Transactions \ {t} : session'[u] = session[u]
<1>1. session \in [Transactions -> Session] /\ session[t] \in Session
  BY DEF Inv, Typed
<1>2. PICK q, b, z : session[t] = [phase |-> q, base |-> b, staged |-> z] /\ b \in MaybeTree /\ z \in MaybeTree
  BY <1>1 DEF Session
<1>3. [session[t] EXCEPT !.phase = ph] = [phase |-> ph, base |-> b, staged |-> z]
  BY <1>2
<1>4. session' = [session EXCEPT ![t] = [session[t] EXCEPT !.phase = ph]]
  BY Zenon
<1>5. [phase |-> ph, base |-> b, staged |-> z] \in Session
  BY <1>2 DEF Session
<1>6. session'[t] = [phase |-> ph, base |-> b, staged |-> z]
  BY <1>1, <1>3, <1>4
<1>7. session' \in [Transactions -> Session]
  BY <1>1, <1>3, <1>4, <1>5
<1>8. \A u \in Transactions \ {t} : session'[u] = session[u]
  BY <1>1, <1>4
<1> QED
  BY <1>2, <1>6, <1>7, <1>8

LEMMA SessionsMove ==
  ASSUME Inv, NEW t \in Transactions, NEW s \in MaybeTree,
         \/ session' = [session EXCEPT ![t].phase = "executed", ![t].staged = s]
         \/ session' = [session EXCEPT ![t] = [phase |-> "inspected", base |-> s, staged |-> Nothing]]
  PROVE  session' \in [Transactions -> Session]
<1>1. session \in [Transactions -> Session] /\ session[t] \in Session
  BY DEF Inv, Typed
<1>2. PICK q, b, z : session[t] = [phase |-> q, base |-> b, staged |-> z] /\ b \in MaybeTree /\ z \in MaybeTree
  BY <1>1 DEF Session
<1>3. /\ [phase |-> "executed", base |-> b, staged |-> s] \in Session
      /\ [phase |-> "inspected", base |-> s, staged |-> Nothing] \in Session
  BY <1>2 DEF Session, Phases, MaybeTree
<1> DEFINE w == [session[t] EXCEPT !.phase = "executed"]
<1> DEFINE u == [session EXCEPT ![t] = w]
<1>4. w = [phase |-> "executed", base |-> b, staged |-> z]
  BY <1>2
<1>5. u[t] = w /\ u \in [Transactions -> {w} \cup Session]
  BY <1>1
<1>6. CASE session' = [session EXCEPT ![t].phase = "executed", ![t].staged = s]
  <2>1. session' = [u EXCEPT ![t] = [u[t] EXCEPT !.staged = s]]
    BY <1>6, Zenon
  <2> HIDE DEF u, w
  <2>2. [u[t] EXCEPT !.staged = s] = [phase |-> "executed", base |-> b, staged |-> s]
    BY <1>4, <1>5
  <2>3. session' = [u EXCEPT ![t] = [phase |-> "executed", base |-> b, staged |-> s]]
    BY <2>1, <2>2, Zenon
  <2>4. session' = [session EXCEPT ![t] = [phase |-> "executed", base |-> b, staged |-> s]]
    BY <1>1, <2>3 DEF u
  <2> QED
    BY <1>1, <1>3, <2>4
<1> QED
  BY <1>1, <1>3, <1>6

LEMMA PrivateWorkKeeps ==
  ASSUME Inv, NEW t \in Transactions,
         Inspect(t) \/ Stage(t) \/ Execute(t) \/ VerifyStaged(t) \/ Abort(t)
  PROVE  Inv'
<1> USE DEF privateVars, asideVars
<1>1. /\ stage \in [Transactions -> MaybeTree] /\ session \in [Transactions -> Session]
      /\ ws \in MaybeTree /\ spent \in Spent /\ Nothing \in MaybeTree
  BY DEF Inv, Typed, MaybeTree
<1>2. /\ op = Idle /\ op' = Idle /\ UNCHANGED <<ws, manifest, replacement, displaced, up>>
      /\ session[t].phase # "done"
  BY DEF Inspect, Stage, Execute, VerifyStaged, Abort, Ready
<1>3. spent' \in Spent /\ spent'.corruption = spent.corruption
  <2>1. CASE UNCHANGED spent
    BY <1>1, <2>1
  <2>2. CASE Fault /\ spent' = [spent EXCEPT !.faults = @ + 1]
    BY <2>2, SpentStays
  <2> QED
    BY <2>1, <2>2 DEF Inspect, Stage, CopyFails, Execute, VerifyStaged, Abort, RemovalFails
<1>4. stage' \in [Transactions -> MaybeTree]
  <2>1. CASE UNCHANGED stage
    BY <1>1, <2>1
  <2>2. CASE stage' = [stage EXCEPT ![t] = ws] \/ stage' = [stage EXCEPT ![t] = Nothing]
    BY <1>1, <2>2
  <2>3. CASE stage[t] # Nothing /\ stage' = [stage EXCEPT ![t] = Written(stage[t], IntentOf[t])]
    <3>1. Written(stage[t], IntentOf[t]) \in Trees
      BY <1>1, <2>3, TreesStayTrees DEF MaybeTree
    <3> QED
      BY <1>1, <2>3, <3>1 DEF MaybeTree
  <2> QED
    BY <2>1, <2>2, <2>3 DEF Inspect, Stage, Execute, VerifyStaged, Abort
<1>5. session' \in [Transactions -> Session]
  <2>1. CASE \E ph \in Phases : session' = [session EXCEPT ![t].phase = ph]
    BY <2>1, PhaseMoves, Zenon
  <2>2. CASE \E s \in MaybeTree : session' = [session EXCEPT ![t].phase = "executed", ![t].staged = s]
    BY <2>2, SessionsMove, Zenon
  <2>3. CASE session' = [session EXCEPT ![t] = [phase |-> "inspected", base |-> ws, staged |-> Nothing]]
    BY <1>1, <2>3, SessionsMove, Zenon
  <2>4. CASE Inspect(t)
    BY <2>3, <2>4 DEF Inspect
  <2>5. CASE Execute(t)
    <3>1. Written(stage[t], IntentOf[t]) \in MaybeTree
      BY <1>1, <2>5, TreesStayTrees DEF Execute, MaybeTree
    <3>2. "failed" \in Phases
      BY DEF Phases
    <3> QED
      BY <2>1, <2>2, <2>5, <3>1, <3>2 DEF Execute
  <2>6. CASE Stage(t) \/ VerifyStaged(t) \/ Abort(t)
    <3>1. {"staged", "done", "verified", "failed"} \subseteq Phases
      BY DEF Phases
    <3> QED
      BY <2>1, <2>6, <3>1 DEF Stage, VerifyStaged, Abort
  <2> QED
    BY <2>4, <2>5, <2>6
<1>6. \A u \in Transactions : session'[u].phase # "done" => session[u].phase # "done"
  <2>1. \A u \in Transactions \ {t} : session'[u] = session[u]
    BY <1>1 DEF Inspect, Stage, Execute, VerifyStaged, Abort
  <2> QED
    BY <1>2, <2>1
<1> QED
  BY <1>2, <1>3, <1>4, <1>5, <1>6, IdleKeeps

(* What is answered without a step: a commit that finds its effect, or a    *)
(* reason against it, a rollback that refuses, and the two that only look.  *)
LEMMA AnswersKeep ==
  ASSUME Inv, NEW t \in Transactions,
         CommitAnswers(t) \/ (Rollback(t) /\ op' = op) \/ Reconcile(t) \/ VerifyCommitted(t)
  PROVE  Inv'
<1> USE DEF privateVars, asideVars
<1>1. /\ stage \in [Transactions -> MaybeTree] /\ session \in [Transactions -> Session] /\ spent \in Spent
  BY DEF Inv, Typed
<1>2. /\ op = Idle /\ op' = Idle /\ UNCHANGED <<ws, stage, manifest, replacement, displaced, up, spent>>
  BY DEF CommitAnswers, Rollback, Reconcile, VerifyCommitted, Ready
<1>3. /\ session' \in [Transactions -> Session]
      /\ \A u \in Transactions : session'[u].phase # "done" => session[u].phase # "done"
  <2>1. CASE UNCHANGED session
    BY <1>1, <2>1
  <2>2. CASE session[t].phase = "verified" /\ \E ph \in {"failed", "done"} : session' = [session EXCEPT ![t].phase = ph]
    <3>1. {"failed", "done"} \subseteq Phases
      BY DEF Phases
    <3>2. PICK ph \in Phases : session' = [session EXCEPT ![t].phase = ph]
      BY <2>2, <3>1
    <3>3. session' \in [Transactions -> Session] /\ \A u \in Transactions \ {t} : session'[u] = session[u]
      BY <3>2, PhaseMoves, Zenon
    <3> QED
      BY <2>2, <3>3
  <2> QED
    BY <2>1, <2>2 DEF CommitAnswers, Rollback, Reconcile, VerifyCommitted
<1> QED
  BY <1>1, <1>2, <1>3, IdleKeeps

(* A commit that begins has found its stage to be what it executed, and the *)
(* workspace to be what it inspected.                                       *)
LEMMA CommitBeginsKeeps ==
  ASSUME Inv, NEW t \in Transactions, CommitBegins(t)
  PROVE  Inv'
<1> USE DEF privateVars, asideVars
<1>1. /\ stage \in [Transactions -> MaybeTree] /\ session \in [Transactions -> Session] /\ spent \in Spent
      /\ ws \in Trees /\ up /\ session[t].phase = "verified"
      /\ manifest \in [Transactions -> Manifest \cup {NoManifest}]
      /\ op = Idle
  BY DEF Inv, Typed, CommitBegins, Ready, MaybeTree
<1>2. /\ UNCHANGED <<ws, stage, manifest, replacement, displaced, up, spent>>
      /\ session' = [session EXCEPT ![t].phase = "done"]
  BY DEF CommitBegins
<1>3. /\ \A r \in Transactions : Exists(r) /\ IntentOf[r] = IntentOf[t] =>
           ws = manifest[r].before
      /\ ws = session[t].base /\ stage[t] # Nothing /\ stage[t] = session[t].staged
  BY DEF CommitBegins, Refusal, RecoveryByIntent, Existing, Exists
<1>4. manifest[t] = NoManifest
  BY <1>1 DEF Inv, BookedByCommit
<1>5. /\ session'[t].phase = "done" /\ session'[t].base = ws /\ session'[t].staged = stage[t]
      /\ stage[t] \in Trees
      /\ \A u \in Transactions \ {t} : session'[u] = session[u]
      /\ session' \in [Transactions -> Session]
  <2>1. "done" \in Phases
    BY DEF Phases
  <2>2. /\ session' \in [Transactions -> Session]
        /\ session'[t].phase = "done"
        /\ session'[t].base = session[t].base /\ session'[t].staged = session[t].staged
        /\ \A u \in Transactions \ {t} : session'[u] = session[u]
    BY <1>2, <2>1, PhaseMoves, Zenon
  <2> QED
    BY <1>1, <1>3, <2>2 DEF MaybeTree
<1>6. session' \in [Transactions -> Session]
  BY <1>5
<1>7. PICK s, r, todo :
        /\ op' = [kind |-> "commit", tx |-> t, step |-> s, receipt |-> r, start |-> ws,
                  todo |-> todo, copy |-> Nothing, verdict |-> "none", faults |-> 0]
        /\ \/ Existing(IntentOf[t]) = {} /\ s = "backup" /\ r = "none"
           \/ r \in Existing(IntentOf[t]) /\ s \in {"check", "copy"}
  BY DEF CommitBegins, RecoveryByIntent, Begin, Promoting
<1>8. InProgress(op)'
  BY <1>1, <1>2, <1>7 DEF InProgress, Steps, MaybeTree, Existing
<1>9. Typed' /\ BookedByCommit' /\ BackupsAreGood' /\ BothTreesAreThere'
  <2>1. BothTreesAreThere'
    BY <1>1, <1>2, NothingIsNothing DEF BothTreesAreThere
  <2> QED
    BY <1>1, <1>2, <1>5, <1>6, <1>8, <2>1 DEF Inv, Typed, BookedByCommit, BackupsAreGood, Exists
<1>10. CommitIsBound(op)'
  BY <1>2, <1>5, <1>7 DEF CommitIsBound
<1>11. StandsAt(op)'
  <2>1. CASE s = "backup"
    <3>1. Untouched(op)'
      BY <1>1, <1>2, <1>7, <2>1 DEF Untouched, Existing
    <3> QED
      BY <1>7, <2>1, <3>1 DEF StandsAt
  <2>2. CASE s \in {"check", "copy"}
    <3>1. Exists(r) /\ IntentOf[r] = IntentOf[t] /\ r # t /\ r \in Transactions
      BY <1>4, <1>7, <2>2 DEF Existing, Exists
    <3>2. CommitIsBooked(op)'
      BY <1>2, <1>3, <1>7, <3>1 DEF CommitIsBooked, Exists, Inv, BackupsAreGood
    <3>3. Promotes(op)'
      BY <1>1, <1>2, <1>7, <3>2 DEF Promotes
    <3> QED
      BY <1>7, <2>2, <3>3 DEF StandsAt
  <2> QED
    BY <1>7, <2>1, <2>2
<1> QED
  BY <1>1, <1>2, <1>7, <1>9, <1>10, <1>11 DEF Inv, Underway

(* A rollback begins over the tree after its effect, with a backup that is  *)
(* the tree before.                                                         *)
LEMMA RollbackBeginsKeeps ==
  ASSUME Inv, NEW t \in Transactions, Rollback(t), op' # op
  PROVE  Inv'
<1> USE DEF privateVars, asideVars
<1>1. /\ ws \in Trees /\ up /\ op = Idle /\ Exists(t) /\ spent \in Spent
  BY DEF Inv, Typed, Rollback, Ready, MaybeTree, Booked, Exists
<1>2. ws = manifest[t].after /\ manifest[t].backup = manifest[t].before
  BY DEF Rollback, RollbackRefusal
<1>3. UNCHANGED <<ws, stage, session, manifest, replacement, displaced, up, spent>>
  BY DEF Rollback
<1>4. op' = [kind |-> "rollback", tx |-> t, step |-> "refill", receipt |-> t, start |-> ws,
             todo |-> <<>>, copy |-> Nothing, verdict |-> "none", faults |-> 0]
  BY DEF Rollback, Begin
<1>5. Frame
  BY <1>1, <1>3 DEF Frame
<1>6. InProgress(op)'
  BY <1>1, <1>3, <1>4 DEF InProgress, Steps, MaybeTree
<1>7. Booking(op)'
  BY <1>1, <1>2, <1>3, <1>4 DEF Booking, RollbackIsBooked, Exists
<1>8. StandsAt(op)'
  BY <1>1, <1>3, <1>4, <1>7 DEF StandsAt, Restores
<1> QED
  BY <1>1, <1>3, <1>4, <1>5, <1>6, <1>8, GoKeeps DEF Inv, Typed

(* The fields of the operation in progress.                                 *)
LEMMA OpIsARecord ==
  ASSUME Inv, op # Idle
  PROVE  /\ InProgress(op) /\ up /\ StandsAt(op) /\ spent \in Spent
         /\ op.kind = "commit" => CommitIsBound(op)
         /\ op.kind = "rollback" => op.receipt = op.tx
         /\ ws \in MaybeTree /\ replacement \in MaybeTree /\ displaced \in MaybeTree
         /\ stage \in [Transactions -> MaybeTree] /\ session \in [Transactions -> Session]
         /\ manifest \in [Transactions -> Manifest \cup {NoManifest}]
  BY DEF Inv, Typed, Underway

LEMMA BackupKeeps ==
  ASSUME Inv, Backup
  PROVE  Inv'
<1> USE DEF privateVars, asideVars
<1>1. /\ up /\ op # Idle /\ op.step = "backup"
      /\ UNCHANGED <<ws, stage, session, manifest, replacement, displaced, up>>
  BY DEF Backup, At
<1>2. Untouched(op) /\ CommitIsBound(op)
  BY <1>1, OpIsARecord DEF StandsAt, Untouched
<1>3. CASE op' = [op EXCEPT !.step = "prepare", !.copy = ws] /\ UNCHANGED spent
  <2>1. Frame
    BY <1>1, <1>3, OpIsARecord DEF Frame
  <2>2. PICK k, t, r, st, td, c, v, f :
          op = [kind |-> k, tx |-> t, step |-> "backup", receipt |-> r, start |-> st,
                todo |-> td, copy |-> c, verdict |-> v, faults |-> f]
    BY <1>1, OpIsARecord DEF InProgress
  <2>3. op' = [kind |-> k, tx |-> t, step |-> "prepare", receipt |-> r, start |-> st,
               todo |-> td, copy |-> ws, verdict |-> v, faults |-> f]
    BY <1>3, <2>2
  <2>4. InProgress(op)'
    BY <1>1, <2>2, <2>3, OpIsARecord DEF InProgress, Steps
  <2>5. k = "commit" /\ ws = st
    BY <1>2, <2>2 DEF Untouched
  <2>6. Untouched(op)'
    BY <1>1, <1>2, <2>2, <2>3 DEF Untouched
  <2>7. CommitIsBound(op')
    BY <1>2, <2>2, <2>3 DEF CommitIsBound
  <2>8. StandsAt(op)'
    BY <1>1, <2>3, <2>5, <2>6 DEF StandsAt
  <2> QED
    BY <1>1, <2>1, <2>3, <2>4, <2>5, <2>7, <2>8, OpIsARecord, GoKeeps
<1>4. CASE \E v \in CopyErrors : Raise(v)
  BY <1>1, <1>4, OpIsARecord, RaiseKeeps
<1> QED
  BY <1>3, <1>4 DEF Backup

LEMMA PrepareKeeps ==
  ASSUME Inv, Prepare
  PROVE  Inv'
<1> USE DEF privateVars, asideVars
<1>1. /\ up /\ op # Idle /\ op.step = "prepare"
      /\ UNCHANGED <<ws, stage, session, replacement, displaced, up>>
  BY DEF Prepare, At
<1>2. Untouched(op) /\ op.copy = op.start /\ CommitIsBound(op)
  BY <1>1, OpIsARecord DEF StandsAt, Untouched
<1>3. CASE /\ manifest' = [manifest EXCEPT ![op.tx] = Prepared]
           /\ op' = [op EXCEPT !.step = Promoting(op.todo), !.receipt = op.tx]
           /\ UNCHANGED spent
  <2>1. PICK k, t, r, st, td, c, v, f :
          op = [kind |-> k, tx |-> t, step |-> "prepare", receipt |-> r, start |-> st,
                todo |-> td, copy |-> c, verdict |-> v, faults |-> f]
    BY <1>1, OpIsARecord DEF InProgress
  <2>2. PICK s \in {"check", "copy"} :
          op' = [kind |-> k, tx |-> t, step |-> s, receipt |-> t, start |-> st,
                 todo |-> td, copy |-> c, verdict |-> v, faults |-> f]
    BY <1>3, <2>1 DEF Promoting
  <2>3. /\ k = "commit" /\ ws = st /\ c = st /\ f = 0 /\ t \in Transactions /\ st \in Trees
        /\ stage[t] \in Trees /\ session[t].staged = stage[t] /\ session[t].phase = "done"
        /\ manifest[t] = NoManifest
    BY <1>1, <1>2, <2>1, OpIsARecord DEF Untouched, CommitIsBound, InProgress
  <2>4. InProgress(op)'
    BY <1>1, <2>1, <2>2, <2>3, OpIsARecord DEF InProgress, Steps
  <2>5. manifest' = [manifest EXCEPT ![t] =
                       [status |-> "PREPARED", before |-> st, after |-> stage[t], backup |-> st]]
    BY <1>3, <2>1, <2>3 DEF Prepared
  <2>6. [status |-> "PREPARED", before |-> st, after |-> stage[t], backup |-> st] \in Manifest
    BY <2>3 DEF Manifest
  <2>7. /\ manifest' \in [Transactions -> Manifest \cup {NoManifest}]
        /\ manifest'[t] = [status |-> "PREPARED", before |-> st, after |-> stage[t], backup |-> st]
        /\ manifest'[t] # NoManifest
        /\ \A u \in Transactions \ {t} : manifest'[u] = manifest[u]
    BY <1>1, <2>3, <2>5, <2>6, OpIsARecord, NothingIsNothing
  <2>8. Typed'
    BY <1>1, <1>3, <2>4, <2>7, OpIsARecord DEF Typed
  <2>9. BookedByCommit' /\ BackupsAreGood' /\ BothTreesAreThere'
    <3>1. BookedByCommit' /\ BackupsAreGood'
      BY <1>1, <1>3, <2>3, <2>7 DEF Inv, BookedByCommit, BackupsAreGood, Exists
    <3>2. ws' # Nothing
      BY <1>1, <2>3, NothingIsNothing
    <3> QED
      BY <3>1, <3>2 DEF BothTreesAreThere
  <2>10. CommitIsBound(op)'
    BY <1>1, <1>2, <2>1, <2>2 DEF CommitIsBound
  <2>11. CommitIsBooked(op)'
    BY <1>1, <2>2, <2>3, <2>7 DEF CommitIsBooked, Exists
  <2>12. Promotes(op)'
    BY <1>1, <2>2, <2>3, <2>11 DEF Promotes
  <2>13. StandsAt(op)'
    BY <2>2, <2>12 DEF StandsAt
  <2> QED
    BY <1>1, <2>2, <2>3, <2>8, <2>9, <2>10, <2>13 DEF Inv, Underway
<1>4. CASE Raise("error") /\ UNCHANGED manifest
  BY <1>1, <1>4, OpIsARecord, RaiseKeeps
<1> QED
  BY <1>3, <1>4 DEF Prepare

(* A tree with a temporary file more, or a promoted file, is a tree.        *)
LEMMA PromotionKeeps ==
  ASSUME Inv, CopyTemporary \/ ReplaceTarget \/ PromotionFails
  PROVE  Inv'
<1> USE DEF privateVars, asideVars
<1>1. /\ up /\ op # Idle /\ op.step \in {"copy", "replace"}
      /\ UNCHANGED <<stage, session, manifest, replacement, displaced, up>>
  BY DEF CopyTemporary, ReplaceTarget, PromotionFails, At
<1>2. Promotes(op) /\ CommitIsBound(op)
  BY <1>1, OpIsARecord DEF StandsAt, Promotes
<1>3. PICK k, t, s, r, st, td, c, v, f :
        op = [kind |-> k, tx |-> t, step |-> s, receipt |-> r, start |-> st,
              todo |-> td, copy |-> c, verdict |-> v, faults |-> f]
  BY <1>1, OpIsARecord DEF InProgress
<1>4. k = "commit" /\ f = 0 /\ ws \in Trees /\ stage[t] \in Trees /\ CommitIsBooked(op)
  BY <1>2, <1>3 DEF Promotes, CommitIsBound
<1>5. Temporary \in 0 .. MaxIncidents
  <2>1. spent.faults \in 0 .. MaxFaults /\ spent.crashes \in 0 .. MaxCrashes
    BY <1>1, OpIsARecord DEF Spent
  <2> QED
    BY <2>1, NothingIsNothing DEF Temporary, MaxIncidents
<1>6. Frame
  <2>1. CASE PromotionFails
    BY <1>1, <2>1, SpentStays DEF PromotionFails, Frame
  <2> QED
    BY <1>1, <2>1, OpIsARecord DEF CopyTemporary, ReplaceTarget, Frame
<1>7. ws' \in Trees
  <2>1. CASE CopyTemporary
    <3>1. [ws EXCEPT !.temps = @ \cup {Temporary}] \in Trees
      BY <1>4, <1>5, TreesStayTrees
    <3> QED
      BY <2>1, <3>1, Zenon DEF CopyTemporary
  <2>2. CASE ReplaceTarget
    <3>1. \A p, n : [ws EXCEPT !.files[p] = stage[t].files[p], !.temps = @ \ {n}] \in Trees
      BY <1>4, TreesStayTrees, Zenon
    <3>2. ws' = [ws EXCEPT !.files[Head(op.todo)] = stage[op.tx].files[Head(op.todo)],
                           !.temps = @ \ {Temporary}]
      BY <2>2, Zenon DEF ReplaceTarget
    <3>3. op.tx = t
      BY <1>3
    <3> QED
      BY <3>1, <3>2, <3>3, Zenon
  <2> QED
    BY <1>4, <2>1, <2>2 DEF PromotionFails
<1>8. PICK q, td2, v2, f2 :
        /\ op' = [kind |-> k, tx |-> t, step |-> q, receipt |-> r, start |-> st,
                  todo |-> td2, copy |-> c, verdict |-> v2, faults |-> f2]
        /\ v2 \in {v, "error"}
        /\ \/ q \in {"copy", "replace", "check"} /\ f2 = f
           \/ q = "refill" /\ f2 = f + 1
  BY <1>3 DEF CopyTemporary, ReplaceTarget, PromotionFails, Go, Rest, Promoting
<1>9. InProgress(op)'
  BY <1>1, <1>3, <1>4, <1>8, OpIsARecord DEF InProgress, Steps
<1>10. CommitIsBound(op') /\ CommitIsBooked(op')
  BY <1>2, <1>3, <1>4, <1>8 DEF CommitIsBound, CommitIsBooked
<1>11. Booking(op)'
  BY <1>4, <1>6, <1>8, <1>10, FrameKeeps DEF Booking
<1>12. StandsAt(op)'
  <2>1. CASE q \in {"copy", "replace", "check"} /\ f2 = f
    <3>1. CommitIsBooked(op)'
      BY <1>4, <1>8, <1>11 DEF Booking
    <3>2. Promotes(op)'
      BY <1>4, <1>7, <1>8, <2>1, <3>1 DEF Promotes
    <3> QED
      BY <1>8, <2>1, <3>2 DEF StandsAt
  <2>2. CASE q = "refill" /\ f2 = f + 1
    <3>1. Restores(op, ws)'
      BY <1>4, <1>7, <1>8, <1>11, <2>2 DEF Restores
    <3> QED
      BY <1>8, <2>2, <3>1 DEF StandsAt
  <2> QED
    BY <1>8, <2>1, <2>2
<1>13. ws' # Nothing /\ ws' \in MaybeTree
  BY <1>7, NothingIsNothing DEF MaybeTree
<1> QED
  BY <1>1, <1>4, <1>6, <1>8, <1>9, <1>10, <1>12, <1>13, OpIsARecord, GoKeeps

(* Rewriting the status of a booked receipt loses nothing of it.            *)
LEMMA StatusKeeps ==
  ASSUME Inv, NEW r, Exists(r), NEW status \in {"COMMITTED", "ROLLED_BACK"},
         manifest' = [manifest EXCEPT ![r].status = status]
  PROVE  /\ manifest' \in [Transactions -> Manifest \cup {NoManifest}]
         /\ \A u : Exists(u)' <=> Exists(u)
         /\ \A u : Exists(u) => /\ manifest'[u].before = manifest[u].before
                                /\ manifest'[u].after = manifest[u].after
                                /\ manifest'[u].backup = manifest[u].backup
<1>1. manifest \in [Transactions -> Manifest \cup {NoManifest}] /\ manifest[r] \in Manifest /\ r \in Transactions
  BY DEF Inv, Typed, Exists
<1>2. PICK s, b, a, k : /\ manifest[r] = [status |-> s, before |-> b, after |-> a, backup |-> k]
                        /\ b \in Trees /\ a \in Trees /\ k \in Trees
  BY <1>1 DEF Manifest
<1>3. [manifest[r] EXCEPT !.status = status] = [status |-> status, before |-> b, after |-> a, backup |-> k]
  BY <1>2
<1>4. manifest' = [manifest EXCEPT ![r] = [manifest[r] EXCEPT !.status = status]]
  BY Zenon
<1>5. [status |-> status, before |-> b, after |-> a, backup |-> k] \in Manifest
  BY <1>2 DEF Manifest
<1>6. /\ manifest'[r] = [status |-> status, before |-> b, after |-> a, backup |-> k]
      /\ \A u \in Transactions \ {r} : manifest'[u] = manifest[u]
      /\ manifest' \in [Transactions -> Manifest \cup {NoManifest}]
  BY <1>1, <1>3, <1>4, <1>5
<1>7. manifest'[r] # NoManifest
  BY <1>5, <1>6, NothingIsNothing
<1>8. \A u : Exists(u)' <=> Exists(u)
  BY <1>6, <1>7 DEF Exists
<1> QED
  BY <1>2, <1>6, <1>8 DEF Exists

LEMMA FinalCheckKeeps ==
  ASSUME Inv, FinalCheck
  PROVE  Inv'
<1> USE DEF privateVars, asideVars
<1>1. /\ up /\ op # Idle /\ op.step = "check"
      /\ UNCHANGED <<ws, stage, session, manifest, replacement, displaced, up>>
  BY DEF FinalCheck, At
<1>2. Promotes(op) /\ CommitIsBound(op)
  BY <1>1, OpIsARecord DEF StandsAt, Promotes
<1>3. CASE Raise("error")
  BY <1>1, <1>3, OpIsARecord, RaiseKeeps
<1>4. CASE ~Raise("error")
  <2>1. PICK k, t, s, r, st, td, c, v, f :
          op = [kind |-> k, tx |-> t, step |-> s, receipt |-> r, start |-> st,
                todo |-> td, copy |-> c, verdict |-> v, faults |-> f]
    BY <1>1, OpIsARecord DEF InProgress
  <2>2. Frame
    BY <1>1, <1>4, OpIsARecord DEF FinalCheck, Frame
  <2>3. k = "commit" /\ f = 0 /\ ws \in Trees /\ CommitIsBooked(op)
    BY <1>2, <2>1 DEF Promotes
  <2>4. PICK q, v2, f2 :
          /\ op' = [kind |-> k, tx |-> t, step |-> q, receipt |-> r, start |-> st,
                    todo |-> td, copy |-> c, verdict |-> v2, faults |-> f2]
          /\ v2 \in {v, "VERIFICATION_FAILED"}
          /\ \/ q = "mark" /\ f2 = f /\ ws = stage[t]
             \/ q = "refill" /\ f2 = f + 1
    BY <1>4, <2>1 DEF FinalCheck, Go
  <2>5. InProgress(op)'
    BY <1>1, <2>1, <2>3, <2>4, OpIsARecord DEF InProgress, Steps
  <2>6. CommitIsBound(op') /\ CommitIsBooked(op')
    BY <1>2, <2>1, <2>3, <2>4 DEF CommitIsBound, CommitIsBooked
  <2>7. CommitIsBooked(op)' /\ Booking(op)'
    BY <2>2, <2>3, <2>4, <2>6, FrameKeeps DEF Booking
  <2>8. StandsAt(op)'
    <3>1. CASE q = "mark"
      BY <1>1, <2>3, <2>4, <2>7, <3>1 DEF StandsAt, Promotes
    <3>2. CASE q = "refill"
      BY <1>1, <2>3, <2>4, <2>7, <3>2 DEF StandsAt, Restores
    <3> QED
      BY <2>4, <3>1, <3>2
  <2> QED
    BY <1>1, <2>2, <2>3, <2>4, <2>5, <2>6, <2>8, OpIsARecord, GoKeeps
<1> QED
  BY <1>3, <1>4

LEMMA MarkCommittedKeeps ==
  ASSUME Inv, MarkCommitted
  PROVE  Inv'
<1> USE DEF privateVars, asideVars
<1>1. /\ up /\ op # Idle /\ op.step = "mark"
      /\ UNCHANGED <<ws, stage, session, replacement, displaced, up>>
  BY DEF MarkCommitted, At
<1>2. Promotes(op) /\ ws = stage[op.tx] /\ CommitIsBound(op)
  BY <1>1, OpIsARecord DEF StandsAt, Promotes
<1>3. CASE Raise("error") /\ UNCHANGED manifest
  BY <1>1, <1>3, OpIsARecord, RaiseKeeps
<1>4. CASE /\ manifest' = [manifest EXCEPT ![op.receipt].status = "COMMITTED"]
           /\ op' = [op EXCEPT !.step = "clean"] /\ UNCHANGED spent
  <2>1. PICK k, t, s, r, st, td, c, v, f :
          op = [kind |-> k, tx |-> t, step |-> s, receipt |-> r, start |-> st,
                todo |-> td, copy |-> c, verdict |-> v, faults |-> f]
    BY <1>1, OpIsARecord DEF InProgress
  <2>2. op' = [kind |-> k, tx |-> t, step |-> "clean", receipt |-> r, start |-> st,
               todo |-> td, copy |-> c, verdict |-> v, faults |-> f]
    BY <1>4, <2>1
  <2>3. k = "commit" /\ f = 0 /\ ws \in Trees /\ CommitIsBooked(op) /\ Exists(r)
    BY <1>2, <2>1 DEF Promotes, CommitIsBooked
  <2>4. /\ manifest' \in [Transactions -> Manifest \cup {NoManifest}]
        /\ \A u : Exists(u)' <=> Exists(u)
        /\ \A u : Exists(u) => /\ manifest'[u].before = manifest[u].before
                               /\ manifest'[u].after = manifest[u].after
                               /\ manifest'[u].backup = manifest[u].backup
    <3>1. manifest' = [manifest EXCEPT ![r].status = "COMMITTED"]
      BY <1>4, <2>1, Zenon
    <3> QED
      BY <2>3, <3>1, StatusKeeps, Zenon
  <2>5. InProgress(op)'
    BY <1>1, <2>1, <2>2, <2>3, OpIsARecord DEF InProgress, Steps
  <2>6. Typed'
    BY <1>1, <1>4, <2>4, <2>5, OpIsARecord DEF Typed
  <2>7. BookedByCommit' /\ BackupsAreGood' /\ BothTreesAreThere'
    <3>1. BookedByCommit'
      BY <1>1, <2>4 DEF Inv, BookedByCommit, Exists
    <3>2. BackupsAreGood'
      BY <1>1, <1>4, <2>4 DEF Inv, BackupsAreGood
    <3>3. ws' # Nothing
      BY <1>1, <2>3, NothingIsNothing
    <3> QED
      BY <3>1, <3>2, <3>3 DEF BothTreesAreThere
  <2>8. CommitIsBound(op)'
    BY <1>1, <1>2, <2>1, <2>2 DEF CommitIsBound
  <2>9. CommitIsBooked(op)'
    BY <1>1, <1>4, <2>1, <2>2, <2>3, <2>4 DEF CommitIsBooked
  <2>10. StandsAt(op)'
    BY <1>1, <1>2, <2>1, <2>2, <2>3, <2>9 DEF StandsAt, Promotes
  <2> QED
    BY <1>1, <2>2, <2>3, <2>6, <2>7, <2>8, <2>10 DEF Inv, Underway
<1> QED
  BY <1>3, <1>4 DEF MarkCommitted, Go

LEMMA CleanKeeps ==
  ASSUME Inv, Clean
  PROVE  Inv'
<1> USE DEF privateVars, asideVars
<1>1. /\ up /\ op # Idle /\ op.step = "clean"
      /\ UNCHANGED <<ws, session, manifest, replacement, displaced, up>>
  BY DEF Clean, At
<1>2. Promotes(op)
  BY <1>1, OpIsARecord DEF StandsAt, Promotes
<1>3. CASE Raise("EXTERNAL_RESULT_IN_DOUBT") /\ UNCHANGED stage
  BY <1>1, <1>3, OpIsARecord, RaiseKeeps
<1>4. CASE End("receipt") /\ stage' = [stage EXCEPT ![op.tx] = Nothing]
  <2>1. spent' = spent /\ op' = Idle
    <3>1. op.faults = 0
      BY <1>2 DEF Promotes
    <3>2. spent' = [spent EXCEPT !.incidents = @ + 0]
      BY <1>4, <3>1 DEF End
    <3>3. PICK f, c, u, k, n : /\ spent = [foreign |-> f, corruption |-> c, faults |-> u, crashes |-> k,
                                           incidents |-> n]
                               /\ n \in Nat
      BY <1>1, OpIsARecord DEF Spent
    <3> QED
      BY <1>4, <3>2, <3>3 DEF End
  <2>2. stage' \in [Transactions -> MaybeTree]
    BY <1>1, <1>4, OpIsARecord DEF MaybeTree
  <2>3. Typed'
    BY <1>1, <2>1, <2>2, OpIsARecord DEF Typed
  <2>4. BookedByCommit' /\ BackupsAreGood' /\ BothTreesAreThere'
    <3>1. ws' # Nothing
      BY <1>1, <1>2, NothingIsNothing DEF Promotes
    <3> QED
      BY <1>1, <2>1, <3>1 DEF Inv, BookedByCommit, BackupsAreGood, BothTreesAreThere, Exists
  <2> QED
    BY <2>1, <2>3, <2>4 DEF Inv
<1> QED
  BY <1>3, <1>4 DEF Clean

(* The backup an operation restores, and why it may replace what is there.  *)
LEMMA BookedIsFormer ==
  ASSUME Inv, NEW o, InProgress(o), Booking(o)
  PROVE  /\ Exists(o.receipt)
         /\ manifest[o.receipt].backup \in Trees /\ manifest[o.receipt].before \in Trees
         /\ IsFormer(manifest[o.receipt].backup)
<1>1. Exists(o.receipt)
  BY DEF Booking, CommitIsBooked, RollbackIsBooked
<1>2. manifest[o.receipt] \in Manifest
  BY <1>1 DEF Inv, Typed, Exists
<1>3. manifest[o.receipt].backup \in Trees /\ manifest[o.receipt].before \in Trees
  BY <1>2 DEF Manifest
<1>4. o.kind \in {"commit", "rollback"} /\ o.tx \in Transactions
  BY DEF InProgress
<1>5. CASE o.kind = "commit" /\ o.receipt # o.tx /\ spent.corruption # 0
  <2>1. ~NoRetries
    BY <1>1, <1>4, <1>5 DEF NoRetries, Booking, CommitIsBooked, Exists
  <2>2. spent.corruption > 0
    BY <1>5, NothingIsNothing DEF Inv, Typed, Spent
  <2> QED
    BY <1>1, <1>3, <2>1, <2>2 DEF IsFormer, Exists
<1>6. CASE ~(o.kind = "commit" /\ o.receipt # o.tx /\ spent.corruption # 0)
  <2>1. manifest[o.receipt].backup = manifest[o.receipt].before
    BY <1>4, <1>6 DEF Booking, CommitIsBooked, RollbackIsBooked
  <2> QED
    BY <1>1, <1>3, <2>1 DEF IsFormer, Exists
<1> QED
  BY <1>1, <1>3, <1>5, <1>6

(* A step of a restore that does not end it: the operation stays what it    *)
(* was, but for its step and its faults.                                    *)
LEMMA RestoreGoesOn ==
  ASSUME Inv, op # Idle, Frame, UNCHANGED up, Booking(op),
         NEW s \in Steps, NEW f \in Nat, op' = [op EXCEPT !.step = s, !.faults = f],
         ws' \in MaybeTree, replacement' \in MaybeTree, displaced' \in MaybeTree,
         ws' # Nothing \/ BothTreesAreThere',
         /\ Booking(op)' /\ op'.step = s /\ op'.faults = f /\ op'.kind = op.kind /\ op'.start = op.start
         /\ op'.receipt = op.receipt /\ op'.kind \in {"commit", "rollback"}
         => StandsAt(op)'
  PROVE  Inv'
<1>1. PICK k, t, q, r, st, td, c, v, g :
        op = [kind |-> k, tx |-> t, step |-> q, receipt |-> r, start |-> st,
              todo |-> td, copy |-> c, verdict |-> v, faults |-> g]
  BY OpIsARecord DEF InProgress
<1>2. op' = [kind |-> k, tx |-> t, step |-> s, receipt |-> r, start |-> st,
             todo |-> td, copy |-> c, verdict |-> v, faults |-> f]
  BY <1>1
<1>3. InProgress(op)'
  BY <1>1, <1>2, OpIsARecord DEF InProgress
<1>4. Booking(op')
  BY <1>1, <1>2 DEF Booking, CommitIsBooked, RollbackIsBooked
<1>5. Booking(op)'
  BY <1>4, FrameKeeps
<1>6. op'.kind = "commit" => CommitIsBound(op')
  BY <1>1, <1>2, OpIsARecord DEF CommitIsBound
<1>7. op'.kind = "rollback" => op'.receipt = op'.tx
  BY <1>1, <1>2, OpIsARecord
<1>8. StandsAt(op)'
  BY <1>1, <1>2, <1>3, <1>5 DEF InProgress
<1>9. Typed'
  BY <1>3, OpIsARecord, FrameKeeps DEF Typed, Frame
<1>10. BothTreesAreThere'
  BY DEF BothTreesAreThere
<1>11. Underway(op)'
  <2>1. op'.kind = "commit" => CommitIsBound(op)'
    BY <1>6, FrameKeeps
  <2> QED
    BY <1>7, <1>8, <2>1, OpIsARecord DEF Underway
<1> QED
  BY <1>9, <1>10, <1>11, FrameKeeps DEF Inv

(* Moving on without a fault, or with one more.                             *)
LEMMA StepOnly ==
  ASSUME Inv, op # Idle, NEW s \in Steps
  PROVE  /\ [op EXCEPT !.step = s] = [op EXCEPT !.step = s, !.faults = op.faults]
         /\ op.faults \in Nat
<1>1. PICK k, t, q, r, st, td, c, v, g :
        op = [kind |-> k, tx |-> t, step |-> q, receipt |-> r, start |-> st,
              todo |-> td, copy |-> c, verdict |-> v, faults |-> g]
  BY OpIsARecord DEF InProgress
<1> QED
  BY <1>1, OpIsARecord DEF InProgress

LEMMA RefillKeeps ==
  ASSUME Inv, Refill
  PROVE  Inv'
<1> USE DEF privateVars, asideVars
<1>1. /\ up /\ op # Idle /\ op.step = "refill"
      /\ UNCHANGED <<ws, stage, session, manifest, displaced, up>>
  BY DEF Refill, At
<1>2. Restores(op, ws)
  BY <1>1, OpIsARecord DEF StandsAt
<1>3. /\ Booking(op) /\ ws \in Trees /\ BackupOf \in Trees /\ "displace" \in Steps /\ ws # Nothing
  BY <1>1, <1>2, OpIsARecord, BookedIsFormer, NothingIsNothing DEF Restores, BackupOf, Steps
<1>4. CASE (\E v \in CopyErrors : Raise(v)) /\ UNCHANGED replacement
  BY <1>1, <1>4, OpIsARecord, RaiseKeeps
<1>5. CASE replacement' = BackupOf /\ Go("displace") /\ UNCHANGED spent
  <2>1. Frame
    BY <1>1, <1>5, OpIsARecord DEF Frame
  <2>2. op' = [op EXCEPT !.step = "displace", !.faults = op.faults] /\ op.faults \in Nat
    BY <1>1, <1>3, <1>5, StepOnly DEF Go
  <2>3. /\ ws' \in MaybeTree /\ replacement' \in MaybeTree /\ displaced' \in MaybeTree /\ ws' # Nothing
    BY <1>1, <1>3, <1>5, OpIsARecord DEF MaybeTree
  <2>4. ASSUME Booking(op)', op'.step = "displace", op'.faults = op.faults, op'.kind = op.kind,
               op'.start = op.start, op'.receipt = op.receipt
        PROVE  StandsAt(op)'
    BY <1>1, <1>2, <1>3, <1>5, <2>4 DEF StandsAt, Restores, BackupOf
  <2> QED
    BY <1>1, <1>3, <2>1, <2>2, <2>3, <2>4, RestoreGoesOn
<1> QED
  BY <1>4, <1>5 DEF Refill

LEMMA DisplaceKeeps ==
  ASSUME Inv, Displace
  PROVE  Inv'
<1> USE DEF privateVars, asideVars
<1>1. /\ up /\ op # Idle /\ op.step = "displace"
      /\ UNCHANGED <<stage, session, manifest, up>>
  BY DEF Displace, At
<1>2. Restores(op, ws) /\ replacement = manifest[op.receipt].backup
  BY <1>1, OpIsARecord DEF StandsAt
<1>3. Booking(op) /\ ws \in Trees /\ replacement \in Trees /\ IsFormer(replacement) /\ ws # Nothing
      /\ "install" \in Steps
  BY <1>1, <1>2, OpIsARecord, BookedIsFormer, NothingIsNothing DEF Restores, Steps
<1>4. CASE Raise("error") /\ replacement' = Nothing /\ UNCHANGED <<ws, displaced>>
  BY <1>1, <1>3, <1>4, OpIsARecord, RaiseKeeps DEF MaybeTree
<1>5. CASE displaced' = ws /\ ws' = Nothing /\ Go("install") /\ UNCHANGED <<replacement, spent>>
  <2>1. Frame
    BY <1>1, <1>5, OpIsARecord DEF Frame
  <2>2. op' = [op EXCEPT !.step = "install", !.faults = op.faults] /\ op.faults \in Nat
    BY <1>1, <1>3, <1>5, StepOnly DEF Go
  <2>3. /\ ws' \in MaybeTree /\ replacement' \in MaybeTree /\ displaced' \in MaybeTree
    BY <1>3, <1>5 DEF MaybeTree
  <2>4. BothTreesAreThere'
    <3>1. IsFormer(replacement)'
      BY <1>3, <1>5, <2>1, FrameKeeps DEF IsFormer
    <3> QED
      BY <1>3, <1>5, <3>1 DEF BothTreesAreThere
  <2>5. ASSUME Booking(op)', op'.step = "install", op'.faults = op.faults, op'.kind = op.kind,
               op'.start = op.start, op'.receipt = op.receipt
        PROVE  StandsAt(op)'
    BY <1>1, <1>2, <1>3, <1>5, <2>5 DEF StandsAt, Restores
  <2> QED
    BY <1>1, <1>3, <2>1, <2>2, <2>3, <2>4, <2>5, RestoreGoesOn
<1> QED
  BY <1>4, <1>5 DEF Displace

LEMMA InstallKeeps ==
  ASSUME Inv, Install
  PROVE  Inv'
<1> USE DEF privateVars, asideVars
<1>1. /\ up /\ op # Idle /\ op.step = "install"
      /\ UNCHANGED <<stage, session, manifest, replacement, displaced, up>>
  BY DEF Install, At
<1>2. ws = Nothing /\ Restores(op, displaced) /\ replacement = manifest[op.receipt].backup
  BY <1>1, OpIsARecord DEF StandsAt
<1>3. Booking(op) /\ displaced \in Trees /\ replacement \in Trees /\ "drop" \in Steps /\ "putback" \in Steps
  BY <1>1, <1>2, OpIsARecord, BookedIsFormer DEF Restores, Steps
<1>4. op.faults \in Nat
  BY <1>1, OpIsARecord DEF InProgress
<1>5. CASE ws' = replacement /\ Go("drop") /\ UNCHANGED spent
  <2>1. Frame
    BY <1>1, <1>5, OpIsARecord DEF Frame
  <2>2. op' = [op EXCEPT !.step = "drop", !.faults = op.faults]
    BY <1>1, <1>3, <1>5, StepOnly DEF Go
  <2>3. /\ ws' \in MaybeTree /\ replacement' \in MaybeTree /\ displaced' \in MaybeTree /\ ws' # Nothing
    BY <1>1, <1>3, <1>5, NothingIsNothing DEF MaybeTree
  <2>4. ASSUME Booking(op)', op'.step = "drop", op'.faults = op.faults, op'.kind = op.kind,
               op'.start = op.start, op'.receipt = op.receipt
        PROVE  StandsAt(op)'
    BY <1>1, <1>2, <1>3, <1>5, <2>4 DEF StandsAt, Restores
  <2> QED
    BY <1>1, <1>3, <1>4, <2>1, <2>2, <2>3, <2>4, RestoreGoesOn
<1>6. CASE Handle("putback") /\ UNCHANGED ws
  <2>1. Frame
    BY <1>1, <1>6, SpentStays DEF Frame, Handle
  <2>2. op' = [op EXCEPT !.step = "putback", !.faults = op.faults + 1] /\ op.faults + 1 \in Nat
    BY <1>4, <1>6 DEF Handle
  <2>3. /\ ws' \in MaybeTree /\ replacement' \in MaybeTree /\ displaced' \in MaybeTree
    BY <1>1, <1>6, OpIsARecord
  <2>4. BothTreesAreThere'
    BY <1>1, <1>6, <2>1, FrameKeeps DEF Inv, BothTreesAreThere
  <2>5. ASSUME Booking(op)', op'.step = "putback", op'.faults = op.faults + 1, op'.kind = op.kind,
               op'.start = op.start, op'.receipt = op.receipt
        PROVE  StandsAt(op)'
    BY <1>1, <1>2, <1>3, <1>4, <1>6, <2>5 DEF StandsAt, Restores
  <2> QED
    BY <1>1, <1>3, <2>1, <2>2, <2>3, <2>4, <2>5, RestoreGoesOn
<1> QED
  BY <1>5, <1>6 DEF Install

LEMMA IncidentsStay ==
  ASSUME Inv, NEW i \in Nat, spent' = [spent EXCEPT !.incidents = @ + i]
  PROVE  spent' \in Spent /\ spent'.corruption = spent.corruption
<1>1. PICK f, c, u, k, n : /\ spent = [foreign |-> f, corruption |-> c, faults |-> u, crashes |-> k,
                                       incidents |-> n]
                           /\ spent \in Spent /\ n \in Nat
  BY DEF Inv, Typed, Spent
<1>2. spent' = [foreign |-> f, corruption |-> c, faults |-> u, crashes |-> k, incidents |-> n + i]
  BY <1>1
<1> QED
  BY <1>1, <1>2 DEF Spent

LEMMA PutBackKeeps ==
  ASSUME Inv, PutBack
  PROVE  Inv'
<1> USE DEF privateVars, asideVars
<1>1. /\ up /\ op # Idle /\ op.step = "putback"
      /\ UNCHANGED <<stage, session, manifest, up>>
  BY DEF PutBack, At
<1>2. displaced \in Trees
  BY <1>1, OpIsARecord DEF StandsAt
<1>3. CASE Raise("error") /\ UNCHANGED <<ws, replacement, displaced>>
  BY <1>1, <1>3, OpIsARecord, RaiseKeeps
<1>4. CASE ws' = displaced /\ End("error") /\ displaced' = Nothing /\ replacement' = Nothing
  <2>1. Frame /\ op' = Idle
    <3>1. (IF op.faults > 1 THEN 1 ELSE 0) \in Nat
      OBVIOUS
    <3> QED
      BY <1>1, <1>4, <3>1, IncidentsStay DEF End, Frame
  <2>2. /\ ws' \in MaybeTree /\ replacement' \in MaybeTree /\ displaced' \in MaybeTree /\ ws' # Nothing
        /\ up' \in BOOLEAN
    BY <1>1, <1>2, <1>4, NothingIsNothing DEF MaybeTree
  <2> QED
    BY <2>1, <2>2, EndKeeps
<1> QED
  BY <1>3, <1>4 DEF PutBack

LEMMA DropKeeps ==
  ASSUME Inv, Drop
  PROVE  Inv'
<1> USE DEF privateVars, asideVars
<1>1. /\ up /\ op # Idle /\ op.step = "drop"
      /\ UNCHANGED <<ws, stage, session, manifest, up>> /\ displaced' = Nothing /\ replacement' = Nothing
  BY DEF Drop, At
<1>2. /\ Booking(op) /\ ws = manifest[op.receipt].backup
      /\ IF op.kind = "commit" THEN op.faults > 0 ELSE op.faults = 0
  BY <1>1, OpIsARecord DEF StandsAt
<1>3. ws \in Trees /\ "note" \in Steps
  BY <1>1, <1>2, OpIsARecord, BookedIsFormer DEF Steps
<1>4. /\ ws' \in MaybeTree /\ replacement' \in MaybeTree /\ displaced' \in MaybeTree /\ ws' # Nothing
  BY <1>1, <1>3, NothingIsNothing DEF MaybeTree
<1>5. CASE Raise("error")
  BY <1>1, <1>4, <1>5, RaiseKeeps
<1>6. CASE Go("note") /\ UNCHANGED spent
  <2>1. Frame
    BY <1>1, <1>6, OpIsARecord DEF Frame
  <2>2. op' = [op EXCEPT !.step = "note", !.faults = op.faults] /\ op.faults \in Nat
    BY <1>1, <1>3, <1>6, StepOnly DEF Go
  <2>3. ASSUME Booking(op)', op'.step = "note", op'.faults = op.faults, op'.kind = op.kind,
               op'.start = op.start, op'.receipt = op.receipt
        PROVE  StandsAt(op)'
    BY <1>1, <1>2, <2>3 DEF StandsAt
  <2> QED
    BY <1>1, <1>2, <1>3, <1>4, <2>1, <2>2, <2>3, RestoreGoesOn
<1> QED
  BY <1>5, <1>6 DEF Drop

LEMMA NoteRolledBackKeeps ==
  ASSUME Inv, NoteRolledBack
  PROVE  Inv'
<1> USE DEF privateVars, asideVars
<1>1. /\ up /\ op # Idle /\ op.step = "note"
      /\ UNCHANGED <<ws, stage, session, replacement, displaced, up>>
  BY DEF NoteRolledBack, At
<1>2. Booking(op) /\ ws = manifest[op.receipt].backup
  BY <1>1, OpIsARecord DEF StandsAt
<1>3. ws \in Trees /\ Exists(op.receipt)
  BY <1>1, <1>2, OpIsARecord, BookedIsFormer
<1>4. CASE Raise("error") /\ UNCHANGED manifest
  BY <1>1, <1>4, OpIsARecord, RaiseKeeps
<1>5. CASE /\ manifest' = [manifest EXCEPT ![op.receipt].status = "ROLLED_BACK"]
           /\ End(RestoreVerdict)
  <2>1. /\ manifest' \in [Transactions -> Manifest \cup {NoManifest}]
        /\ \A u : Exists(u)' <=> Exists(u)
        /\ \A u : Exists(u) => /\ manifest'[u].before = manifest[u].before
                               /\ manifest'[u].after = manifest[u].after
                               /\ manifest'[u].backup = manifest[u].backup
    BY <1>3, <1>5, StatusKeeps, Zenon
  <2>2. spent' \in Spent /\ spent'.corruption = spent.corruption /\ op' = Idle
    <3>1. (IF op.faults > 1 THEN 1 ELSE 0) \in Nat
      OBVIOUS
    <3> QED
      BY <1>5, <3>1, IncidentsStay DEF End
  <2>3. Typed'
    BY <1>1, <2>1, <2>2, OpIsARecord DEF Typed
  <2>4. BookedByCommit'
    BY <1>1, <2>1 DEF Inv, BookedByCommit, Exists
  <2>5. BackupsAreGood'
    BY <2>1, <2>2 DEF Inv, BackupsAreGood
  <2>6. BothTreesAreThere'
    BY <1>1, <1>3, NothingIsNothing DEF BothTreesAreThere
  <2> QED
    BY <2>2, <2>3, <2>4, <2>5, <2>6 DEF Inv
<1> QED
  BY <1>4, <1>5 DEF NoteRolledBack

LEMMA DriftKeeps ==
  ASSUME Inv, WorkspaceDrifts
  PROVE  Inv'
<1> USE DEF privateVars, asideVars
<1>1. /\ op = Idle /\ ws \in Trees
      /\ UNCHANGED <<stage, session, manifest, replacement, displaced, up, op>>
      /\ spent' = [spent EXCEPT !.foreign = @ + 1]
  BY DEF WorkspaceDrifts, Inv, Typed, MaybeTree
<1>2. ws' \in Trees
  <2>1. PICK p \in Paths, c \in ForeignContents : ws' = [ws EXCEPT !.files[p] = c]
    BY DEF WorkspaceDrifts
  <2>2. [ws EXCEPT !.files[p] = c] \in Trees
    BY <1>1, TreesStayTrees
  <2> QED
    BY <2>1, <2>2, Zenon
<1>3. Frame
  <2>1. PICK f, c, u, k, n : /\ spent = [foreign |-> f, corruption |-> c, faults |-> u, crashes |-> k,
                                         incidents |-> n]
                             /\ spent \in Spent /\ f \in Nat
    BY DEF Inv, Typed, Spent
  <2>2. spent' = [foreign |-> f + 1, corruption |-> c, faults |-> u, crashes |-> k, incidents |-> n]
    BY <1>1, <2>1
  <2> QED
    BY <1>1, <2>1, <2>2 DEF Frame, Spent
<1> QED
  BY <1>1, <1>2, <1>3, EndKeeps, NothingIsNothing DEF Inv, Typed, MaybeTree

(* Corrupting a backup leaves what it was a backup of.                      *)
LEMMA CorruptionKeeps ==
  ASSUME Inv, CorruptPrivateState
  PROVE  Inv'
<1> USE DEF privateVars, asideVars
<1>1. /\ op = Idle /\ spent.corruption < MaxCorruption /\ UNCHANGED <<ws, session, replacement, displaced, up, op>>
      /\ stage \in [Transactions -> MaybeTree] /\ manifest \in [Transactions -> Manifest \cup {NoManifest}]
  BY DEF CorruptPrivateState, Inv, Typed
<1>2. spent' \in Spent /\ spent'.corruption = spent.corruption + 1 /\ spent.corruption \in Nat
  <2>1. PICK f, c, u, k, n : /\ spent = [foreign |-> f, corruption |-> c, faults |-> u, crashes |-> k,
                                         incidents |-> n]
                             /\ spent \in Spent /\ c \in Nat
    BY DEF Inv, Typed, Spent
  <2>2. spent' = [foreign |-> f, corruption |-> c + 1, faults |-> u, crashes |-> k, incidents |-> n]
    BY <2>1 DEF CorruptPrivateState
  <2> QED
    BY <1>1, <2>1, <2>2, NothingIsNothing DEF Spent
<1>3. PICK p \in Paths, c \in ForeignContents :
        \/ \E t \in Transactions : /\ stage[t] # Nothing
                                   /\ stage' = [stage EXCEPT ![t].files[p] = c]
                                   /\ UNCHANGED manifest
        \/ \E r \in Transactions : /\ manifest[r] # NoManifest
                                   /\ manifest' = [manifest EXCEPT ![r].backup.files[p] = c]
                                   /\ UNCHANGED stage
  BY DEF CorruptPrivateState
<1>4. /\ stage' \in [Transactions -> MaybeTree] /\ manifest' \in [Transactions -> Manifest \cup {NoManifest}]
      /\ \A u \in Transactions : /\ Exists(u)' <=> Exists(u)
                                 /\ Exists(u) => manifest'[u].before = manifest[u].before
  <2>1. CASE \E t \in Transactions : /\ stage[t] # Nothing
                                     /\ stage' = [stage EXCEPT ![t].files[p] = c]
                                     /\ UNCHANGED manifest
    <3>1. PICK t \in Transactions : /\ stage[t] # Nothing
                                    /\ stage' = [stage EXCEPT ![t].files[p] = c]
                                    /\ UNCHANGED manifest
      BY <2>1
    <3>2. stage' = [stage EXCEPT ![t] = [stage[t] EXCEPT !.files[p] = c]]
      BY <3>1, Zenon
    <3>3. [stage[t] EXCEPT !.files[p] = c] \in Trees
      BY <1>1, <3>1, TreesStayTrees DEF MaybeTree
    <3> DEFINE new == [stage[t] EXCEPT !.files[p] = c]
    <3>4. new \in Trees /\ stage' = [stage EXCEPT ![t] = new]
      BY <3>2, <3>3
    <3> HIDE DEF new
    <3> QED
      BY <1>1, <3>1, <3>4 DEF MaybeTree, Exists
  <2>2. CASE \E r \in Transactions : /\ manifest[r] # NoManifest
                                     /\ manifest' = [manifest EXCEPT ![r].backup.files[p] = c]
                                     /\ UNCHANGED stage
    <3>1. PICK r \in Transactions : /\ manifest[r] # NoManifest
                                    /\ manifest' = [manifest EXCEPT ![r].backup.files[p] = c]
                                    /\ UNCHANGED stage
      BY <2>2
    <3>2. PICK s, b, a, k : /\ manifest[r] = [status |-> s, before |-> b, after |-> a, backup |-> k]
                            /\ manifest[r] \in Manifest /\ k \in Trees
      BY <1>1, <3>1 DEF Manifest
    <3> DEFINE new == [manifest[r].backup EXCEPT !.files[p] = c]
    <3>3. manifest' = [manifest EXCEPT ![r] = [manifest[r] EXCEPT !.backup = new]]
      BY <3>1, Zenon
    <3>4. new \in Trees
      <4>1. manifest[r].backup = k
        BY <3>2
      <4> QED
        BY <3>2, <4>1, TreesStayTrees
    <3> HIDE DEF new
    <3>5. [manifest[r] EXCEPT !.backup = new] = [status |-> s, before |-> b, after |-> a, backup |-> new]
      BY <3>2
    <3>6. [status |-> s, before |-> b, after |-> a, backup |-> new] \in Manifest
      BY <3>2, <3>4 DEF Manifest
    <3>7. /\ manifest' \in [Transactions -> Manifest \cup {NoManifest}]
          /\ manifest'[r] = [status |-> s, before |-> b, after |-> a, backup |-> new]
          /\ manifest'[r] # NoManifest
          /\ \A u \in Transactions \ {r} : manifest'[u] = manifest[u]
      BY <1>1, <3>3, <3>5, <3>6, NothingIsNothing
    <3>8. \A u \in Transactions : Exists(u)' <=> Exists(u)
      BY <3>1, <3>7 DEF Exists
    <3>9. \A u \in Transactions : manifest'[u].before = manifest[u].before
      BY <3>2, <3>7
    <3> QED
      BY <1>1, <3>1, <3>7, <3>8, <3>9
  <2> QED
    BY <1>3, <2>1, <2>2
<1>5. Typed'
  BY <1>1, <1>2, <1>4 DEF Typed, Inv
<1>6. BookedByCommit' /\ BackupsAreGood'
  BY <1>1, <1>2, <1>4 DEF Inv, BookedByCommit, BackupsAreGood, Exists
<1>7. BothTreesAreThere'
  <2>1. SUFFICES ASSUME MaxCorruption <= 1 \/ NoRetries, ws = Nothing
                 PROVE  displaced' \in Trees /\ IsFormer(replacement)'
    BY <1>1 DEF BothTreesAreThere, NoRetries
  <2>2. displaced \in Trees /\ IsFormer(replacement)
    BY <2>1 DEF Inv, BothTreesAreThere
  <2>3. spent.corruption = 0 \/ NoRetries
    BY <1>1, <1>2, <2>1, NothingIsNothing
  <2>4. PICK r \in Transactions : Exists(r) /\ replacement = manifest[r].before
    BY <1>2, <2>2, <2>3 DEF IsFormer
  <2> QED
    BY <1>1, <1>4, <2>2, <2>4 DEF IsFormer
<1> QED
  BY <1>1, <1>5, <1>6, <1>7 DEF Inv

LEMMA CrashAndStartKeep ==
  ASSUME Inv, Crash \/ Start
  PROVE  Inv'
<1> USE DEF privateVars, asideVars
<1>1. /\ op' = Idle /\ up' \in BOOLEAN
      /\ UNCHANGED <<ws, stage, session, manifest, replacement, displaced>>
  BY DEF Crash, Start, Inv, Underway
<1>2. Frame
  <2>1. CASE Start
    BY <1>1, <2>1 DEF Frame, Start, Inv, Typed
  <2>2. CASE Crash
    <3>1. PICK f, c, u, k, n : /\ spent = [foreign |-> f, corruption |-> c, faults |-> u, crashes |-> k,
                                           incidents |-> n]
                               /\ spent \in Spent /\ k \in 0 .. MaxCrashes /\ n \in Nat
      BY DEF Inv, Typed, Spent
    <3>2. PICK i \in {0, 1} : spent' = [foreign |-> f, corruption |-> c, faults |-> u, crashes |-> k + 1,
                                        incidents |-> n + i]
      BY <2>2, <3>1 DEF Crash
    <3>3. k + 1 \in 0 .. MaxCrashes /\ n + i \in Nat
      BY <2>2, <3>1, NothingIsNothing DEF Crash
    <3> QED
      BY <1>1, <3>1, <3>2, <3>3 DEF Frame, Spent
  <2> QED
    BY <2>1, <2>2
<1> QED
  BY <1>1, <1>2, EndKeeps DEF Inv, Typed

(* No step leads out of the invariant.                                      *)
LEMMA InvStep ==
  ASSUME Inv, [Next]_vars
  PROVE  Inv'
<1>1. CASE CommitStep
  BY <1>1, BackupKeeps, PrepareKeeps, PromotionKeeps, FinalCheckKeeps, MarkCommittedKeeps, CleanKeeps
     DEF CommitStep
<1>2. CASE RestoreStep
  BY <1>2, RefillKeeps, DisplaceKeeps, InstallKeeps, PutBackKeeps, DropKeeps, NoteRolledBackKeeps
     DEF RestoreStep
<1>3. CASE Environment
  BY <1>3, DriftKeeps, CorruptionKeeps, CrashAndStartKeep DEF Environment
<1>4. CASE \E t \in Transactions : Operation(t)
  BY <1>4, PrivateWorkKeeps, AnswersKeep, CommitBeginsKeeps, RollbackBeginsKeeps DEF Operation
<1>5. CASE UNCHANGED vars
  <2>1. Frame /\ UNCHANGED <<ws, replacement, displaced, up, op>>
    BY <1>5 DEF vars, Frame, Inv, Typed
  <2>2. Typed' /\ BookedByCommit' /\ BackupsAreGood'
    BY <2>1, FrameKeeps DEF Typed, Frame, Inv, InProgress
  <2>3. BothTreesAreThere'
    BY <2>1, FrameKeeps DEF Inv, BothTreesAreThere
  <2>4. op' # Idle => Underway(op)'
    BY <2>1 DEF Frame, Inv, Underway, StandsAt, Untouched, CommitIsBound, Promotes, Restores, Booking,
                CommitIsBooked, RollbackIsBooked, Exists
  <2> QED
    BY <2>2, <2>3, <2>4 DEF Inv
<1> QED
  BY <1>1, <1>2, <1>3, <1>4, <1>5 DEF Next

(* Every variable holds what it may, and every operation in progress stands *)
(* where it says it does: what it has found, booked, moved and restored.    *)
THEOREM OperationsStandWhereTheySay == Spec => []Inv
  BY InvInit, InvStep, PTL DEF Spec

-----------------------------------------------------------------------------
(* What the invariant says of the workspace                                 *)

(* Before a commit touches the workspace, a durable manifest names a backup *)
(* of it as it was (filesystem.py:436-488).  A retry takes over the backup  *)
(* of an earlier attempt unread, so this needs that nobody corrupted it, or *)
(* that there is no earlier attempt.                                        *)
THEOREM CommitsAreJournaled ==
  ASSUME MaxCorruption = 0 \/ NoRetries
  PROVE  Spec => []MutationIsJournaled
<1>1. ASSUME Inv
      PROVE  MutationIsJournaled
  <2>1. SUFFICES ASSUME op # Idle, op.kind = "commit", ws # op.start
                 PROVE  /\ op.receipt # "none"
                        /\ manifest[op.receipt] # NoManifest
                        /\ manifest[op.receipt].before = op.start
                        /\ manifest[op.receipt].backup = op.start
    BY DEF MutationIsJournaled
  <2>2. InProgress(op) /\ StandsAt(op) /\ CommitIsBound(op)
    BY <1>1, <2>1, OpIsARecord
  <2>3. CommitIsBooked(op)
    <3>1. op.step \in Steps
      BY <2>2 DEF InProgress
    <3>2. op.step # "backup" /\ op.step # "prepare"
      BY <2>1, <2>2 DEF StandsAt, Untouched
    <3> QED
      BY <2>1, <2>2, <3>1, <3>2 DEF Steps, StandsAt, Promotes, Restores, Booking
  <2>4. op.receipt = op.tx \/ spent.corruption = 0
    <3>1. CASE NoRetries
      BY <2>2, <2>3, <3>1 DEF NoRetries, CommitIsBooked, Exists, InProgress
    <3>2. CASE MaxCorruption = 0
      BY <1>1, <3>2 DEF Inv, Typed, Spent
    <3> QED
      BY <3>1, <3>2
  <2> QED
    BY <2>3, <2>4, NothingIsNothing DEF CommitIsBooked, Exists
<1> QED
  BY <1>1, OperationsStandWhereTheySay, PTL

(* While the workspace is moved away, the tree it had and the tree it is to *)
(* have are both on disk, also after a crash or a second failure            *)
(* (_restore_backup, filesystem.py:394-406).                                *)
THEOREM RestoresLoseNothing ==
  ASSUME MaxCorruption <= 1 \/ NoRetries
  PROVE  Spec => []NothingIsLost
<1>1. Inv => NothingIsLost
  BY NothingIsNothing DEF Inv, BothTreesAreThere, NothingIsLost, IsFormer, Exists
<1> QED
  BY <1>1, OperationsStandWhereTheySay, PTL

-----------------------------------------------------------------------------
(* How operations end                                                       *)

(* An operation that moves on is still the same one.                        *)
SameOperation == op' # Idle /\ op'.start = op.start

LEMMA GoesOn ==
  ASSUME Inv, op # Idle
  PROVE  /\ \A s : Go(s) \/ Handle(s) => SameOperation
         /\ Backup => (\E v \in CopyErrors : Raise(v)) \/ SameOperation
         /\ Prepare => (Raise("error") /\ UNCHANGED manifest) \/ SameOperation
         /\ CopyTemporary \/ ReplaceTarget \/ PromotionFails => SameOperation
         /\ FinalCheck => Raise("error") \/ SameOperation
<1>1. PICK k, t, q, r, st, td, c, v, g :
        /\ op = [kind |-> k, tx |-> t, step |-> q, receipt |-> r, start |-> st,
                 todo |-> td, copy |-> c, verdict |-> v, faults |-> g]
        /\ k \in {"commit", "rollback"}
  BY OpIsARecord DEF InProgress
<1>2. ASSUME NEW s, NEW r2, NEW td2, NEW c2, NEW v2, NEW g2,
             op' = [kind |-> k, tx |-> t, step |-> s, receipt |-> r2, start |-> st,
                    todo |-> td2, copy |-> c2, verdict |-> v2, faults |-> g2]
      PROVE  SameOperation
  <2>1. op'.kind # Idle.kind
    BY <1>1, <1>2 DEF Idle
  <2> QED
    BY <1>1, <1>2, <2>1 DEF SameOperation
<1>3. ASSUME NEW s, Go(s) \/ Handle(s)
      PROVE  SameOperation
  <2>1. PICK g2 : op' = [kind |-> k, tx |-> t, step |-> s, receipt |-> r, start |-> st,
                         todo |-> td, copy |-> c, verdict |-> v, faults |-> g2]
    BY <1>1, <1>3 DEF Go, Handle
  <2> QED
    BY <1>2, <2>1
<1>4. ASSUME Backup, ~(\E e \in CopyErrors : Raise(e))
      PROVE  SameOperation
  <2>1. op' = [kind |-> k, tx |-> t, step |-> "prepare", receipt |-> r, start |-> st,
               todo |-> td, copy |-> ws, verdict |-> v, faults |-> g]
    BY <1>1, <1>4 DEF Backup
  <2> QED
    BY <1>2, <2>1
<1>5. ASSUME Prepare, ~(Raise("error") /\ UNCHANGED manifest)
      PROVE  SameOperation
  <2>1. op' = [kind |-> k, tx |-> t, step |-> Promoting(td), receipt |-> t, start |-> st,
               todo |-> td, copy |-> c, verdict |-> v, faults |-> g]
    BY <1>1, <1>5 DEF Prepare
  <2> QED
    BY <1>2, <2>1
<1>6. ASSUME CopyTemporary \/ ReplaceTarget \/ PromotionFails
      PROVE  SameOperation
  <2>1. PICK s, td2, v2, g2 :
          op' = [kind |-> k, tx |-> t, step |-> s, receipt |-> r, start |-> st,
                 todo |-> td2, copy |-> c, verdict |-> v2, faults |-> g2]
    BY <1>1, <1>6 DEF CopyTemporary, ReplaceTarget, PromotionFails, Go, Rest
  <2> QED
    BY <1>2, <2>1
<1>7. ASSUME FinalCheck, ~Raise("error")
      PROVE  SameOperation
  <2>1. PICK s, v2, g2 :
          op' = [kind |-> k, tx |-> t, step |-> s, receipt |-> r, start |-> st,
                 todo |-> td, copy |-> c, verdict |-> v2, faults |-> g2]
    BY <1>1, <1>7 DEF FinalCheck, Go
  <2> QED
    BY <1>2, <2>1
<1> QED
  BY <1>3, <1>4, <1>5, <1>6, <1>7

(* The ways a step takes an operation on, or ends it: an error, a receipt,  *)
(* a workspace that is put back, a backup that is restored, and a crash.    *)
LEMMA Endings ==
  ASSUME Inv, Next, op # Idle
  PROVE  \/ SameOperation
         \/ (\E v \in CopyErrors : Raise(v)) /\ (Backup \/ Refill)
         \/ Raise("error") /\ (Prepare \/ FinalCheck \/ MarkCommitted \/ Displace \/ PutBack \/ Drop
                               \/ NoteRolledBack)
         \/ Clean /\ Raise("EXTERNAL_RESULT_IN_DOUBT")
         \/ Clean /\ End("receipt")
         \/ PutBack /\ End("error") /\ ws' = displaced
         \/ NoteRolledBack /\ End(RestoreVerdict)
         \/ Crash
<1>1. /\ (MarkCommitted => Raise("error") \/ SameOperation)
      /\ (Refill => (\E v \in CopyErrors : Raise(v)) \/ SameOperation)
      /\ (Displace => Raise("error") \/ SameOperation) /\ (Drop => Raise("error") \/ SameOperation)
      /\ (Install => SameOperation)
  BY GoesOn DEF MarkCommitted, Refill, Displace, Drop, Install
<1>2. ~(\E t \in Transactions : Operation(t)) /\ ~WorkspaceDrifts /\ ~CorruptPrivateState /\ ~Start
  BY DEF Operation, Inspect, Stage, Execute, VerifyStaged, Abort, CommitAnswers, CommitBegins, Rollback,
         Reconcile, VerifyCommitted, Ready, WorkspaceDrifts, CorruptPrivateState, Inv, Underway, Start
<1>3. /\ (Clean => Raise("EXTERNAL_RESULT_IN_DOUBT") \/ End("receipt"))
      /\ (PutBack => Raise("error") \/ (End("error") /\ ws' = displaced))
      /\ (NoteRolledBack => Raise("error") \/ End(RestoreVerdict))
  BY DEF Clean, PutBack, NoteRolledBack
<1> QED
  BY <1>1, <1>2, <1>3, GoesOn DEF Next, CommitStep, RestoreStep, Environment

(* A receipt is handed out, and an effect is reported, only over a whole    *)
(* effect: at once, where a commit or a reconciliation finds the workspace  *)
(* to be what the receipt says, or at the end of a commit that has compared *)
(* the workspace with its stage (filesystem.py:493-514).  A commit that     *)
(* resumes the receipt of another attempt has promoted its own stage (:478) *)
(* over the tree that the other attempt started from.                       *)
THEOREM ReceiptsAreWhole == Spec => ReceiptIsWhole
<1> DEFINE IsWhole ==
      \/ ws' = manifest'[reply'.receipt].after
      \/ /\ reply'.kind = "commit" /\ reply'.receipt # reply'.tx
         /\ ws' = session[reply'.tx].staged
         /\ session[reply'.tx].base = manifest[reply'.receipt].before
<1>1. ASSUME Inv, [Next]_vars, reply' # reply, reply'.verdict \in {"receipt", "COMMITTED"}
      PROVE  IsWhole
  <2>1. Next
    BY <1>1 DEF vars
  <2>2. CASE op = Idle
    <3>1. PICK t \in Transactions : CommitAnswers(t) \/ Reconcile(t)
      <4>1. ~CommitStep /\ ~RestoreStep
        BY <2>2 DEF CommitStep, Backup, Prepare, CopyTemporary, ReplaceTarget, PromotionFails, FinalCheck,
                    MarkCommitted, Clean, RestoreStep, Refill, Displace, Install, PutBack, Drop, NoteRolledBack, At
      <4>2. ~Environment
        BY <1>1 DEF Environment, WorkspaceDrifts, CorruptPrivateState, Start, Crash, NoReply
      <4>3. PICK t \in Transactions : Operation(t)
        BY <2>1, <4>1, <4>2 DEF Next
      <4>4. ~Inspect(t) /\ ~Stage(t) /\ ~Execute(t) /\ ~VerifyStaged(t) /\ ~Abort(t)
        BY <1>1 DEF Inspect, Stage, Execute, VerifyStaged, Abort, Answer
      <4>5. ~CommitBegins(t) /\ ~VerifyCommitted(t)
        BY <1>1 DEF CommitBegins, VerifyCommitted, Answer, NoReply
      <4>6. ~Rollback(t)
        BY <1>1 DEF Rollback, RollbackRefusal, Answer, NoReply
      <4> QED
        BY <4>3, <4>4, <4>5, <4>6 DEF Operation
    <3>2. CASE CommitAnswers(t)
      <4>1. PICK r \in Committed(t) : Answer(t, "commit", "receipt", r)
        BY <1>1, <3>2 DEF CommitAnswers, Refusal, Answer
      <4> QED
        BY <3>2, <4>1 DEF CommitAnswers, Committed, Answer
    <3>3. CASE Reconcile(t)
      <4>1. PICK r \in Transactions :
              Answer(t, "reconcile",
                     CASE ws = manifest[r].after -> "COMMITTED"
                       [] ws = manifest[r].before -> "NO_EFFECT"
                       [] OTHER -> "PARTIAL_OR_INVALID", r)
        BY <1>1, <3>3 DEF Reconcile, RecoveryByIntent, Existing, Answer
      <4>2. ws = manifest[r].after
        BY <1>1, <4>1 DEF Answer
      <4> QED
        BY <3>3, <4>1, <4>2 DEF Reconcile, Answer
    <3> QED
      BY <3>1, <3>2, <3>3
  <2>3. CASE op # Idle
    <3>1. InProgress(op) /\ StandsAt(op)
      BY <1>1, <2>3, OpIsARecord
    <3>2. Clean /\ End("receipt")
      <4>1. CASE SameOperation
        <5>1. UNCHANGED reply
          BY <2>1, <2>3, <4>1 DEF Next, CommitStep, RestoreStep, Environment, SameOperation, Backup, Prepare,
             CopyTemporary, ReplaceTarget, PromotionFails, FinalCheck, MarkCommitted, Clean, Refill, Displace,
             Install, PutBack, Drop, NoteRolledBack, Go, Handle, End, Raise, WorkspaceDrifts, CorruptPrivateState,
             Crash, Start, Operation, Inspect, Stage, Execute, VerifyStaged, Abort, CommitAnswers, CommitBegins,
             Rollback, Reconcile, VerifyCommitted, Ready
        <5> QED
          BY <1>1, <5>1
      <4>2. \A v : Raise(v) \/ End(v) => reply'.verdict = v
        BY DEF Raise, End, Answer
      <4>3. CASE Crash
        BY <1>1, <4>3 DEF Crash, NoReply
      <4>4. RestoreVerdict \notin {"receipt", "COMMITTED"}
        BY <3>1 DEF RestoreVerdict, InProgress
      <4> QED
        BY <1>1, <2>1, <2>3, <4>1, <4>2, <4>3, <4>4, Endings DEF CopyErrors
    <3>3. /\ op.step = "clean" /\ reply'.receipt = op.receipt /\ reply'.tx = op.tx /\ reply'.kind = op.kind
          /\ UNCHANGED <<ws, manifest>>
      BY <3>2 DEF Clean, At, End, Answer
    <3>4. CommitIsBooked(op) /\ ws = stage[op.tx] /\ op.kind = "commit"
      BY <3>1, <3>3 DEF StandsAt, Promotes
    <3>5. CASE op.receipt = op.tx
      BY <3>3, <3>4, <3>5 DEF CommitIsBooked
    <3>6. CASE op.receipt # op.tx
      <4>1. session[op.tx].base = op.start /\ session[op.tx].staged = stage[op.tx]
        BY <1>1, <2>3, <3>4, OpIsARecord DEF CommitIsBound
      <4> QED
        BY <3>3, <3>4, <3>6, <4>1 DEF CommitIsBooked
    <3> QED
      BY <3>5, <3>6
  <2> QED
    BY <2>2, <2>3
<1>2. Inv /\ [Next]_vars =>
        [reply' # reply /\ reply'.verdict \in {"receipt", "COMMITTED"} => IsWhole]_vars
  BY <1>1
<1> QED
  BY <1>2, OperationsStandWhereTheySay, PTL DEF Spec, ReceiptIsWhole

(* A rollback starts from the tree after its effect, and says PASS only     *)
(* over the tree before it (filesystem.py:560-596).                         *)
THEOREM RollbacksRestore == Spec => RollbackRestores
<1>1. ASSUME Inv, [Next]_vars, op # Idle, op.kind = "rollback", op' = Idle
      PROVE  /\ op.start = manifest[op.receipt].after
             /\ reply'.verdict = "PASS" => ws' = manifest[op.receipt].before
  <2>1. InProgress(op) /\ StandsAt(op) /\ Next
    BY <1>1, OpIsARecord DEF vars
  <2>2. RollbackIsBooked(op)
    <3>1. op.step \in Steps
      BY <2>1 DEF InProgress
    <3> QED
      BY <1>1, <2>1, <3>1 DEF Steps, StandsAt, Untouched, Promotes, Restores, Booking
  <2>3. ASSUME reply'.verdict = "PASS"
        PROVE  ws' = manifest[op.receipt].before
    <3>1. NoteRolledBack /\ End(RestoreVerdict)
      <4>1. \A v : Raise(v) \/ End(v) => reply'.verdict = v
        BY DEF Raise, End, Answer
      <4>2. ~Crash
        BY <2>3 DEF Crash, NoReply
      <4> QED
        BY <1>1, <2>1, <2>3, <4>1, <4>2, Endings DEF SameOperation, CopyErrors
    <3>2. UNCHANGED ws /\ op.step = "note"
      BY <3>1 DEF NoteRolledBack, At
    <3> QED
      BY <1>1, <2>1, <2>2, <3>2 DEF StandsAt, RollbackIsBooked
  <2> QED
    BY <2>2, <2>3 DEF RollbackIsBooked
<1>2. Inv /\ [Next]_vars =>
        [op # Idle /\ op.kind = "rollback" /\ op' = Idle =>
           /\ op.start = manifest[op.receipt].after
           /\ reply'.verdict = "PASS" => ws' = manifest[op.receipt].before]_vars
  BY <1>1
<1> QED
  BY <1>2, OperationsStandWhereTheySay, PTL DEF Spec, RollbackRestores

(* STALE_STATE over a changed workspace comes only from the restore of a    *)
(* commit that had failed already (filesystem.py:490, :495), and a durable  *)
(* manifest says what the workspace was: the copies that raise it are made  *)
(* before the promotion, of a workspace that a rollback finds as it began,  *)
(* or in that restore (filesystem.py:126-130).                              *)
THEOREM StalenessIsBooked == Spec => StaleIsBooked
<1>1. ASSUME Inv, [Next]_vars, op # Idle, op' = Idle, reply'.verdict = "STALE_STATE", ws' # op.start
      PROVE  /\ op.kind = "commit" /\ op.faults > 0
             /\ Booked(op.receipt) /\ manifest[op.receipt].before = op.start
  <2>1. InProgress(op) /\ StandsAt(op) /\ Next
    BY <1>1, OpIsARecord DEF vars
  <2>2. \A v : Raise(v) \/ End(v) => reply'.verdict = v
    BY DEF Raise, End, Answer
  <2>3. RestoreVerdict # "STALE_STATE"
    BY <2>1 DEF RestoreVerdict, InProgress
  <2>4. Crash => reply'.verdict # "STALE_STATE"
    BY DEF Crash, NoReply
  <2>5. Backup \/ Refill
    BY <1>1, <2>1, <2>2, <2>3, <2>4, Endings DEF SameOperation
  <2>6. UNCHANGED ws
    <3>1. ~ \E s : Go(s)
      BY <1>1, GoesOn DEF SameOperation
    <3> QED
      BY <2>5, <3>1 DEF Backup, Refill
  <2>7. Refill
    BY <1>1, <2>1, <2>5, <2>6 DEF Backup, At, StandsAt, Untouched
  <2>8. Restores(op, ws)
    BY <2>1, <2>7 DEF Refill, At, StandsAt
  <2> QED
    BY <1>1, <2>6, <2>8 DEF Restores, Booking, CommitIsBooked, Exists, Booked
<1>2. Inv /\ [Next]_vars =>
        [op # Idle /\ op' = Idle /\ reply'.verdict = "STALE_STATE" /\ ws' # op.start =>
           /\ op.kind = "commit" /\ op.faults > 0
           /\ Booked(op.receipt) /\ manifest[op.receipt].before = op.start]_vars
  BY <1>1
<1> QED
  BY <1>2, OperationsStandWhereTheySay, PTL DEF Spec, StaleIsBooked

-----------------------------------------------------------------------------
(* The workspace changes as a whole or not at all                           *)

TheTree == IF op = Idle THEN ws ELSE op.start
Offers == [t \in Transactions |-> [base |-> session[t].base, staged |-> session[t].staged]]
Swaps == [t \in Transactions |->
            IF manifest[t] = NoManifest THEN [before |-> Nothing, after |-> Nothing]
            ELSE [before |-> manifest[t].before, after |-> manifest[t].after]]
TheVars == <<TheTree, Offers, Swaps, spent.foreign, spent.incidents>>

(* A fault counts as an incident, or does not.                              *)
LEMMA RaiseCounts ==
  ASSUME Inv, NEW v, Raise(v)
  PROVE  /\ op' = Idle /\ spent'.foreign = spent.foreign
         /\ spent'.incidents = IF Unhandled THEN spent.incidents + 1 ELSE spent.incidents
<1>1. PICK f, c, u, k, n : /\ spent = [foreign |-> f, corruption |-> c, faults |-> u, crashes |-> k,
                                       incidents |-> n]
                           /\ n \in Nat
  BY DEF Inv, Typed, Spent
<1>2. spent' = [foreign |-> f, corruption |-> c, faults |-> u + 1, crashes |-> k,
                incidents |-> n + (IF Unhandled THEN 1 ELSE 0)]
  BY <1>1 DEF Raise
<1> QED
  BY <1>1, <1>2 DEF Raise

LEMMA EndCounts ==
  ASSUME Inv, NEW v, End(v)
  PROVE  /\ op' = Idle /\ spent'.foreign = spent.foreign
         /\ spent'.incidents = IF op.faults > 1 THEN spent.incidents + 1 ELSE spent.incidents
<1>1. PICK f, c, u, k, n : /\ spent = [foreign |-> f, corruption |-> c, faults |-> u, crashes |-> k,
                                       incidents |-> n]
                           /\ n \in Nat
  BY DEF Inv, Typed, Spent
<1>2. spent' = [foreign |-> f, corruption |-> c, faults |-> u, crashes |-> k,
                incidents |-> n + (IF op.faults > 1 THEN 1 ELSE 0)]
  BY <1>1 DEF End
<1> QED
  BY <1>1, <1>2 DEF End

(* What the abstract steps come to here.                                    *)
LEMMA Shatters ==
  ASSUME Inv, Inv', op' = Idle, UNCHANGED <<Offers, Swaps>>, spent'.foreign = spent.foreign,
         spent'.incidents = spent.incidents + 1
  PROVE  Atomic!Shatter
<1>1. TheTree' \in Trees \cup {Nothing}
  BY DEF Inv, Typed, TheTree, MaybeTree
<1> QED
  BY <1>1 DEF Atomic!Shatter, TheTree, Offers, Swaps

LEMMA Applies ==
  ASSUME Inv, op # Idle, op' = Idle, op.step \in {"check", "mark", "clean"}, ws = stage[op.tx],
         UNCHANGED <<ws, Offers, Swaps, spent.foreign, spent.incidents>>
  PROVE  \E t \in Transactions : Atomic!Apply(t)
<1>1. InProgress(op) /\ Promotes(op) /\ CommitIsBound(op)
  BY OpIsARecord DEF StandsAt, Promotes
<1>2. op.tx \in Transactions /\ op.receipt \in Transactions /\ Exists(op.receipt)
  BY <1>1 DEF InProgress, Promotes, CommitIsBooked, Exists
<1>3. TheTree = op.start /\ TheTree' = stage[op.tx]
  BY DEF TheTree
<1>4. Offers[op.tx] = [base |-> op.start, staged |-> stage[op.tx]]
  BY <1>1, <1>2 DEF Offers, CommitIsBound
<1>5. Swaps[op.receipt].before = op.start
  BY <1>1, <1>2 DEF Swaps, Promotes, CommitIsBooked, Exists
<1>6. /\ TheTree = Offers[op.tx].base
      /\ \E r \in Transactions : Swaps[r].before = TheTree
      /\ TheTree' = Offers[op.tx].staged
  BY <1>2, <1>3, <1>4, <1>5
<1>7. PICK t \in Transactions : t = op.tx
  BY <1>2
<1>8. Atomic!Apply(t)
  BY <1>6, <1>7 DEF Atomic!Apply, TheTree, Offers, Swaps
<1> QED
  BY <1>8

LEMMA Undoes ==
  ASSUME Inv, op # Idle, op' = Idle, op.step \in {"drop", "note"}, op.kind = "rollback",
         UNCHANGED <<ws, Offers, Swaps, spent.foreign, spent.incidents>>
  PROVE  \E t \in Transactions : Atomic!Undo(t)
<1>1. InProgress(op) /\ RollbackIsBooked(op) /\ ws = manifest[op.receipt].backup
  BY OpIsARecord DEF StandsAt, Booking
<1>2. op.receipt \in Transactions /\ Exists(op.receipt) /\ manifest[op.receipt].before \in Trees
  BY <1>1, BookedIsFormer DEF RollbackIsBooked, Exists, Booking
<1>3. TheTree = op.start /\ TheTree' = ws
  BY DEF TheTree
<1>4. Swaps[op.receipt] = [before |-> manifest[op.receipt].before, after |-> manifest[op.receipt].after]
  BY <1>2 DEF Swaps, Exists
<1>5. Swaps[op.receipt] # [before |-> Nothing, after |-> Nothing]
  BY <1>2, <1>4, NothingIsNothing
<1>6. /\ TheTree = Swaps[op.receipt].after
      /\ TheTree' = Swaps[op.receipt].before
  BY <1>1, <1>3, <1>4 DEF RollbackIsBooked
<1>7. PICK t \in Transactions : t = op.receipt
  BY <1>2
<1>8. Atomic!Undo(t)
  BY <1>2, <1>5, <1>6, <1>7 DEF Atomic!Undo, Atomic!NoSwap, TheTree, Offers, Swaps
<1> QED
  BY <1>8

(* What an operation in progress leaves alone, but for Prepare.             *)
LEMMA OthersStay ==
  ASSUME Inv, Next, op # Idle, ~(Prepare /\ manifest' # manifest)
  PROVE  UNCHANGED <<Offers, Swaps>>
<1>1. UNCHANGED session
  BY DEF Next, CommitStep, RestoreStep, Environment, Backup, Prepare, CopyTemporary, ReplaceTarget, PromotionFails,
     FinalCheck, MarkCommitted, Clean, Refill, Displace, Install, PutBack, Drop, NoteRolledBack, WorkspaceDrifts,
     CorruptPrivateState, Crash, Start, Operation, Inspect, Stage, Execute, VerifyStaged, Abort, CommitAnswers,
     CommitBegins, Rollback, Reconcile, VerifyCommitted, Ready, privateVars
<1>2. CASE UNCHANGED manifest
  BY <1>1, <1>2 DEF Offers, Swaps
<1>3. CASE manifest' # manifest
  <2>1. MarkCommitted \/ NoteRolledBack
    BY <1>3 DEF Next, CommitStep, RestoreStep, Environment, Backup, CopyTemporary, ReplaceTarget, PromotionFails,
       FinalCheck, Clean, Refill, Displace, Install, PutBack, Drop, WorkspaceDrifts, CorruptPrivateState,
       Crash, Start, Operation, Inspect, Stage, Execute, VerifyStaged, Abort, CommitAnswers, CommitBegins,
       Rollback, Reconcile, VerifyCommitted, Ready, privateVars
  <2>2. PICK s \in {"COMMITTED", "ROLLED_BACK"} : manifest' = [manifest EXCEPT ![op.receipt].status = s]
    BY <1>3, <2>1 DEF MarkCommitted, NoteRolledBack
  <2>3. Exists(op.receipt)
    BY <2>1, OpIsARecord, BookedIsFormer DEF MarkCommitted, NoteRolledBack, At, StandsAt, Promotes, Booking,
       CommitIsBooked
  <2>4. /\ \A u : Exists(u)' <=> Exists(u)
        /\ \A u : Exists(u) => /\ manifest'[u].before = manifest[u].before
                               /\ manifest'[u].after = manifest[u].after
    BY <2>2, <2>3, StatusKeeps, Zenon
  <2>5. UNCHANGED Swaps
    BY <2>4 DEF Swaps, Exists
  <2> QED
    BY <1>1, <2>5 DEF Offers
<1> QED
  BY <1>2, <1>3

(* Booking a receipt.                                                       *)
LEMMA PrepareMaps ==
  ASSUME Inv, Prepare, manifest' # manifest
  PROVE  \E t \in Transactions : Atomic!Book(t)
<1>1. /\ op # Idle /\ op.step = "prepare" /\ up /\ UNCHANGED <<ws, session, spent>>
      /\ manifest' = [manifest EXCEPT ![op.tx] = Prepared]
  BY DEF Prepare, At, privateVars
<1>2. /\ InProgress(op) /\ Untouched(op) /\ op.copy = op.start /\ CommitIsBound(op)
      /\ manifest \in [Transactions -> Manifest \cup {NoManifest}]
  BY <1>1, OpIsARecord DEF StandsAt, Untouched
<1>3. SameOperation
  BY <1>1, GoesOn
<1>4. op.tx \in Transactions /\ manifest[op.tx] = NoManifest /\ op.start \in Trees
  BY <1>2 DEF InProgress, Untouched
<1>5. Swaps[op.tx] = [before |-> Nothing, after |-> Nothing]
  BY <1>4 DEF Swaps
<1>6. Offers[op.tx] = [base |-> op.start, staged |-> session[op.tx].staged]
  BY <1>2, <1>4 DEF Offers, CommitIsBound
<1>7. TheTree = op.start /\ TheTree' = TheTree
  BY <1>1, <1>3 DEF TheTree, SameOperation
<1>8. /\ manifest'[op.tx] = [status |-> "PREPARED", before |-> op.start, after |-> session[op.tx].staged,
                             backup |-> op.start]
      /\ \A u \in Transactions \ {op.tx} : manifest'[u] = manifest[u]
  BY <1>1, <1>2, <1>4 DEF Prepared
<1>9. manifest'[op.tx] # NoManifest
  <2>1. session[op.tx].staged \in Trees
    BY <1>2 DEF CommitIsBound
  <2>2. manifest'[op.tx] \in Manifest
    BY <1>4, <1>8, <2>1 DEF Manifest
  <2> QED
    BY <2>2, NothingIsNothing
<1>10. Swaps' = [Swaps EXCEPT ![op.tx] = [before |-> op.start, after |-> session[op.tx].staged]]
  <2> DEFINE new == [Swaps EXCEPT ![op.tx] = [before |-> op.start, after |-> session[op.tx].staged]]
  <2>1. \A u \in Transactions : Swaps'[u] = new[u]
    BY <1>4, <1>8, <1>9 DEF Swaps
  <2>2. DOMAIN Swaps' = Transactions /\ DOMAIN new = Transactions
        /\ Swaps' = [u \in Transactions |-> Swaps'[u]] /\ new = [u \in Transactions |-> new[u]]
    BY DEF Swaps
  <2> QED
    BY <2>1, <2>2
<1>11. Offers' = Offers /\ UNCHANGED <<spent.foreign, spent.incidents>>
  BY <1>1 DEF Offers
<1>12. /\ Swaps[op.tx] = [before |-> Nothing, after |-> Nothing]
       /\ Offers[op.tx].base = TheTree
       /\ Swaps' = [Swaps EXCEPT ![op.tx] = [before |-> Offers[op.tx].base, after |-> Offers[op.tx].staged]]
  BY <1>5, <1>6, <1>7, <1>10
<1>13. PICK t \in Transactions : t = op.tx
  BY <1>4
<1>14. Atomic!Book(t)
  BY <1>7, <1>11, <1>12, <1>13 DEF Atomic!Book, Atomic!NoSwap, TheTree, Offers, Swaps
<1> QED
  BY <1>14

(* A step that takes an operation on is a booking, or shows nothing.        *)
LEMMA GoMaps ==
  ASSUME Inv, Next, op # Idle, SameOperation
  PROVE  (\E t \in Transactions : Atomic!Book(t)) \/ UNCHANGED TheVars
<1>1. CASE Prepare /\ manifest' # manifest
  BY <1>1, PrepareMaps
<1>2. CASE ~(Prepare /\ manifest' # manifest)
  <2>1. UNCHANGED <<Offers, Swaps>>
    BY <1>2, OthersStay
  <2>2. UNCHANGED TheTree
    BY DEF TheTree, SameOperation
  <2>3. UNCHANGED <<spent.foreign, spent.incidents>>
    <3>1. PICK f, c, u, k, n : spent = [foreign |-> f, corruption |-> c, faults |-> u, crashes |-> k,
                                        incidents |-> n]
      BY DEF Inv, Typed, Spent
    <3>2. CASE spent' = [spent EXCEPT !.faults = @ + 1]
      BY <3>1, <3>2
    <3>3. CASE UNCHANGED spent
      BY <3>3
    <3> QED
      BY <3>2, <3>3 DEF Next, CommitStep, RestoreStep, Environment, SameOperation, Backup, Prepare,
         CopyTemporary, ReplaceTarget, PromotionFails, FinalCheck, MarkCommitted, Clean, Refill, Displace,
         Install, PutBack, Drop, NoteRolledBack, Go, Handle, End, Raise, WorkspaceDrifts, CorruptPrivateState,
         Crash, Start, Operation, Inspect, Stage, Execute, VerifyStaged, Abort, CommitAnswers, CommitBegins,
         Rollback, Reconcile, VerifyCommitted, Ready
  <2> QED
    BY <2>1, <2>2, <2>3 DEF TheVars
<1> QED
  BY <1>1, <1>2

(* An operation that ends has swapped the tree, or left it, or is counted   *)
(* as an incident.                                                          *)
LEMMA EndMaps ==
  ASSUME MaxCorruption = 0 \/ NoRetries, Inv, Inv', Next, op # Idle, ~SameOperation
  PROVE  \/ \E t \in Transactions : Atomic!Apply(t) \/ Atomic!Undo(t)
         \/ Atomic!Shatter
         \/ UNCHANGED TheVars
<1>1. /\ InProgress(op) /\ StandsAt(op) /\ op.kind \in {"commit", "rollback"}
      /\ op.kind = "commit" => CommitIsBound(op)
  BY OpIsARecord DEF InProgress
<1>2. UNCHANGED <<Offers, Swaps>>
  BY OthersStay, GoesOn DEF Prepare, Raise
<1>3. ASSUME op' = Idle, spent'.foreign = spent.foreign, spent'.incidents = spent.incidents + 1
      PROVE  Atomic!Shatter
  BY <1>2, <1>3, Shatters
<1>4. ASSUME op' = Idle, spent'.foreign = spent.foreign, spent'.incidents = spent.incidents, ws' = op.start
      PROVE  UNCHANGED TheVars
  BY <1>2, <1>4 DEF TheVars, TheTree
<1>5. CASE (\E v \in CopyErrors : Raise(v)) /\ (Backup \/ Prepare)
  <2>1. /\ ws' = op.start /\ op.faults = 0 /\ op.step # "check"
    BY <1>1, <1>5 DEF Backup, Prepare, At, StandsAt, Untouched
  <2> QED
    BY <1>4, <1>5, <2>1, RaiseCounts DEF Unhandled
<1>6. CASE \/ Raise("error") /\ (FinalCheck \/ MarkCommitted)
           \/ Clean /\ (Raise("EXTERNAL_RESULT_IN_DOUBT") \/ End("receipt"))
  <2>1. op.step \in {"check", "mark", "clean"} /\ UNCHANGED ws /\ op' = Idle
    BY <1>6, RaiseCounts DEF FinalCheck, MarkCommitted, Clean, At, Raise, End
  <2>2. Promotes(op)
    BY <1>1, <2>1 DEF StandsAt
  <2>3. CASE ws = stage[op.tx]
    <3>1. spent'.foreign = spent.foreign /\ spent'.incidents = spent.incidents
      <4>1. ~Unhandled /\ ~(op.faults > 1)
        BY <2>2, <2>3 DEF Unhandled, Promotes
      <4> QED
        BY <1>6, <4>1, RaiseCounts, EndCounts
    <3> QED
      BY <1>2, <2>1, <2>3, <3>1, Applies
  <2>4. CASE ws # stage[op.tx]
    <3>1. op.step = "check" /\ Raise("error")
      BY <1>1, <1>6, <2>1, <2>4 DEF StandsAt, FinalCheck, MarkCommitted, Clean, At
    <3> QED
      BY <1>3, <2>4, <3>1, RaiseCounts DEF Unhandled
  <2> QED
    BY <2>3, <2>4
<1>7. CASE (\E v \in CopyErrors : Raise(v)) /\ (Refill \/ Displace)
  <2>1. op.step \in {"refill", "displace"} /\ UNCHANGED ws
    <3>1. ~ \E s : Go(s)
      BY <1>7, RaiseCounts, GoesOn DEF SameOperation
    <3> QED
      BY <1>7, <3>1 DEF Refill, Displace, At
  <2>2. Restores(op, ws)
    BY <1>1, <2>1 DEF StandsAt
  <2>3. CASE op.kind = "commit"
    BY <1>3, <1>7, <2>2, <2>3, RaiseCounts DEF Restores, Unhandled
  <2>4. CASE op.kind # "commit"
    <3>1. ~Unhandled /\ ws = op.start
      BY <2>1, <2>2, <2>4 DEF Restores, Unhandled
    <3> QED
      BY <1>4, <1>7, <2>1, <3>1, RaiseCounts
  <2> QED
    BY <2>3, <2>4
<1>8. CASE PutBack /\ (Raise("error") \/ (End("error") /\ ws' = displaced))
  <2>1. op.step = "putback"
    BY <1>8 DEF PutBack, At
  <2>2. IF op.kind = "commit" THEN op.faults > 1 ELSE op.faults = 1 /\ displaced = op.start
    BY <1>1, <2>1 DEF StandsAt
  <2>3. CASE Raise("error")
    <3>1. Unhandled
      BY <1>1, <2>2 DEF Unhandled, InProgress
    <3> QED
      BY <1>3, <2>3, <3>1, RaiseCounts
  <2>4. CASE End("error") /\ ws' = displaced
    BY <1>3, <1>4, <2>2, <2>4, EndCounts
  <2> QED
    BY <1>8, <2>3, <2>4
<1>9. CASE \/ Raise("error") /\ (Drop \/ NoteRolledBack)
           \/ NoteRolledBack /\ End(RestoreVerdict)
  <2>1. op.step \in {"drop", "note"} /\ UNCHANGED ws /\ op' = Idle
    BY <1>9, RaiseCounts, EndCounts DEF Drop, NoteRolledBack, At
  <2>2. /\ Booking(op) /\ ws = manifest[op.receipt].backup
        /\ IF op.kind = "commit" THEN op.faults > 0 ELSE op.faults = 0
    BY <1>1, <2>1 DEF StandsAt
  <2>3. CASE op.kind = "rollback"
    <3>1. spent'.foreign = spent.foreign /\ spent'.incidents = spent.incidents
      <4>1. ~Unhandled /\ ~(op.faults > 1)
        BY <2>1, <2>2, <2>3 DEF Unhandled
      <4> QED
        BY <1>9, <4>1, RaiseCounts, EndCounts
    <3> QED
      BY <1>2, <2>1, <2>3, <3>1, Undoes
  <2>4. CASE op.kind = "commit"
    <3>1. CommitIsBooked(op)
      BY <2>2, <2>4 DEF Booking
    <3>2. op.receipt = op.tx \/ spent.corruption = 0
      <4>1. CASE NoRetries
        BY <1>1, <3>1, <4>1 DEF NoRetries, CommitIsBooked, Exists, InProgress
      <4>2. CASE MaxCorruption = 0
        BY <4>2 DEF Inv, Typed, Spent
      <4> QED
        BY <4>1, <4>2
    <3>3. ws = op.start
      BY <2>2, <3>1, <3>2 DEF CommitIsBooked
    <3>4. CASE Raise("error")
      <4>1. Unhandled
        BY <2>2, <2>4 DEF Unhandled
      <4> QED
        BY <1>3, <3>4, <4>1, RaiseCounts
    <3>5. CASE End(RestoreVerdict)
      BY <1>3, <1>4, <2>1, <3>3, <3>5, EndCounts
    <3> QED
      BY <1>9, <3>4, <3>5
  <2> QED
    BY <1>1, <2>3, <2>4
<1>10. CASE Crash
  <2>1. /\ op' = Idle /\ spent'.foreign = spent.foreign /\ spent'.incidents = spent.incidents + 1
    <3>1. PICK f, c, u, k, n : spent = [foreign |-> f, corruption |-> c, faults |-> u, crashes |-> k,
                                        incidents |-> n]
      BY DEF Inv, Typed, Spent
    <3> QED
      BY <1>10, <3>1 DEF Crash
  <2> QED
    BY <1>3, <2>1
<1>11. "error" \in CopyErrors
  BY DEF CopyErrors
<1> QED
  BY <1>5, <1>6, <1>7, <1>8, <1>9, <1>10, <1>11, Endings

(* Private work offers, a foreign write is foreign, and what is answered at *)
(* once shows nothing.                                                      *)
LEMMA IdleMaps ==
  ASSUME Inv, Inv', Next, op = Idle
  PROVE  (\E t \in Transactions : Atomic!Offer(t)) \/ Atomic!Foreign \/ UNCHANGED TheVars
<1>1. TheTree = ws
  BY DEF TheTree
<1>2. PICK f, c, w, k, n : spent = [foreign |-> f, corruption |-> c, faults |-> w, crashes |-> k,
                                    incidents |-> n]
  BY DEF Inv, Typed, Spent
<1>3. ~CommitStep /\ ~RestoreStep
  BY DEF CommitStep, Backup, Prepare, CopyTemporary, ReplaceTarget, PromotionFails, FinalCheck,
         MarkCommitted, Clean, RestoreStep, Refill, Displace, Install, PutBack, Drop, NoteRolledBack, At
<1>4. session \in [Transactions -> Session] /\ manifest \in [Transactions -> Manifest \cup {NoManifest}]
      /\ ws \in MaybeTree /\ ws' \in MaybeTree
  BY DEF Inv, Typed
<1>5. CASE WorkspaceDrifts
  <2>1. /\ op' = Idle /\ UNCHANGED <<session, manifest>> /\ spent'.foreign = spent.foreign + 1
        /\ spent'.incidents = spent.incidents
    BY <1>2, <1>5 DEF WorkspaceDrifts, privateVars
  <2>2. ws' \in Trees
    <3>1. PICK p \in Paths, x \in ForeignContents : ws' = [ws EXCEPT !.files[p] = x]
      BY <1>5 DEF WorkspaceDrifts
    <3>2. ws \in Trees
      BY <1>4, <1>5 DEF WorkspaceDrifts, MaybeTree
    <3>3. [ws EXCEPT !.files[p] = x] \in Trees
      BY <3>2, TreesStayTrees
    <3> QED
      BY <3>1, <3>3, Zenon
  <2>3. TheTree' \in Trees /\ UNCHANGED <<Offers, Swaps>>
    BY <2>1, <2>2 DEF TheTree, Offers, Swaps
  <2> QED
    BY <2>1, <2>3 DEF Atomic!Foreign, TheTree, Offers, Swaps
<1>6. CASE CorruptPrivateState
  <2>1. /\ op' = Idle /\ UNCHANGED <<ws, session>>
        /\ spent'.foreign = spent.foreign /\ spent'.incidents = spent.incidents
    BY <1>2, <1>6 DEF CorruptPrivateState
  <2>2. \A v \in Transactions : /\ manifest'[v] = NoManifest <=> manifest[v] = NoManifest
                                /\ manifest[v] # NoManifest => /\ manifest'[v].before = manifest[v].before
                                                               /\ manifest'[v].after = manifest[v].after
    <3>1. CASE UNCHANGED manifest
      BY <3>1
    <3>2. CASE \E r \in Transactions, p \in Paths, x \in ForeignContents :
                 manifest[r] # NoManifest /\ manifest' = [manifest EXCEPT ![r].backup.files[p] = x]
      <4>1. PICK r \in Transactions, p \in Paths, x \in ForeignContents :
              manifest[r] # NoManifest /\ manifest' = [manifest EXCEPT ![r].backup.files[p] = x]
        BY <3>2
      <4>2. PICK s, b, a, j : /\ manifest[r] = [status |-> s, before |-> b, after |-> a, backup |-> j]
                              /\ manifest[r] \in Manifest
        BY <1>4, <4>1 DEF Manifest
      <4> DEFINE new == [manifest[r].backup EXCEPT !.files[p] = x]
      <4>3. manifest' = [manifest EXCEPT ![r] = [manifest[r] EXCEPT !.backup = new]]
        BY <4>1, Zenon
      <4> HIDE DEF new
      <4>4. [manifest[r] EXCEPT !.backup = new] = [status |-> s, before |-> b, after |-> a, backup |-> new]
        BY <4>2
      <4>5. /\ manifest'[r] = [status |-> s, before |-> b, after |-> a, backup |-> new]
            /\ \A v \in Transactions \ {r} : manifest'[v] = manifest[v]
            /\ manifest'[r] \in Manifest \cup {NoManifest}
        BY <1>4, <4>3, <4>4 DEF Inv, Typed
      <4>6. manifest'[r] # NoManifest
        <5>1. manifest'[r].status # "none"
          BY <4>2, <4>5 DEF Manifest
        <5> QED
          BY <5>1 DEF NoManifest
      <4> QED
        BY <4>1, <4>2, <4>5, <4>6
    <3> QED
      BY <1>6, <3>1, <3>2 DEF CorruptPrivateState
  <2>3. UNCHANGED <<TheTree, Offers, Swaps>>
    BY <2>1, <2>2 DEF TheTree, Offers, Swaps
  <2> QED
    BY <2>1, <2>3 DEF TheVars
<1>7. CASE Crash \/ Start
  <2>1. op' = Idle /\ UNCHANGED <<ws, session, manifest>>
        /\ spent'.foreign = spent.foreign /\ spent'.incidents = spent.incidents
    <3>1. n \in Nat
      BY <1>2 DEF Inv, Typed, Spent
    <3>2. CASE Crash
      <4>1. spent' = [spent EXCEPT !.crashes = @ + 1, !.incidents = @ + 0]
        BY <3>2 DEF Crash
      <4>2. spent' = [foreign |-> f, corruption |-> c, faults |-> w, crashes |-> k + 1, incidents |-> n + 0]
        BY <1>2, <4>1
      <4> QED
        BY <1>2, <3>1, <3>2, <4>2 DEF Crash, privateVars
    <3>3. CASE Start
      BY <3>3 DEF Start, privateVars
    <3> QED
      BY <1>7, <3>2, <3>3
  <2> QED
    BY <2>1 DEF TheVars, TheTree, Offers, Swaps
<1>8. CASE \E t \in Transactions : Operation(t)
  <2>1. PICK t \in Transactions : Operation(t)
    BY <1>8
  <2>2. UNCHANGED <<ws, manifest>> /\ spent'.foreign = spent.foreign /\ spent'.incidents = spent.incidents
    BY <1>2, <2>1 DEF Operation, Inspect, Stage, Execute, VerifyStaged, Abort, CommitAnswers, CommitBegins,
       Rollback, Reconcile, VerifyCommitted, CopyFails, RemovalFails, privateVars
  <2>3. TheTree' = TheTree
    <3>1. op' = Idle \/ op'.start = ws
      BY <2>1 DEF Operation, Inspect, Stage, Execute, VerifyStaged, Abort, CommitAnswers, CommitBegins, Begin,
         Rollback, Reconcile, VerifyCommitted
    <3> QED
      BY <2>2, <3>1 DEF TheTree
  <2>4. UNCHANGED Swaps
    BY <2>2 DEF Swaps
  <2>5. \A v \in Transactions \ {t} : session'[v] = session[v]
    BY <1>4, <2>1 DEF Operation, Inspect, Stage, Execute, VerifyStaged, Abort, CommitAnswers, CommitBegins,
       Rollback, Reconcile, VerifyCommitted, privateVars
  <2>6. \A v \in Transactions \ {t} : Offers'[v] = Offers[v]
    BY <2>5 DEF Offers
  <2> QED
    BY <2>2, <2>3, <2>4, <2>6 DEF Atomic!Offer, TheTree, Offers, Swaps
<1> QED
  BY <1>3, <1>5, <1>6, <1>7, <1>8 DEF Next, Environment

(* A workspace is changed as a whole or not at all: each step of the        *)
(* adapter is a step of AtomicWorkspace, a compare-and-swap of the whole    *)
(* tree, or nothing that it shows.  Where a backup of an earlier attempt is *)
(* corrupted, and taken over by a retry, this fails.                        *)
THEOREM AdapterImplementsAtomicWorkspace ==
  ASSUME MaxCorruption = 0 \/ NoRetries
  PROVE  Spec => RefinesAtomicWorkspace
<1>1. Init => Atomic!AInit
  <2>1. ASSUME Init
        PROVE  Atomic!AInit
    <3>1. ws \in Trees /\ op = Idle
      BY <2>1, ConstantsAreTyped DEF Init, Trees
    <3>2. /\ \A t \in Transactions : session[t].base = Nothing /\ session[t].staged = Nothing
          /\ \A t \in Transactions : manifest[t] = NoManifest
      BY <2>1 DEF Init
    <3>3. Offers = [t \in Transactions |-> [base |-> Nothing, staged |-> Nothing]]
      BY <3>2 DEF Offers
    <3>4. Swaps = [t \in Transactions |-> [before |-> Nothing, after |-> Nothing]]
      BY <3>2 DEF Swaps
    <3>5. spent.foreign = 0 /\ spent.incidents = 0
      BY <2>1 DEF Init
    <3> QED
      BY <3>1, <3>3, <3>4, <3>5 DEF Offers, Swaps, Atomic!AInit, Atomic!NoSwap
  <2> QED
    BY <2>1
<1>2. Inv /\ Inv' /\ [Next]_vars => [Atomic!ANext]_TheVars
  <2>1. ASSUME Inv, Inv', Next
        PROVE  Atomic!ANext \/ UNCHANGED TheVars
    <3>1. CASE op = Idle
      BY <2>1, <3>1, IdleMaps DEF Atomic!ANext
    <3>2. CASE op # Idle
      BY <2>1, <3>2, GoMaps, EndMaps DEF Atomic!ANext
    <3> QED
      BY <3>1, <3>2
  <2>2. ASSUME UNCHANGED vars
        PROVE  UNCHANGED TheVars
    BY <2>2 DEF vars, TheVars, TheTree, Offers, Swaps
  <2> QED
    BY <2>1, <2>2
<1>3. [Atomic!ANext]_TheVars => [Atomic!ANext]_(Atomic!avars)
  BY DEF TheVars, TheTree, Offers, Swaps, Atomic!avars
<1> QED
  BY <1>1, <1>2, <1>3, OperationsStandWhereTheySay, PTL DEF Spec, RefinesAtomicWorkspace, Atomic!ASpec

-----------------------------------------------------------------------------
(* The registry                                                             *)

Table == _adapters \in [Names -> Registered \cup {NONE}]
RegistryInv == RegistryTypeOK /\ Table /\ ResolvedIsAsAuthorized

-----------------------------------------------------------------------------
LEMMA RegistryInvInit ==
  ASSUME RegistryInit
  PROVE  RegistryInv
<1>1. declared \in [Adapters -> Manifests] /\ answer = NoAnswer BY DEF RegistryInit
<1>2. Table BY DEF RegistryInit, Table
<1>3. \A name \in Names : _adapters[name] = NONE BY DEF RegistryInit
<1> QED BY <1>1, <1>2, <1>3 DEF RegistryInv, RegistryTypeOK, ResolvedIsAsAuthorized

(* A new registration is of the manifest its adapter has, under its name.   *)
LEMMA RegisterKeeps ==
  ASSUME RegistryInv, NEW adapter \in Adapters, NEW reviewed \in BOOLEAN, Register(adapter, reviewed)
  PROVE  RegistryInv'
<1> DEFINE name == declared[adapter].name
           registration == [adapter |-> adapter, manifest_digest |-> declared[adapter], reviewed |-> reviewed]
<1>1. declared \in [Adapters -> Manifests] /\ Table BY DEF RegistryInv, RegistryTypeOK
<1>2. declared[adapter] \in Manifests BY <1>1
<1>3. name \in Names /\ registration \in Registered BY <1>2 DEF Manifests, Registered
<1>4. _adapters' = [_adapters EXCEPT ![name] = registration] BY DEF Register
<1>5. declared' = declared /\ answer' = NoAnswer BY DEF Register
<1>6. Table' BY <1>1, <1>3, <1>4 DEF Table
<1>7. ASSUME NEW n \in Names, _adapters'[n] # NONE
      PROVE  _adapters'[n] \in Registered /\ _adapters'[n].manifest_digest.name = n
  <2>1. CASE n = name
    <3>1. _adapters'[n] = registration BY <1>1, <1>3, <1>4, <2>1 DEF Table
    <3> QED BY <3>1, <1>3, <2>1
  <2>2. CASE n # name
    <3>1. _adapters'[n] = _adapters[n] BY <1>1, <1>4, <2>2 DEF Table
    <3> QED BY <3>1, <1>7 DEF RegistryInv, RegistryTypeOK
  <2> QED BY <2>1, <2>2
<1>8. answer' = NoAnswer /\ NoAnswer' = NoAnswer BY <1>5 DEF NoAnswer
<1>9. RegistryTypeOK' BY <1>1, <1>5, <1>7, <1>8 DEF RegistryTypeOK
<1>10. ResolvedIsAsAuthorized' BY <1>8 DEF ResolvedIsAsAuthorized
<1> QED BY <1>6, <1>9, <1>10 DEF RegistryInv

(* What a resolution returns is a registration that still has its manifest. *)
LEMMA ResolveKeeps ==
  ASSUME RegistryInv, NEW name \in Names, NEW expected \in Manifests, NEW enforcement \in BOOLEAN,
         Resolve(name, expected, enforcement)
  PROVE  RegistryInv'
<1> DEFINE r == _adapters[name]
<1>1. declared \in [Adapters -> Manifests] /\ Table BY DEF RegistryInv, RegistryTypeOK
<1>2. r # NONE BY DEF Resolve, Resolves, IsFree
<1>3. r \in Registered /\ r.manifest_digest.name = name BY <1>2 DEF RegistryInv, RegistryTypeOK
<1>4. r.manifest_digest = expected /\ declared[r.adapter] = r.manifest_digest
  BY DEF Resolve, Resolves, IsPinned
<1>5. enforcement => r.reviewed BY DEF Resolve, Resolves
<1>6. answer' = [adapter |-> r.adapter, name |-> name, expected |-> expected,
                 enforced |-> enforcement, manifest |-> declared[r.adapter]]
  BY DEF Resolve
<1>7. declared' = declared /\ _adapters' = _adapters BY DEF Resolve
<1>8. r.adapter \in Adapters BY <1>3 DEF Registered
<1>9. /\ answer'.adapter = r.adapter /\ answer'.name = name /\ answer'.expected = expected
      /\ answer'.enforced = enforcement /\ answer'.manifest = expected
  BY <1>4, <1>6
<1>10. Table' BY <1>1, <1>7 DEF Table
<1>11. \A n \in Names : _adapters'[n] # NONE =>
         _adapters'[n] \in Registered /\ _adapters'[n].manifest_digest.name = n
  BY <1>7 DEF RegistryInv, RegistryTypeOK
<1>12. RegistryTypeOK' BY <1>1, <1>7, <1>8, <1>9, <1>11 DEF RegistryTypeOK
<1>13. ResolvedIsAsAuthorized'
  <2>1. answer'.manifest = answer'.expected /\ answer'.manifest.name = answer'.name BY <1>3, <1>4, <1>9
  <2>2. /\ _adapters'[name] # NONE /\ _adapters'[name].adapter = answer'.adapter
        /\ _adapters'[name].manifest_digest = answer'.manifest
        /\ answer'.enforced => _adapters'[name].reviewed
    BY <1>2, <1>4, <1>5, <1>7, <1>9
  <2> QED BY <2>1, <2>2 DEF ResolvedIsAsAuthorized
<1> QED BY <1>10, <1>12, <1>13 DEF RegistryInv

LEMMA ChangeKeeps ==
  ASSUME RegistryInv, NEW adapter \in Adapters, ManifestChanges(adapter)
  PROVE  RegistryInv'
<1>1. declared \in [Adapters -> Manifests] /\ Table BY DEF RegistryInv, RegistryTypeOK
<1>2. PICK m \in Manifests : declared' = [declared EXCEPT ![adapter] = m] BY DEF ManifestChanges
<1>3. declared' \in [Adapters -> Manifests] BY <1>1, <1>2
<1>4. _adapters' = _adapters /\ answer' = answer BY DEF ManifestChanges
<1>5. RegistryTypeOK' BY <1>3, <1>4 DEF RegistryInv, RegistryTypeOK, NoAnswer
<1>6. Table' BY <1>1, <1>4 DEF Table
<1>7. ResolvedIsAsAuthorized' BY <1>4 DEF RegistryInv, ResolvedIsAsAuthorized, NoAnswer
<1> QED BY <1>5, <1>6, <1>7 DEF RegistryInv

LEMMA RegistryInvStep ==
  ASSUME RegistryInv, [RegistryNext]_registryVars
  PROVE  RegistryInv'
<1>1. CASE \E adapter \in Adapters, reviewed \in BOOLEAN : Register(adapter, reviewed)
  BY <1>1, RegisterKeeps
<1>2. CASE \E name \in Names, expected \in Manifests, enforcement \in BOOLEAN :
             Resolve(name, expected, enforcement)
  BY <1>2, ResolveKeeps
<1>3. CASE \E adapter \in Adapters : ManifestChanges(adapter)
  BY <1>3, ChangeKeeps
<1>4. CASE UNCHANGED registryVars
  BY <1>4 DEF registryVars, RegistryInv, RegistryTypeOK, Table, ResolvedIsAsAuthorized, NoAnswer
<1> QED BY <1>1, <1>2, <1>3, <1>4 DEF RegistryNext

LEMMA RegistryInvAlways == RegistrySpec => []RegistryInv
<1>1. RegistryInit => RegistryInv BY RegistryInvInit
<1>2. RegistryInv /\ [RegistryNext]_registryVars => RegistryInv' BY RegistryInvStep
<1> QED BY <1>1, <1>2, PTL DEF RegistrySpec

-----------------------------------------------------------------------------
(* The table holds registrations under their own names, whatever names the *)
(* manifests have taken since (AdapterRegistry.register).                   *)
THEOREM RegistryTypeCorrect == RegistrySpec => []RegistryTypeOK
<1>1. RegistryInv => RegistryTypeOK BY DEF RegistryInv
<1> QED BY <1>1, RegistryInvAlways, PTL

(* A resolution returns what its caller was authorized for, as it was       *)
(* admitted and, under enforcement, reviewed (AdapterRegistry.resolve).     *)
THEOREM AuthorizedIsResolved == RegistrySpec => []ResolvedIsAsAuthorized
<1>1. RegistryInv => ResolvedIsAsAuthorized BY DEF RegistryInv
<1> QED BY <1>1, RegistryInvAlways, PTL

(* No adapter is to be had under two names: its manifest has one.           *)
THEOREM AdapterHasOneName == RegistrySpec => []OneNameAtATime
<1>1. RegistryInv => OneNameAtATime
  <2> SUFFICES ASSUME RegistryInv, NEW n1 \in Names, NEW n2 \in Names,
                      NEW d1 \in Manifests, NEW d2 \in Manifests,
                      Resolves(n1, d1, FALSE), Resolves(n2, d2, FALSE),
                      _adapters[n1].adapter = _adapters[n2].adapter
               PROVE  n1 = n2 /\ d1 = d2
    BY DEF OneNameAtATime
  <2>1. _adapters[n1] # NONE /\ _adapters[n2] # NONE BY DEF Resolves, IsFree
  <2>2. _adapters[n1].manifest_digest.name = n1 /\ _adapters[n2].manifest_digest.name = n2
    BY <2>1 DEF RegistryInv, RegistryTypeOK
  <2>3. d1 = declared[_adapters[n1].adapter] /\ d2 = declared[_adapters[n2].adapter]
    BY DEF Resolves, IsPinned
  <2>4. _adapters[n1].manifest_digest = d1 /\ _adapters[n2].manifest_digest = d2
    BY DEF Resolves, IsPinned
  <2> QED BY <2>2, <2>3, <2>4
<1> QED BY <1>1, RegistryInvAlways, PTL

(* Only a name that is free is ever registered, so no digest and no review  *)
(* moves (AdapterRegistry.register).                                        *)
THEOREM AdmissionNeverMoves == RegistrySpec => AdmissionIsFinal
<1> DEFINE Kept == \A name \in Names : _adapters[name] # NONE => _adapters'[name] = _adapters[name]
<1>1. RegistryInv /\ [RegistryNext]_registryVars => [Kept]_registryVars
  <2> SUFFICES ASSUME RegistryInv, RegistryNext, NEW n \in Names, _adapters[n] # NONE
               PROVE  _adapters'[n] = _adapters[n]
    OBVIOUS
  <2>1. CASE \E adapter \in Adapters, reviewed \in BOOLEAN : Register(adapter, reviewed)
    <3>1. PICK adapter \in Adapters, reviewed \in BOOLEAN : Register(adapter, reviewed) BY <2>1
    <3>2. _adapters[declared[adapter].name] = NONE BY <3>1 DEF Register, IsFree
    <3>3. n # declared[adapter].name BY <3>2
    <3> QED BY <3>1, <3>3 DEF Register, RegistryInv, Table
  <2>2. CASE \E name \in Names, expected \in Manifests, enforcement \in BOOLEAN :
               Resolve(name, expected, enforcement)
    BY <2>2 DEF Resolve
  <2>3. CASE \E adapter \in Adapters : ManifestChanges(adapter)
    BY <2>3 DEF ManifestChanges
  <2> QED BY <2>1, <2>2, <2>3 DEF RegistryNext
<1> QED BY <1>1, RegistryInvAlways, PTL DEF RegistrySpec, AdmissionIsFinal

-----------------------------------------------------------------------------
(* The mock adapter                                                         *)

Pcs == {"new", "planned", "staged", "executed", "verified", "rejected", "stale", "done", "aborted"}
EffectReceipt == [transaction : Callers \cup {NoEntry}, before : Nat, after : Nat]
CallRecord == [pc : Pcs, base_version : Nat, base : States, private : States, digest : States,
               receipt : EffectReceipt]
ChangeRecord == [kind : {"commit", "rollback", "foreign"}, by : Callers \cup {NoEntry},
                 before : States, after : States]

MockTyped ==
  /\ state \in States /\ version \in Nat
  /\ call \in [Callers -> CallRecord]
  /\ receipts_by_intent \in [Intents -> Callers \cup {NoEntry}]
  /\ snapshots \in [Callers -> States \cup {NoEntry}]
  /\ changes \in Seq(ChangeRecord)

(* A plan whose version is still that of the target was staged from the     *)
(* state of now: the two are read at different times (mock.py:106, :121).   *)
StagedFromItsBase(c) ==
  /\ c.base_version <= version
  /\ c.pc \in {"staged", "executed", "verified"} /\ c.base_version = version => c.base = state
(* What a commit leaves: a snapshot, a remembered receipt and, as long as   *)
(* the version is the one it made, the state it was to make.                *)
CommitStands(t) ==
  /\ call[t].pc = "done" /\ call[t].receipt.transaction = t
  /\ call[t].receipt.after <= version
  /\ version = call[t].receipt.after => state = call[t].private
  /\ receipts_by_intent[HashOf[t]] = t
(* Whoever holds a receipt holds that of a commit.                          *)
HoldsAReceipt(t) ==
  \E r \in Callers : HasSnapshot(r) /\ call[t].receipt = call[r].receipt

MockInv ==
  /\ MockTyped
  /\ \A t \in Callers : StagedFromItsBase(call[t])
  /\ \A t \in Callers : HasSnapshot(t) => CommitStands(t)
  /\ \A t \in Callers : call[t].pc = "done" => HoldsAReceipt(t)
  /\ \A i \in Intents : receipts_by_intent[i] # NoEntry => HasSnapshot(receipts_by_intent[i])
  /\ ReconcileIsTruthful

-----------------------------------------------------------------------------
(* It holds at first.                                                       *)
LEMMA MockInvInit ==
  ASSUME MockInit
  PROVE  MockInv
<1>1. state \in States
  BY DEF MockInit, States
<1>2. NewCall(state) \in CallRecord
  BY <1>1 DEF NewCall, NoReceipt, CallRecord, EffectReceipt, Pcs
<1>3. MockTyped
  BY <1>1, <1>2 DEF MockInit, MockTyped
<1>4. \A t \in Callers : call[t].pc = "new" /\ call[t].base_version = 0 /\ version = 0
  BY DEF MockInit, NewCall
<1>5. \A t \in Callers : ~HasSnapshot(t)
  BY DEF MockInit, HasSnapshot
<1>6. \A i \in Intents : Commits(i) = {} /\ receipts_by_intent[i] = NoEntry
  BY DEF MockInit, Commits
<1>7. ReconcileIsTruthful
  BY <1>6 DEF ReconcileIsTruthful, ReconcileStatus
<1> QED
  BY <1>3, <1>4, <1>5, <1>6, <1>7 DEF MockInv, StagedFromItsBase

(* Work of one caller before its effect: only what it holds changes.        *)
LEMMA PrivateCall ==
  ASSUME MockInv, NEW t \in Callers, NEW c \in CallRecord, Call(t, c),
         UNCHANGED <<target, receipts_by_intent, snapshots>>,
         call[t].pc # "done", c.pc # "done",
         c.base_version <= version,
         c.pc \in {"staged", "executed", "verified"} /\ c.base_version = version => c.base = state
  PROVE  MockInv' /\ Contract!Offer(t)
<1>1. /\ call' \in [Callers -> CallRecord] /\ call'[t] = c
      /\ \A u \in Callers \ {t} : call'[u] = call[u]
  BY DEF MockInv, MockTyped, Call
<1>2. UNCHANGED <<state, version, changes, receipts_by_intent, snapshots>>
  BY DEF target
<1>3. MockTyped'
  BY <1>1, <1>2 DEF MockInv, MockTyped
<1>4. \A u \in Callers : StagedFromItsBase(call[u])'
  BY <1>1, <1>2 DEF MockInv, StagedFromItsBase
<1>5. \A u \in Callers : HasSnapshot(u)' <=> HasSnapshot(u)
  BY <1>2 DEF HasSnapshot
<1>6. ~HasSnapshot(t)
  BY DEF MockInv, CommitStands
<1>7. \A u \in Callers : HasSnapshot(u)' => CommitStands(u)'
  BY <1>1, <1>2, <1>5, <1>6 DEF MockInv, CommitStands
<1>8. \A u \in Callers : call'[u].pc = "done" => HoldsAReceipt(u)'
  BY <1>1, <1>5, <1>6 DEF MockInv, HoldsAReceipt
<1>9. \A i \in Intents : receipts_by_intent'[i] # NoEntry => HasSnapshot(receipts_by_intent[i])'
  BY <1>2 DEF MockInv, HasSnapshot
<1>10. ReconcileIsTruthful'
  BY <1>2 DEF MockInv, ReconcileIsTruthful, ReconcileStatus, Commits
<1>11. MockInv'
  BY <1>3, <1>4, <1>7, <1>8, <1>9, <1>10 DEF MockInv
<1>12. \A u \in Callers \ {t} : MockOffers'[u] = MockOffers[u]
  BY <1>1 DEF MockOffers, Holds
<1>13. UNCHANGED MockSwaps
  BY <1>1, <1>2, <1>5, <1>6 DEF MockSwaps
<1>14. UNCHANGED <<state, Cardinality(ForeignWrites)>>
  BY <1>2 DEF ForeignWrites
<1>15. Contract!Offer(t)
  BY <1>12, <1>13, <1>14 DEF Contract!Offer
<1> QED
  BY <1>11, <1>15

(* The calls that are such work.                                            *)
LEMMA PrivateCallsKeep ==
  ASSUME MockInv, NEW t \in Callers,
         MockInspect(t) \/ MockStage(t) \/ MockExecute(t) \/ Damage(t) \/ MockVerifyStaged(t)
         \/ CommitRefused(t) \/ MockAbort(t)
  PROVE  MockInv' /\ Contract!Offer(t)
<1>1. call[t] \in CallRecord /\ StagedFromItsBase(call[t]) /\ state \in States /\ version \in Nat
  BY DEF MockInv, MockTyped
<1>2. CASE MockInspect(t)
  <2> DEFINE c == [call[t] EXCEPT !.pc = "planned", !.base_version = version]
  <2>1. c \in CallRecord /\ c.pc = "planned" /\ c.base_version = version
    BY <1>1 DEF CallRecord, Pcs
  <2>2. Call(t, c) /\ call[t].pc = "new" /\ UNCHANGED <<target, receipts_by_intent, snapshots>>
    BY <1>2 DEF MockInspect, Holds, memory
  <2> HIDE DEF c
  <2> QED
    BY <1>1, <2>1, <2>2, PrivateCall
<1>3. CASE MockStage(t)
  <2> DEFINE c == [call[t] EXCEPT !.pc = "staged", !.private = state, !.base = state]
  <2>1. c \in CallRecord /\ c.pc = "staged" /\ c.base = state /\ c.base_version = call[t].base_version
    BY <1>1 DEF CallRecord, Pcs
  <2> QED
    BY <1>1, <1>3, <2>1, PrivateCall DEF MockStage, Holds, memory, StagedFromItsBase
<1>4. CASE MockExecute(t)
  <2> DEFINE updated == Updated(call[t].private, HashOf[t])
             c == [call[t] EXCEPT !.pc = "executed", !.private = updated, !.digest = updated]
  <2>1. updated \in States
    BY <1>1, IntentsAreTyped DEF Updated, CallRecord, States
  <2>2. Call(t, c)
    BY <1>4 DEF MockExecute
  <2> HIDE DEF updated
  <2>3. /\ c \in CallRecord /\ c.pc = "executed" /\ c.base = call[t].base
        /\ c.base_version = call[t].base_version
    BY <1>1, <2>1 DEF CallRecord, Pcs
  <2>4. call[t].pc = "staged" /\ UNCHANGED <<target, receipts_by_intent, snapshots>>
    BY <1>4 DEF MockExecute, Holds
  <2> HIDE DEF c
  <2> QED
    BY <1>1, <2>2, <2>3, <2>4, PrivateCall DEF StagedFromItsBase
<1>5. CASE Damage(t)
  <2>1. PICK k \in Keys : Call(t, [call[t] EXCEPT !.private[k] = ForeignValue])
    BY <1>5 DEF Damage
  <2> DEFINE damaged == [call[t].private EXCEPT ![k] = ForeignValue]
             c == [call[t] EXCEPT !.private = damaged]
  <2>2. damaged \in States
    BY <1>1, IntentsAreTyped DEF CallRecord, States
  <2>3. Call(t, c)
    BY <2>1
  <2> HIDE DEF damaged
  <2>4. /\ c \in CallRecord /\ c.pc = call[t].pc /\ c.base = call[t].base
        /\ c.base_version = call[t].base_version
    BY <1>1, <2>2 DEF CallRecord
  <2>5. call[t].pc = "executed" /\ UNCHANGED <<target, receipts_by_intent, snapshots>>
    BY <1>5 DEF Damage, Holds, memory
  <2> HIDE DEF c
  <2> QED
    BY <1>1, <2>3, <2>4, <2>5, PrivateCall DEF StagedFromItsBase
<1>6. CASE MockVerifyStaged(t) \/ CommitRefused(t) \/ MockAbort(t)
  <2>1. PICK pc \in {"verified", "rejected", "stale", "aborted"} :
          /\ Call(t, [call[t] EXCEPT !.pc = pc])
          /\ pc = "verified" => call[t].pc = "executed"
    BY <1>6 DEF MockVerifyStaged, CommitRefused, MockAbort, Holds
  <2> DEFINE c == [call[t] EXCEPT !.pc = pc]
  <2>2. /\ c \in CallRecord /\ c.pc = pc /\ c.base = call[t].base
        /\ c.base_version = call[t].base_version
    BY <1>1 DEF CallRecord, Pcs
  <2>3. call[t].pc # "done" /\ UNCHANGED <<target, receipts_by_intent, snapshots>>
    BY <1>6 DEF MockVerifyStaged, CommitRefused, MockAbort, Holds, memory
  <2> HIDE DEF c
  <2> QED
    BY <1>1, <2>1, <2>2, <2>3, PrivateCall DEF StagedFromItsBase, c
<1> QED
  BY <1>2, <1>3, <1>4, <1>5, <1>6

(* A commit whose intent is remembered is answered with the same receipt.   *)
LEMMA CommitRepeatsKeeps ==
  ASSUME MockInv, NEW t \in Callers, CommitRepeats(t)
  PROVE  MockInv' /\ Contract!Offer(t)
<1> DEFINE r == Remembered(t)
<1>1. /\ r \in Callers /\ HasSnapshot(r) /\ CommitStands(r)
      /\ call[t] \in CallRecord /\ call[r] \in CallRecord
  BY IntentsAreTyped DEF MockInv, MockTyped, CommitRepeats, Remembered
<1> DEFINE c == [call[t] EXCEPT !.pc = "done", !.receipt = call[r].receipt]
<1>2. /\ c \in CallRecord /\ c.pc = "done" /\ c.receipt = call[r].receipt
      /\ c.base = call[t].base /\ c.private = call[t].private /\ c.base_version = call[t].base_version
  BY <1>1 DEF CallRecord, Pcs
<1>3. /\ call' = [call EXCEPT ![t] = c]
      /\ UNCHANGED <<state, version, changes, receipts_by_intent, snapshots>>
  BY DEF CommitRepeats, Call, target, memory
<1>4. HasSnapshot(t) => r = t
  BY DEF MockInv, CommitStands, Remembered
<1>5. call[t].pc \in {"verified", "stale", "done"}
  BY DEF CommitRepeats, Holds
<1> HIDE DEF c, r
<1>6. /\ call' \in [Callers -> CallRecord] /\ call'[t] = c
      /\ \A u \in Callers \ {t} : call'[u] = call[u]
  BY <1>2, <1>3 DEF MockInv, MockTyped
<1>7. \A u \in Callers : HasSnapshot(u) => /\ call'[u].receipt = call[u].receipt /\ call'[u].pc = "done"
                                          /\ call'[u].private = call[u].private
  BY <1>2, <1>4, <1>6 DEF MockInv, CommitStands
<1>8. \A u \in Callers : HasSnapshot(u)' <=> HasSnapshot(u)
  BY <1>3 DEF HasSnapshot
<1>9. MockTyped'
  BY <1>3, <1>6 DEF MockInv, MockTyped
<1>10. \A u \in Callers : StagedFromItsBase(call[u])'
  BY <1>2, <1>3, <1>6 DEF MockInv, StagedFromItsBase
<1>11. \A u \in Callers : HasSnapshot(u)' => CommitStands(u)'
  BY <1>3, <1>7, <1>8 DEF MockInv, CommitStands
<1>12. \A u \in Callers : call'[u].pc = "done" => HoldsAReceipt(u)'
  <2>1. ASSUME NEW u \in Callers, call'[u].pc = "done"
        PROVE  \E q \in Callers : HasSnapshot(q) /\ call'[u].receipt = call[q].receipt
    BY <1>1, <1>2, <1>6, <2>1 DEF MockInv, HoldsAReceipt
  <2> QED
    BY <1>7, <1>8, <2>1 DEF HoldsAReceipt
<1>13. \A i \in Intents : receipts_by_intent'[i] # NoEntry => HasSnapshot(receipts_by_intent[i])'
  BY <1>3 DEF MockInv, HasSnapshot
<1>14. ReconcileIsTruthful'
  BY <1>3 DEF MockInv, ReconcileIsTruthful, ReconcileStatus, Commits
<1>15. MockInv'
  BY <1>9, <1>10, <1>11, <1>12, <1>13, <1>14 DEF MockInv
<1>16. UNCHANGED MockSwaps
  BY <1>3, <1>7, <1>8 DEF MockSwaps
<1>17. \A u \in Callers \ {t} : MockOffers'[u] = MockOffers[u]
  BY <1>6 DEF MockOffers, Holds
<1>18. UNCHANGED <<state, Cardinality(ForeignWrites)>>
  BY <1>3 DEF ForeignWrites
<1>19. Contract!Offer(t)
  BY <1>16, <1>17, <1>18 DEF Contract!Offer
<1> QED
  BY <1>15, <1>19

-----------------------------------------------------------------------------
(* The history                                                              *)

(* Appending a change adds it, and only it, to the changes of its kind.     *)
LEMMA HistoryGrows ==
  ASSUME MockInv, NEW x \in ChangeRecord, changes' = Append(changes, x)
  PROVE  /\ changes' \in Seq(ChangeRecord)
         /\ \A i \in Intents :
              Commits(i)' = Commits(i) \cup
                            {n \in {Len(changes) + 1} : x.kind = "commit" /\ HashOf[x.by] = i}
         /\ Cardinality(ForeignWrites)' =
              IF x.kind = "foreign" THEN Cardinality(ForeignWrites) + 1 ELSE Cardinality(ForeignWrites)
<1> DEFINE len == Len(changes)
<1>1. changes \in Seq(ChangeRecord)
  BY DEF MockInv, MockTyped
<1>2. /\ changes' \in Seq(ChangeRecord) /\ DOMAIN changes = 1 .. len /\ DOMAIN changes' = 1 .. (len + 1)
      /\ len \in Nat /\ changes'[len + 1] = x /\ \A n \in 1 .. len : changes'[n] = changes[n]
  BY <1>1
<1> HIDE DEF len
<1>3. 1 .. (len + 1) = (1 .. len) \cup {len + 1} /\ len + 1 \notin 1 .. len
  BY <1>2
<1>4. ASSUME NEW i \in Intents
      PROVE  Commits(i)' = Commits(i) \cup {n \in {len + 1} : x.kind = "commit" /\ HashOf[x.by] = i}
  BY <1>2, <1>3 DEF Commits
<1>5. ForeignWrites' = IF x.kind = "foreign" THEN ForeignWrites \cup {len + 1} ELSE ForeignWrites
  BY <1>2, <1>3 DEF ForeignWrites
<1>6. len + 1 \notin ForeignWrites /\ ForeignWrites \in SUBSET (1 .. len)
  BY <1>2, <1>3 DEF ForeignWrites
<1>7. IsFiniteSet(1 .. len)
  <2>1. 1 \in Int /\ len \in Int
    BY <1>2
  <2> QED
    BY <2>1, FS_Interval
<1>8. IsFiniteSet(ForeignWrites)
  BY <1>6, <1>7, FS_Subset
<1>9. Cardinality(ForeignWrites \cup {len + 1}) = Cardinality(ForeignWrites) + 1
  BY <1>6, <1>8, FS_AddElement
<1> QED
  BY <1>2, <1>4, <1>5, <1>9 DEF len

(* A commit is recorded under its intent, other changes under none.         *)
LEMMA ReconcileStays ==
  ASSUME MockInv, NEW x \in ChangeRecord, x.kind # "commit", changes' = Append(changes, x),
         UNCHANGED receipts_by_intent
  PROVE  ReconcileIsTruthful'
<1>1. \A i \in Intents : Commits(i)' = Commits(i)
  BY HistoryGrows
<1> QED
  BY <1>1 DEF MockInv, ReconcileIsTruthful, ReconcileStatus

(* The version moves on: no commit stands for the state any more, and no    *)
(* plan is fresh.                                                           *)
LEMMA VersionMoves ==
  ASSUME MockInv, version' = version + 1, state' \in States,
         NEW x \in ChangeRecord, x.kind # "commit", changes' = Append(changes, x),
         UNCHANGED <<call, receipts_by_intent, snapshots>>
  PROVE  MockInv'
<1>1. version \in Nat /\ \A t \in Callers : call[t] \in CallRecord
  BY DEF MockInv, MockTyped
<1>2. MockTyped'
  BY <1>1, HistoryGrows DEF MockInv, MockTyped
<1>3. \A t \in Callers : call[t].base_version \in Nat /\ call[t].receipt.after \in Nat
  BY <1>1 DEF CallRecord, EffectReceipt
<1>4. \A t \in Callers : StagedFromItsBase(call[t])'
  BY <1>1, <1>3 DEF MockInv, StagedFromItsBase
<1>5. \A t \in Callers : HasSnapshot(t)' => CommitStands(t)'
  BY <1>1, <1>3 DEF MockInv, CommitStands, HasSnapshot
<1>6. \A t \in Callers : call'[t].pc = "done" => HoldsAReceipt(t)'
  BY DEF MockInv, HoldsAReceipt, HasSnapshot
<1>7. \A i \in Intents : receipts_by_intent'[i] # NoEntry => HasSnapshot(receipts_by_intent[i])'
  BY DEF MockInv, HasSnapshot
<1> QED
  BY <1>2, <1>4, <1>5, <1>6, <1>7, ReconcileStays DEF MockInv

(* A writer the adapter does not know.                                      *)
LEMMA ForeignWriteKeeps ==
  ASSUME MockInv, NEW k \in Keys, ForeignWrite(k)
  PROVE  MockInv' /\ Contract!Foreign
<1>1. state \in States
  BY DEF MockInv, MockTyped
<1>2. state' \in States
  BY <1>1, IntentsAreTyped DEF ForeignWrite, States
<1>3. PICK x : x = Change("foreign", NoEntry, state, state')
  OBVIOUS
<1>4. x \in ChangeRecord /\ x.kind = "foreign"
  BY <1>1, <1>2, <1>3 DEF Change, ChangeRecord
<1>5. /\ version' = version + 1 /\ changes' = Append(changes, x)
      /\ UNCHANGED <<call, receipts_by_intent, snapshots>>
  BY <1>3 DEF ForeignWrite, memory
<1>6. MockInv'
  BY <1>2, <1>4, <1>5, VersionMoves
<1>7. Cardinality(ForeignWrites)' = Cardinality(ForeignWrites) + 1
  BY <1>4, <1>5, HistoryGrows
<1>8. UNCHANGED <<MockOffers, MockSwaps>>
  BY <1>5 DEF MockOffers, MockSwaps, Holds, HasSnapshot
<1>9. Contract!Foreign
  BY <1>2, <1>7, <1>8 DEF Contract!Foreign
<1> QED
  BY <1>6, <1>9

(* A rollback swaps back what the commit of the receipt swapped.            *)
LEMMA MockRollbackKeeps ==
  ASSUME MockInv, NEW t \in Callers, MockRollback(t)
  PROVE  MockInv' /\ \E r \in Callers : Contract!Undo(r)
<1>1. PICK r \in Callers : HasSnapshot(r) /\ call[t].receipt = call[r].receipt
  BY DEF MockInv, MockRollback, Holds, HoldsAReceipt
<1>2. CommitStands(r) /\ call[t].receipt.transaction = r /\ version = call[r].receipt.after
  BY <1>1 DEF MockInv, CommitStands, MockRollback
<1>3. state \in States /\ snapshots[r] \in States /\ state = call[r].private
  BY <1>1, <1>2 DEF MockInv, MockTyped, HasSnapshot, CommitStands
<1>4. state' = snapshots[r] /\ version' = version + 1 /\ UNCHANGED <<call, receipts_by_intent, snapshots>>
  BY <1>2 DEF MockRollback, memory
<1>5. PICK x : x = Change("rollback", r, state, state')
  OBVIOUS
<1>6. x \in ChangeRecord /\ x.kind = "rollback" /\ changes' = Append(changes, x)
  BY <1>2, <1>3, <1>4, <1>5 DEF Change, ChangeRecord, MockRollback
<1>7. MockInv'
  BY <1>3, <1>4, <1>6, VersionMoves
<1>8. UNCHANGED <<MockOffers, MockSwaps, Cardinality(ForeignWrites)>>
  BY <1>4, <1>6, HistoryGrows DEF MockOffers, MockSwaps, Holds, HasSnapshot
<1>9. MockSwaps[r] = [before |-> snapshots[r], after |-> call[r].private]
  BY <1>1 DEF MockSwaps
<1>10. MockSwaps[r].before # NoEntry
  BY <1>3, <1>9, NoEntryIsNoData
<1>11. Contract!Undo(r)
  BY <1>3, <1>4, <1>8, <1>9, <1>10 DEF Contract!Undo, Contract!NoSwap
<1> QED
  BY <1>7, <1>11

(* An effect: the plan is fresh and its intent not remembered, so what was  *)
(* staged came from the state of now and no commit of the intent stands.    *)
LEMMA CommitAppliesKeeps ==
  ASSUME MockInv, NEW t \in Callers, CommitApplies(t)
  PROVE  MockInv' /\ Contract!BookAndApply(t)
<1>1. /\ call[t] \in CallRecord /\ state \in States /\ version \in Nat /\ HashOf[t] \in Intents
      /\ call[t].pc = "verified" /\ receipts_by_intent[HashOf[t]] = NoEntry
      /\ version = call[t].base_version
  BY IntentsAreTyped DEF MockInv, MockTyped, CommitApplies, Remembered, Holds
<1>2. call[t].base = state /\ call[t].private \in States
  BY <1>1 DEF MockInv, StagedFromItsBase, CallRecord
<1>3. ~HasSnapshot(t)
  BY <1>1 DEF MockInv, CommitStands
<1>4. \A u \in Callers : HasSnapshot(u) => HashOf[u] # HashOf[t]
  BY <1>1, NoEntryIsNoData DEF MockInv, CommitStands
<1> DEFINE c == [call[t] EXCEPT !.pc = "done", !.receipt = Receipt(t)]
<1>5. Receipt(t) \in EffectReceipt /\ Receipt(t).transaction = t /\ Receipt(t).after = version + 1
  BY <1>1 DEF Receipt, EffectReceipt
<1>6. /\ c \in CallRecord /\ c.pc = "done" /\ c.receipt = Receipt(t)
      /\ c.base = call[t].base /\ c.private = call[t].private /\ c.base_version = version
  BY <1>1, <1>5 DEF CallRecord, Pcs
<1>7. /\ call' = [call EXCEPT ![t] = c]
      /\ state' = call[t].private /\ version' = version + 1
      /\ snapshots' = [snapshots EXCEPT ![t] = state]
      /\ receipts_by_intent' = [receipts_by_intent EXCEPT ![HashOf[t]] = t]
  BY DEF CommitApplies, Call
<1>8. PICK x : x = Change("commit", t, state, state')
  OBVIOUS
<1>9. x \in ChangeRecord /\ x.kind = "commit" /\ x.by = t /\ changes' = Append(changes, x)
  BY <1>1, <1>2, <1>7, <1>8 DEF Change, ChangeRecord, CommitApplies
<1> HIDE DEF c
<1>10. /\ call' \in [Callers -> CallRecord] /\ call'[t] = c
       /\ \A u \in Callers \ {t} : call'[u] = call[u]
  BY <1>6, <1>7 DEF MockInv, MockTyped
<1>11. /\ snapshots' \in [Callers -> States \cup {NoEntry}] /\ snapshots'[t] = state
       /\ \A u \in Callers \ {t} : snapshots'[u] = snapshots[u]
  BY <1>1, <1>7 DEF MockInv, MockTyped
<1>12. /\ receipts_by_intent' \in [Intents -> Callers \cup {NoEntry}]
       /\ receipts_by_intent'[HashOf[t]] = t
       /\ \A i \in Intents \ {HashOf[t]} : receipts_by_intent'[i] = receipts_by_intent[i]
  BY <1>1, <1>7 DEF MockInv, MockTyped
<1>13. HasSnapshot(t)' /\ \A u \in Callers \ {t} : HasSnapshot(u)' <=> HasSnapshot(u)
  BY <1>1, <1>11, NoEntryIsNoData DEF HasSnapshot
<1>14. MockTyped'
  BY <1>1, <1>2, <1>7, <1>9, <1>10, <1>11, <1>12, HistoryGrows DEF MockTyped
<1>15. \A u \in Callers : StagedFromItsBase(call[u])'
  <2>1. \A u \in Callers : call'[u].base_version <= version /\ call'[u].base_version \in Nat
    BY <1>1, <1>6, <1>10 DEF MockInv, MockTyped, StagedFromItsBase, CallRecord
  <2> QED
    BY <1>1, <1>7, <2>1 DEF StagedFromItsBase
<1>16. ASSUME NEW u \in Callers, HasSnapshot(u)'
       PROVE  CommitStands(u)'
  <2>1. CASE u = t
    BY <1>1, <1>5, <1>6, <1>7, <1>10, <1>12, <2>1 DEF CommitStands
  <2>2. CASE u # t
    <3>1. HasSnapshot(u) /\ CommitStands(u) /\ call'[u] = call[u] /\ HashOf[u] \in Intents \ {HashOf[t]}
      BY <1>4, <1>10, <1>13, <1>16, <2>2, IntentsAreTyped DEF MockInv
    <3>2. call[u].receipt.after \in Nat
      BY DEF MockInv, MockTyped, CallRecord, EffectReceipt
    <3> QED
      BY <1>1, <1>7, <1>12, <3>1, <3>2 DEF CommitStands
  <2> QED
    BY <2>1, <2>2
<1>17. ASSUME NEW u \in Callers, call'[u].pc = "done"
       PROVE  HoldsAReceipt(u)'
  <2>1. CASE u = t
    BY <1>13, <2>1 DEF HoldsAReceipt
  <2>2. CASE u # t
    <3>1. PICK q \in Callers : HasSnapshot(q) /\ call[u].receipt = call[q].receipt
      BY <1>10, <1>17, <2>2 DEF MockInv, HoldsAReceipt
    <3> QED
      BY <1>3, <1>10, <1>13, <2>2, <3>1 DEF HoldsAReceipt
  <2> QED
    BY <2>1, <2>2
<1>18. \A i \in Intents : receipts_by_intent'[i] # NoEntry => HasSnapshot(receipts_by_intent[i])'
  BY <1>11, <1>12, <1>13 DEF MockInv, HasSnapshot
<1>19. ReconcileIsTruthful'
  <2>1. Commits(HashOf[t])' # {} /\ \A i \in Intents \ {HashOf[t]} : Commits(i)' = Commits(i)
    BY <1>1, <1>9, HistoryGrows
  <2> QED
    BY <1>12, <2>1, NoEntryIsNoData DEF MockInv, ReconcileIsTruthful, ReconcileStatus
<1>20. MockInv'
  BY <1>14, <1>15, <1>16, <1>17, <1>18, <1>19 DEF MockInv
<1>21. UNCHANGED <<MockOffers, Cardinality(ForeignWrites)>>
  <2>1. UNCHANGED MockOffers
    BY <1>1, <1>6, <1>10 DEF MockOffers, Holds
  <2>2. UNCHANGED Cardinality(ForeignWrites)
    BY <1>9, HistoryGrows
  <2> QED
    BY <2>1, <2>2
<1>22. MockSwaps' = [MockSwaps EXCEPT ![t] = [before |-> state, after |-> MockOffers[t].staged]]
  <2>1. MockOffers[t] = [base |-> call[t].base, staged |-> call[t].private]
    BY <1>1 DEF MockOffers, Holds
  <2>2. MockSwaps'[t] = [before |-> state, after |-> call[t].private]
    BY <1>6, <1>10, <1>11, <1>13 DEF MockSwaps
  <2>3. \A u \in Callers \ {t} : MockSwaps'[u] = MockSwaps[u]
    BY <1>10, <1>11, <1>13 DEF MockSwaps
  <2> DEFINE swapped == [MockSwaps EXCEPT ![t] = [before |-> state, after |-> MockOffers[t].staged]]
  <2>4. \A u \in Callers : MockSwaps'[u] = swapped[u]
    <3>1. DOMAIN MockSwaps = Callers
      BY DEF MockSwaps
    <3>2. MockOffers[t].staged = call[t].private
      BY <2>1
    <3>3. swapped[t] = [before |-> state, after |-> MockOffers[t].staged]
          /\ \A u \in Callers \ {t} : swapped[u] = MockSwaps[u]
      BY <3>1
    <3> QED
      BY <2>2, <2>3, <3>2, <3>3
  <2>5. /\ MockSwaps' = [u \in Callers |-> MockSwaps'[u]] /\ swapped = [u \in Callers |-> swapped[u]]
    BY DEF MockSwaps
  <2> QED
    BY <2>4, <2>5
<1>23. MockSwaps[t] = [before |-> NoEntry, after |-> NoEntry]
  BY <1>3 DEF MockSwaps
<1>24. MockOffers[t].base = state /\ MockOffers[t].staged = state'
  BY <1>1, <1>2, <1>7 DEF MockOffers, Holds
<1>25. Contract!BookAndApply(t)
  BY <1>21, <1>22, <1>23, <1>24 DEF Contract!BookAndApply, Contract!NoSwap
<1> QED
  BY <1>20, <1>25

-----------------------------------------------------------------------------
(* Every step keeps the invariant, and is a step of the contract.           *)
LEMMA MockInvStep ==
  ASSUME MockInv, [MockNext]_mockVars
  PROVE  MockInv' /\ (Contract!ANext \/ UNCHANGED <<state, MockOffers, MockSwaps, Cardinality(ForeignWrites)>>)
<1>1. CASE \E t \in Callers : MockInspect(t) \/ MockStage(t) \/ MockExecute(t) \/ Damage(t) \/ MockVerifyStaged(t)
                              \/ CommitRefused(t) \/ MockAbort(t)
  BY <1>1, PrivateCallsKeep DEF Contract!ANext
<1>2. CASE \E t \in Callers : CommitRepeats(t)
  BY <1>2, CommitRepeatsKeeps DEF Contract!ANext
<1>3. CASE \E t \in Callers : CommitApplies(t)
  BY <1>3, CommitAppliesKeeps DEF Contract!ANext
<1>4. CASE \E t \in Callers : MockRollback(t)
  BY <1>4, MockRollbackKeeps DEF Contract!ANext
<1>5. CASE \E k \in Keys : ForeignWrite(k)
  BY <1>5, ForeignWriteKeeps DEF Contract!ANext
<1>6. CASE UNCHANGED mockVars
  <2>1. UNCHANGED <<state, version, changes, call, receipts_by_intent, snapshots>>
    BY <1>6 DEF mockVars, target, memory
  <2>2. MockInv'
    BY <2>1 DEF MockInv, MockTyped, StagedFromItsBase, HasSnapshot, CommitStands, HoldsAReceipt,
       ReconcileIsTruthful, ReconcileStatus, Commits
  <2> QED
    BY <2>1, <2>2 DEF MockOffers, MockSwaps, ForeignWrites, Holds, HasSnapshot
<1> QED
  BY <1>1, <1>2, <1>3, <1>4, <1>5, <1>6 DEF MockNext

(* For any callers and intents, repeated commits, rollbacks and writes of   *)
(* others: reconcile says NO_EFFECT of an intent exactly when no commit of  *)
(* it ever changed the target.                                              *)
THEOREM MockReconcilesTruthfully == MockSpec => []ReconcileIsTruthful
<1>1. MockInit => MockInv
  BY MockInvInit
<1>2. MockInv /\ [MockNext]_mockVars => MockInv'
  BY MockInvStep
<1>3. MockInv => ReconcileIsTruthful
  BY DEF MockInv
<1> QED
  BY <1>1, <1>2, <1>3, PTL DEF MockSpec

(* The mock adapter is an atomic workspace without incidents: a commit      *)
(* books and swaps the state it was staged from, a rollback undoes it only  *)
(* while it stands, and all else is private.                                *)
THEOREM MockImplementsAtomicWorkspace == MockSpec => MockRefinesAtomicWorkspace
<1>1. MockInit => MockInv
  BY MockInvInit
<1>2. MockInit => Contract!AInit
  <2>1. ASSUME MockInit
        PROVE  Contract!AInit
    <3>1. state \in States /\ \A t \in Callers : ~HasSnapshot(t) /\ call[t].pc = "new"
      BY <2>1, MockInvInit DEF MockInit, NewCall, HasSnapshot, MockInv, MockTyped
    <3>2. /\ MockOffers = [t \in Callers |-> [base |-> NoEntry, staged |-> NoEntry]]
          /\ MockSwaps = [t \in Callers |-> [before |-> NoEntry, after |-> NoEntry]]
      BY <3>1 DEF MockOffers, MockSwaps, Holds
    <3>3. Cardinality(ForeignWrites) = 0
      <4>1. ForeignWrites = {}
        BY <2>1 DEF MockInit, ForeignWrites
      <4> QED
        BY <4>1, FS_EmptySet
    <3> QED
      BY <3>1, <3>2, <3>3 DEF Contract!AInit, Contract!NoSwap
  <2> QED
    BY <2>1
<1>3. MockInv /\ [MockNext]_mockVars => MockInv' /\ [Contract!ANext]_(Contract!avars)
  BY MockInvStep DEF Contract!avars
<1> QED
  BY <1>1, <1>2, <1>3, PTL DEF MockSpec, MockRefinesAtomicWorkspace, Contract!ASpec
=============================================================================
