------------------------- MODULE FilesystemAdapter -------------------------
(***************************************************************************)
(* The filesystem effect adapter of                                        *)
(* src/agentkernel/adapters/filesystem.py: one workspace directory, the    *)
(* private stages, and the durable recovery metadata beside it.            *)
(*                                                                         *)
(* Its methods never await, so operations do not interleave in a process.  *)
(* A mutating operation is a sequence of filesystem calls; a step is one   *)
(* of them, and between any two the process may crash and be started       *)
(* again.  A call may fail (an I/O error or a cancellation).  A writer the *)
(* adapter does not know may change the workspace between operations.      *)
(* Inside one nothing keeps it out, so that the swap of a workspace it     *)
(* writes to is not atomic: that is left out.                              *)
(*                                                                         *)
(* A digest is collision free, so a tree stands for its digest.  A         *)
(* receipt, and its recovery directory, are named by the transaction that  *)
(* created them.  What is only read back from disk at start (the two maps  *)
(* of manifests) is not kept twice: `manifest' is the disk.                *)
(***************************************************************************)
EXTENDS Naturals, Sequences, FiniteSets

CONSTANTS
  Transactions,      \* the proposals handed to the adapter, one each
  IntentOf,          \* intent hash of the proposal of a transaction
  WritesOf,          \* `files' argument of an intent: some paths to contents
  PathOrder,         \* the paths in sorted order
  Contents,          \* what a file may hold
  Absent,            \* what a path holds where there is no file
  InitialFiles,      \* the workspace at first
  ForeignContents,   \* what the unknown writer may write
  Nothing,           \* no tree: a directory that does not exist
  MaxForeign,        \* bound: writes of the unknown writer
  MaxCorruption,     \* bound: corruptions of private state
  MaxFaults,         \* bound: failing filesystem calls
  MaxCrashes         \* bound: crashes of the process

Paths == {PathOrder[i] : i \in DOMAIN PathOrder}
NoManifest == [status |-> "none"]
Idle == [kind |-> "none"]
NoReply == [verdict |-> "none"]

VARIABLES
  ws,           \* the authoritative workspace, or Nothing
  stage,        \* the private staging tree of each transaction
  session,      \* what the caller holds: the plan's base, the staged digest
  manifest,     \* recovery metadata by receipt, with its backup tree
  replacement,  \* copy of a backup, about to become the workspace
  displaced,    \* the workspace, moved away by a restore
  up,           \* an adapter is running
  op,           \* the operation in progress
  reply,        \* how the last operation ended
  spent         \* how much of every bound is used up

vars == <<ws, stage, session, manifest, replacement, displaced, up, op, reply, spent>>

-----------------------------------------------------------------------------
(* Trees.  `temps' are the temporary files an interrupted replacement left  *)
(* behind: they are in the tree, so they are in its digest.                 *)

MaxIncidents == MaxFaults + MaxCrashes
Trees == [files : [Paths -> Contents \cup {Absent}], temps : SUBSET (0 .. MaxIncidents)]

ASSUME ConstantsAreTyped ==
  /\ InitialFiles \in [Paths -> Contents \cup {Absent}]
  /\ \A t \in Transactions : \A p \in Paths :
       p \in DOMAIN WritesOf[IntentOf[t]] => WritesOf[IntentOf[t]][p] \in Contents
  /\ ForeignContents \subseteq Contents
ASSUME BoundsAreNaturals == {MaxForeign, MaxCorruption, MaxFaults, MaxCrashes} \subseteq Nat
\* no receipt is named "none", and a directory that does not exist is no tree
ASSUME NamesAreDistinct == "none" \notin Transactions /\ Nothing \notin Trees

Written(tree, i) ==
  [tree EXCEPT !.files = [p \in Paths |-> IF p \in DOMAIN WritesOf[i] THEN WritesOf[i][p] ELSE @[p]]]

(* diff_snapshots, less the deletions that the promotion skips *)
Changed(before, after) ==
  SelectSeq(PathOrder, LAMBDA p : after.files[p] \notin {before.files[p], Absent})

Existing(i) == {r \in Transactions : manifest[r] # NoManifest /\ IntentOf[r] = i}

RecoveryByIntent(i) == Existing(i)

-----------------------------------------------------------------------------
(* Control                                                                  *)

Ready == up /\ op = Idle /\ ws # Nothing
At(s) == up /\ op # Idle /\ op.step = s
Rest(o) == [o EXCEPT !.todo = Tail(@)]
Go(s) == op' = [op EXCEPT !.step = s] /\ UNCHANGED reply
Answer(t, kind, verdict, receipt) ==
  reply' = [tx |-> t, kind |-> kind, verdict |-> verdict, receipt |-> receipt]
End(verdict) ==
  /\ op' = Idle
  /\ Answer(op.tx, op.kind, verdict, op.receipt)
  /\ spent' = [spent EXCEPT !.incidents = @ + (IF op.faults > 1 THEN 1 ELSE 0)]

(* a filesystem call fails, and the operation goes on with its handler ... *)
Fault == spent.faults < MaxFaults
Handle(s) ==
  /\ Fault
  /\ op' = [op EXCEPT !.step = s, !.faults = @ + 1]
  /\ spent' = [spent EXCEPT !.faults = @ + 1]
  /\ UNCHANGED reply
(* ... or ends with that error; the final comparison has no handler, and    *)
(* may fail over a tree that is not the staged one                          *)
Unhandled == op.faults > 0 \/ (op.step = "check" /\ ws # stage[op.tx])
Raise(verdict) ==
  /\ Fault
  /\ op' = Idle
  /\ Answer(op.tx, op.kind, verdict, op.receipt)
  /\ spent' = [spent EXCEPT !.faults = @ + 1,
                            !.incidents = @ + (IF Unhandled THEN 1 ELSE 0)]

privateVars == <<stage, session>>
asideVars == <<replacement, displaced>>

-----------------------------------------------------------------------------
(* Private work                                                             *)

(* what a failing copy of a tree raises: an I/O error, or STALE_STATE where *)
(* the copy, read again, is not the tree it was made of                     *)
CopyErrors == {"error", "STALE_STATE"}

(* a failing copy removes what it has copied *)
CopyFails == Fault /\ spent' = [spent EXCEPT !.faults = @ + 1]

(* a tree that cannot be removed is reported *)
RemovalFails == Fault /\ spent' = [spent EXCEPT !.faults = @ + 1]

(* plan.base_version is the snapshot of this moment *)
Inspect(t) ==
  /\ Ready /\ session[t].phase = "new"
  /\ session' = [session EXCEPT ![t] = [phase |-> "inspected", base |-> ws, staged |-> Nothing]]
  /\ UNCHANGED <<ws, stage, manifest, asideVars, up, op, reply, spent>>

(* stage copies the workspace as it is now, not as inspect saw it *)
Stage(t) ==
  /\ Ready /\ session[t].phase = "inspected"
  /\ \/ /\ stage' = [stage EXCEPT ![t] = ws]
        /\ session' = [session EXCEPT ![t].phase = "staged"]
        /\ UNCHANGED spent
     \/ /\ CopyFails
        /\ session' = [session EXCEPT ![t].phase = "done"]
        /\ UNCHANGED stage
  /\ UNCHANGED <<ws, manifest, asideVars, up, op, reply>>

(* a failure in the middle leaves a stage that can only be aborted *)
Execute(t) ==
  /\ up /\ op = Idle /\ session[t].phase = "staged" /\ stage[t] # Nothing
  /\ \/ LET result == Written(stage[t], IntentOf[t]) IN
          /\ stage' = [stage EXCEPT ![t] = result]
          /\ session' = [session EXCEPT ![t].phase = "executed", ![t].staged = result]
          /\ UNCHANGED spent
     \/ /\ Fault /\ spent' = [spent EXCEPT !.faults = @ + 1]
        /\ session' = [session EXCEPT ![t].phase = "failed"]
        /\ UNCHANGED stage
  /\ UNCHANGED <<ws, manifest, asideVars, up, op, reply>>

VerifyStaged(t) ==
  /\ up /\ op = Idle /\ session[t].phase = "executed"
  /\ session' = [session EXCEPT ![t].phase =
                   IF stage[t] = session[t].staged THEN "verified" ELSE "failed"]
  /\ UNCHANGED <<ws, stage, manifest, asideVars, up, op, reply, spent>>

(* discards the stage, or reports that it could not *)
Abort(t) ==
  /\ Ready /\ session[t].phase \in {"staged", "executed", "verified", "failed"}
  /\ session' = [session EXCEPT ![t].phase = "done"]
  /\ \/ /\ stage' = [stage EXCEPT ![t] = Nothing]
        /\ Answer(t, "abort", "PASS", "none")
        /\ UNCHANGED spent
     \/ /\ RemovalFails
        /\ Answer(t, "abort", "ERROR", "none")
        /\ UNCHANGED stage
  /\ UNCHANGED <<ws, manifest, asideVars, up, op>>

-----------------------------------------------------------------------------
(* commit                                                                   *)

Promoting(todo) == IF todo = <<>> THEN "check" ELSE "copy"
Todo(t) == Changed(ws, stage[t])

Begin(t, kind, step, r, todo) ==
  op' = [kind |-> kind, tx |-> t, step |-> step, receipt |-> r, start |-> ws,
         todo |-> todo, copy |-> Nothing, verdict |-> "none", faults |-> 0]

(* what commit answers at once, before it touches anything *)
Refusal(t) ==
  CASE \E r \in RecoveryByIntent(IntentOf[t]) : ws # manifest[r].before -> "EXTERNAL_RESULT_IN_DOUBT"
    [] OTHER ->
       CASE ws # session[t].base -> "STALE_STATE"
         [] stage[t] = Nothing -> "INTEGRITY_ERROR"
         [] stage[t] # session[t].staged -> "VERIFICATION_FAILED"
         [] OTHER -> "none"

Bug_TrustManifest(t) == RecoveryByIntent(IntentOf[t])
Committed(t) == {r \in RecoveryByIntent(IntentOf[t]) : ws = manifest[r].after}

CommitAnswers(t) ==
  /\ Ready /\ session[t].phase = "verified"
  /\ \/ \E r \in Committed(t) : Answer(t, "commit", "receipt", r)
     \/ /\ Committed(t) = {} /\ Refusal(t) # "none"
        /\ Answer(t, "commit", Refusal(t), "none")
  /\ session' = [session EXCEPT ![t].phase = IF reply'.receipt = "none" THEN "failed" ELSE "done"]
  /\ UNCHANGED <<ws, stage, manifest, asideVars, up, op, spent>>

CommitBegins(t) ==
  /\ Ready /\ session[t].phase = "verified"
  /\ Committed(t) = {} /\ Refusal(t) = "none"
  /\ LET existing == RecoveryByIntent(IntentOf[t]) IN
       \/ existing = {} /\ Begin(t, "commit", "backup", "none", Todo(t))
       \/ \E r \in existing : Begin(t, "commit", Promoting(Todo(t)), r, Todo(t))
  /\ session' = [session EXCEPT ![t].phase = "done"]
  /\ reply' = NoReply
  /\ UNCHANGED <<ws, stage, manifest, asideVars, up, spent>>

(* the backup is private until a manifest names it; a failing copy is the   *)
(* verdict of the commit, which has not touched the workspace yet           *)
Backup ==
  /\ At("backup")
  /\ \/ /\ op' = [op EXCEPT !.step = "prepare", !.copy = ws]
        /\ UNCHANGED <<reply, spent>>
     \/ \E v \in CopyErrors : Raise(v)
  /\ UNCHANGED <<ws, privateVars, manifest, asideVars, up>>

Prepared ==
  [status |-> "PREPARED", before |-> op.start, after |-> session[op.tx].staged, backup |-> op.copy]

Bug_PromoteUnprepared ==
  /\ At("prepare")
  /\ op' = [op EXCEPT !.step = Promoting(op.todo), !.receipt = op.tx]
  /\ UNCHANGED <<ws, privateVars, manifest, asideVars, up, reply, spent>>

Prepare ==
  /\ At("prepare")
  /\ \/ /\ manifest' = [manifest EXCEPT ![op.tx] = Prepared]
        /\ op' = [op EXCEPT !.step = Promoting(op.todo), !.receipt = op.tx]
        /\ UNCHANGED <<reply, spent>>
     \/ Raise("error") /\ UNCHANGED manifest
  /\ UNCHANGED <<ws, privateVars, asideVars, up>>

Temporary == spent.faults + spent.crashes

CopyTemporary ==
  /\ At("copy")
  /\ ws' = [ws EXCEPT !.temps = @ \cup {Temporary}]
  /\ Go("replace")
  /\ UNCHANGED <<privateVars, manifest, asideVars, up, spent>>

ReplaceTarget ==
  /\ At("replace")
  /\ LET p == Head(op.todo) IN
       ws' = [ws EXCEPT !.files[p] = stage[op.tx].files[p], !.temps = @ \ {Temporary}]
  /\ op' = [Rest(op) EXCEPT !.step = Promoting(Tail(op.todo))]
  /\ UNCHANGED <<privateVars, manifest, asideVars, up, reply, spent>>

Bug_LeavePromotionMixed ==
  /\ At("copy") \/ At("replace")
  /\ Raise("error")
  /\ UNCHANGED <<ws, privateVars, manifest, asideVars, up>>

(* any failure of the promotion goes to the restore *)
PromotionFails ==
  /\ At("copy") \/ At("replace")
  /\ Fault
  /\ op' = [op EXCEPT !.step = "refill", !.verdict = "error", !.faults = @ + 1]
  /\ spent' = [spent EXCEPT !.faults = @ + 1]
  /\ UNCHANGED <<ws, privateVars, manifest, asideVars, up, reply>>

Bug_FinalFailureIsStale ==
  /\ At("check")
  /\ \/ ws = stage[op.tx] /\ Go("mark") /\ UNCHANGED spent
     \/ Raise("STALE_STATE")
  /\ UNCHANGED <<ws, privateVars, manifest, asideVars, up>>

(* the snapshot of the final comparison is outside the handler *)
FinalCheck ==
  /\ At("check")
  /\ \/ ws = stage[op.tx] /\ Go("mark") /\ UNCHANGED spent
     \/ /\ ws # stage[op.tx]
        /\ op' = [op EXCEPT !.step = "refill", !.verdict = "VERIFICATION_FAILED", !.faults = @ + 1]
        /\ UNCHANGED <<reply, spent>>
     \/ Raise("error")
  /\ UNCHANGED <<ws, privateVars, manifest, asideVars, up>>

MarkCommitted ==
  /\ At("mark")
  /\ \/ /\ manifest' = [manifest EXCEPT ![op.receipt].status = "COMMITTED"]
        /\ Go("clean") /\ UNCHANGED spent
     \/ Raise("error") /\ UNCHANGED manifest
  /\ UNCHANGED <<ws, privateVars, asideVars, up>>

Clean ==
  /\ At("clean")
  /\ \/ End("receipt") /\ stage' = [stage EXCEPT ![op.tx] = Nothing]
     \/ Raise("EXTERNAL_RESULT_IN_DOUBT") /\ UNCHANGED stage
  /\ UNCHANGED <<ws, session, manifest, asideVars, up>>

-----------------------------------------------------------------------------
(* _restore_backup, inside a commit that failed and inside a rollback       *)

BackupOf == manifest[op.receipt].backup

Bug_DisplaceFirst ==
  /\ At("refill")
  /\ displaced' = ws /\ ws' = Nothing
  /\ Go("install")
  /\ UNCHANGED <<privateVars, manifest, replacement, up, spent>>

(* a failing copy of the backup replaces the verdict of the commit whose    *)
(* handler this is in: STALE_STATE may leave a workspace that is promoted   *)
Refill ==
  /\ At("refill")
  /\ \/ replacement' = BackupOf /\ Go("displace") /\ UNCHANGED spent
     \/ (\E v \in CopyErrors : Raise(v)) /\ UNCHANGED replacement
  /\ UNCHANGED <<ws, privateVars, manifest, displaced, up>>

Displace ==
  /\ At("displace")
  /\ \/ displaced' = ws /\ ws' = Nothing /\ Go("install") /\ UNCHANGED <<replacement, spent>>
     \/ Raise("error") /\ replacement' = Nothing /\ UNCHANGED <<ws, displaced>>
  /\ UNCHANGED <<privateVars, manifest, up>>

Install ==
  /\ At("install")
  /\ \/ ws' = replacement /\ Go("drop") /\ UNCHANGED spent
     \/ Handle("putback") /\ UNCHANGED ws
  /\ UNCHANGED <<privateVars, manifest, asideVars, up>>

PutBack ==
  /\ At("putback")
  /\ \/ ws' = displaced /\ End("error") /\ displaced' = Nothing /\ replacement' = Nothing
     \/ Raise("error") /\ UNCHANGED <<ws, asideVars>>
  /\ UNCHANGED <<privateVars, manifest, up>>

(* what is left of the displaced tree after a failure is never read again *)
Drop ==
  /\ At("drop")
  /\ displaced' = Nothing /\ replacement' = Nothing
  /\ \/ Go("note") /\ UNCHANGED spent
     \/ Raise("error")
  /\ UNCHANGED <<ws, privateVars, manifest, up>>

RestoreVerdict ==
  CASE op.kind = "commit" -> op.verdict
    [] ws = BackupOf -> "PASS"
    [] OTHER -> "FAIL"

NoteRolledBack ==
  /\ At("note")
  /\ \/ /\ manifest' = [manifest EXCEPT ![op.receipt].status = "ROLLED_BACK"]
        /\ End(RestoreVerdict)
     \/ Raise("error") /\ UNCHANGED manifest
  /\ UNCHANGED <<ws, privateVars, asideVars, up>>

-----------------------------------------------------------------------------
(* rollback, reconcile, verify_committed                                    *)

(* receipts a caller may hold: those the journal recorded *)
Booked(r) == manifest[r] # NoManifest

Bug_RollbackLaterWork(r) ==
  IF manifest[r].backup # manifest[r].before THEN "ERROR" ELSE "none"
RollbackRefusal(r) ==
  CASE ws # manifest[r].after -> "UNKNOWN"
    [] manifest[r].backup # manifest[r].before -> "ERROR"
    [] OTHER -> "none"

Rollback(r) ==
  /\ Ready /\ Booked(r)
  /\ LET refusal == RollbackRefusal(r) IN
       \/ /\ refusal # "none"
          /\ Answer(r, "rollback", refusal, r)
          /\ UNCHANGED op
       \/ /\ refusal = "none"
          /\ Begin(r, "rollback", "refill", r, <<>>)
          /\ reply' = NoReply
  /\ UNCHANGED <<ws, privateVars, manifest, asideVars, up, spent>>

Reconcile(t) ==
  /\ Ready
  /\ LET existing == RecoveryByIntent(IntentOf[t]) IN
       \/ existing = {} /\ Answer(t, "reconcile", "NO_EFFECT", "none")
       \/ \E r \in existing :
            Answer(t, "reconcile",
                   CASE ws = manifest[r].after -> "COMMITTED"
                     [] ws = manifest[r].before -> "NO_EFFECT"
                     [] OTHER -> "PARTIAL_OR_INVALID", r)
  /\ UNCHANGED <<ws, privateVars, manifest, asideVars, up, op, spent>>

VerifyCommitted(r) ==
  /\ Ready /\ Booked(r)
  /\ Answer(r, "verify", IF ws = manifest[r].after THEN "PASS" ELSE "FAIL", r)
  /\ UNCHANGED <<ws, privateVars, manifest, asideVars, up, op, spent>>

-----------------------------------------------------------------------------
(* The environment                                                          *)

WorkspaceDrifts ==
  /\ up /\ op = Idle /\ ws # Nothing /\ spent.foreign < MaxForeign
  /\ \E p \in Paths, c \in ForeignContents : ws' = [ws EXCEPT !.files[p] = c]
  /\ spent' = [spent EXCEPT !.foreign = @ + 1]
  /\ UNCHANGED <<privateVars, manifest, asideVars, up, op, reply>>

CorruptPrivateState ==
  /\ up /\ op = Idle /\ spent.corruption < MaxCorruption
  /\ spent' = [spent EXCEPT !.corruption = @ + 1]
  /\ \E p \in Paths, c \in ForeignContents :
       \/ \E t \in Transactions :
            /\ stage[t] # Nothing
            /\ stage' = [stage EXCEPT ![t].files[p] = c]
            /\ UNCHANGED manifest
       \/ \E r \in Transactions :
            /\ manifest[r] # NoManifest
            /\ manifest' = [manifest EXCEPT ![r].backup.files[p] = c]
            /\ UNCHANGED stage
  /\ UNCHANGED <<ws, session, asideVars, up, op, reply>>

Crash ==
  /\ up /\ spent.crashes < MaxCrashes
  /\ up' = FALSE /\ op' = Idle /\ reply' = NoReply
  /\ spent' = [spent EXCEPT !.crashes = @ + 1,
                            !.incidents = @ + (IF op = Idle THEN 0 ELSE 1)]
  /\ UNCHANGED <<ws, privateVars, manifest, asideVars>>

(* the constructor: the workspace must exist, an intent have one manifest *)
Start ==
  /\ ~up /\ ws # Nothing
  /\ \A i \in {IntentOf[t] : t \in Transactions} : Cardinality(Existing(i)) <= 1
  /\ up' = TRUE
  /\ UNCHANGED <<ws, privateVars, manifest, asideVars, op, reply, spent>>

Init ==
  /\ ws = [files |-> InitialFiles, temps |-> {}]
  /\ stage = [t \in Transactions |-> Nothing]
  /\ session = [t \in Transactions |-> [phase |-> "new", base |-> Nothing, staged |-> Nothing]]
  /\ manifest = [t \in Transactions |-> NoManifest]
  /\ replacement = Nothing /\ displaced = Nothing
  /\ up = TRUE /\ op = Idle /\ reply = NoReply
  /\ spent = [foreign |-> 0, corruption |-> 0, faults |-> 0, crashes |-> 0, incidents |-> 0]

CommitStep ==
  \/ Backup \/ Prepare \/ CopyTemporary \/ ReplaceTarget \/ PromotionFails
  \/ FinalCheck \/ MarkCommitted \/ Clean
RestoreStep == Refill \/ Displace \/ Install \/ PutBack \/ Drop \/ NoteRolledBack
Operation(t) ==
  \/ Inspect(t) \/ Stage(t) \/ Execute(t) \/ VerifyStaged(t) \/ Abort(t)
  \/ CommitAnswers(t) \/ CommitBegins(t)
  \/ Rollback(t) \/ Reconcile(t) \/ VerifyCommitted(t)
Environment == WorkspaceDrifts \/ CorruptPrivateState \/ Crash \/ Start

Next == CommitStep \/ RestoreStep \/ Environment \/ \E t \in Transactions : Operation(t)

Spec == Init /\ [][Next]_vars

-----------------------------------------------------------------------------
(* Properties                                                               *)

(* Before a commit touches the workspace, a durable manifest names a backup *)
(* of it as it was: whatever the commit does next, and wherever the process *)
(* dies, the tree from before can be had back.                              *)
MutationIsJournaled ==
  op # Idle /\ op.kind = "commit" /\ ws # op.start =>
    /\ op.receipt # "none"
    /\ manifest[op.receipt] # NoManifest
    /\ manifest[op.receipt].before = op.start
    /\ manifest[op.receipt].backup = op.start

(* While the workspace is moved away, both the tree it had and the one it   *)
(* is to have are complete on disk, also after a crash or a second failure. *)
NothingIsLost ==
  ws = Nothing =>
    /\ displaced # Nothing
    /\ \E r \in Transactions : manifest[r] # NoManifest /\ replacement \in {manifest[r].before, manifest[r].backup}

(* A receipt is handed out only where the workspace is what it says: a      *)
(* verification of it passes (the postcondition of write_scoped_files).     *)
ReceiptIsTrue ==
  [][ reply' # reply /\ reply'.verdict \in {"receipt", "COMMITTED"} =>
        ws' = manifest'[reply'.receipt].after ]_vars

(* A receipt is handed out only over a whole effect: the tree the receipt   *)
(* names, or, where a commit resumes the receipt of an earlier attempt at   *)
(* its intent, the tree that this commit staged, over the tree from before  *)
(* that attempt.                                                            *)
ReceiptIsWhole ==
  [][ reply' # reply /\ reply'.verdict \in {"receipt", "COMMITTED"} =>
        \/ ws' = manifest'[reply'.receipt].after
        \/ /\ reply'.kind = "commit" /\ reply'.receipt # reply'.tx
           /\ ws' = session[reply'.tx].staged
           /\ session[reply'.tx].base = manifest[reply'.receipt].before ]_vars

(* A rollback destroys nothing: from the moment it starts to its end, the   *)
(* workspace goes from the tree after the effect to the tree before it, and *)
(* PASS is said only of the latter.                                         *)
RollbackRestores ==
  [][ op # Idle /\ op.kind = "rollback" /\ op' = Idle =>
        /\ op.start = manifest[op.receipt].after
        /\ reply'.verdict = "PASS" => ws' = manifest[op.receipt].before ]_vars

(* STALE_STATE is raised only where the commit has changed nothing          *)
(* (base.py: the coordinator ends the transaction as without effect).       *)
StaleMeansNoEffect ==
  [][ op # Idle /\ op' = Idle /\ reply'.verdict = "STALE_STATE" => ws' = op.start ]_vars

(* STALE_STATE over a workspace that the commit has changed is the second   *)
(* failure of that commit, in the restore, and the tree from before it can  *)
(* still be told: a durable manifest says what the workspace was.          *)
StaleIsBooked ==
  [][ op # Idle /\ op' = Idle /\ reply'.verdict = "STALE_STATE" /\ ws' # op.start =>
        /\ op.kind = "commit" /\ op.faults > 0
        /\ Booked(op.receipt) /\ manifest[op.receipt].before = op.start ]_vars

(* A commit leaves every path that its proposal does not write as it was.   *)
CommitWritesOnlyTheIntent ==
  [][ op # Idle /\ op' = Idle /\ reply'.verdict = "receipt" =>
        ws' = Written(op.start, IntentOf[op.tx]) ]_vars

(* With neither a crash, nor a second failure in the handler of a first one,*)
(* nor a failing look at a tree that differs from the stage, every operation*)
(* is a swap of the whole workspace or leaves it alone.                     *)
Atomic == INSTANCE AtomicWorkspace WITH
  tree <- IF op = Idle THEN ws ELSE op.start,
  offer <- [t \in Transactions |-> [base |-> session[t].base, staged |-> session[t].staged]],
  swap <- [t \in Transactions |->
             IF manifest[t] = NoManifest THEN [before |-> Nothing, after |-> Nothing]
             ELSE [before |-> manifest[t].before, after |-> manifest[t].after]],
  foreign <- spent.foreign,
  incidents <- spent.incidents
RefinesAtomicWorkspace == Atomic!ASpec
=============================================================================
