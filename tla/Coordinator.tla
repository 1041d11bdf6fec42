---------------------------- MODULE Coordinator ----------------------------
(***************************************************************************)
(* The embedded transaction coordinator of                                 *)
(* src/agentkernel/transactions/coordinator.py, composed with the journal  *)
(* it writes, an effect adapter (src/agentkernel/adapters/base.py, with    *)
(* the state of MockReversibleAdapter), the authoritative target, and the  *)
(* callers of the public methods.                                          *)
(*                                                                         *)
(* A session runs one operation at a time, under its own lock.  A step of  *)
(* an operation is one await or one journal call: everything else may      *)
(* interleave there, the process may crash there, and there the call may   *)
(* raise or the calling task be cancelled.  The operations of a session    *)
(* interleave at journal calls also with those of other processes that     *)
(* share the journal file.                                                 *)
(*                                                                         *)
(* A definition named Bug_... is a seeded bug: the one after it as a       *)
(* mistake in the code would have it, kept to show which property fails.   *)
(***************************************************************************)
EXTENDS Journal

CONSTANTS
  IntentOf,    \* intent hash that inspecting the proposal of a transaction yields
  RunOf,       \* run in which a transaction is recorded
  Faults,      \* which of FaultKinds may happen
  MaxDrift,    \* bound: external changes move the target up to this version
  MaxCrashes   \* bound: crashes of the process

FaultKinds ==
  {"adapter",   \* an adapter call raises before any effect, or a verifier fails
   "cancel",    \* the task that awaits an adapter call is cancelled
   "lost_ack",  \* adapter.commit raises after its effect
   "unclean",   \* the adapter cannot discard a private stage, and says so
   "abort",     \* adapter.abort itself raises, or is cancelled
   "journal",   \* a journal call raises and is rolled back
   "manifest"}  \* the adapter's manifest digest changes after admission

ASSUME ConstantsAreTyped ==
  /\ IntentOf \in [Transactions -> Intents]
  /\ RunOf \in [Transactions -> Runs]
  /\ Transactions \subseteq ReceiptIds
  /\ Faults \subseteq FaultKinds
  /\ MaxDrift \in Nat /\ MaxCrashes \in Nat

VARIABLES
  session,          \* the TransactionSession of each transaction
  late,             \* transactions whose deadline has elapsed
  manifestChanged,  \* the adapter's manifest no longer has the admitted digest
  target,           \* version of the authoritative target
  effects,          \* history: every authoritative effect
  stages,           \* transactions with private staged material at the adapter
  receiptOf,        \* receipts by intent, in the adapter's memory
  crashes           \* crashes so far

adapterVars == <<target, effects, stages, receiptOf>>
envVars == <<late, manifestChanged, crashes>>
vars == <<jvars, session, adapterVars, envVars>>

-----------------------------------------------------------------------------
(* Sessions                                                                *)

\* An effect receipt names the transaction whose commit produced it; new_id()
\* is called once per such commit, so that name is its receipt_id too.
EffectReceipt == [transaction_id : Transactions \cup {NONE}, before : Nat, after : Nat]
NoReceipt == [transaction_id |-> NONE, before |-> 0, after |-> 0]

\* Where an operation is.  "idle": no operation holds the lock; "journal": the
\* events of `todo` are to be recorded, then the operation goes on at `after`;
\* "closed": there is no session (transaction() raised, or the process died).
AwaitPoints ==
  {"inspecting", "staging", "executing", "verifying", "revalidating",
   "committing", "confirming", "discarding"}
SessionPc ==
  AwaitPoints \cup {"unborn", "binding", "idle", "linking", "stage_guards",
                    "verify_guards", "journaling", "journal", "closed"}

Session ==
  [pc : SessionPc, todo : Seq(TransitionEvent), after : SessionPc,
   record : Row,                         \* _record
   staged : {"none", "effect", "receipt"},  \* _staged_effect, _staged_receipt
   cleanup_failed : BOOLEAN,             \* _staging_cleanup_failed
   base : Nat,                           \* _plan.base_version
   previous : Transactions \cup {NONE},  \* reservation.previous_transaction_id
   receipt : EffectReceipt,              \* what adapter.commit returned
   inside : BOOLEAN]                     \* the body of `async with` runs

UnbornSession ==
  [pc |-> "unborn", todo |-> <<>>, after |-> "idle", record |-> AbsentRow,
   staged |-> "none", cleanup_failed |-> FALSE, base |-> 0, previous |-> NONE,
   receipt |-> NoReceipt, inside |-> FALSE]

\* The session of t after it goes to pc, or records events and then goes to pc.
At(t, pc) == [session[t] EXCEPT !.pc = pc]
Recording(t, todo, after) ==
  [session[t] EXCEPT !.pc = "journal", !.todo = todo, !.after = after]

Become(t, s) == session' = [session EXCEPT ![t] = s]

\* A step of t that touches nothing but its own session.
Local(t, s) == Become(t, s) /\ UNCHANGED <<jvars, adapterVars, envVars>>

State(t) == session[t].record.state

\* _ensure_pre_effect_guards, and the event its failure is journaled as.
GuardsHold(t) == t \notin late /\ ~manifestChanged
GuardFailure(t, otherwise) == IF t \in late THEN "DEADLINE_EXCEEDED" ELSE otherwise

\* How an await may end without a result, as the event the handler journals.
Interruptions(otherwise) ==
  (IF "cancel" \in Faults THEN {"CANCELLED"} ELSE {}) \cup
  (IF "adapter" \in Faults THEN {"DEADLINE_EXCEEDED", otherwise} ELSE {})

\* `self._transition(event); await self._complete_abort()`
Abort(t, event) == Recording(t, <<event>>, "discarding")

-----------------------------------------------------------------------------
(* TransactionCoordinator.transaction: admission                           *)

\* The row is created; then an elapsed deadline, an enforcement profile, an
\* unknown adapter or a version mismatch refuse the proposal.
Create(t) ==
  /\ session[t].pc = "unborn"
  /\ CreateTransaction(t, RunOf[t])
  /\ \E admitted \in IF t \in late THEN {FALSE} ELSE BOOLEAN :
       Become(t, [IF admitted THEN At(t, "inspecting")
                  ELSE Recording(t, <<"VALIDATION_FAILED">>, "closed")
                  EXCEPT !.record = NewRow])
  /\ UNCHANGED <<adapterVars, envVars>>

InspectReturns(t) ==
  /\ session[t].pc = "inspecting"
  /\ Local(t, [At(t, "binding") EXCEPT !.base = target])

InspectInterrupted(t) ==
  /\ session[t].pc = "inspecting"
  /\ \E e \in Interruptions("VALIDATION_FAILED") :
       Local(t, Recording(t, IF e = "CANCELLED"
                             THEN <<"CANCELLED", "STAGING_DISCARD_SUCCEEDED">>
                             ELSE <<"VALIDATION_FAILED">>, "closed"))

Bind(t) ==
  /\ session[t].pc = "binding"
  /\ SetTransactionIntent(t, IntentOf[t])
  /\ Become(t, [At(t, "idle") EXCEPT !.record = transactions'[t]])
  /\ UNCHANGED <<adapterVars, envVars>>

-----------------------------------------------------------------------------
(* TransactionSession._transition: one event of the operation is recorded  *)
(* under the cached version.  __aenter__ returns, and the body starts, once *)
(* READY_TO_COMMIT is recorded.                                            *)

RecordEvent(t) ==
  LET s == session[t] IN
  /\ s.pc = "journal"
  /\ Transition(t, s.record.version, Head(s.todo), RunOf[t])
  /\ Become(t, [s EXCEPT !.record = transactions'[t],
                         !.todo = Tail(@),
                         !.pc = IF Len(s.todo) = 1 THEN s.after ELSE @,
                         !.after = IF Len(s.todo) = 1 THEN "idle" ELSE @,
                         !.inside = @ \/ transactions'[t].state = "READY_TO_COMMIT"])
  /\ UNCHANGED <<adapterVars, envVars>>

-----------------------------------------------------------------------------
(* TransactionSession.__aenter__                                           *)

EntryEvents == <<"PROPOSAL_VALID", "AUTHORIZED_FOR_STAGING", "WORKER_LEASE_ACQUIRED">>

EnterRefused(t) ==
  /\ session[t].pc = "idle" /\ State(t) = "NEW"
  /\ ~GuardsHold(t)
  /\ Local(t, Recording(t, <<"VALIDATION_FAILED">>, "idle"))

Bug_OwnerNotCompared(t) ==
  LET h == IntentOf[t]
      previous == PreviousOwner(h, t) IN
  /\ session[t].pc = "idle" /\ State(t) = "NEW"
  /\ GuardsHold(t)
  /\ ReserveIntent(h, t)
  /\ Become(t, IF previous # NONE
                THEN [At(t, "linking") EXCEPT !.previous = previous]
                ELSE Recording(t, EntryEvents, "stage_guards"))
  /\ UNCHANGED <<adapterVars, envVars>>

\* The reservation, and what its answer makes of the operation.
EnterReserves(t) ==
  LET h == IntentOf[t]
      previous == PreviousOwner(h, t) IN
  /\ session[t].pc = "idle" /\ State(t) = "NEW"
  /\ GuardsHold(t)
  /\ ReserveIntent(h, t)
  /\ Become(t, CASE OwnerAfterReservation(h, t) # t ->
                      Recording(t, <<"VALIDATION_FAILED">>, "idle")
                 [] previous # NONE ->
                      [At(t, "linking") EXCEPT !.previous = previous]
                 [] OTHER -> Recording(t, EntryEvents, "stage_guards"))
  /\ UNCHANGED <<adapterVars, envVars>>

Bug_LinkSkipped(t) ==
  /\ session[t].pc = "linking"
  /\ Local(t, Recording(t, EntryEvents, "stage_guards"))

Link(t) ==
  /\ session[t].pc = "linking"
  /\ LinkTransactionSupersession(t, session[t].previous)
  /\ Become(t, [Recording(t, EntryEvents, "stage_guards")
                EXCEPT !.record = transactions'[t]])
  /\ UNCHANGED <<adapterVars, envVars>>

BeginStage(t) ==
  /\ session[t].pc = "stage_guards"
  /\ Local(t, IF GuardsHold(t) THEN At(t, "staging")
              ELSE Abort(t, GuardFailure(t, "STAGING_FAILED")))

\* adapter.stage returned; the guards are read again before adapter.execute.
StageReturns(t) ==
  /\ session[t].pc = "staging"
  /\ stages' = stages \cup {t}
  /\ Become(t, [IF GuardsHold(t) THEN At(t, "executing")
                ELSE Abort(t, GuardFailure(t, "STAGING_FAILED"))
                EXCEPT !.staged = "effect"])
  /\ UNCHANGED <<jvars, target, effects, receiptOf, envVars>>

ExecuteReturns(t) ==
  /\ session[t].pc = "executing"
  /\ Local(t, [Recording(t, <<"STAGING_SUCCEEDED">>, "verify_guards")
               EXCEPT !.staged = "receipt"])

\* stage or execute raised, having removed what it had created.
StagingInterrupted(t) ==
  /\ session[t].pc \in {"staging", "executing"}
  /\ \E e \in Interruptions("STAGING_FAILED") : Local(t, Abort(t, e))

\* stage or execute raised ROLLBACK_FAILED: private material stays behind.
StagingUnclean(t) ==
  /\ session[t].pc \in {"staging", "executing"}
  /\ "unclean" \in Faults
  /\ stages' = stages \cup {t}
  /\ Become(t, [Abort(t, "STAGING_FAILED") EXCEPT !.cleanup_failed = TRUE])
  /\ UNCHANGED <<jvars, target, effects, receiptOf, envVars>>

BeginVerify(t) ==
  /\ session[t].pc = "verify_guards"
  /\ Local(t, IF GuardsHold(t) THEN At(t, "verifying")
              ELSE Abort(t, GuardFailure(t, "STAGED_VERIFICATION_FAILED")))

VerifyPasses(t) ==
  /\ session[t].pc = "verifying"
  /\ Local(t, Recording(t, <<"STAGED_VERIFICATION_PASSED", "NO_APPROVAL_REQUIRED">>,
                        "idle"))

\* The verifier raised, or its status is FAIL, UNKNOWN or ERROR.
VerifyFails(t) ==
  /\ session[t].pc = "verifying"
  /\ \E e \in Interruptions("STAGED_VERIFICATION_FAILED") : Local(t, Abort(t, e))

-----------------------------------------------------------------------------
(* TransactionSession.commit                                               *)

BeginCommit(t) ==
  /\ session[t].pc = "idle" /\ State(t) = "READY_TO_COMMIT"
  /\ session[t].staged = "receipt"
  /\ Local(t, IF GuardsHold(t) THEN At(t, "revalidating")
              ELSE Abort(t, GuardFailure(t, "COMMIT_REVALIDATION_FAILED")))

\* The second inspection: the base version is compared, the guards read again.
RevalidateReturns(t) ==
  /\ session[t].pc = "revalidating"
  /\ Local(t, CASE target # session[t].base -> Abort(t, "TARGET_VERSION_CHANGED")
                [] target = session[t].base /\ ~GuardsHold(t) ->
                     Abort(t, GuardFailure(t, "COMMIT_REVALIDATION_FAILED"))
                [] OTHER -> Recording(t, <<"COMMIT_GUARDS_PASSED">>, "committing"))

\* Nothing catches this one: the session stays READY_TO_COMMIT.
RevalidateInterrupted(t) ==
  /\ session[t].pc = "revalidating"
  /\ Interruptions("raised") # {}
  /\ Local(t, At(t, "idle"))

Bug_LostAckMeansNoEffect(t) ==
  LET h == IntentOf[t]
      fresh == [transaction_id |-> t, before |-> target, after |-> target + 1] IN
  /\ session[t].pc = "committing"
  /\ receiptOf[h] = NoReceipt /\ target = session[t].base
  /\ target' = target + 1
  /\ effects' = effects \cup {[receipt |-> fresh, intent_hash |-> h]}
  /\ receiptOf' = [receiptOf EXCEPT ![h] = fresh]
  /\ stages' = stages \ {t}
  /\ \/ Become(t, [At(t, "journaling") EXCEPT !.receipt = fresh])
     \/ Become(t, Abort(t, "COMMIT_FAILED_NO_EFFECT"))
  /\ UNCHANGED <<jvars, envVars>>

\* MockReversibleAdapter.commit: a known intent answers with its receipt, else
\* the effect is applied to the target, if it still has the planned version.
CommitApplies(t) ==
  LET h == IntentOf[t]
      fresh == [transaction_id |-> t, before |-> target, after |-> target + 1]
      receipt == IF receiptOf[h] = NoReceipt THEN fresh ELSE receiptOf[h] IN
  /\ session[t].pc = "committing"
  /\ IF receiptOf[h] = NoReceipt
     THEN /\ target = session[t].base
          /\ target' = target + 1
          /\ effects' = effects \cup {[receipt |-> fresh, intent_hash |-> h]}
          /\ receiptOf' = [receiptOf EXCEPT ![h] = fresh]
          /\ stages' = stages \ {t}
     ELSE UNCHANGED adapterVars
  /\ \/ Become(t, [At(t, "journaling") EXCEPT !.receipt = receipt])
     \/ /\ Faults \cap {"lost_ack", "cancel"} # {}
        /\ Become(t, Recording(t, <<"COMMIT_OUTCOME_UNKNOWN">>, "idle"))
  /\ UNCHANGED <<jvars, envVars>>

\* adapter.commit raised STALE_STATE: its own guard saw another version.
CommitStale(t) ==
  /\ session[t].pc = "committing"
  /\ receiptOf[IntentOf[t]] = NoReceipt /\ target # session[t].base
  /\ Local(t, Abort(t, "COMMIT_FAILED_NO_EFFECT"))

\* adapter.commit raised anything else, before its effect.
CommitInterrupted(t) ==
  /\ session[t].pc = "committing"
  /\ Interruptions("raised") # {}
  /\ Local(t, Recording(t, <<"COMMIT_OUTCOME_UNKNOWN">>, "idle"))

Bug_ReceiptNotJournaled(t) ==
  /\ session[t].pc = "journaling"
  /\ Local(t, At(t, "confirming"))

\* A receipt that cannot be appended makes the outcome unknown.
JournalReceipt(t) ==
  LET id == session[t].receipt.transaction_id IN
  /\ session[t].pc = "journaling"
  /\ IF \E r \in receipts : r.receipt_id = id
     THEN Local(t, Recording(t, <<"COMMIT_OUTCOME_UNKNOWN">>, "idle"))
     ELSE /\ AppendReceipt([receipt_id |-> id, transaction_id |-> id])
          /\ Become(t, At(t, "confirming"))
          /\ UNCHANGED <<adapterVars, envVars>>

\* verify_committed answers PASS only for the receipt it knows, at its version.
ConfirmReturns(t) ==
  LET s == session[t]
      known == /\ receiptOf[IntentOf[t]] = s.receipt
               /\ target = s.receipt.after IN
  /\ s.pc = "confirming"
  /\ Local(t, Recording(t, IF known THEN <<"COMMIT_VERIFIED">>
                           ELSE <<"COMMIT_PARTIAL_OR_INVALID">>, "idle"))

ConfirmInterrupted(t) ==
  /\ session[t].pc = "confirming"
  /\ Interruptions("raised") # {}
  /\ Local(t, Recording(t, <<"COMMIT_PARTIAL_OR_INVALID">>, "idle"))

-----------------------------------------------------------------------------
(* cancel, enforce_deadline, __aexit__ and _complete_abort                 *)

Bug_MisspelledEvent(t) ==
  /\ session[t].pc = "idle" /\ State(t) \in PRE_COMMIT_STATES
  /\ Local(t, Abort(t, "CANCELED"))

Cancel(t) ==
  /\ session[t].pc = "idle" /\ State(t) \in PRE_COMMIT_STATES
  /\ Local(t, Abort(t, "CANCELLED"))

Bug_NewHasNoDeadlineRule(t) ==
  /\ session[t].pc = "idle" /\ State(t) \in PRE_COMMIT_STATES
  /\ t \in late
  /\ Local(t, Abort(t, "DEADLINE_EXCEEDED"))

EnforceDeadline(t) ==
  /\ session[t].pc = "idle" /\ State(t) \in PRE_COMMIT_STATES
  /\ t \in late
  /\ Local(t, IF State(t) = "NEW" THEN Recording(t, <<"VALIDATION_FAILED">>, "idle")
              ELSE Abort(t, "DEADLINE_EXCEEDED"))

Bug_ExitWithoutAbort(t) ==
  /\ session[t].pc = "idle" /\ session[t].inside
  /\ Local(t, [session[t] EXCEPT !.inside = FALSE])

Exit(t) ==
  /\ session[t].pc = "idle" /\ session[t].inside
  /\ Local(t, [CASE State(t) \in PRE_COMMIT_STATES -> Abort(t, "CONTEXT_EXITED")
                 [] State(t) = "ABORTING" -> At(t, "discarding")
                 [] OTHER -> session[t]
               EXCEPT !.inside = FALSE])

Bug_StagedEffectForgotten(t) ==
  /\ session[t].pc = "discarding"
  /\ session[t].cleanup_failed \/ session[t].staged # "receipt"
  /\ Local(t, Recording(t, IF session[t].cleanup_failed
                           THEN <<"STAGING_DISCARD_FAILED">>
                           ELSE <<"STAGING_DISCARD_SUCCEEDED">>, "idle"))

\* Nothing to hand back to the adapter, or known to be beyond cleaning.
DiscardUnaided(t) ==
  /\ session[t].pc = "discarding"
  /\ session[t].cleanup_failed \/ session[t].staged = "none"
  /\ Local(t, Recording(t, IF session[t].cleanup_failed
                           THEN <<"STAGING_DISCARD_FAILED">>
                           ELSE <<"STAGING_DISCARD_SUCCEEDED">>, "idle"))

Bug_UncleanAbortNotRecorded(t) ==
  /\ session[t].pc = "discarding"
  /\ ~session[t].cleanup_failed /\ session[t].staged # "none"
  /\ \/ /\ stages' = stages \ {t}
        /\ Become(t, Recording(t, <<"STAGING_DISCARD_SUCCEEDED">>, "idle"))
     \/ /\ "unclean" \in Faults
        /\ stages' = stages
        /\ Become(t, At(t, "idle"))
  /\ UNCHANGED <<jvars, target, effects, receiptOf, envVars>>

\* adapter.abort reported PASS, or that it could not clean up.
DiscardReturns(t) ==
  /\ session[t].pc = "discarding"
  /\ ~session[t].cleanup_failed /\ session[t].staged # "none"
  /\ \/ /\ stages' = stages \ {t}
        /\ Become(t, Recording(t, <<"STAGING_DISCARD_SUCCEEDED">>, "idle"))
     \/ /\ "unclean" \in Faults
        /\ stages' = stages
        /\ Become(t, Recording(t, <<"STAGING_DISCARD_FAILED">>, "idle"))
  /\ UNCHANGED <<jvars, target, effects, receiptOf, envVars>>

\* Nothing catches this one either: the session stays ABORTING.
DiscardInterrupted(t) ==
  /\ session[t].pc = "discarding"
  /\ ~session[t].cleanup_failed /\ session[t].staged # "none"
  /\ "abort" \in Faults
  /\ \E left \in {stages, stages \ {t}} : stages' = left
  /\ Become(t, At(t, "idle"))
  /\ UNCHANGED <<jvars, target, effects, receiptOf, envVars>>

-----------------------------------------------------------------------------
(* The rest of the world                                                   *)

Bug_FailedReceiptMeansNoEffect(t) ==
  /\ "journal" \in Faults
  /\ session[t].pc = "journaling"
  /\ Local(t, Abort(t, "COMMIT_FAILED_NO_EFFECT"))

\* A journal call raised and was rolled back.  Only append_receipt and the
\* admission catch it; anywhere else the operation ends where it stands.
JournalFails(t) ==
  LET s == session[t] IN
  /\ "journal" \in Faults
  /\ s.pc \in {"journal", "linking", "binding", "journaling"}
  /\ Local(t, CASE s.pc = "journal" ->
                     [At(t, IF s.after = "closed" THEN "closed" ELSE "idle")
                      EXCEPT !.todo = <<>>, !.after = "idle"]
                [] s.pc = "linking" -> At(t, "idle")
                [] s.pc = "binding" -> Recording(t, <<"VALIDATION_FAILED">>, "closed")
                [] s.pc = "journaling" ->
                     Recording(t, <<"COMMIT_OUTCOME_UNKNOWN">>, "idle"))

Expire(t) ==
  /\ t \notin late
  /\ late' = late \cup {t}
  /\ UNCHANGED <<jvars, session, adapterVars, manifestChanged, crashes>>

ManifestChanges ==
  /\ "manifest" \in Faults /\ ~manifestChanged
  /\ manifestChanged' = TRUE
  /\ UNCHANGED <<jvars, session, adapterVars, late, crashes>>

\* Somebody else changes the authoritative target.
Drift ==
  /\ target < MaxDrift
  /\ target' = target + 1
  /\ UNCHANGED <<jvars, session, effects, stages, receiptOf, envVars>>

\* The process dies: sessions and the memory of the adapter are gone, the
\* journal and the target are not.  No code resumes what was in flight.
Crash ==
  /\ crashes < MaxCrashes
  /\ crashes' = crashes + 1
  /\ session' = [t \in Transactions |->
       IF session[t].pc = "unborn" THEN session[t]
       ELSE [UnbornSession EXCEPT !.pc = "closed"]]
  /\ stages' = {}
  /\ receiptOf' = [h \in Intents |-> NoReceipt]
  /\ UNCHANGED <<jvars, target, effects, late, manifestChanged>>

-----------------------------------------------------------------------------
Init ==
  /\ JInit
  /\ session = [t \in Transactions |-> UnbornSession]
  /\ late = {} /\ manifestChanged = FALSE /\ crashes = 0
  /\ target = 0 /\ effects = {} /\ stages = {}
  /\ receiptOf = [h \in Intents |-> NoReceipt]

\* What a running operation does next.
Progress(t) ==
  \/ InspectReturns(t) \/ InspectInterrupted(t) \/ Bind(t)
  \/ RecordEvent(t) \/ Link(t)
  \/ BeginStage(t) \/ StageReturns(t) \/ ExecuteReturns(t)
  \/ StagingInterrupted(t) \/ StagingUnclean(t)
  \/ BeginVerify(t) \/ VerifyPasses(t) \/ VerifyFails(t)
  \/ RevalidateReturns(t) \/ RevalidateInterrupted(t)
  \/ CommitApplies(t) \/ CommitStale(t) \/ CommitInterrupted(t)
  \/ JournalReceipt(t) \/ ConfirmReturns(t) \/ ConfirmInterrupted(t)
  \/ DiscardUnaided(t) \/ DiscardReturns(t) \/ DiscardInterrupted(t)

\* What a caller may ask for.
Call(t) ==
  \/ Create(t) \/ EnterRefused(t) \/ EnterReserves(t) \/ BeginCommit(t)
  \/ Cancel(t) \/ EnforceDeadline(t) \/ Exit(t)

Environment ==
  \/ \E t \in Transactions : JournalFails(t) \/ Expire(t)
  \/ ManifestChanges \/ Drift \/ Crash

Next == (\E t \in Transactions : Progress(t) \/ Call(t)) \/ Environment

Spec == Init /\ [][Next]_vars

\* Adapter calls and journal calls eventually return or raise; the body of the
\* `async with` ends, and asyncio.Lock hands the lock to its waiters in turn.
Fairness ==
  \A t \in Transactions : WF_vars(Progress(t)) /\ SF_vars(Exit(t))

FairSpec == Spec /\ Fairness
=============================================================================
