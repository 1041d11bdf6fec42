-------------------------- MODULE CoordinatorProofs --------------------------
(***************************************************************************)
(* Theorems about the coordinator, for every set of transactions, intents  *)
(* and runs, every choice of faults and every bound on drift and crashes.  *)
(* The inductive invariant is CInv.  Its heart is Good(t): where the       *)
(* operation of a session stands determines the durable state of its       *)
(* transaction, the events it may still record, and what it must own, have *)
(* applied and have a receipt for.                                         *)
(***************************************************************************)
EXTENDS CoordinatorProperties, JournalProofs

AbortEvents ==
  {"CANCELLED", "DEADLINE_EXCEEDED", "CONTEXT_EXITED", "STAGING_FAILED",
   "STAGED_VERIFICATION_FAILED", "TARGET_VERSION_CHANGED",
   "COMMIT_REVALIDATION_FAILED"}

CommitEvents ==
  {"COMMIT_VERIFIED", "COMMIT_PARTIAL_OR_INVALID", "COMMIT_OUTCOME_UNKNOWN"}

\* The events an operation may be about to record in a durable state, and
\* where it goes on.
Plan(state, todo, after) ==
  \/ /\ state = "NEW" /\ todo = <<"VALIDATION_FAILED">>
     /\ after \in {"idle", "closed"}
  \/ /\ state = "NEW" /\ todo = <<"CANCELLED", "STAGING_DISCARD_SUCCEEDED">>
     /\ after = "closed"
  \/ /\ state = "ABORTING" /\ todo = <<"STAGING_DISCARD_SUCCEEDED">>
     /\ after \in {"idle", "closed"}
  \/ /\ state = "ABORTING" /\ todo = <<"STAGING_DISCARD_FAILED">>
     /\ after = "idle"
  \/ /\ state = "NEW" /\ todo = EntryEvents
     /\ after = "stage_guards"
  \/ /\ state = "PLANNED" /\ todo = <<"AUTHORIZED_FOR_STAGING", "WORKER_LEASE_ACQUIRED">>
     /\ after = "stage_guards"
  \/ /\ state = "AUTHORIZED_TO_STAGE" /\ todo = <<"WORKER_LEASE_ACQUIRED">>
     /\ after = "stage_guards"
  \/ /\ state = "STAGING" /\ todo = <<"STAGING_SUCCEEDED">>
     /\ after = "verify_guards"
  \/ /\ state = "STAGED"
     /\ todo = <<"STAGED_VERIFICATION_PASSED", "NO_APPROVAL_REQUIRED">>
     /\ after = "idle"
  \/ /\ state = "STAGE_VERIFIED" /\ todo = <<"NO_APPROVAL_REQUIRED">>
     /\ after = "idle"
  \/ /\ state = "READY_TO_COMMIT" /\ todo = <<"COMMIT_GUARDS_PASSED">>
     /\ after = "committing"
  \/ /\ state \in PRE_COMMIT_STATES /\ (\E e \in AbortEvents : todo = <<e>>)
     /\ after = "discarding"
  \/ /\ state = "COMMITTING" /\ todo = <<"COMMIT_FAILED_NO_EFFECT">>
     /\ after = "discarding"
  \/ /\ state = "COMMITTING" /\ (\E e \in CommitEvents : todo = <<e>>)
     /\ after = "idle"

\* The durable state in which an operation stands at a point.
StandsIn(s, state) ==
  /\ s.pc \in {"inspecting", "binding", "linking"} => state = "NEW"
  /\ s.pc \in {"stage_guards", "staging", "executing"} => state = "STAGING"
  /\ s.pc \in {"verify_guards", "verifying"} => state = "STAGED"
  /\ s.pc = "revalidating" => state = "READY_TO_COMMIT"
  /\ s.pc \in {"committing", "journaling", "confirming"} => state = "COMMITTING"
  /\ s.pc = "discarding" => state = "ABORTING"
  /\ s.pc = "journal" => Plan(state, s.todo, s.after)

\* The states in which a transaction does not need to own its intent.
Idlers ==
  {NONE, "NEW", "REJECTED", "ABORTING", "ABORTED", "STALE_STATE", "RECOVERY_FAILED"}

Owns(t) == intents[IntentOf[t]] = t

\* The session s suits transaction t as the tables have it.
GoodWith(t, s) ==
  LET state == transactions[t].state IN
  /\ s.pc \notin {"unborn", "closed"} => s.record = transactions[t]
  /\ StandsIn(s, state)
  /\ \/ state \notin Idlers
     \/ s.pc = "linking"
     \/ s.pc = "journal" /\ s.todo = EntryEvents
     => Owns(t)
  /\ EffectsOf(t) # {} => state \in {"COMMITTING", "COMMITTED", "FAILED", "IN_DOUBT"}
  /\ \/ s.pc = "committing"
     \/ s.pc = "journal" /\ s.todo = <<"COMMIT_FAILED_NO_EFFECT">>
     => EffectsOf(t) = {}
  /\ HasReceipt(t) => EffectsOf(t) # {}
  /\ s.pc \in {"journaling", "confirming"}
     => EffectsOf(t) # {} /\ s.receipt.transaction_id = t
  /\ \/ s.pc = "confirming"
     \/ s.pc = "journal" /\ s.todo = <<"COMMIT_VERIFIED">>
     \/ state = "COMMITTED"
     => HasReceipt(t)
  /\ s.pc = "linking" => s.previous \in Transactions

Good(t) == GoodWith(t, session[t])

\* What the adapter remembers is an effect of that intent, each effect names a
\* transaction with its intent, and no intent has two.
EffectsInv ==
  /\ \A h \in Intents :
       receiptOf[h] = NoReceipt
       \/ \E e \in effects : e.receipt = receiptOf[h] /\ e.intent_hash = h
  /\ \A e \in effects :
       /\ e.receipt.transaction_id \in Transactions
       /\ e.intent_hash = IntentOf[e.receipt.transaction_id]
  /\ AtMostOneEffectPerIntent

CInv == TypeOK /\ JInv /\ EffectsInv /\ \A t \in Transactions : Good(t)

-----------------------------------------------------------------------------
(* What the coordinator's events lead to                                   *)

\* The target of each event the coordinator records; the discard of an abort
\* ends in the outcome the abort began with.
TargetOf(event) ==
  CASE event \in AbortEvents \cup {"COMMIT_FAILED_NO_EFFECT"} -> "ABORTING"
    [] event = "VALIDATION_FAILED" -> "REJECTED"
    [] event = "PROPOSAL_VALID" -> "PLANNED"
    [] event = "AUTHORIZED_FOR_STAGING" -> "AUTHORIZED_TO_STAGE"
    [] event = "WORKER_LEASE_ACQUIRED" -> "STAGING"
    [] event = "STAGING_SUCCEEDED" -> "STAGED"
    [] event = "STAGED_VERIFICATION_PASSED" -> "STAGE_VERIFIED"
    [] event = "NO_APPROVAL_REQUIRED" -> "READY_TO_COMMIT"
    [] event = "COMMIT_GUARDS_PASSED" -> "COMMITTING"
    [] event = "COMMIT_VERIFIED" -> "COMMITTED"
    [] event = "COMMIT_PARTIAL_OR_INVALID" -> "FAILED"
    [] event = "COMMIT_OUTCOME_UNKNOWN" -> "IN_DOUBT"
    [] event = "STAGING_DISCARD_FAILED" -> "RECOVERY_FAILED"
    [] event = "STAGING_DISCARD_SUCCEEDED" -> NONE

CoordinatorEvents ==
  AbortEvents \cup CommitEvents \cup
  {"COMMIT_FAILED_NO_EFFECT", "VALIDATION_FAILED", "PROPOSAL_VALID",
   "AUTHORIZED_FOR_STAGING", "WORKER_LEASE_ACQUIRED", "STAGING_SUCCEEDED",
   "STAGED_VERIFICATION_PASSED", "NO_APPROVAL_REQUIRED", "COMMIT_GUARDS_PASSED",
   "STAGING_DISCARD_FAILED", "STAGING_DISCARD_SUCCEEDED"}

\* Every rule of the table for one of these events has this target.
LEMMA TableTargets ==
  ASSUME NEW r \in NORMATIVE_TRANSITIONS, r.event \in CoordinatorEvents
  PROVE  r.target = TargetOf(r.event)
<1> USE DEF CoordinatorEvents, CommitEvents, AbortEvents
<1>0. ASSUME NEW sources, NEW exits \in SUBSET ExitEvents, r \in Exits(sources, exits)
      PROVE  r.target = TargetOf(r.event)
  <2>1. PICK e \in ExitEvents : r.event = e /\ r.target = "ABORTING"
    BY <1>0 DEF Exits, Rule
  <2> QED
    BY <2>1 DEF ExitEvents, TargetOf
<1>1. CASE r \in PlanningRules
  BY <1>0, <1>1 DEF PlanningRules, Rule, TargetOf, ExitEvents
<1>2. CASE r \in StagingRules
  BY <1>0, <1>2 DEF StagingRules, Rule, TargetOf
<1>3. CASE r \in ApprovalRules
  BY <1>0, <1>3 DEF ApprovalRules, Rule, TargetOf
<1>4. CASE r \in CommitRules
  BY <1>4 DEF CommitRules, Rule, TargetOf
<1>5. CASE r \in RecoveryRules
  BY <1>5 DEF RecoveryRules, Rule, TargetOf, NONE
<1> QED
  BY <1>1, <1>2, <1>3, <1>4, <1>5 DEF NORMATIVE_TRANSITIONS

\* So a transition by such an event leads to that state, and the one without a
\* target to an outcome an abort can end in.
LEMMA DecisionTargets ==
  ASSUME NEW source, NEW event \in CoordinatorEvents,
         NEW current \in IntendedOutcome \cup {NONE},
         NEW d \in ApplyTransition(source, event, current)
  PROVE  IF event = "STAGING_DISCARD_SUCCEEDED" THEN d.target \in IntendedOutcome
                                                ELSE d.target = TargetOf(event)
<1>1. PICK r \in NORMATIVE_TRANSITIONS : r.event = event /\ d = Decision(r, current)
  BY DEF ApplyTransition, RulesFor
<1>2. r.target = TargetOf(event)
  BY <1>1, TableTargets
<1>3. d.target # NONE
  BY DEF ApplyTransition
<1>4. d.target = IF r.target = NONE THEN current ELSE r.target
  BY <1>1 DEF Decision
<1>5. CASE event = "STAGING_DISCARD_SUCCEEDED"
  BY <1>2, <1>3, <1>4, <1>5 DEF TargetOf, AbortEvents
<1>6. CASE event # "STAGING_DISCARD_SUCCEEDED"
  <2>1. TargetOf(event) # NONE
    BY <1>6 DEF TargetOf, CoordinatorEvents, AbortEvents, CommitEvents, NONE
  <2> QED
    BY <1>2, <1>4, <1>6, <2>1
<1> QED
  BY <1>5, <1>6

-----------------------------------------------------------------------------
(* Sessions                                                                *)

\* Moving a session to a point changes nothing else of it.
LEMMA AtFields ==
  ASSUME NEW t, session[t] \in Session, NEW pc \in SessionPc,
         NEW s, s = At(t, pc)
  PROVE  /\ s \in Session /\ s.pc = pc
         /\ s.todo = session[t].todo /\ s.after = session[t].after
         /\ s.record = session[t].record /\ s.previous = session[t].previous
         /\ s.receipt = session[t].receipt
BY DEF At, Session

\* So does making it record events.
LEMMA RecordingFields ==
  ASSUME NEW t, session[t] \in Session, NEW todo \in Seq(TransitionEvent),
         NEW after \in SessionPc, NEW s, s = Recording(t, todo, after)
  PROVE  /\ s \in Session /\ s.pc = "journal" /\ s.todo = todo /\ s.after = after
         /\ s.record = session[t].record /\ s.previous = session[t].previous
         /\ s.receipt = session[t].receipt
<1>1. "journal" \in SessionPc
  BY DEF SessionPc
<1> QED
  BY <1>1 DEF Recording, Session

\* The sequences of events the operations record are sequences of events.
LEMMA TodoTyped ==
  /\ EntryEvents \in Seq(TransitionEvent)
  /\ <<"CANCELLED", "STAGING_DISCARD_SUCCEEDED">> \in Seq(TransitionEvent)
  /\ <<"STAGED_VERIFICATION_PASSED", "NO_APPROVAL_REQUIRED">> \in Seq(TransitionEvent)
  /\ \A e \in TransitionEvent : <<e>> \in Seq(TransitionEvent)
  /\ CoordinatorEvents \subseteq TransitionEvent
BY DEF EntryEvents, TransitionEvent, CoordinatorEvents, AbortEvents, CommitEvents, ExitEvents

\* A step that changes one session, and no table and no effect, preserves the
\* invariant if the new session suits its transaction.
LEMMA LocalStep ==
  ASSUME CInv, NEW t \in Transactions, NEW s \in Session, Become(t, s),
         UNCHANGED <<jvars, effects, receiptOf>>,
         late' \in SUBSET Transactions, manifestChanged' \in BOOLEAN,
         target' \in Nat, stages' \in SUBSET Transactions, crashes' \in Nat,
         GoodWith(t, s)
  PROVE  CInv'
<1>1. \A u \in Transactions : session'[u] = IF u = t THEN s ELSE session[u]
  BY DEF Become, CInv, TypeOK
<1>2. session' \in [Transactions -> Session]
  BY DEF Become, CInv, TypeOK
<1>3. JInv'
  BY JInvStep DEF CInv
<1>4. TypeOK'
  BY <1>2, <1>3 DEF CInv, TypeOK, JInv
<1>5. EffectsInv'
  BY DEF CInv, EffectsInv, AtMostOneEffectPerIntent
<1>6. ASSUME NEW u \in Transactions PROVE Good(u)'
  <2>1. GoodWith(u, session'[u])
    BY <1>1 DEF CInv, Good
  <2> QED
    BY <2>1 DEF Good, GoodWith, Owns, EffectsOf, HasReceipt, jvars
<1> QED
  BY <1>3, <1>4, <1>5, <1>6 DEF CInv

\* The same for an action that is Local.
LEMMA LocalAction ==
  ASSUME CInv, NEW t \in Transactions, NEW s \in Session, Local(t, s), GoodWith(t, s)
  PROVE  CInv'
BY LocalStep DEF Local, adapterVars, envVars, CInv, TypeOK

\* What is known of a session whose operation is running.
LEMMA Running ==
  ASSUME CInv, NEW t \in Transactions, session[t].pc \notin {"unborn", "closed"}
  PROVE  /\ session[t] \in Session /\ session[t].record = transactions[t]
         /\ State(t) = transactions[t].state
         /\ StandsIn(session[t], transactions[t].state)
BY DEF CInv, TypeOK, Good, GoodWith, State

\* The plans that carry obligations are three; all others are told from them.
Burdened == {EntryEvents, <<"COMMIT_FAILED_NO_EFFECT">>, <<"COMMIT_VERIFIED">>}

\* Two plans differ in their length or in their only event.
LEMMA PlansDiffer ==
  /\ \A e \in TransitionEvent \ {"COMMIT_FAILED_NO_EFFECT", "COMMIT_VERIFIED"} :
       <<e>> \notin Burdened
  /\ <<"CANCELLED", "STAGING_DISCARD_SUCCEEDED">> \notin Burdened
  /\ <<"STAGED_VERIFICATION_PASSED", "NO_APPROVAL_REQUIRED">> \notin Burdened
  /\ <<"AUTHORIZED_FOR_STAGING", "WORKER_LEASE_ACQUIRED">> \notin Burdened
<1>1. \A e, f : <<e>> = <<f>> => e = f
  OBVIOUS
<1>2. \A e : <<e>> # EntryEvents
  BY DEF EntryEvents
<1>3. \A e, f, g : <<e, f>> # <<g>>
  OBVIOUS
<1>4. \A e, f : <<e, f>> # EntryEvents
  BY DEF EntryEvents
<1> QED
  BY <1>1, <1>2, <1>3, <1>4 DEF Burdened

\* A running operation may go on to any point that carries no obligation, if
\* its transaction stands in the state of that point.
LEMMA PlainStep ==
  ASSUME CInv, NEW t \in Transactions, NEW s \in Session,
         session[t].pc \notin {"unborn", "closed"},
         s.pc \notin {"unborn", "closed"} => s.record = session[t].record,
         StandsIn(s, transactions[t].state),
         s.pc \notin {"linking", "committing", "journaling", "confirming"},
         s.pc = "journal" => s.todo \notin Burdened
  PROVE  GoodWith(t, s)
<1>1. Good(t) /\ session[t].record = transactions[t]
  BY Running DEF CInv
<1> QED
  BY <1>1 DEF Good, GoodWith, Burdened

\* A running operation may abort in any state before the commit.
LEMMA AbortStep ==
  ASSUME CInv, NEW t \in Transactions, NEW s \in Session,
         session[t].pc \notin {"unborn", "closed"},
         transactions[t].state \in PRE_COMMIT_STATES,
         NEW e \in AbortEvents,
         s.pc = "journal", s.todo = <<e>>, s.after = "discarding",
         s.record = session[t].record
  PROVE  GoodWith(t, s)
<1>1. s.todo \notin Burdened
  BY PlansDiffer, TodoTyped DEF CoordinatorEvents, AbortEvents
<1>2. StandsIn(s, transactions[t].state)
  BY DEF StandsIn, Plan
<1> QED
  BY <1>1, <1>2, PlainStep

\* How interrupted operations are recorded are abort events, if what the
\* handler records otherwise is one.
LEMMA InterruptionsAbort ==
  ASSUME NEW otherwise \in AbortEvents, NEW e \in Interruptions(otherwise)
  PROVE  e \in AbortEvents
BY DEF Interruptions, AbortEvents

-----------------------------------------------------------------------------
(* The local actions                                                       *)

\* A local action that aborts in a state before the commit preserves the
\* invariant, whatever else of the session it sets.
LEMMA AbortAction ==
  ASSUME CInv, NEW t \in Transactions,
         session[t].pc \notin {"unborn", "closed"},
         transactions[t].state \in PRE_COMMIT_STATES,
         NEW e \in AbortEvents, Local(t, Abort(t, e))
  PROVE  CInv'
<1>1. PICK todo \in Seq(TransitionEvent) : todo = <<e>>
  BY TodoTyped DEF CoordinatorEvents
<1>2. PICK s : s = Abort(t, e) /\ s = Recording(t, todo, "discarding")
  BY <1>1 DEF Abort
<1>3. s \in Session /\ s.pc = "journal" /\ s.todo = todo /\ s.after = "discarding"
      /\ s.record = session[t].record
  <2>1. session[t] \in Session /\ "discarding" \in SessionPc
    BY Running DEF SessionPc, AwaitPoints
  <2> QED
    BY <1>2, <2>1, RecordingFields
<1>4. GoodWith(t, s)
  BY <1>1, <1>3, AbortStep
<1> QED
  BY <1>2, <1>3, <1>4, LocalAction

\* A local action that moves to a point without obligations.
LEMMA MoveAction ==
  ASSUME CInv, NEW t \in Transactions,
         session[t].pc \notin {"unborn", "closed"},
         NEW pc \in SessionPc, Local(t, At(t, pc)),
         pc \notin {"linking", "committing", "journaling", "confirming", "journal"},
         StandsIn([pc |-> pc], transactions[t].state)
  PROVE  CInv'
<1>1. PICK s : s = At(t, pc)
  OBVIOUS
<1>2. s \in Session /\ s.pc = pc /\ s.record = session[t].record
  BY <1>1, Running, AtFields
<1>3. StandsIn(s, transactions[t].state)
  BY <1>2 DEF StandsIn
<1>4. GoodWith(t, s)
  BY <1>2, <1>3, PlainStep
<1> QED
  BY <1>1, <1>2, <1>4, LocalAction

\* A local action that records a plan without obligations.
LEMMA RecordAction ==
  ASSUME CInv, NEW t \in Transactions,
         session[t].pc \notin {"unborn", "closed"},
         NEW todo \in Seq(TransitionEvent), todo \notin Burdened,
         NEW after \in SessionPc,
         Local(t, Recording(t, todo, after)),
         Plan(transactions[t].state, todo, after)
  PROVE  CInv'
<1>1. PICK s : s = Recording(t, todo, after)
  OBVIOUS
<1>2. s \in Session /\ s.pc = "journal" /\ s.todo = todo /\ s.after = after
      /\ s.record = session[t].record
  BY <1>1, Running, RecordingFields
<1>3. StandsIn(s, transactions[t].state)
  BY <1>2 DEF StandsIn
<1>4. GoodWith(t, s)
  BY <1>2, <1>3, PlainStep
<1> QED
  BY <1>1, <1>2, <1>4, LocalAction

\* inspect: the proposal is planned, or its admission ends.
LEMMA InspectPreserves ==
  ASSUME CInv, NEW t \in Transactions, InspectReturns(t) \/ InspectInterrupted(t)
  PROVE  CInv'
<1>1. session[t].pc = "inspecting" /\ transactions[t].state = "NEW"
  BY Running DEF InspectReturns, InspectInterrupted, StandsIn
<1>2. CASE InspectReturns(t)
  <2>1. PICK a : a = At(t, "binding")
    OBVIOUS
  <2>2. a \in Session /\ a.pc = "binding" /\ a.record = session[t].record
    BY <1>1, <2>1, Running, AtFields DEF SessionPc
  <2>3. PICK s : s = [a EXCEPT !.base = target]
    OBVIOUS
  <2>4. s \in Session /\ s.pc = "binding" /\ s.record = session[t].record
    BY <2>2, <2>3 DEF Session, CInv, TypeOK
  <2>5. StandsIn(s, transactions[t].state)
    BY <1>1, <2>4 DEF StandsIn
  <2>6. GoodWith(t, s)
    BY <1>1, <2>4, <2>5, PlainStep
  <2> QED
    BY <1>2, <2>1, <2>3, <2>4, <2>6, LocalAction DEF InspectReturns
<1>3. CASE InspectInterrupted(t)
  <2>1. PICK todo \in {<<"CANCELLED", "STAGING_DISCARD_SUCCEEDED">>,
                       <<"VALIDATION_FAILED">>} :
          Local(t, Recording(t, todo, "closed"))
    BY <1>3 DEF InspectInterrupted
  <2>2. todo \in Seq(TransitionEvent) /\ todo \notin Burdened
    BY TodoTyped, PlansDiffer DEF CoordinatorEvents
  <2>3. Plan(transactions[t].state, todo, "closed")
    BY <1>1 DEF Plan
  <2> QED
    BY <1>1, <2>1, <2>2, <2>3, RecordAction DEF SessionPc
<1> QED
  BY <1>2, <1>3

\* __aenter__ refused: the transaction is about to be rejected.
LEMMA EnterRefusedPreserves ==
  ASSUME CInv, NEW t \in Transactions, EnterRefused(t)
  PROVE  CInv'
<1>1. session[t].pc = "idle" /\ transactions[t].state = "NEW"
  BY Running DEF EnterRefused
<1>2. PICK todo : todo = <<"VALIDATION_FAILED">>
  OBVIOUS
<1>3. todo \in Seq(TransitionEvent) /\ todo \notin Burdened
  BY <1>2, TodoTyped, PlansDiffer DEF CoordinatorEvents
<1>4. Plan(transactions[t].state, todo, "idle")
  BY <1>1, <1>2 DEF Plan
<1> QED
  BY <1>1, <1>2, <1>3, <1>4, RecordAction DEF EnterRefused, SessionPc

\* Staging begins, or its guards abort it.
LEMMA BeginStagePreserves ==
  ASSUME CInv, NEW t \in Transactions, BeginStage(t)
  PROVE  CInv'
<1>1. session[t].pc = "stage_guards" /\ transactions[t].state = "STAGING"
  BY Running DEF BeginStage, StandsIn
<1>2. CASE Local(t, At(t, "staging"))
  BY <1>1, <1>2, MoveAction DEF StandsIn, SessionPc, AwaitPoints
<1>3. CASE Local(t, Abort(t, GuardFailure(t, "STAGING_FAILED")))
  BY <1>1, <1>3, AbortAction DEF GuardFailure, AbortEvents, PRE_COMMIT_STATES
<1> QED
  BY <1>2, <1>3 DEF BeginStage

\* The staged verification begins, or its guards abort it.
LEMMA BeginVerifyPreserves ==
  ASSUME CInv, NEW t \in Transactions, BeginVerify(t)
  PROVE  CInv'
<1>1. session[t].pc = "verify_guards" /\ transactions[t].state = "STAGED"
  BY Running DEF BeginVerify, StandsIn
<1>2. CASE Local(t, At(t, "verifying"))
  BY <1>1, <1>2, MoveAction DEF StandsIn, SessionPc, AwaitPoints
<1>3. CASE Local(t, Abort(t, GuardFailure(t, "STAGED_VERIFICATION_FAILED")))
  BY <1>1, <1>3, AbortAction DEF GuardFailure, AbortEvents, PRE_COMMIT_STATES
<1> QED
  BY <1>2, <1>3 DEF BeginVerify

\* What was staged is verified, or aborted.
LEMMA VerifyPreserves ==
  ASSUME CInv, NEW t \in Transactions, VerifyPasses(t) \/ VerifyFails(t)
  PROVE  CInv'
<1>1. session[t].pc = "verifying" /\ transactions[t].state = "STAGED"
  BY Running DEF VerifyPasses, VerifyFails, StandsIn
<1>2. CASE VerifyPasses(t)
  <2>1. PICK todo : todo = <<"STAGED_VERIFICATION_PASSED", "NO_APPROVAL_REQUIRED">>
    OBVIOUS
  <2>2. todo \in Seq(TransitionEvent) /\ todo \notin Burdened
    BY <2>1, TodoTyped, PlansDiffer
  <2>3. Plan(transactions[t].state, todo, "idle")
    BY <1>1, <2>1 DEF Plan
  <2> QED
    BY <1>1, <1>2, <2>1, <2>2, <2>3, RecordAction DEF VerifyPasses, SessionPc
<1>3. CASE VerifyFails(t)
  <2>1. PICK e \in AbortEvents : Local(t, Abort(t, e))
    BY <1>3, InterruptionsAbort DEF VerifyFails, AbortEvents
  <2> QED
    BY <1>1, <2>1, AbortAction DEF PRE_COMMIT_STATES
<1> QED
  BY <1>2, <1>3

\* The commit begins, or its guards abort it.
LEMMA BeginCommitPreserves ==
  ASSUME CInv, NEW t \in Transactions, BeginCommit(t)
  PROVE  CInv'
<1>1. session[t].pc = "idle" /\ transactions[t].state = "READY_TO_COMMIT"
  BY Running DEF BeginCommit
<1>2. CASE Local(t, At(t, "revalidating"))
  BY <1>1, <1>2, MoveAction DEF StandsIn, SessionPc, AwaitPoints
<1>3. CASE Local(t, Abort(t, GuardFailure(t, "COMMIT_REVALIDATION_FAILED")))
  BY <1>1, <1>3, AbortAction DEF GuardFailure, AbortEvents, PRE_COMMIT_STATES
<1> QED
  BY <1>2, <1>3 DEF BeginCommit

\* The second inspection leads to the commit, or aborts it, or raises.
LEMMA RevalidatePreserves ==
  ASSUME CInv, NEW t \in Transactions, RevalidateReturns(t) \/ RevalidateInterrupted(t)
  PROVE  CInv'
<1>1. session[t].pc = "revalidating" /\ transactions[t].state = "READY_TO_COMMIT"
  BY Running DEF RevalidateReturns, RevalidateInterrupted, StandsIn
<1>2. ASSUME NEW e \in AbortEvents, Local(t, Abort(t, e)) PROVE CInv'
  BY <1>1, <1>2, AbortAction DEF PRE_COMMIT_STATES
<1>3. CASE Local(t, Recording(t, <<"COMMIT_GUARDS_PASSED">>, "committing"))
  <2>1. PICK todo : todo = <<"COMMIT_GUARDS_PASSED">>
    OBVIOUS
  <2>2. todo \in Seq(TransitionEvent) /\ todo \notin Burdened
    BY <2>1, TodoTyped, PlansDiffer DEF CoordinatorEvents
  <2>3. Plan(transactions[t].state, todo, "committing")
    BY <1>1, <2>1 DEF Plan
  <2> QED
    BY <1>1, <1>3, <2>1, <2>2, <2>3, RecordAction DEF SessionPc, AwaitPoints
<1>4. CASE Local(t, At(t, "idle"))
  BY <1>1, <1>4, MoveAction DEF StandsIn, SessionPc
<1>5. GuardFailure(t, "COMMIT_REVALIDATION_FAILED") \in AbortEvents
      /\ "TARGET_VERSION_CHANGED" \in AbortEvents
  BY DEF GuardFailure, AbortEvents
<1> QED
  BY <1>2, <1>3, <1>4, <1>5 DEF RevalidateReturns, RevalidateInterrupted

\* The fields no point and no plan depends on.
LEMMA OtherFields ==
  ASSUME NEW a \in Session, NEW s,
         \/ \E x \in {"none", "effect", "receipt"} : s = [a EXCEPT !.staged = x]
         \/ \E x \in BOOLEAN : s = [a EXCEPT !.cleanup_failed = x]
         \/ \E x \in BOOLEAN : s = [a EXCEPT !.inside = x]
  PROVE  /\ s \in Session /\ s.pc = a.pc /\ s.todo = a.todo /\ s.after = a.after
         /\ s.record = a.record /\ s.previous = a.previous /\ s.receipt = a.receipt
<1>1. CASE \E x \in {"none", "effect", "receipt"} : s = [a EXCEPT !.staged = x]
  BY <1>1 DEF Session
<1>2. CASE \E x \in BOOLEAN : s = [a EXCEPT !.cleanup_failed = x]
  BY <1>2 DEF Session
<1>3. CASE \E x \in BOOLEAN : s = [a EXCEPT !.inside = x]
  BY <1>3 DEF Session
<1> QED
  BY <1>1, <1>2, <1>3

\* A session that aborts, as a session.
LEMMA AbortFields ==
  ASSUME CInv, NEW t \in Transactions, session[t].pc \notin {"unborn", "closed"},
         NEW e \in AbortEvents, NEW s, s = Abort(t, e)
  PROVE  /\ s \in Session /\ s.pc = "journal" /\ s.todo = <<e>>
         /\ s.after = "discarding" /\ s.record = session[t].record
<1>1. PICK todo \in Seq(TransitionEvent) : todo = <<e>>
  BY TodoTyped DEF CoordinatorEvents
<1>2. s = Recording(t, todo, "discarding")
  BY <1>1 DEF Abort
<1>3. session[t] \in Session /\ "discarding" \in SessionPc
  BY Running DEF SessionPc, AwaitPoints
<1>4. /\ s \in Session /\ s.pc = "journal" /\ s.todo = todo
      /\ s.after = "discarding" /\ s.record = session[t].record
  BY <1>2, <1>3, RecordingFields
<1> QED
  BY <1>1, <1>4

\* adapter.stage returned.
LEMMA StageReturnsPreserves ==
  ASSUME CInv, NEW t \in Transactions, StageReturns(t)
  PROVE  CInv'
<1>1. session[t].pc = "staging" /\ transactions[t].state = "STAGING"
  BY Running DEF StageReturns, StandsIn
<1>2. PICK a : a = IF GuardsHold(t) THEN At(t, "executing")
                   ELSE Abort(t, GuardFailure(t, "STAGING_FAILED"))
  OBVIOUS
<1>3. PICK s : s = [a EXCEPT !.staged = "effect"]
  OBVIOUS
<1>4. Become(t, s) /\ UNCHANGED <<jvars, target, effects, receiptOf, envVars>>
      /\ stages' = stages \cup {t}
  BY <1>2, <1>3 DEF StageReturns
<1>5. s \in Session /\ GoodWith(t, s)
  <2>1. CASE GuardsHold(t)
    <3>1. a \in Session /\ a.pc = "executing" /\ a.record = session[t].record
      BY <1>1, <1>2, <2>1, Running, AtFields DEF SessionPc, AwaitPoints
    <3>2. s \in Session /\ s.pc = "executing" /\ s.record = session[t].record
      BY <1>3, <3>1, OtherFields
    <3>3. StandsIn(s, transactions[t].state)
      BY <1>1, <3>2 DEF StandsIn
    <3> QED
      BY <1>1, <3>2, <3>3, PlainStep
  <2>2. CASE ~GuardsHold(t)
    <3>1. PICK e \in AbortEvents : a = Abort(t, e)
      BY <1>2, <2>2 DEF GuardFailure, AbortEvents
    <3>2. /\ a \in Session /\ a.pc = "journal" /\ a.todo = <<e>>
          /\ a.after = "discarding" /\ a.record = session[t].record
      BY <1>1, <3>1, AbortFields
    <3>3. /\ s \in Session /\ s.pc = "journal" /\ s.todo = <<e>>
          /\ s.after = "discarding" /\ s.record = session[t].record
      BY <1>3, <3>2, OtherFields
    <3> QED
      BY <1>1, <3>3, AbortStep DEF PRE_COMMIT_STATES
  <2> QED
    BY <2>1, <2>2
<1>6. /\ late' \in SUBSET Transactions /\ manifestChanged' \in BOOLEAN
      /\ target' \in Nat /\ stages' \in SUBSET Transactions /\ crashes' \in Nat
  BY <1>4 DEF envVars, CInv, TypeOK
<1> QED
  BY <1>4, <1>5, <1>6, LocalStep

\* adapter.execute returned.
LEMMA ExecuteReturnsPreserves ==
  ASSUME CInv, NEW t \in Transactions, ExecuteReturns(t)
  PROVE  CInv'
<1>1. session[t].pc = "executing" /\ transactions[t].state = "STAGING"
  BY Running DEF ExecuteReturns, StandsIn
<1>2. PICK todo \in Seq(TransitionEvent) : todo = <<"STAGING_SUCCEEDED">>
  BY TodoTyped DEF CoordinatorEvents
<1>3. PICK a : a = Recording(t, todo, "verify_guards")
  OBVIOUS
<1>4. PICK s : s = [a EXCEPT !.staged = "receipt"]
  OBVIOUS
<1>5. /\ a \in Session /\ a.pc = "journal" /\ a.todo = todo
      /\ a.after = "verify_guards" /\ a.record = session[t].record
  BY <1>1, <1>3, Running, RecordingFields DEF SessionPc
<1>6. /\ s \in Session /\ s.pc = "journal" /\ s.todo = todo
      /\ s.after = "verify_guards" /\ s.record = session[t].record
  BY <1>4, <1>5, OtherFields
<1>7. StandsIn(s, transactions[t].state)
  BY <1>1, <1>2, <1>6 DEF StandsIn, Plan
<1>8. todo \notin Burdened
  BY <1>2, PlansDiffer, TodoTyped DEF CoordinatorEvents
<1>9. GoodWith(t, s)
  BY <1>1, <1>6, <1>7, <1>8, PlainStep
<1> QED
  BY <1>2, <1>3, <1>4, <1>6, <1>9, LocalAction DEF ExecuteReturns

\* stage or execute raised, cleanly or not.
LEMMA StagingRaisesPreserves ==
  ASSUME CInv, NEW t \in Transactions, StagingInterrupted(t) \/ StagingUnclean(t)
  PROVE  CInv'
<1>1. session[t].pc \in {"staging", "executing"} /\ transactions[t].state = "STAGING"
  BY Running DEF StagingInterrupted, StagingUnclean, StandsIn
<1>2. CASE StagingInterrupted(t)
  <2>1. PICK e \in AbortEvents : Local(t, Abort(t, e))
    BY <1>2, InterruptionsAbort DEF StagingInterrupted, AbortEvents
  <2> QED
    BY <1>1, <2>1, AbortAction DEF PRE_COMMIT_STATES
<1>3. CASE StagingUnclean(t)
  <2>1. PICK e \in AbortEvents : e = "STAGING_FAILED"
    BY DEF AbortEvents
  <2>2. PICK a : a = Abort(t, e)
    OBVIOUS
  <2>3. PICK s : s = [a EXCEPT !.cleanup_failed = TRUE]
    OBVIOUS
  <2>4. /\ a \in Session /\ a.pc = "journal" /\ a.todo = <<e>>
        /\ a.after = "discarding" /\ a.record = session[t].record
    BY <1>1, <2>2, AbortFields
  <2>5. /\ s \in Session /\ s.pc = "journal" /\ s.todo = <<e>>
        /\ s.after = "discarding" /\ s.record = session[t].record
    BY <2>3, <2>4, OtherFields
  <2>6. GoodWith(t, s)
    BY <1>1, <2>5, AbortStep DEF PRE_COMMIT_STATES
  <2>7. Become(t, s) /\ UNCHANGED <<jvars, target, effects, receiptOf, envVars>>
        /\ stages' = stages \cup {t}
    BY <1>3, <2>1, <2>2, <2>3 DEF StagingUnclean
  <2>8. /\ late' \in SUBSET Transactions /\ manifestChanged' \in BOOLEAN
        /\ target' \in Nat /\ stages' \in SUBSET Transactions /\ crashes' \in Nat
    BY <2>7 DEF envVars, CInv, TypeOK
  <2> QED
    BY <2>5, <2>6, <2>7, <2>8, LocalStep
<1> QED
  BY <1>2, <1>3

\* cancel and enforce_deadline, at rest and before the commit.
LEMMA CancelPreserves ==
  ASSUME CInv, NEW t \in Transactions, Cancel(t) \/ EnforceDeadline(t)
  PROVE  CInv'
<1>1. session[t].pc = "idle" /\ transactions[t].state \in PRE_COMMIT_STATES
      /\ State(t) = transactions[t].state
  BY Running DEF Cancel, EnforceDeadline
<1>2. ASSUME NEW e \in AbortEvents, Local(t, Abort(t, e)) PROVE CInv'
  BY <1>1, <1>2, AbortAction
<1>3. CASE State(t) = "NEW" /\ Local(t, Recording(t, <<"VALIDATION_FAILED">>, "idle"))
  <2>1. PICK todo \in Seq(TransitionEvent) : todo = <<"VALIDATION_FAILED">>
    BY TodoTyped DEF CoordinatorEvents
  <2>2. todo \notin Burdened
    BY <2>1, PlansDiffer, TodoTyped DEF CoordinatorEvents
  <2>3. Plan(transactions[t].state, todo, "idle")
    BY <1>1, <1>3, <2>1 DEF Plan
  <2> QED
    BY <1>1, <1>3, <2>1, <2>2, <2>3, RecordAction DEF SessionPc
<1> QED
  BY <1>2, <1>3 DEF Cancel, EnforceDeadline, AbortEvents

\* __aexit__, at rest.
LEMMA ExitPreserves ==
  ASSUME CInv, NEW t \in Transactions, Exit(t)
  PROVE  CInv'
<1>1. session[t].pc = "idle" /\ State(t) = transactions[t].state /\ session[t] \in Session
  BY Running DEF Exit
<1>2. PICK a : /\ a = CASE State(t) \in PRE_COMMIT_STATES -> Abort(t, "CONTEXT_EXITED")
                       [] State(t) = "ABORTING" -> At(t, "discarding")
                       [] OTHER -> session[t]
  OBVIOUS
<1>3. PICK s : s = [a EXCEPT !.inside = FALSE]
  OBVIOUS
<1>4. a \in Session => /\ s \in Session /\ s.pc = a.pc /\ s.todo = a.todo
                       /\ s.after = a.after /\ s.record = a.record
  BY <1>3, OtherFields
<1>5. s \in Session /\ GoodWith(t, s)
  <2>1. CASE State(t) \in PRE_COMMIT_STATES
    <3>1. a = Abort(t, "CONTEXT_EXITED") /\ "CONTEXT_EXITED" \in AbortEvents
      BY <1>2, <2>1 DEF AbortEvents, PRE_COMMIT_STATES
    <3> PICK e \in AbortEvents : a = Abort(t, e)
      BY <3>1
    <3>2. /\ a \in Session /\ a.pc = "journal" /\ a.todo = <<e>>
          /\ a.after = "discarding" /\ a.record = session[t].record
      BY <1>1, AbortFields
    <3> QED
      BY <1>1, <1>4, <2>1, <3>2, AbortStep
  <2>2. CASE State(t) = "ABORTING"
    <3>1. a = At(t, "discarding")
      BY <1>2, <2>2 DEF PRE_COMMIT_STATES
    <3>2. a \in Session /\ a.pc = "discarding" /\ a.record = session[t].record
      BY <1>1, <3>1, AtFields DEF SessionPc, AwaitPoints
    <3>3. StandsIn(s, transactions[t].state)
      BY <1>1, <1>4, <2>2, <3>2 DEF StandsIn
    <3> QED
      BY <1>1, <1>4, <3>2, <3>3, PlainStep
  <2>3. CASE State(t) \notin PRE_COMMIT_STATES \cup {"ABORTING"}
    <3>1. a = session[t]
      BY <1>2, <2>3
    <3>2. StandsIn(s, transactions[t].state)
      BY <1>1, <1>4, <3>1 DEF StandsIn
    <3> QED
      BY <1>1, <1>4, <3>1, <3>2, PlainStep
  <2> QED
    BY <2>1, <2>2, <2>3
<1> QED
  BY <1>2, <1>3, <1>5, LocalAction DEF Exit

\* The abort hands its stage back, or cannot, or is interrupted.
LEMMA DiscardPreserves ==
  ASSUME CInv, NEW t \in Transactions,
         DiscardUnaided(t) \/ DiscardReturns(t) \/ DiscardInterrupted(t)
  PROVE  CInv'
<1>1. session[t].pc = "discarding" /\ transactions[t].state = "ABORTING"
      /\ session[t] \in Session
  BY Running DEF DiscardUnaided, DiscardReturns, DiscardInterrupted, StandsIn
<1>2. PICK done, failed \in Seq(TransitionEvent) :
        done = <<"STAGING_DISCARD_SUCCEEDED">> /\ failed = <<"STAGING_DISCARD_FAILED">>
  BY TodoTyped DEF CoordinatorEvents
<1>3. ASSUME NEW todo \in {done, failed}, NEW s, s = Recording(t, todo, "idle")
      PROVE  s \in Session /\ GoodWith(t, s)
  <2>1. /\ s \in Session /\ s.pc = "journal" /\ s.todo = todo
        /\ s.after = "idle" /\ s.record = session[t].record
    BY <1>1, <1>3, RecordingFields DEF SessionPc
  <2>2. todo \notin Burdened
    BY <1>2, PlansDiffer, TodoTyped DEF CoordinatorEvents
  <2>3. StandsIn(s, transactions[t].state)
    BY <1>1, <1>2, <2>1 DEF StandsIn, Plan
  <2> QED
    BY <1>1, <2>1, <2>2, <2>3, PlainStep
<1>4. ASSUME NEW s, s = At(t, "idle") PROVE s \in Session /\ GoodWith(t, s)
  <2>1. s \in Session /\ s.pc = "idle" /\ s.record = session[t].record
    BY <1>1, <1>4, AtFields DEF SessionPc
  <2>2. StandsIn(s, transactions[t].state)
    BY <1>1, <2>1 DEF StandsIn
  <2> QED
    BY <1>1, <2>1, <2>2, PlainStep
<1>5. \E s : /\ s = Recording(t, done, "idle") \/ s = Recording(t, failed, "idle")
                \/ s = At(t, "idle")
             /\ Become(t, s)
  BY <1>2 DEF DiscardUnaided, DiscardReturns, DiscardInterrupted, Local
<1>6. UNCHANGED <<jvars, target, effects, receiptOf, envVars>>
      /\ stages' \in SUBSET Transactions
  BY DEF DiscardUnaided, DiscardReturns, DiscardInterrupted, Local, adapterVars, CInv, TypeOK
<1>7. /\ late' \in SUBSET Transactions /\ manifestChanged' \in BOOLEAN
      /\ target' \in Nat /\ crashes' \in Nat
  BY <1>6 DEF envVars, CInv, TypeOK
<1> QED
  BY <1>3, <1>4, <1>5, <1>6, <1>7, LocalStep

\* A session that records one event, as a session.
LEMMA OneEventFields ==
  ASSUME CInv, NEW t \in Transactions, session[t].pc \notin {"unborn", "closed"},
         NEW e \in TransitionEvent, NEW after \in SessionPc,
         NEW s, s = Recording(t, <<e>>, after)
  PROVE  /\ s \in Session /\ s.pc = "journal" /\ s.todo = <<e>>
         /\ s.after = after /\ s.record = session[t].record
<1>1. PICK todo \in Seq(TransitionEvent) : todo = <<e>>
  BY TodoTyped
<1>2. s = Recording(t, todo, after)
  BY <1>1
<1>3. session[t] \in Session
  BY Running
<1>4. /\ s \in Session /\ s.pc = "journal" /\ s.todo = todo
      /\ s.after = after /\ s.record = session[t].record
  BY <1>2, <1>3, RecordingFields
<1> QED
  BY <1>1, <1>4

\* A running operation in COMMITTING that records how the commit went, with
\* what the plan it records demands.
LEMMA CommitEndStep ==
  ASSUME CInv, NEW t \in Transactions, transactions[t].state = "COMMITTING",
         session[t].pc \notin {"unborn", "closed"},
         NEW s \in Session, s.pc = "journal", s.record = session[t].record,
         NEW e, s.todo = <<e>>,
         IF e = "COMMIT_FAILED_NO_EFFECT" THEN s.after = "discarding" /\ EffectsOf(t) = {}
         ELSE e \in CommitEvents /\ s.after = "idle",
         e = "COMMIT_VERIFIED" => HasReceipt(t)
  PROVE  GoodWith(t, s)
<1>1. session[t].record = transactions[t] /\ Good(t)
  BY Running DEF CInv
<1>3. StandsIn(s, transactions[t].state)
  BY DEF StandsIn, Plan
<1>4. s.todo # EntryEvents
  BY DEF EntryEvents
<1>5. \A f : s.todo = <<f>> => e = f
  OBVIOUS
<1> QED
  BY <1>1, <1>3, <1>4, <1>5 DEF Good, GoodWith

\* The commit ended without an answer or by the adapter's guard, and the
\* committed effect was verified or not.
LEMMA CommitEndPreserves ==
  ASSUME CInv, NEW t \in Transactions,
         \/ CommitStale(t) \/ CommitInterrupted(t)
         \/ ConfirmReturns(t) \/ ConfirmInterrupted(t)
  PROVE  CInv'
<1>1. session[t].pc \in {"committing", "confirming"} /\ transactions[t].state = "COMMITTING"
  BY Running DEF CommitStale, CommitInterrupted, ConfirmReturns, ConfirmInterrupted, StandsIn
<1>2. ASSUME NEW e \in CommitEvents, e = "COMMIT_VERIFIED" => HasReceipt(t),
             Local(t, Recording(t, <<e>>, "idle"))
      PROVE  CInv'
  <2>1. e \in TransitionEvent /\ "idle" \in SessionPc /\ e # "COMMIT_FAILED_NO_EFFECT"
    BY TodoTyped DEF CoordinatorEvents, CommitEvents, SessionPc
  <2>2. PICK s : s = Recording(t, <<e>>, "idle")
    OBVIOUS
  <2>3. /\ s \in Session /\ s.pc = "journal" /\ s.todo = <<e>>
        /\ s.after = "idle" /\ s.record = session[t].record
    BY <1>1, <2>1, <2>2, OneEventFields
  <2>4. GoodWith(t, s)
    BY <1>1, <1>2, <2>1, <2>3, CommitEndStep
  <2> QED
    BY <1>2, <2>2, <2>3, <2>4, LocalAction
<1>3. CASE CommitStale(t)
  <2>1. session[t].pc = "committing" /\ EffectsOf(t) = {}
    BY <1>3 DEF CommitStale, CInv, Good, GoodWith
  <2>2. PICK e \in TransitionEvent : e = "COMMIT_FAILED_NO_EFFECT"
    BY TodoTyped DEF CoordinatorEvents
  <2>3. PICK s : s = Recording(t, <<e>>, "discarding")
    OBVIOUS
  <2>4. /\ s \in Session /\ s.pc = "journal" /\ s.todo = <<e>>
        /\ s.after = "discarding" /\ s.record = session[t].record
    <3>1. "discarding" \in SessionPc /\ session[t].pc \notin {"unborn", "closed"}
      BY <1>1 DEF SessionPc, AwaitPoints
    <3> QED
      BY <2>3, <3>1, OneEventFields
  <2>5. e # "COMMIT_VERIFIED"
    BY <2>2
  <2>6. GoodWith(t, s)
    BY <1>1, <2>1, <2>2, <2>4, <2>5, CommitEndStep
  <2> QED
    BY <1>3, <2>2, <2>3, <2>4, <2>6, LocalAction DEF CommitStale, Abort
<1>4. CASE CommitInterrupted(t)
  BY <1>2, <1>4 DEF CommitInterrupted, CommitEvents
<1>5. CASE ConfirmInterrupted(t)
  BY <1>2, <1>5 DEF ConfirmInterrupted, CommitEvents
<1>6. CASE ConfirmReturns(t)
  <2>1. HasReceipt(t)
    BY <1>6 DEF ConfirmReturns, CInv, Good, GoodWith
  <2> QED
    BY <1>2, <1>6, <2>1 DEF ConfirmReturns, CommitEvents
<1> QED
  BY <1>3, <1>4, <1>5, <1>6

\* A journal call raised: the handler that meets it records the outcome, or the
\* operation ends where it stands.
LEMMA JournalFailsPreserves ==
  ASSUME CInv, NEW t \in Transactions, JournalFails(t)
  PROVE  CInv'
<1>1. session[t].pc \in {"journal", "linking", "binding", "journaling"}
      /\ session[t] \in Session
  BY Running DEF JournalFails
<1>2. CASE session[t].pc = "journal"
  <2>1. PICK s : s = [At(t, IF session[t].after = "closed" THEN "closed" ELSE "idle")
                      EXCEPT !.todo = <<>>, !.after = "idle"]
    OBVIOUS
  <2>2. Local(t, s)
    BY <1>2, <2>1 DEF JournalFails
  <2>3. s \in Session /\ s.pc \in {"closed", "idle"} /\ s.record = session[t].record
    <3>1. PICK pc \in SessionPc : pc = IF session[t].after = "closed" THEN "closed" ELSE "idle"
      BY DEF SessionPc
    <3>2. PICK a : a = At(t, pc)
      OBVIOUS
    <3>3. a \in Session /\ a.pc \in {"closed", "idle"} /\ a.record = session[t].record
      BY <1>1, <3>1, <3>2, AtFields
    <3>4. s = [a EXCEPT !.todo = <<>>, !.after = "idle"]
      BY <2>1, <3>1, <3>2
    <3>5. <<>> \in Seq(TransitionEvent) /\ "idle" \in SessionPc
      BY DEF SessionPc
    <3> QED
      BY <3>3, <3>4, <3>5 DEF Session
  <2>4. StandsIn(s, transactions[t].state)
    BY <2>3 DEF StandsIn
  <2>5. GoodWith(t, s)
    BY <1>1, <2>3, <2>4, PlainStep
  <2> QED
    BY <2>2, <2>3, <2>5, LocalAction
<1>3. CASE session[t].pc = "linking"
  <2>1. Local(t, At(t, "idle"))
    BY <1>3 DEF JournalFails
  <2> QED
    BY <1>1, <2>1, MoveAction DEF StandsIn, SessionPc
<1>4. CASE session[t].pc = "binding"
  <2>1. Local(t, Recording(t, <<"VALIDATION_FAILED">>, "closed"))
    BY <1>4 DEF JournalFails
  <2>2. PICK todo \in Seq(TransitionEvent) : todo = <<"VALIDATION_FAILED">>
    BY TodoTyped DEF CoordinatorEvents
  <2>3. todo \notin Burdened
    BY <2>2, PlansDiffer, TodoTyped DEF CoordinatorEvents
  <2>4. transactions[t].state = "NEW"
    BY <1>4, Running DEF StandsIn
  <2>5. Plan(transactions[t].state, todo, "closed")
    BY <2>2, <2>4 DEF Plan
  <2> QED
    BY <1>1, <2>1, <2>2, <2>3, <2>5, RecordAction DEF SessionPc
<1>5. CASE session[t].pc = "journaling"
  <2>1. Local(t, Recording(t, <<"COMMIT_OUTCOME_UNKNOWN">>, "idle"))
    BY <1>5 DEF JournalFails
  <2>2. PICK e \in TransitionEvent : e = "COMMIT_OUTCOME_UNKNOWN"
    BY TodoTyped DEF CoordinatorEvents, CommitEvents
  <2>3. PICK s : s = Recording(t, <<e>>, "idle")
    OBVIOUS
  <2>4. /\ s \in Session /\ s.pc = "journal" /\ s.todo = <<e>>
        /\ s.after = "idle" /\ s.record = session[t].record
    <3>1. "idle" \in SessionPc /\ session[t].pc \notin {"unborn", "closed"}
      BY <1>1 DEF SessionPc
    <3> QED
      BY <2>3, <3>1, OneEventFields
  <2>5. transactions[t].state = "COMMITTING"
    BY <1>5, Running DEF StandsIn
  <2>6. GoodWith(t, s)
    <3>1. e \in CommitEvents /\ e # "COMMIT_VERIFIED" /\ e # "COMMIT_FAILED_NO_EFFECT"
      BY <2>2 DEF CommitEvents
    <3> QED
      BY <1>1, <2>4, <2>5, <3>1, CommitEndStep
  <2> QED
    BY <2>1, <2>2, <2>3, <2>4, <2>6, LocalAction
<1> QED
  BY <1>1, <1>2, <1>3, <1>4, <1>5

-----------------------------------------------------------------------------
(* The actions on the tables                                               *)

\* A step of one session on the tables preserves the invariant if it suits its
\* own transaction afterwards, leaves the row, the effects and the receipts of
\* the others alone, and takes an intent only from one that ended without effect.
LEMMA TableStep ==
  ASSUME CInv, NEW t \in Transactions, NEW s \in Session, Become(t, s),
         JInv', EffectsInv',
         late' \in SUBSET Transactions, manifestChanged' \in BOOLEAN,
         target' \in Nat, stages' \in SUBSET Transactions, crashes' \in Nat,
         effects' \subseteq [receipt : EffectReceipt, intent_hash : Intents],
         receiptOf' \in [Intents -> EffectReceipt],
         \A v \in Transactions \ {t} :
           /\ transactions'[v] = transactions[v]
           /\ EffectsOf(v)' = EffectsOf(v)
           /\ HasReceipt(v)' <=> HasReceipt(v)
           /\ Owns(v) => Owns(v)' \/ transactions[v].state \in SafeNoEffectStates,
         GoodWith(t, s)'
  PROVE  CInv'
<1>1. \A u \in Transactions : session'[u] = IF u = t THEN s ELSE session[u]
  BY DEF Become, CInv, TypeOK
<1>2. session' \in [Transactions -> Session]
  BY DEF Become, CInv, TypeOK
<1>3. TypeOK'
  BY <1>2 DEF TypeOK, JInv
<1>4. ASSUME NEW u \in Transactions PROVE Good(u)'
  <2>1. CASE u = t
    BY <1>1, <2>1 DEF Good, GoodWith
  <2>2. CASE u # t
    <3>1. /\ transactions'[u] = transactions[u] /\ EffectsOf(u)' = EffectsOf(u)
          /\ session'[u] = session[u]
          /\ HasReceipt(u)' <=> HasReceipt(u)
      BY <1>1, <2>2
    <3>2. GoodWith(u, session[u])
      BY DEF CInv, Good
    <3>3. \/ transactions[u].state \notin Idlers
          \/ session[u].pc = "linking"
          \/ session[u].pc = "journal" /\ session[u].todo = EntryEvents
          => Owns(u)'
      <4>1. CASE Owns(u)'
        BY <4>1
      <4>2. CASE ~Owns(u)'
        <5> SUFFICES ASSUME Owns(u) PROVE /\ transactions[u].state \in Idlers
                                          /\ session[u].pc # "linking"
                                          /\ ~(/\ session[u].pc = "journal"
                                               /\ session[u].todo = EntryEvents)
          BY <3>2, <4>2 DEF GoodWith
        <5>1. transactions[u].state \in SafeNoEffectStates
          BY <2>2, <4>2
        <5>2. StandsIn(session[u], transactions[u].state)
          BY <3>2 DEF GoodWith
        <5>3. session[u].pc # "linking"
          BY <5>1, <5>2 DEF StandsIn, SafeNoEffectStates
        <5>4. session[u].pc # "journal"
          BY <5>1, <5>2 DEF StandsIn, SafeNoEffectStates, Plan, PRE_COMMIT_STATES
        <5> QED
          BY <5>1, <5>3, <5>4 DEF SafeNoEffectStates, Idlers
      <4> QED
        BY <4>1, <4>2
    <3> PICK w : w = session[u]
      OBVIOUS
    <3> PICK state : state = transactions[u].state
      OBVIOUS
    <3>4. transactions'[u].state = state
      BY <3>1
    <3>5. GoodWith(u, w)'
      <4> USE <3>1, <3>2, <3>3, <3>4
      <4>1. (w.pc \notin {"unborn", "closed"} => w.record = transactions[u])' /\ StandsIn(w, state)
        BY DEF GoodWith
      <4>2. EffectsOf(u)' # {} => state \in {"COMMITTING", "COMMITTED", "FAILED", "IN_DOUBT"}
        BY DEF GoodWith
      <4>3. \/ w.pc = "committing"
            \/ w.pc = "journal" /\ w.todo = <<"COMMIT_FAILED_NO_EFFECT">>
            => EffectsOf(u)' = {}
        BY DEF GoodWith
      <4>4. /\ HasReceipt(u)' => EffectsOf(u)' # {}
            /\ w.pc \in {"journaling", "confirming"}
                 => EffectsOf(u)' # {} /\ w.receipt.transaction_id = u
            /\ w.pc = "linking" => w.previous \in Transactions
        BY DEF GoodWith
      <4>5. \/ w.pc = "confirming"
            \/ w.pc = "journal" /\ w.todo = <<"COMMIT_VERIFIED">>
            \/ state = "COMMITTED"
            => HasReceipt(u)'
        BY DEF GoodWith
      <4> QED
        BY <4>1, <4>2, <4>3, <4>4, <4>5 DEF GoodWith
    <3>6. session'[u] = w
      BY <3>1
    <3>7. GoodWith(u, session[u])'
      BY <3>5, <3>6, Zenon
    <3> QED
      BY <3>7 DEF Good
  <2> QED
    BY <2>1, <2>2
<1> QED
  BY <1>3, <1>4 DEF CInv

\* The same when neither an effect nor an intent is touched.
LEMMA RowStep ==
  ASSUME CInv, NEW t \in Transactions, NEW s \in Session, Become(t, s),
         JInv', UNCHANGED <<intents, adapterVars, envVars>>,
         \A u \in Transactions \ {t} :
           /\ transactions'[u] = transactions[u]
           /\ HasReceipt(u)' <=> HasReceipt(u),
         GoodWith(t, s)'
  PROVE  CInv'
<1>1. EffectsInv'
  BY DEF CInv, EffectsInv, AtMostOneEffectPerIntent, adapterVars
<1>2. \A u \in Transactions : EffectsOf(u)' = EffectsOf(u) /\ (Owns(u)' <=> Owns(u))
  BY DEF EffectsOf, Owns, adapterVars
<1>3. /\ late' \in SUBSET Transactions /\ manifestChanged' \in BOOLEAN
      /\ target' \in Nat /\ stages' \in SUBSET Transactions /\ crashes' \in Nat
      /\ effects' \subseteq [receipt : EffectReceipt, intent_hash : Intents]
      /\ receiptOf' \in [Intents -> EffectReceipt]
  BY DEF adapterVars, envVars, CInv, TypeOK
<1> QED
  BY <1>1, <1>2, <1>3, TableStep

\* transaction(): the row is created, admitted or not.
LEMMA CreateTransactionPreserves ==
  ASSUME CInv, NEW t \in Transactions, Create(t)
  PROVE  CInv'
<1>1. /\ session[t] \in Session /\ transactions[t].state = NONE
      /\ CreateTransaction(t, RunOf[t])
      /\ UNCHANGED <<receipts, intents, adapterVars, envVars>>
  BY DEF CInv, TypeOK, Create, CreateTransaction, Exists
<1>2. JInv'
  <2>1. RunOf[t] \in Runs
    BY ConstantsAreTyped
  <2> QED
    BY <1>1, <2>1, JInvStep DEF JOperation, CInv
<1>3. transactions' = [transactions EXCEPT ![t] = NewRow]
  BY <1>1 DEF CreateTransaction
<1>4. transactions \in [Transactions -> Row]
  BY DEF CInv, TypeOK, JTypeOK
<1>5. /\ transactions'[t] = NewRow /\ NewRow \in Row /\ NewRow.state = "NEW"
      /\ \A u \in Transactions \ {t} : transactions'[u] = transactions[u]
  BY <1>3, <1>4, RowsTyped DEF NewRow, AbsentRow
<1>6. EffectsOf(t)' = {} /\ ~HasReceipt(t)'
  <2>1. EffectsOf(t) = {} /\ ~HasReceipt(t)
    BY <1>1, NoEffectIsFinal DEF CInv, Good, GoodWith, NONE
  <2> QED
    BY <1>1, <2>1 DEF EffectsOf, HasReceipt, adapterVars
<1>7. PICK a : /\ a = At(t, "inspecting") \/ a = Recording(t, <<"VALIDATION_FAILED">>, "closed")
               /\ Become(t, [a EXCEPT !.record = NewRow])
  BY DEF Create
<1>8. PICK s : s = [a EXCEPT !.record = NewRow]
  OBVIOUS
<1>9. /\ a \in Session
      /\ \/ a.pc = "inspecting"
         \/ a.pc = "journal" /\ a.todo = <<"VALIDATION_FAILED">> /\ a.after = "closed"
  <2>1. CASE a = At(t, "inspecting")
    <3>1. "inspecting" \in SessionPc
      BY DEF SessionPc, AwaitPoints
    <3> QED
      BY <1>1, <2>1, <3>1, AtFields
  <2>2. CASE a = Recording(t, <<"VALIDATION_FAILED">>, "closed")
    <3>1. "closed" \in SessionPc
      BY DEF SessionPc
    <3>2. PICK todo \in Seq(TransitionEvent) : todo = <<"VALIDATION_FAILED">>
      BY TodoTyped DEF CoordinatorEvents
    <3>3. a = Recording(t, todo, "closed")
      BY <2>2, <3>2
    <3>4. a \in Session /\ a.pc = "journal" /\ a.todo = todo /\ a.after = "closed"
      BY <1>1, <3>1, <3>3, RecordingFields
    <3> QED
      BY <3>2, <3>4
  <2> QED
    BY <1>7, <2>1, <2>2
<1>10. s \in Session /\ s.record = NewRow /\ s.pc = a.pc /\ s.todo = a.todo /\ s.after = a.after
  BY <1>5, <1>8, <1>9 DEF Session
<1>11. StandsIn(s, "NEW")
  BY <1>9, <1>10 DEF StandsIn, Plan
<1>12. s.pc = "journal" => s.todo \notin Burdened
  BY <1>9, <1>10, PlansDiffer, TodoTyped DEF CoordinatorEvents
<1>13. GoodWith(t, s)'
  BY <1>5, <1>6, <1>9, <1>10, <1>11, <1>12 DEF GoodWith, Burdened, Idlers
<1>14. \A u \in Transactions \ {t} : HasReceipt(u)' <=> HasReceipt(u)
  BY <1>1 DEF HasReceipt
<1> QED
  BY <1>1, <1>2, <1>5, <1>7, <1>8, <1>10, <1>13, <1>14, RowStep

\* An action that only changes the row of its transaction, without its state.
LEMMA SameStateStep ==
  ASSUME CInv, NEW t \in Transactions, NEW s \in Session, Become(t, s),
         session[t].pc \notin {"unborn", "closed"},
         transactions[t].state = "NEW",
         JInv', UNCHANGED <<intents, receipts, adapterVars, envVars>>,
         transactions'[t].state = "NEW",
         \A u \in Transactions \ {t} : transactions'[u] = transactions[u],
         s.record = transactions'[t], StandsIn(s, "NEW"),
         s.pc \notin {"linking", "committing", "journaling", "confirming"},
         s.pc = "journal" => s.todo \notin Burdened \ {EntryEvents},
         s.pc = "journal" /\ s.todo = EntryEvents => Owns(t)
  PROVE  CInv'
<1>1. EffectsOf(t)' = EffectsOf(t) /\ (Owns(t)' <=> Owns(t))
  BY DEF EffectsOf, Owns, adapterVars
<1>2. \A u \in Transactions : HasReceipt(u)' <=> HasReceipt(u)
  BY DEF HasReceipt
<1>3. GoodWith(t, session[t])
  BY DEF CInv, Good
<1>4. s.pc = "journal" => s.todo \notin {<<"COMMIT_FAILED_NO_EFFECT">>, <<"COMMIT_VERIFIED">>}
  <2>1. \A e : <<e>> # EntryEvents
    BY DEF EntryEvents
  <2> QED
    BY <2>1 DEF Burdened
<1>5. "NEW" \in Idlers /\ "NEW" \notin {"COMMITTING", "COMMITTED", "FAILED", "IN_DOUBT"}
  BY DEF Idlers
<1>6. GoodWith(t, s)'
  BY <1>1, <1>2, <1>3, <1>4, <1>5 DEF GoodWith
<1> QED
  BY <1>2, <1>6, RowStep

\* The intent is bound.
LEMMA BindPreserves ==
  ASSUME CInv, NEW t \in Transactions, Bind(t)
  PROVE  CInv'
<1>1. session[t].pc = "binding" /\ session[t] \in Session /\ transactions[t].state = "NEW"
  BY Running DEF Bind, StandsIn
<1>2. /\ transactions' = [transactions EXCEPT ![t].intent_hash = IntentOf[t]]
      /\ UNCHANGED <<intents, receipts, adapterVars, envVars>>
  BY DEF Bind, SetTransactionIntent
<1>3. JInv'
  <2>1. IntentOf[t] \in Intents /\ SetTransactionIntent(t, IntentOf[t])
    BY ConstantsAreTyped DEF Bind
  <2> QED
    BY <2>1, JInvStep DEF JOperation, CInv
<1>4. /\ transactions'[t].state = "NEW" /\ transactions'[t] \in Row
      /\ \A u \in Transactions \ {t} : transactions'[u] = transactions[u]
  <2>1. transactions \in [Transactions -> Row] /\ transactions' \in [Transactions -> Row]
    BY <1>3 DEF CInv, TypeOK, JTypeOK, JInv
  <2> QED
    BY <1>1, <1>2, <2>1 DEF Row
<1>5. PICK a : a = At(t, "idle")
  OBVIOUS
<1>6. a \in Session /\ a.pc = "idle"
  <2>1. "idle" \in SessionPc
    BY DEF SessionPc
  <2> QED
    BY <1>1, <1>5, <2>1, AtFields
<1>7. PICK row \in Row : row = transactions'[t]
  BY <1>4
<1>8. PICK s : s = [a EXCEPT !.record = row]
  OBVIOUS
<1>9. s \in Session /\ s.pc = "idle" /\ s.record = row
  BY <1>6, <1>8 DEF Session
<1>10. Become(t, s)
  BY <1>5, <1>7, <1>8 DEF Bind
<1>11. StandsIn(s, "NEW")
  BY <1>9 DEF StandsIn
<1> QED
  BY <1>1, <1>2, <1>3, <1>4, <1>7, <1>9, <1>10, <1>11, SameStateStep

\* The retry is linked to the attempt it replaces, and goes on.
LEMMA LinkSupersessionPreserves ==
  ASSUME CInv, NEW t \in Transactions, Link(t)
  PROVE  CInv'
<1>1. /\ session[t].pc = "linking" /\ session[t] \in Session
      /\ transactions[t].state = "NEW" /\ Owns(t)
      /\ session[t].previous \in Transactions
  <2>1. session[t].pc = "linking"
    BY DEF Link
  <2> QED
    BY <2>1, Running DEF StandsIn, CInv, Good, GoodWith
<1>2. /\ transactions' = [transactions EXCEPT ![t].supersedes_transaction_id
                                                 = session[t].previous]
      /\ UNCHANGED <<intents, receipts, adapterVars, envVars>>
  BY DEF Link, LinkTransactionSupersession
<1>3. JInv'
  <2>1. LinkTransactionSupersession(t, session[t].previous)
    BY DEF Link
  <2> QED
    BY <1>1, <2>1, JInvStep DEF JOperation, CInv
<1>4. /\ transactions'[t].state = "NEW" /\ transactions'[t] \in Row
      /\ \A u \in Transactions \ {t} : transactions'[u] = transactions[u]
  <2>1. transactions \in [Transactions -> Row] /\ transactions' \in [Transactions -> Row]
    BY <1>3 DEF CInv, TypeOK, JTypeOK, JInv
  <2> QED
    BY <1>1, <1>2, <2>1 DEF Row
<1>5. PICK a : a = Recording(t, EntryEvents, "stage_guards")
  OBVIOUS
<1>6. a \in Session /\ a.pc = "journal" /\ a.todo = EntryEvents /\ a.after = "stage_guards"
  <2>1. "stage_guards" \in SessionPc
    BY DEF SessionPc
  <2> QED
    BY <1>1, <1>5, <2>1, TodoTyped, RecordingFields
<1>7. PICK row \in Row : row = transactions'[t]
  BY <1>4
<1>8. PICK s : s = [a EXCEPT !.record = row]
  OBVIOUS
<1>9. /\ s \in Session /\ s.pc = "journal" /\ s.record = row
      /\ s.todo = EntryEvents /\ s.after = "stage_guards"
  BY <1>6, <1>8 DEF Session
<1>10. Become(t, s)
  BY <1>5, <1>7, <1>8 DEF Link
<1>11. StandsIn(s, "NEW")
  BY <1>9 DEF StandsIn, Plan
<1> QED
  BY <1>1, <1>2, <1>3, <1>4, <1>7, <1>9, <1>10, <1>11, SameStateStep

-----------------------------------------------------------------------------
(* One event of a plan is recorded                                         *)

\* Where recording the first event of a plan may lead.
LeadsTo(event, next) ==
  IF event = "STAGING_DISCARD_SUCCEEDED" THEN next \in IntendedOutcome
                                         ELSE next = TargetOf(event)

\* What is left to do of the two plans with more than one event.
LEMMA HeadsAndTails ==
  /\ \A e : Head(<<e>>) = e /\ Len(<<e>>) = 1
  /\ \A e, f : Head(<<e, f>>) = e /\ Len(<<e, f>>) = 2 /\ Tail(<<e, f>>) = <<f>>
  /\ Head(EntryEvents) = "PROPOSAL_VALID" /\ Len(EntryEvents) = 3
  /\ Tail(EntryEvents) = <<"AUTHORIZED_FOR_STAGING", "WORKER_LEASE_ACQUIRED">>
<1>1. \A e : Head(<<e>>) = e /\ Len(<<e>>) = 1
  OBVIOUS
<1>2. \A e, f : Head(<<e, f>>) = e /\ Len(<<e, f>>) = 2 /\ Tail(<<e, f>>) = <<f>>
  OBVIOUS
<1>3. /\ Head(EntryEvents) = "PROPOSAL_VALID" /\ Len(EntryEvents) = 3
      /\ Tail(EntryEvents) = <<"AUTHORIZED_FOR_STAGING", "WORKER_LEASE_ACQUIRED">>
  BY DEF EntryEvents
<1> QED
  BY <1>1, <1>2, <1>3

\* The last event of a plan leads to a state the operation may go on in.
LEMMA LastEventOfPlan ==
  ASSUME NEW state, NEW todo \in Seq(TransitionEvent), NEW after, NEW next,
         Plan(state, todo, after), Len(todo) = 1, LeadsTo(Head(todo), next)
  PROVE  /\ Head(todo) \in CoordinatorEvents
         /\ \A s : s.pc = after => StandsIn(s, next)
         /\ after \in {"idle", "closed", "stage_guards", "verify_guards", "committing",
                       "discarding"}
         /\ next \notin Idlers => state \notin Idlers
         /\ after = "committing" => state = "READY_TO_COMMIT"
         /\ state = "COMMITTING" => \/ todo = <<"COMMIT_FAILED_NO_EFFECT">>
                                    \/ next \in {"COMMITTED", "FAILED", "IN_DOUBT"}
         /\ state \in PRE_COMMIT_STATES \cup {"ABORTING", "COMMITTING"}
         /\ next = "COMMITTED" => todo = <<"COMMIT_VERIFIED">>
<1>0. PICK e : todo = <<e>> /\ e = Head(todo)
  <2>1. todo = <<Head(todo)>>
    OBVIOUS
  <2> QED
    BY <2>1
<1>1. \A f : <<f>> = todo => f = e
  BY <1>0
<1>2. \A f, g : <<f, g>> # todo
  BY <1>0
<1>3. EntryEvents # todo
  BY <1>0 DEF EntryEvents
<1> USE DEF LeadsTo, TargetOf, CoordinatorEvents, AbortEvents, CommitEvents,
            StandsIn, Idlers, PRE_COMMIT_STATES, IntendedOutcome, NONE
<1>4. CASE /\ state = "NEW" /\ todo = <<"VALIDATION_FAILED">>
           /\ after \in {"idle", "closed"}
  BY <1>0, <1>1, <1>4
<1>5. CASE /\ state = "ABORTING" /\ todo = <<"STAGING_DISCARD_SUCCEEDED">>
           /\ after \in {"idle", "closed"}
  BY <1>0, <1>1, <1>5
<1>6. CASE /\ state = "ABORTING" /\ todo = <<"STAGING_DISCARD_FAILED">>
           /\ after = "idle"
  BY <1>0, <1>1, <1>6
<1>7. CASE /\ state = "AUTHORIZED_TO_STAGE" /\ todo = <<"WORKER_LEASE_ACQUIRED">>
           /\ after = "stage_guards"
  BY <1>0, <1>1, <1>7
<1>8. CASE /\ state = "STAGING" /\ todo = <<"STAGING_SUCCEEDED">>
           /\ after = "verify_guards"
  BY <1>0, <1>1, <1>8
<1>9. CASE /\ state = "STAGE_VERIFIED" /\ todo = <<"NO_APPROVAL_REQUIRED">>
           /\ after = "idle"
  BY <1>0, <1>1, <1>9
<1>10. CASE /\ state = "READY_TO_COMMIT" /\ todo = <<"COMMIT_GUARDS_PASSED">>
            /\ after = "committing"
  BY <1>0, <1>1, <1>10
<1>11. CASE /\ state \in PRE_COMMIT_STATES /\ (\E f \in AbortEvents : todo = <<f>>)
            /\ after = "discarding"
  BY <1>0, <1>1, <1>11
<1>12. CASE /\ state = "COMMITTING" /\ todo = <<"COMMIT_FAILED_NO_EFFECT">>
            /\ after = "discarding"
  BY <1>0, <1>1, <1>12
<1>13. CASE /\ state = "COMMITTING" /\ (\E f \in CommitEvents : todo = <<f>>)
            /\ after = "idle"
  BY <1>0, <1>1, <1>13
<1> QED
  BY <1>2, <1>3, <1>4, <1>5, <1>6, <1>7, <1>8, <1>9, <1>10, <1>11, <1>12, <1>13 DEF Plan

\* An event that is not the last leads to a state with a plan for the rest.
LEMMA EventOfPlan ==
  ASSUME NEW state, NEW todo \in Seq(TransitionEvent), NEW after, NEW next,
         Plan(state, todo, after), Len(todo) # 1, LeadsTo(Head(todo), next)
  PROVE  /\ Head(todo) \in CoordinatorEvents
         /\ Plan(next, Tail(todo), after)
         /\ Tail(todo) \notin Burdened
         /\ next \notin Idlers => state \notin Idlers \/ todo = EntryEvents
         /\ state \in PRE_COMMIT_STATES
         /\ next # "COMMITTED"
<1> USE DEF LeadsTo, TargetOf, CoordinatorEvents, AbortEvents, Idlers, PRE_COMMIT_STATES,
            NONE
<1>1. \A e : Len(<<e>>) = 1
  BY HeadsAndTails
<1>2. CASE /\ state = "NEW" /\ todo = <<"CANCELLED", "STAGING_DISCARD_SUCCEEDED">>
           /\ after = "closed"
  <2>1. Head(todo) = "CANCELLED" /\ Tail(todo) = <<"STAGING_DISCARD_SUCCEEDED">>
    BY <1>2, HeadsAndTails
  <2>2. Tail(todo) \notin Burdened
    BY <2>1, PlansDiffer, TodoTyped
  <2> QED
    BY <1>2, <2>1, <2>2 DEF Plan
<1>3. CASE state = "NEW" /\ todo = EntryEvents /\ after = "stage_guards"
  <2>1. /\ Head(todo) = "PROPOSAL_VALID"
        /\ Tail(todo) = <<"AUTHORIZED_FOR_STAGING", "WORKER_LEASE_ACQUIRED">>
    BY <1>3, HeadsAndTails
  <2>2. Tail(todo) \notin Burdened
    BY <2>1, PlansDiffer
  <2> QED
    BY <1>3, <2>1, <2>2 DEF Plan
<1>4. CASE /\ state = "PLANNED"
           /\ todo = <<"AUTHORIZED_FOR_STAGING", "WORKER_LEASE_ACQUIRED">>
           /\ after = "stage_guards"
  <2>1. Head(todo) = "AUTHORIZED_FOR_STAGING" /\ Tail(todo) = <<"WORKER_LEASE_ACQUIRED">>
    BY <1>4, HeadsAndTails
  <2>2. Tail(todo) \notin Burdened
    BY <2>1, PlansDiffer, TodoTyped
  <2>3. next = "AUTHORIZED_TO_STAGE" /\ Head(todo) \in CoordinatorEvents
    BY <2>1
  <2>4. Plan(next, Tail(todo), after)
    BY <1>4, <2>1, <2>3 DEF Plan
  <2> QED
    BY <1>4, <2>2, <2>3, <2>4
<1>5. CASE /\ state = "STAGED"
           /\ todo = <<"STAGED_VERIFICATION_PASSED", "NO_APPROVAL_REQUIRED">>
           /\ after = "idle"
  <2>1. Head(todo) = "STAGED_VERIFICATION_PASSED" /\ Tail(todo) = <<"NO_APPROVAL_REQUIRED">>
    BY <1>5, HeadsAndTails
  <2>2. Tail(todo) \notin Burdened
    BY <2>1, PlansDiffer, TodoTyped
  <2>3. next = "STAGE_VERIFIED" /\ Head(todo) \in CoordinatorEvents
    BY <2>1
  <2>4. Plan(next, Tail(todo), after)
    BY <1>5, <2>1, <2>3 DEF Plan
  <2> QED
    BY <1>5, <2>2, <2>3, <2>4
<1> QED
  BY <1>1, <1>2, <1>3, <1>4, <1>5 DEF Plan

\* The first event of the plan is recorded, and the operation goes on.
LEMMA RecordEventPreserves ==
  ASSUME CInv, NEW t \in Transactions, RecordEvent(t)
  PROVE  CInv'
<1>1. PICK q : q = session[t]
  OBVIOUS
<1>2. /\ q \in Session /\ q.pc = "journal" /\ q.record = transactions[t]
      /\ Plan(transactions[t].state, q.todo, q.after)
      /\ GoodWith(t, q)
  <2>1. q.pc = "journal"
    BY <1>1 DEF RecordEvent
  <2> QED
    BY <1>1, <2>1, Running DEF StandsIn, CInv, Good
<1>3. PICK todo \in Seq(TransitionEvent) : todo = q.todo
  BY <1>2 DEF Session
<1>4. PICK after \in SessionPc : after = q.after
  BY <1>2 DEF Session
<1>5. PICK state : state = transactions[t].state
  OBVIOUS
<1>6. /\ Plan(state, todo, after)
      /\ Transition(t, q.record.version, Head(todo), RunOf[t])
      /\ UNCHANGED <<intents, receipts, adapterVars, envVars>>
  BY <1>1, <1>2, <1>3, <1>4, <1>5 DEF RecordEvent, Transition
<1>7. todo # <<>> /\ Len(todo) \in Nat /\ Head(todo) \in TransitionEvent
      /\ Tail(todo) \in Seq(TransitionEvent)
  <2>1. todo # <<>>
    BY <1>6 DEF Plan, EntryEvents
  <2> QED
    BY <2>1
<1>8. Head(todo) \in CoordinatorEvents
  <2>1. CASE Len(todo) = 1
    <3>1. PICK e : e = Head(todo)
      OBVIOUS
    <3>2. PICK x : LeadsTo(e, x)
      BY DEF LeadsTo, IntendedOutcome
    <3> QED
      BY <1>6, <2>1, <3>1, <3>2, LastEventOfPlan
  <2>2. CASE Len(todo) # 1
    <3>1. PICK e : e = Head(todo)
      OBVIOUS
    <3>2. PICK x : LeadsTo(e, x)
      BY DEF LeadsTo, IntendedOutcome
    <3> QED
      BY <1>6, <2>2, <3>1, <3>2, EventOfPlan
  <2> QED
    BY <2>1, <2>2
<1>9. JTypeOK /\ RunOf[t] \in Runs /\ q.record.version \in Nat
      /\ transactions[t].intended_outcome \in IntendedOutcome \cup {NONE}
  BY <1>2, ConstantsAreTyped DEF CInv, TypeOK, JTypeOK, Row
<1>10. JInv'
  BY <1>6, <1>7, <1>9, JInvStep DEF JOperation, CInv
<1>11. PICK row \in Row :
         /\ row = transactions'[t]
         /\ transactions' = [transactions EXCEPT ![t] = row]
         /\ \E d \in ApplyTransition(state, Head(todo), transactions[t].intended_outcome) :
              row.state = d.target
  <2>0. PICK run \in Runs : run = RunOf[t]
    BY <1>9
  <2>1. PICK e, v : e = Head(todo) /\ v = q.record.version
    OBVIOUS
  <2>2. Transition(t, v, e, run)
    BY <1>6, <2>0, <2>1
  <2>3. /\ transactions' = [transactions EXCEPT ![t] = transactions'[t]]
        /\ transactions'[t] \in Row
        /\ \E d \in ApplyTransition(transactions[t].state, e,
                                    transactions[t].intended_outcome) :
             transactions'[t].state = d.target
    <3>1. JTypeOK
      BY <1>9
    <3>2. /\ transactions' = [transactions EXCEPT ![t] = transactions'[t]]
          /\ transactions'[t] \in Row
      BY <2>2, <3>1, TransitionRow
    <3>3. \E d \in ApplyTransition(transactions[t].state, e,
                                   transactions[t].intended_outcome) :
            transactions'[t].state = d.target
      BY <2>2, <3>1, TransitionRow
    <3> QED
      BY <3>2, <3>3
  <2> QED
    BY <1>5, <2>1, <2>3
<1>12. LeadsTo(Head(todo), row.state)
  BY <1>8, <1>9, <1>11, DecisionTargets DEF LeadsTo
<1>13. \A u \in Transactions \ {t} : transactions'[u] = transactions[u]
  BY <1>9, <1>11 DEF JTypeOK
<1>14. PICK pc \in SessionPc : pc = IF Len(todo) = 1 THEN after ELSE "journal"
  BY DEF SessionPc
<1>15. PICK on \in SessionPc : on = IF Len(todo) = 1 THEN "idle" ELSE after
  BY DEF SessionPc
<1>16. PICK inside \in BOOLEAN : inside = (q.inside \/ row.state = "READY_TO_COMMIT")
  OBVIOUS
<1>17. PICK rest \in Seq(TransitionEvent) : rest = Tail(todo)
  BY <1>7
<1>18. PICK s : s = [q EXCEPT !.record = row, !.todo = rest, !.pc = pc, !.after = on,
                              !.inside = inside]
  OBVIOUS
<1>19. Become(t, s)
  BY <1>1, <1>2, <1>3, <1>4, <1>11, <1>14, <1>15, <1>16, <1>17, <1>18 DEF RecordEvent
<1>20. s \in Session /\ s.record = row /\ s.todo = rest /\ s.pc = pc /\ s.after = on
  BY <1>2, <1>18 DEF Session
<1>21. /\ EffectsOf(t)' = EffectsOf(t)
       /\ Owns(t)' <=> Owns(t)
  BY <1>6 DEF EffectsOf, Owns, adapterVars
<1>22. \A u \in Transactions : HasReceipt(u)' <=> HasReceipt(u)
  BY <1>6 DEF HasReceipt
<1>23. GoodWith(t, s)'
  <2>1. CASE Len(todo) = 1
    <3>1. pc = after
      BY <1>14, <2>1
    <3>2. /\ \A x : x.pc = after => StandsIn(x, row.state)
          /\ after \in {"idle", "closed", "stage_guards", "verify_guards", "committing",
                        "discarding"}
          /\ row.state \notin Idlers => state \notin Idlers
          /\ after = "committing" => state = "READY_TO_COMMIT"
          /\ state = "COMMITTING" => \/ todo = <<"COMMIT_FAILED_NO_EFFECT">>
                                     \/ row.state \in {"COMMITTED", "FAILED", "IN_DOUBT"}
          /\ state \in PRE_COMMIT_STATES \cup {"ABORTING", "COMMITTING"}
          /\ row.state = "COMMITTED" => todo = <<"COMMIT_VERIFIED">>
      BY <1>6, <1>12, <2>1, LastEventOfPlan
    <3>3. StandsIn(s, row.state)
      BY <1>20, <3>1, <3>2
    <3>4. row.state \notin Idlers => Owns(t)'
      BY <1>2, <1>5, <1>21, <3>2 DEF GoodWith
    <3>5. EffectsOf(t) # {} => /\ state = "COMMITTING"
                               /\ row.state \in {"COMMITTED", "FAILED", "IN_DOUBT"}
      BY <1>2, <1>3, <1>5, <3>2 DEF GoodWith, PRE_COMMIT_STATES
    <3>6. row.state = "COMMITTED" => HasReceipt(t)'
      BY <1>2, <1>3, <1>22, <3>2 DEF GoodWith
    <3>7. HasReceipt(t)' => EffectsOf(t)' # {}
      BY <1>2, <1>21, <1>22 DEF GoodWith
    <3>8. /\ pc \notin {"linking", "journal", "journaling", "confirming"}
          /\ pc = "committing" => EffectsOf(t) = {}
      BY <3>1, <3>2, <3>5
    <3> QED
      BY <1>11, <1>20, <1>21, <3>3, <3>4, <3>5, <3>6, <3>7, <3>8 DEF GoodWith
  <2>2. CASE Len(todo) # 1
    <3>1. /\ Plan(row.state, rest, after)
          /\ rest \notin Burdened
          /\ row.state \notin Idlers => state \notin Idlers \/ todo = EntryEvents
          /\ state \in PRE_COMMIT_STATES
          /\ row.state # "COMMITTED"
      BY <1>6, <1>12, <1>17, <2>2, EventOfPlan
    <3>2. pc = "journal" /\ on = after
      BY <1>14, <1>15, <2>2
    <3>3. StandsIn(s, row.state)
      BY <1>20, <3>1, <3>2 DEF StandsIn
    <3>4. row.state \notin Idlers => Owns(t)'
      BY <1>2, <1>3, <1>5, <1>21, <3>1 DEF GoodWith
    <3>5. EffectsOf(t) = {}
      BY <1>2, <1>5, <3>1 DEF GoodWith, PRE_COMMIT_STATES
    <3>6. HasReceipt(t)' => EffectsOf(t)' # {}
      BY <1>2, <1>21, <1>22 DEF GoodWith
    <3> QED
      BY <1>11, <1>20, <1>21, <3>1, <3>2, <3>3, <3>4, <3>5, <3>6 DEF GoodWith, Burdened
  <2> QED
    BY <2>1, <2>2
<1> QED
  BY <1>6, <1>10, <1>13, <1>19, <1>20, <1>22, <1>23, RowStep

-----------------------------------------------------------------------------
(* The reservation, the commit and its receipt                             *)

\* The reservation gives the intent to the caller, or to who has it.
LEMMA ReservationOwner ==
  ASSUME NEW h, NEW t
  PROVE  \/ OwnerAfterReservation(h, t) = intents[h]
         \/ /\ OwnerAfterReservation(h, t) = t
            /\ \/ intents[h] = NONE
               \/ transactions[intents[h]].state \in SafeNoEffectStates
BY DEF OwnerAfterReservation

\* __aenter__ reserves the intent, and works only if it is told that it owns it.
LEMMA EnterReservesPreserves ==
  ASSUME CInv, NEW t \in Transactions, EnterReserves(t)
  PROVE  CInv'
<1>1. /\ session[t].pc = "idle" /\ session[t] \in Session
      /\ session[t].record = transactions[t] /\ transactions[t].state = "NEW"
      /\ GoodWith(t, session[t])
  BY Running DEF EnterReserves, CInv, Good
<1>2. PICK h \in Intents : h = IntentOf[t]
  BY ConstantsAreTyped
<1>3. /\ ReserveIntent(h, t)
      /\ intents' = [intents EXCEPT ![h] = OwnerAfterReservation(h, t)]
      /\ UNCHANGED <<transactions, receipts, adapterVars, envVars>>
  BY <1>2 DEF EnterReserves, ReserveIntent
<1>4. JInv' /\ intents \in [Intents -> Transactions \cup {NONE}]
  BY <1>3, JInvStep DEF JOperation, CInv, TypeOK, JTypeOK
<1>5. intents'[h] = OwnerAfterReservation(h, t)
      /\ \A g \in Intents \ {h} : intents'[g] = intents[g]
  BY <1>3, <1>4
<1>6. ASSUME NEW u \in Transactions \ {t}
      PROVE  Owns(u) => Owns(u)' \/ transactions[u].state \in SafeNoEffectStates
  <2>1. IntentOf[u] \in Intents /\ u # NONE
    BY ConstantsAreTyped, NoneIsNoIdentifier
  <2> QED
    BY <1>5, <2>1, ReservationOwner DEF Owns
<1>7. PICK s : /\ Become(t, s)
               /\ \/ s = Recording(t, <<"VALIDATION_FAILED">>, "idle")
                  \/ /\ OwnerAfterReservation(h, t) = t
                     /\ PreviousOwner(h, t) # NONE
                     /\ s = [At(t, "linking") EXCEPT !.previous = PreviousOwner(h, t)]
                  \/ /\ OwnerAfterReservation(h, t) = t
                     /\ s = Recording(t, EntryEvents, "stage_guards")
  <2>1. PICK s : /\ Become(t, s)
                 /\ s = CASE OwnerAfterReservation(h, t) # t ->
                               Recording(t, <<"VALIDATION_FAILED">>, "idle")
                          [] PreviousOwner(h, t) # NONE ->
                               [At(t, "linking") EXCEPT !.previous = PreviousOwner(h, t)]
                          [] OTHER -> Recording(t, EntryEvents, "stage_guards")
    BY <1>2 DEF EnterReserves
  <2>2. OwnerAfterReservation(h, t) # t => PreviousOwner(h, t) = NONE
    BY DEF PreviousOwner
  <2> QED
    BY <2>1, <2>2
<1>8. "idle" \in SessionPc /\ "linking" \in SessionPc /\ "stage_guards" \in SessionPc
  BY DEF SessionPc
<1>9. /\ s \in Session /\ s.record = transactions[t]
      /\ \/ s.pc = "journal" /\ s.todo = <<"VALIDATION_FAILED">> /\ s.after = "idle"
         \/ Owns(t)' /\ s.pc = "linking" /\ s.previous \in Transactions
         \/ Owns(t)' /\ s.pc = "journal" /\ s.todo = EntryEvents /\ s.after = "stage_guards"
  <2>1. CASE s = Recording(t, <<"VALIDATION_FAILED">>, "idle")
    <3>1. PICK e \in TransitionEvent : e = "VALIDATION_FAILED"
      BY TodoTyped DEF CoordinatorEvents
    <3>2. s = Recording(t, <<e>>, "idle") /\ session[t].pc \notin {"unborn", "closed"}
      BY <1>1, <2>1, <3>1
    <3>3. /\ s \in Session /\ s.pc = "journal" /\ s.todo = <<e>>
          /\ s.after = "idle" /\ s.record = session[t].record
      BY <1>8, <3>2, OneEventFields
    <3> QED
      BY <1>1, <3>1, <3>3
  <2>2. CASE /\ OwnerAfterReservation(h, t) = t /\ PreviousOwner(h, t) # NONE
             /\ s = [At(t, "linking") EXCEPT !.previous = PreviousOwner(h, t)]
    <3>1. Owns(t)'
      BY <1>2, <1>5, <2>2 DEF Owns
    <3>2. PICK p \in Transactions : p = PreviousOwner(h, t)
      BY <1>4, <2>2 DEF PreviousOwner
    <3>3. PICK a : a = At(t, "linking")
      OBVIOUS
    <3>4. a \in Session /\ a.pc = "linking" /\ a.record = session[t].record
      BY <1>1, <1>8, <3>3, AtFields
    <3>5. s = [a EXCEPT !.previous = p]
      BY <2>2, <3>2, <3>3
    <3>6. s \in Session /\ s.pc = "linking" /\ s.record = session[t].record /\ s.previous = p
      BY <3>4, <3>5 DEF Session
    <3> QED
      BY <1>1, <3>1, <3>6
  <2>3. CASE /\ OwnerAfterReservation(h, t) = t
             /\ s = Recording(t, EntryEvents, "stage_guards")
    <3>1. Owns(t)'
      BY <1>2, <1>5, <2>3 DEF Owns
    <3> QED
      BY <1>1, <1>8, <2>3, <3>1, TodoTyped, RecordingFields
  <2> QED
    BY <1>7, <2>1, <2>2, <2>3
<1>10. \A u \in Transactions : /\ EffectsOf(u)' = EffectsOf(u)
                               /\ transactions'[u] = transactions[u]
                               /\ HasReceipt(u)' <=> HasReceipt(u)
  BY <1>3 DEF EffectsOf, HasReceipt, adapterVars
<1>11. GoodWith(t, s)'
  <2>1. EffectsOf(t)' = {} /\ ~HasReceipt(t)'
    BY <1>1, <1>10 DEF GoodWith
  <2>2. StandsIn(s, "NEW")
    BY <1>9 DEF StandsIn, Plan
  <2>3. s.pc = "journal" => s.todo \notin {<<"COMMIT_FAILED_NO_EFFECT">>, <<"COMMIT_VERIFIED">>}
    <3>1. \A e : <<e>> # EntryEvents
      BY DEF EntryEvents
    <3> QED
      BY <1>9, <3>1
  <2>4. s.pc = "journal" /\ s.todo = EntryEvents => Owns(t)'
    <3>1. \A e : <<e>> # EntryEvents
      BY DEF EntryEvents
    <3> QED
      BY <1>9, <3>1
  <2> QED
    BY <1>1, <1>9, <1>10, <2>1, <2>2, <2>3, <2>4 DEF GoodWith, Idlers
<1>12. EffectsInv'
  BY <1>3 DEF CInv, EffectsInv, AtMostOneEffectPerIntent, adapterVars
<1>13. /\ late' \in SUBSET Transactions /\ manifestChanged' \in BOOLEAN
       /\ target' \in Nat /\ stages' \in SUBSET Transactions /\ crashes' \in Nat
       /\ effects' \subseteq [receipt : EffectReceipt, intent_hash : Intents]
       /\ receiptOf' \in [Intents -> EffectReceipt]
  BY <1>3 DEF adapterVars, envVars, CInv, TypeOK
<1> QED
  BY <1>4, <1>6, <1>7, <1>9, <1>10, <1>11, <1>12, <1>13, TableStep

\* While a transaction without effect owns its intent past validation, the
\* intent has no effect at all, and the adapter knows no receipt of it.
LEMMA OwnerIsFirst ==
  ASSUME CInv, NEW t \in Transactions, Owns(t), EffectsOf(t) = {}
  PROVE  /\ \A e \in effects : e.intent_hash # IntentOf[t]
         /\ receiptOf[IntentOf[t]] = NoReceipt
<1>1. ASSUME NEW e \in effects, e.intent_hash = IntentOf[t] PROVE FALSE
  <2>1. PICK v \in Transactions : /\ v = e.receipt.transaction_id
                                  /\ e.intent_hash = IntentOf[v]
    BY DEF CInv, EffectsInv
  <2>2. e \in EffectsOf(v)
    BY <2>1 DEF EffectsOf
  <2>3. /\ transactions[v].state \in {"COMMITTING", "COMMITTED", "FAILED", "IN_DOUBT"}
        /\ GoodWith(v, session[v])
    BY <2>2 DEF CInv, Good, GoodWith
  <2>4. Owns(v)
    BY <2>3 DEF GoodWith, Idlers, NONE
  <2>5. v = t
    BY <1>1, <2>1, <2>4 DEF Owns
  <2> QED
    BY <2>2, <2>5
<1> QED
  BY <1>1, ConstantsAreTyped DEF CInv, EffectsInv

\* adapter.commit has its effect, acknowledged or not.
LEMMA CommitAppliesPreserves ==
  ASSUME CInv, NEW t \in Transactions, CommitApplies(t)
  PROVE  CInv'
<1>1. /\ session[t].pc = "committing" /\ session[t] \in Session
      /\ session[t].record = transactions[t] /\ transactions[t].state = "COMMITTING"
      /\ GoodWith(t, session[t])
  <2>1. session[t].pc = "committing"
    BY DEF CommitApplies
  <2> QED
    BY <2>1, Running DEF StandsIn, CInv, Good
<1>2. EffectsOf(t) = {} /\ Owns(t) /\ ~HasReceipt(t)
  BY <1>1 DEF GoodWith, Idlers, NONE
<1>3. PICK h \in Intents : h = IntentOf[t]
  BY ConstantsAreTyped
<1>4. (\A e \in effects : e.intent_hash # h) /\ receiptOf[h] = NoReceipt
  BY <1>2, <1>3, OwnerIsFirst
<1>5. PICK fresh \in EffectReceipt :
        /\ fresh = [transaction_id |-> t, before |-> target, after |-> target + 1]
        /\ fresh.transaction_id = t
  <2>1. target \in Nat /\ target + 1 \in Nat
    BY DEF CInv, TypeOK
  <2>2. [transaction_id |-> t, before |-> target, after |-> target + 1] \in EffectReceipt
    BY <2>1 DEF EffectReceipt
  <2> QED
    BY <2>2
<1>6. PICK e \in [receipt : EffectReceipt, intent_hash : Intents] :
        /\ e = [receipt |-> fresh, intent_hash |-> h]
        /\ e.receipt = fresh /\ e.intent_hash = h
  <2>1. [receipt |-> fresh, intent_hash |-> h] \in [receipt : EffectReceipt, intent_hash : Intents]
    OBVIOUS
  <2> QED
    BY <2>1
<1>7. /\ target' = target + 1 /\ effects' = effects \cup {e}
      /\ receiptOf' = [receiptOf EXCEPT ![h] = fresh]
      /\ stages' = stages \ {t}
      /\ UNCHANGED <<jvars, envVars>>
  BY <1>3, <1>4, <1>5, <1>6 DEF CommitApplies
<1>8. PICK s : /\ Become(t, s)
               /\ \/ s = [At(t, "journaling") EXCEPT !.receipt = fresh]
                  \/ s = Recording(t, <<"COMMIT_OUTCOME_UNKNOWN">>, "idle")
  BY <1>3, <1>4, <1>5 DEF CommitApplies
<1>9. "idle" \in SessionPc /\ "journaling" \in SessionPc
  BY DEF SessionPc
<1>10. /\ s \in Session /\ s.record = transactions[t]
       /\ \/ s.pc = "journaling" /\ s.receipt = fresh
          \/ /\ s.pc = "journal" /\ s.todo = <<"COMMIT_OUTCOME_UNKNOWN">>
             /\ s.after = "idle"
  <2>1. CASE s = [At(t, "journaling") EXCEPT !.receipt = fresh]
    <3>1. PICK a : a = At(t, "journaling")
      OBVIOUS
    <3>2. a \in Session /\ a.pc = "journaling" /\ a.record = session[t].record
      BY <1>1, <1>9, <3>1, AtFields
    <3>3. s = [a EXCEPT !.receipt = fresh]
      BY <2>1, <3>1
    <3> QED
      BY <1>1, <3>2, <3>3 DEF Session
  <2>2. CASE s = Recording(t, <<"COMMIT_OUTCOME_UNKNOWN">>, "idle")
    <3>1. PICK f \in TransitionEvent : f = "COMMIT_OUTCOME_UNKNOWN"
      BY TodoTyped DEF CoordinatorEvents, CommitEvents
    <3>2. s = Recording(t, <<f>>, "idle") /\ session[t].pc \notin {"unborn", "closed"}
      BY <1>1, <2>2, <3>1
    <3>3. /\ s \in Session /\ s.pc = "journal" /\ s.todo = <<f>>
          /\ s.after = "idle" /\ s.record = session[t].record
      BY <1>9, <3>2, OneEventFields
    <3> QED
      BY <1>1, <3>1, <3>3
  <2> QED
    BY <1>8, <2>1, <2>2
<1>11. e \in EffectsOf(t)' /\ \A u \in Transactions \ {t} : EffectsOf(u)' = EffectsOf(u)
  BY <1>5, <1>6, <1>7 DEF EffectsOf
<1>12. \A u \in Transactions : /\ transactions'[u] = transactions[u]
                               /\ HasReceipt(u)' <=> HasReceipt(u)
                               /\ Owns(u)' <=> Owns(u)
  BY <1>7 DEF HasReceipt, Owns, jvars
<1>13. GoodWith(t, s)'
  <2>1. StandsIn(s, "COMMITTING")
    BY <1>10 DEF StandsIn, Plan, CommitEvents
  <2>2. s.pc = "journal" => s.todo \notin Burdened
    BY <1>10, PlansDiffer, TodoTyped DEF CoordinatorEvents, CommitEvents
  <2>3. EffectsOf(t)' # {} /\ Owns(t)' /\ ~HasReceipt(t)'
    BY <1>2, <1>11, <1>12
  <2> QED
    BY <1>1, <1>5, <1>10, <1>12, <2>1, <2>2, <2>3 DEF GoodWith, Burdened
<1>14. EffectsInv'
  <2>1. ASSUME NEW g \in Intents
        PROVE  \/ receiptOf'[g] = NoReceipt
               \/ \E f \in effects' : f.receipt = receiptOf'[g] /\ f.intent_hash = g
    <3>1. receiptOf'[g] = IF g = h THEN fresh ELSE receiptOf[g]
      BY <1>7 DEF CInv, TypeOK
    <3> QED
      BY <1>6, <1>7, <3>1 DEF CInv, EffectsInv
  <2>2. ASSUME NEW f \in effects'
        PROVE  /\ f.receipt.transaction_id \in Transactions
               /\ f.intent_hash = IntentOf[f.receipt.transaction_id]
    BY <1>3, <1>5, <1>6, <1>7 DEF CInv, EffectsInv
  <2>3. ASSUME NEW f \in effects', NEW g \in effects', f.intent_hash = g.intent_hash
        PROVE  f = g
    BY <1>4, <1>6, <1>7, <2>3 DEF CInv, EffectsInv, AtMostOneEffectPerIntent
  <2> QED
    BY <2>1, <2>2, <2>3 DEF EffectsInv, AtMostOneEffectPerIntent
<1>15. JInv'
  BY <1>7, JInvStep DEF CInv
<1>16. /\ late' \in SUBSET Transactions /\ manifestChanged' \in BOOLEAN
       /\ target' \in Nat /\ stages' \in SUBSET Transactions /\ crashes' \in Nat
       /\ effects' \subseteq [receipt : EffectReceipt, intent_hash : Intents]
       /\ receiptOf' \in [Intents -> EffectReceipt]
  BY <1>7 DEF envVars, CInv, TypeOK
<1> QED
  BY <1>8, <1>10, <1>11, <1>12, <1>13, <1>14, <1>15, <1>16, TableStep

\* The receipt of the effect is appended, or its identifier is taken.
LEMMA JournalReceiptPreserves ==
  ASSUME CInv, NEW t \in Transactions, JournalReceipt(t)
  PROVE  CInv'
<1>1. /\ session[t].pc = "journaling" /\ session[t] \in Session
      /\ session[t].record = transactions[t] /\ transactions[t].state = "COMMITTING"
      /\ GoodWith(t, session[t])
  <2>1. session[t].pc = "journaling"
    BY DEF JournalReceipt
  <2> QED
    BY <2>1, Running DEF StandsIn, CInv, Good
<1>2. /\ session[t].receipt.transaction_id = t /\ EffectsOf(t) # {} /\ Owns(t)
  BY <1>1 DEF GoodWith, Idlers, NONE
<1>3. CASE Local(t, Recording(t, <<"COMMIT_OUTCOME_UNKNOWN">>, "idle"))
  <2>1. PICK e \in TransitionEvent : e = "COMMIT_OUTCOME_UNKNOWN"
    BY TodoTyped DEF CoordinatorEvents, CommitEvents
  <2>2. PICK s : s = Recording(t, <<e>>, "idle")
    OBVIOUS
  <2>3. /\ s \in Session /\ s.pc = "journal" /\ s.todo = <<e>>
        /\ s.after = "idle" /\ s.record = session[t].record
    <3>1. "idle" \in SessionPc /\ session[t].pc \notin {"unborn", "closed"}
      BY <1>1 DEF SessionPc
    <3> QED
      BY <2>2, <3>1, OneEventFields
  <2>4. GoodWith(t, s)
    <3>1. e \in CommitEvents /\ e # "COMMIT_VERIFIED" /\ e # "COMMIT_FAILED_NO_EFFECT"
      BY <2>1 DEF CommitEvents
    <3> QED
      BY <1>1, <2>3, <3>1, CommitEndStep
  <2> QED
    BY <1>3, <2>1, <2>2, <2>3, <2>4, LocalAction
<1>4. CASE /\ AppendReceipt([receipt_id |-> t, transaction_id |-> t])
           /\ Become(t, At(t, "confirming"))
           /\ UNCHANGED <<adapterVars, envVars>>
  <2>1. PICK r \in Receipt : r = [receipt_id |-> t, transaction_id |-> t]
                             /\ r.transaction_id = t
    <3>1. [receipt_id |-> t, transaction_id |-> t] \in Receipt
      BY ConstantsAreTyped DEF Receipt
    <3> QED
      BY <3>1
  <2>2. AppendReceipt(r)
    BY <1>4, <2>1
  <2>3. JInv'
    BY <2>2, JInvStep DEF JOperation, CInv
  <2>4. receipts' = receipts \cup {r} /\ UNCHANGED <<transactions, intents>>
    BY <2>2 DEF AppendReceipt
  <2>5. PICK s : s = At(t, "confirming")
    OBVIOUS
  <2>6. /\ s \in Session /\ s.pc = "confirming" /\ s.record = session[t].record
        /\ s.receipt = session[t].receipt
    <3>1. "confirming" \in SessionPc
      BY DEF SessionPc, AwaitPoints
    <3> QED
      BY <1>1, <2>5, <3>1, AtFields
  <2>7. HasReceipt(t)' /\ \A u \in Transactions \ {t} : HasReceipt(u)' <=> HasReceipt(u)
    BY <2>1, <2>4 DEF HasReceipt
  <2>8. EffectsOf(t)' # {} /\ Owns(t)'
    BY <1>2, <1>4, <2>4 DEF EffectsOf, Owns, adapterVars
  <2>9. StandsIn(s, "COMMITTING")
    BY <2>6 DEF StandsIn
  <2>10. GoodWith(t, s)'
    BY <1>1, <1>2, <2>4, <2>6, <2>7, <2>8, <2>9 DEF GoodWith
  <2> QED
    BY <1>4, <2>3, <2>4, <2>5, <2>6, <2>7, <2>10, RowStep
<1> QED
  BY <1>2, <1>3, <1>4 DEF JournalReceipt

-----------------------------------------------------------------------------
(* The environment, and the whole                                          *)

\* A deadline elapses, the manifest or the target changes.
LEMMA SurroundingsPreserve ==
  ASSUME CInv, (\E t \in Transactions : Expire(t)) \/ ManifestChanges \/ Drift
  PROVE  CInv'
<1>1. UNCHANGED <<jvars, session, effects, stages, receiptOf, crashes>>
  BY DEF Expire, ManifestChanges, Drift, adapterVars, envVars
<1>2. late' \in SUBSET Transactions /\ manifestChanged' \in BOOLEAN /\ target' \in Nat
  <2>1. CASE \E t \in Transactions : Expire(t)
    BY <2>1 DEF Expire, adapterVars, CInv, TypeOK
  <2>2. CASE ManifestChanges
    BY <2>2 DEF ManifestChanges, adapterVars, CInv, TypeOK
  <2>3. CASE Drift
    BY <2>3 DEF Drift, envVars, CInv, TypeOK
  <2> QED
    BY <2>1, <2>2, <2>3
<1>3. JInv'
  BY <1>1, JInvStep DEF CInv
<1>4. TypeOK'
  BY <1>1, <1>2, <1>3 DEF CInv, TypeOK, JInv
<1>5. EffectsInv'
  BY <1>1 DEF CInv, EffectsInv, AtMostOneEffectPerIntent
<1>6. \A t \in Transactions : Good(t)'
  BY <1>1 DEF CInv, Good, GoodWith, Owns, EffectsOf, HasReceipt, jvars
<1> QED
  BY <1>3, <1>4, <1>5, <1>6 DEF CInv

\* The session of a process that has not begun, or that has died.
LEMMA NoSession ==
  /\ UnbornSession \in Session /\ UnbornSession.pc = "unborn"
  /\ [UnbornSession EXCEPT !.pc = "closed"] \in Session
  /\ [UnbornSession EXCEPT !.pc = "closed"].pc = "closed"
  /\ NoReceipt \in EffectReceipt
<1>1. <<>> \in Seq(TransitionEvent) /\ AbsentRow \in Row /\ 0 \in Nat
  BY RowsTyped
<1>2. {"unborn", "closed", "idle"} \subseteq SessionPc
  BY DEF SessionPc
<1>3. NoReceipt \in EffectReceipt
  BY DEF NoReceipt, EffectReceipt
<1>4. UnbornSession \in Session /\ UnbornSession.pc = "unborn"
  BY <1>1, <1>2, <1>3 DEF UnbornSession, Session
<1>5. PICK a \in Session : a = UnbornSession
  BY <1>4
<1>6. [a EXCEPT !.pc = "closed"] \in Session /\ [a EXCEPT !.pc = "closed"].pc = "closed"
  BY <1>2 DEF Session
<1> QED
  BY <1>3, <1>4, <1>5, <1>6

\* A session that does nothing owes nothing beyond what the tables say.
LEMMA AtRest ==
  ASSUME NEW s, s.pc \in {"unborn", "closed"}, NEW state
  PROVE  StandsIn(s, state)
BY DEF StandsIn

\* The process dies: every session is gone, and what is durable stays.
LEMMA CrashPreserves ==
  ASSUME CInv, Crash
  PROVE  CInv'
<1>1. /\ UNCHANGED <<jvars, target, effects, late, manifestChanged>>
      /\ stages' = {} /\ receiptOf' = [h \in Intents |-> NoReceipt]
      /\ crashes' = crashes + 1
      /\ session' = [t \in Transactions |->
           IF session[t].pc = "unborn" THEN session[t]
           ELSE [UnbornSession EXCEPT !.pc = "closed"]]
  BY DEF Crash
<1>2. \A t \in Transactions :
        session'[t] \in Session /\ session'[t].pc \in {"unborn", "closed"}
  BY <1>1, NoSession DEF CInv, TypeOK
<1>3. session' \in [Transactions -> Session]
  BY <1>1, <1>2
<1>4. JInv'
  BY <1>1, JInvStep DEF CInv
<1>5. TypeOK'
  <2>1. receiptOf' \in [Intents -> EffectReceipt] /\ stages' \subseteq Transactions
    BY <1>1, NoSession
  <2> QED
    BY <1>1, <1>3, <1>4, <2>1 DEF CInv, TypeOK, JInv
<1>6. EffectsInv'
  <2>1. \A h \in Intents : receiptOf'[h] = NoReceipt
    BY <1>1
  <2> QED
    BY <1>1, <2>1 DEF CInv, EffectsInv, AtMostOneEffectPerIntent
<1>7. ASSUME NEW t \in Transactions PROVE Good(t)'
  <2>1. PICK s : s = session'[t]
    OBVIOUS
  <2>2. s.pc \in {"unborn", "closed"}
    BY <1>2, <2>1
  <2>3. GoodWith(t, session[t])
    BY DEF CInv, Good
  <2>4. /\ transactions' = transactions /\ EffectsOf(t)' = EffectsOf(t)
        /\ HasReceipt(t)' <=> HasReceipt(t)
        /\ Owns(t)' <=> Owns(t)
    BY <1>1 DEF EffectsOf, HasReceipt, Owns, jvars
  <2>5. StandsIn(s, transactions[t].state)
    BY <2>2, AtRest
  <2>6. GoodWith(t, s)'
    BY <2>2, <2>3, <2>4, <2>5 DEF GoodWith
  <2>7. GoodWith(t, session[t])'
    BY <2>1, <2>6, Zenon
  <2> QED
    BY <2>7 DEF Good
<1> QED
  BY <1>4, <1>5, <1>6, <1>7 DEF CInv

\* Initially nothing has happened.
LEMMA CInvInit ==
  ASSUME Init
  PROVE  CInv
<1>1. JInv
  BY JInvInit DEF Init
<1>2. TypeOK
  <2>1. session \in [Transactions -> Session] /\ receiptOf \in [Intents -> EffectReceipt]
    BY NoSession DEF Init
  <2> QED
    BY <1>1, <2>1 DEF Init, TypeOK, JInv
<1>3. EffectsInv
  BY DEF Init, EffectsInv, AtMostOneEffectPerIntent
<1>4. ASSUME NEW t \in Transactions PROVE Good(t)
  <2>1. session[t].pc = "unborn" /\ transactions[t].state = NONE
    BY NoSession DEF Init, JInit, AbsentRow
  <2>2. EffectsOf(t) = {} /\ ~HasReceipt(t)
    BY DEF EffectsOf, HasReceipt, Init, JInit
  <2>3. StandsIn(session[t], NONE)
    BY <2>1, AtRest
  <2>4. NONE \in Idlers /\ NONE # "COMMITTED"
    BY DEF Idlers, NONE
  <2> QED
    BY <2>1, <2>2, <2>3, <2>4 DEF Good, GoodWith
<1> QED
  BY <1>1, <1>2, <1>3, <1>4 DEF CInv

\* No step leaves the invariant.
LEMMA CInvStep ==
  CInv /\ [Next]_vars => CInv'
<1> SUFFICES ASSUME CInv, [Next]_vars PROVE CInv'
  OBVIOUS
<1>1. CASE UNCHANGED vars
  <2>1. UNCHANGED <<jvars, session, late, manifestChanged, target, effects, stages,
                    receiptOf, crashes>>
    BY <1>1 DEF vars, adapterVars, envVars
  <2>2. JInv'
    BY <2>1, JInvStep DEF CInv
  <2>3. TypeOK'
    BY <2>1, <2>2 DEF CInv, TypeOK, JInv
  <2>4. EffectsInv'
    BY <2>1 DEF CInv, EffectsInv, AtMostOneEffectPerIntent
  <2>5. \A t \in Transactions : Good(t)'
    BY <2>1 DEF CInv, Good, GoodWith, Owns, EffectsOf, HasReceipt, jvars
  <2> QED
    BY <2>2, <2>3, <2>4, <2>5 DEF CInv
<1>2. ASSUME NEW t \in Transactions, Progress(t) PROVE CInv'
  BY <1>2, InspectPreserves, BindPreserves, RecordEventPreserves, LinkSupersessionPreserves,
     BeginStagePreserves, StageReturnsPreserves, ExecuteReturnsPreserves,
     StagingRaisesPreserves, BeginVerifyPreserves, VerifyPreserves,
     RevalidatePreserves, CommitAppliesPreserves, CommitEndPreserves,
     JournalReceiptPreserves, DiscardPreserves
  DEF Progress
<1>3. ASSUME NEW t \in Transactions, Call(t) PROVE CInv'
  BY <1>3, CreateTransactionPreserves, EnterRefusedPreserves, EnterReservesPreserves,
     BeginCommitPreserves, CancelPreserves, ExitPreserves
  DEF Call
<1>4. CASE Environment
  BY <1>4, JournalFailsPreserves, SurroundingsPreserve, CrashPreserves DEF Environment
<1> QED
  BY <1>1, <1>2, <1>3, <1>4 DEF Next

-----------------------------------------------------------------------------
(* Theorems                                                                *)

\* Where an operation stands fits the durable tables at every moment, through
\* failures, cancellations and crashes: the inductive invariant.
THEOREM CoordinatorInvariant == Spec => []CInv
<1>1. Init => CInv
  BY CInvInit
<1> QED
  BY <1>1, CInvStep, PTL DEF Spec

\* Sessions, the journal and the adapter hold values of their types.
THEOREM CoordinatorTypeCorrect == Spec => []TypeOK
<1>1. CInv => TypeOK
  BY DEF CInv
<1> QED
  BY <1>1, CoordinatorInvariant, PTL

\* An intent is applied at most once, for any number of transactions that
\* submit it, retries that take it over, lost acknowledgements and crashes.
THEOREM IntentAppliedOnce == Spec => []AtMostOneEffectPerIntent
<1>1. CInv => AtMostOneEffectPerIntent
  BY DEF CInv, EffectsInv
<1> QED
  BY <1>1, CoordinatorInvariant, PTL

\* An effect is never disowned: its transaction stands where an effect may be.
THEOREM EffectsNeverDisowned == Spec => []EffectsAreAdmitted
<1>1. CInv => EffectsAreAdmitted
  <2> SUFFICES ASSUME CInv, NEW e \in effects
               PROVE  transactions[e.receipt.transaction_id].state
                        \in {"COMMITTING", "COMMITTED", "FAILED", "IN_DOUBT"}
    BY DEF EffectsAreAdmitted
  <2>1. PICK t \in Transactions : t = e.receipt.transaction_id
    BY DEF CInv, EffectsInv
  <2>2. EffectsOf(t) # {}
    BY <2>1 DEF EffectsOf
  <2> QED
    BY <2>1, <2>2 DEF CInv, Good, GoodWith
<1> QED
  BY <1>1, CoordinatorInvariant, PTL

\* COMMITTED has a receipt, and a receipt has an effect.
THEOREM CommittedIsReceipted == Spec => []ReceiptsAreTruthful
<1>1. CInv => ReceiptsAreTruthful
  BY DEF CInv, Good, GoodWith, ReceiptsAreTruthful
<1> QED
  BY <1>1, CoordinatorInvariant, PTL

\* Whoever works on an intent owns it.
THEOREM WorkersOwnTheirIntent == Spec => []ActiveMeansOwner
<1>1. CInv => ActiveMeansOwner
  BY DEF CInv, Good, GoodWith, ActiveMeansOwner, Owns, Idlers
<1> QED
  BY <1>1, CoordinatorInvariant, PTL
=============================================================================
