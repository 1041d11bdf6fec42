--------------------------- MODULE OutcomeProofs ---------------------------
(***************************************************************************)
(* What follows for the callers of the coordinator, for every instance: no *)
(* transition is refused half-way, a clean end leaves no stage, the links  *)
(* of retries form chains, and the coordinator implements EffectOutcome.   *)
(* CInv of CoordinatorProofs says where an operation stands; Tidy(t) adds  *)
(* what its session remembers of its own past (the stage it may have left, *)
(* the owner it replaced, the intent it bound), and Chained what the rows  *)
(* of different transactions remember of each other.                       *)
(***************************************************************************)
EXTENDS CoordinatorProofs

StateOf(t) == transactions[t].state
LinkOf(t) == transactions[t].supersedes_transaction_id

\* Nothing is known yet of the intent of a session that is being admitted, or
\* that is about to be closed before its admission ends.
Unbound(s) ==
  \/ s.pc \in {"unborn", "closed", "inspecting", "binding"}
  \/ s.pc = "journal" /\ s.after = "closed"

MayHoldStage(s) == s.staged # "none" \/ s.cleanup_failed

\* An abort that begins is journaled by an event the state has a rule for.
AbortIsLegal(t, s) ==
  s.pc = "journal" /\ s.after = "discarding" /\ StateOf(t) \in PRE_COMMIT_STATES
    => RulesFor(StateOf(t), Head(s.todo)) # {}

\* Whoever has private material staged has a session that knows it, and that
\* does not record a clean discard before the material is gone.
StageIsKnown(t, s) ==
  t \in stages =>
    /\ s.pc \notin {"unborn", "closed"}
    /\ StateOf(t) \notin {NONE, "NEW"} \cup NoEffectOutcomes
    /\ MayHoldStage(s)
    /\ s.pc = "journal" => s.todo # <<"STAGING_DISCARD_SUCCEEDED">>

\* A session past its admission has bound its intent.
IsBound(t, s) == ~Unbound(s) => transactions[t].intent_hash = IntentOf[t]

\* Whoever may have staged keeps its intent until it has ended without effect.
StagerOwns(t, s) ==
  /\ StateOf(t) = "RECOVERY_FAILED" => Owns(t)
  /\ MayHoldStage(s) \/ (s.pc = "journal" /\ s.todo = <<"STAGING_DISCARD_FAILED">>)
       => StateOf(t) \in NoEffectOutcomes \/ Owns(t)

\* If no journal call fails, the owner that was replaced is linked at once.
IsLinked(t, s) ==
  "journal" \notin Faults /\ s.previous # NONE /\ s.pc # "linking"
    => LinkOf(t) = s.previous

Tidy(t, s) ==
  /\ AbortIsLegal(t, s) /\ StageIsKnown(t, s) /\ IsBound(t, s)
  /\ StagerOwns(t, s) /\ IsLinked(t, s)

\* An abort knows the outcome it will end in.
OutcomeIntended ==
  \A t \in Transactions :
    StateOf(t) = "ABORTING" => transactions[t].intended_outcome # NONE

TInv == CInv /\ OutcomeIntended /\ \A t \in Transactions : Tidy(t, session[t])

-----------------------------------------------------------------------------
(* The coordinator is one of the callers the journal allows                *)

\* Every step of the coordinator and its surroundings is one operation of the
\* journal, or leaves the journal alone.
LEMMA StepsAreJournalOperations ==
  CInv /\ [Next]_vars => [JOperation]_jvars
<1> SUFFICES ASSUME CInv, [Next]_vars PROVE [JOperation]_jvars
  OBVIOUS
<1>1. CASE UNCHANGED vars
  BY <1>1 DEF vars
<1>2. ASSUME NEW t \in Transactions, RecordEvent(t) PROVE JOperation
  <2>1. PICK q : q = session[t]
    OBVIOUS
  <2>2. q.pc = "journal" /\ Transition(t, q.record.version, Head(q.todo), RunOf[t])
    BY <1>2, <2>1 DEF RecordEvent
  <2>3. q \in Session /\ q.record = transactions[t]
        /\ Plan(transactions[t].state, q.todo, q.after)
    BY <2>1, <2>2, Running DEF StandsIn
  <2>4. q.todo \in Seq(TransitionEvent) /\ q.todo # <<>>
    <3>1. PICK todo \in Seq(TransitionEvent) : todo = q.todo
      BY <2>3 DEF Session
    <3>2. PICK state, after : Plan(state, todo, after)
      BY <2>3, <3>1
    <3>3. todo # <<>>
      BY <3>2 DEF Plan, EntryEvents
    <3> QED
      BY <3>1, <3>3
  <2>5. PICK e \in TransitionEvent : e = Head(q.todo)
    BY <2>4
  <2>6. PICK v \in Nat : v = q.record.version
    BY <2>3 DEF CInv, TypeOK, JTypeOK, Row
  <2>7. RunOf[t] \in Runs
    BY ConstantsAreTyped
  <2>8. Transition(t, v, e, RunOf[t])
    BY <2>2, <2>5, <2>6
  <2> QED
    BY <2>7, <2>8 DEF JOperation
<1>3. ASSUME NEW t \in Transactions, Link(t) PROVE JOperation
  <2>1. session[t].pc = "linking" /\ LinkTransactionSupersession(t, session[t].previous)
    BY <1>3 DEF Link
  <2>2. session[t].previous \in Transactions
    BY <2>1 DEF CInv, Good, GoodWith
  <2> QED
    BY <2>1, <2>2 DEF JOperation
<1>4. ASSUME NEW t \in Transactions, Bind(t) \/ EnterReserves(t) \/ Create(t)
      PROVE  JOperation
  <2>1. IntentOf[t] \in Intents /\ RunOf[t] \in Runs
    BY ConstantsAreTyped
  <2> QED
    BY <1>4, <2>1 DEF Bind, EnterReserves, Create, JOperation
<1>5. ASSUME NEW t \in Transactions, JournalReceipt(t) PROVE [JOperation]_jvars
  <2>1. CASE UNCHANGED jvars
    BY <2>1
  <2>2. CASE AppendReceipt([receipt_id |-> session[t].receipt.transaction_id,
                            transaction_id |-> session[t].receipt.transaction_id])
    <3>1. session[t].receipt.transaction_id = t
      BY <1>5 DEF JournalReceipt, CInv, Good, GoodWith
    <3>2. [receipt_id |-> t, transaction_id |-> t] \in Receipt
      BY ConstantsAreTyped DEF Receipt
    <3> QED
      BY <2>2, <3>1, <3>2 DEF JOperation
  <2> QED
    BY <1>5, <2>1, <2>2 DEF JournalReceipt, Local
<1>6. ASSUME NEW t \in Transactions, Progress(t) PROVE [JOperation]_jvars
  <2>1. CASE \/ InspectReturns(t) \/ InspectInterrupted(t) \/ BeginStage(t)
             \/ ExecuteReturns(t) \/ StagingInterrupted(t) \/ BeginVerify(t)
             \/ VerifyPasses(t) \/ VerifyFails(t) \/ RevalidateReturns(t)
             \/ RevalidateInterrupted(t) \/ CommitStale(t) \/ CommitInterrupted(t)
             \/ ConfirmReturns(t) \/ ConfirmInterrupted(t) \/ DiscardUnaided(t)
    BY <2>1 DEF InspectReturns, InspectInterrupted, BeginStage, ExecuteReturns,
         StagingInterrupted, BeginVerify, VerifyPasses, VerifyFails, RevalidateReturns,
         RevalidateInterrupted, CommitStale, CommitInterrupted, ConfirmReturns,
         ConfirmInterrupted, DiscardUnaided, Local
  <2>2. CASE \/ StageReturns(t) \/ StagingUnclean(t) \/ CommitApplies(t)
             \/ DiscardReturns(t) \/ DiscardInterrupted(t)
    BY <2>2 DEF StageReturns, StagingUnclean, CommitApplies, DiscardReturns,
         DiscardInterrupted
  <2> QED
    BY <1>2, <1>3, <1>4, <1>5, <1>6, <2>1, <2>2 DEF Progress
<1>7. ASSUME NEW t \in Transactions, Call(t) PROVE [JOperation]_jvars
  <2>1. CASE EnterRefused(t) \/ BeginCommit(t) \/ Cancel(t) \/ EnforceDeadline(t) \/ Exit(t)
    BY <2>1 DEF EnterRefused, BeginCommit, Cancel, EnforceDeadline, Exit, Local
  <2> QED
    BY <1>4, <1>7, <2>1 DEF Call
<1>8. CASE Environment
  BY <1>8 DEF Environment, JournalFails, Local, Expire, ManifestChanges, Drift, Crash
<1> QED
  BY <1>1, <1>6, <1>7, <1>8 DEF Next

-----------------------------------------------------------------------------
(* What the table has rules for                                            *)

\* A rule that begins an abort says in which outcome the abort will end.
LEMMA AbortRulesIntend ==
  ASSUME NEW r \in NORMATIVE_TRANSITIONS, r.target = "ABORTING"
  PROVE  r.outcome \in IntendedOutcome
<1>0. ASSUME NEW sources, NEW exits, r \in Exits(sources, exits)
      PROVE  r.outcome \in IntendedOutcome
  BY <1>0 DEF Exits, Rule, IntendedOutcome
<1>1. CASE r \in PlanningRules
  BY <1>0, <1>1 DEF PlanningRules, Rule
<1>2. CASE r \in StagingRules
  BY <1>0, <1>2 DEF StagingRules, Rule, IntendedOutcome
<1>3. CASE r \in ApprovalRules
  BY <1>0, <1>3 DEF ApprovalRules, Rule, IntendedOutcome
<1>4. CASE r \in CommitRules
  BY <1>4 DEF CommitRules, Rule, IntendedOutcome
<1>5. CASE r \in RecoveryRules
  BY <1>5 DEF RecoveryRules, Rule, IntendedOutcome, NONE
<1> QED
  BY <1>1, <1>2, <1>3, <1>4, <1>5 DEF NORMATIVE_TRANSITIONS

\* Where there is a rule, apply_transition decides; only the rule without a
\* target needs an outcome that is already intended.
LEMMA RuleDecides ==
  ASSUME NEW state, NEW event, NEW current \in IntendedOutcome \cup {NONE},
         NEW r \in RulesFor(state, event), r.target # NONE \/ current # NONE
  PROVE  ApplyTransition(state, event, current) # {}
<1>1. r \in NORMATIVE_TRANSITIONS
  BY DEF RulesFor
<1>2. PICK d : d = Decision(r, current)
  OBVIOUS
<1>3. /\ d.target = IF r.target = NONE THEN current ELSE r.target
      /\ d.outcome = IF r.outcome = NONE THEN current ELSE r.outcome
  BY <1>2 DEF Decision
<1>4. d.target # NONE
  BY <1>3
<1>5. d.target = "ABORTING" => d.outcome # NONE
  <2> SUFFICES ASSUME d.target = "ABORTING" PROVE d.outcome # NONE
    OBVIOUS
  <2>1. r.target = "ABORTING"
    BY <1>3 DEF IntendedOutcome, NONE
  <2>2. r.outcome \in IntendedOutcome
    BY <1>1, <2>1, AbortRulesIntend
  <2> QED
    BY <1>3, <2>2 DEF IntendedOutcome, NONE
<1> QED
  BY <1>2, <1>4, <1>5 DEF ApplyTransition

\* Every state before the commit can be left through an exit, NEW but for its
\* deadline, and through the failure of what is done in it.
LEMMA AbortRules ==
  /\ \A state \in PRE_COMMIT_STATES : \A e \in {"CANCELLED", "CONTEXT_EXITED"} :
       RulesFor(state, e) # {}
  /\ \A state \in PRE_COMMIT_STATES \ {"NEW"} : RulesFor(state, "DEADLINE_EXCEEDED") # {}
  /\ RulesFor("STAGING", "STAGING_FAILED") # {}
  /\ RulesFor("STAGED", "STAGED_VERIFICATION_FAILED") # {}
  /\ RulesFor("READY_TO_COMMIT", "TARGET_VERSION_CHANGED") # {}
  /\ RulesFor("READY_TO_COMMIT", "COMMIT_REVALIDATION_FAILED") # {}
<1>1. ASSUME NEW state, NEW e, NEW goal, NEW outcome,
             Rule(state, e, goal, outcome) \in NORMATIVE_TRANSITIONS
      PROVE  RulesFor(state, e) # {}
  <2>1. PICK r : r = Rule(state, e, goal, outcome)
    OBVIOUS
  <2>2. r.source = state /\ r.event = e
    BY <2>1 DEF Rule
  <2>3. r \in RulesFor(state, e)
    BY <1>1, <2>1, <2>2 DEF RulesFor
  <2> QED
    BY <2>3
<1>2. ASSUME NEW sources, NEW exits, Exits(sources, exits) \subseteq NORMATIVE_TRANSITIONS,
             NEW state \in sources, NEW e \in exits
      PROVE  RulesFor(state, e) # {}
  <2>1. Rule(state, e, "ABORTING", "ABORTED") \in NORMATIVE_TRANSITIONS
    BY <1>2 DEF Exits
  <2> QED
    BY <1>1, <2>1
<1>3. /\ Exits({"NEW"}, {"CANCELLED", "CONTEXT_EXITED"}) \subseteq NORMATIVE_TRANSITIONS
      /\ Exits({"PLANNED", "AUTHORIZED_TO_STAGE"}, ExitEvents) \subseteq NORMATIVE_TRANSITIONS
      /\ Exits({"STAGING", "STAGED"}, ExitEvents) \subseteq NORMATIVE_TRANSITIONS
      /\ Exits({"STAGE_VERIFIED", "AWAITING_APPROVAL", "READY_TO_COMMIT"}, ExitEvents)
           \subseteq NORMATIVE_TRANSITIONS
  BY DEF NORMATIVE_TRANSITIONS, PlanningRules, StagingRules, ApprovalRules
<1>4. ASSUME NEW state \in PRE_COMMIT_STATES \ {"NEW"}, NEW e \in ExitEvents
      PROVE  RulesFor(state, e) # {}
  <2>1. \/ state \in {"PLANNED", "AUTHORIZED_TO_STAGE"}
        \/ state \in {"STAGING", "STAGED"}
        \/ state \in {"STAGE_VERIFIED", "AWAITING_APPROVAL", "READY_TO_COMMIT"}
    BY DEF PRE_COMMIT_STATES
  <2> QED
    BY <1>2, <1>3, <2>1
<1>5. \A e \in {"CANCELLED", "CONTEXT_EXITED"} : RulesFor("NEW", e) # {}
  BY <1>2, <1>3
<1>6. {"CANCELLED", "CONTEXT_EXITED", "DEADLINE_EXCEEDED"} = ExitEvents
  BY DEF ExitEvents
<1>7. /\ Rule("STAGING", "STAGING_FAILED", "ABORTING", "ABORTED") \in NORMATIVE_TRANSITIONS
      /\ Rule("STAGED", "STAGED_VERIFICATION_FAILED", "ABORTING", "ABORTED")
           \in NORMATIVE_TRANSITIONS
      /\ Rule("READY_TO_COMMIT", "TARGET_VERSION_CHANGED", "ABORTING", "STALE_STATE")
           \in NORMATIVE_TRANSITIONS
      /\ Rule("READY_TO_COMMIT", "COMMIT_REVALIDATION_FAILED", "ABORTING", "ABORTED")
           \in NORMATIVE_TRANSITIONS
  BY DEF NORMATIVE_TRANSITIONS, StagingRules, ApprovalRules
<1>8. /\ RulesFor("STAGING", "STAGING_FAILED") # {}
      /\ RulesFor("STAGED", "STAGED_VERIFICATION_FAILED") # {}
      /\ RulesFor("READY_TO_COMMIT", "TARGET_VERSION_CHANGED") # {}
      /\ RulesFor("READY_TO_COMMIT", "COMMIT_REVALIDATION_FAILED") # {}
  BY <1>1, <1>7
<1> QED
  BY <1>4, <1>5, <1>6, <1>8

\* The events of the plans that are not aborts are legal in their state, if an
\* abort knows the outcome it ends in.
LEMMA PlanIsLegal ==
  ASSUME NEW state, NEW todo, NEW after, NEW current \in IntendedOutcome \cup {NONE},
         Plan(state, todo, after),
         state = "ABORTING" => current # NONE,
         after = "discarding" /\ state \in PRE_COMMIT_STATES
           => RulesFor(state, Head(todo)) # {}
  PROVE  ApplyTransition(state, Head(todo), current) # {}
<1>1. ASSUME NEW e, NEW goal, NEW outcome, Head(todo) = e,
             Rule(state, e, goal, outcome) \in NORMATIVE_TRANSITIONS,
             goal # NONE \/ current # NONE
      PROVE  ApplyTransition(state, Head(todo), current) # {}
  <2>1. PICK r : r = Rule(state, e, goal, outcome)
    OBVIOUS
  <2>2. r.source = state /\ r.event = e /\ r.target = goal
    BY <2>1 DEF Rule
  <2>3. r \in RulesFor(state, e)
    BY <1>1, <2>1, <2>2 DEF RulesFor
  <2> QED
    BY <1>1, <2>2, <2>3, RuleDecides
<1>2. /\ Rule("NEW", "VALIDATION_FAILED", "REJECTED", NONE) \in NORMATIVE_TRANSITIONS
      /\ Rule("NEW", "CANCELLED", "ABORTING", "ABORTED") \in NORMATIVE_TRANSITIONS
      /\ Rule("NEW", "PROPOSAL_VALID", "PLANNED", NONE) \in NORMATIVE_TRANSITIONS
      /\ Rule("PLANNED", "AUTHORIZED_FOR_STAGING", "AUTHORIZED_TO_STAGE", NONE)
           \in NORMATIVE_TRANSITIONS
      /\ Rule("AUTHORIZED_TO_STAGE", "WORKER_LEASE_ACQUIRED", "STAGING", NONE)
           \in NORMATIVE_TRANSITIONS
  BY DEF NORMATIVE_TRANSITIONS, PlanningRules, Exits
<1>3. /\ Rule("STAGING", "STAGING_SUCCEEDED", "STAGED", NONE) \in NORMATIVE_TRANSITIONS
      /\ Rule("STAGED", "STAGED_VERIFICATION_PASSED", "STAGE_VERIFIED", NONE)
           \in NORMATIVE_TRANSITIONS
      /\ Rule("STAGE_VERIFIED", "NO_APPROVAL_REQUIRED", "READY_TO_COMMIT", NONE)
           \in NORMATIVE_TRANSITIONS
      /\ Rule("READY_TO_COMMIT", "COMMIT_GUARDS_PASSED", "COMMITTING", NONE)
           \in NORMATIVE_TRANSITIONS
  BY DEF NORMATIVE_TRANSITIONS, StagingRules, ApprovalRules
<1>4. /\ Rule("COMMITTING", "COMMIT_VERIFIED", "COMMITTED", NONE) \in NORMATIVE_TRANSITIONS
      /\ Rule("COMMITTING", "COMMIT_FAILED_NO_EFFECT", "ABORTING", "ABORTED")
           \in NORMATIVE_TRANSITIONS
      /\ Rule("COMMITTING", "COMMIT_PARTIAL_OR_INVALID", "FAILED", NONE)
           \in NORMATIVE_TRANSITIONS
      /\ Rule("COMMITTING", "COMMIT_OUTCOME_UNKNOWN", "IN_DOUBT", NONE)
           \in NORMATIVE_TRANSITIONS
      /\ Rule("ABORTING", "STAGING_DISCARD_SUCCEEDED", NONE, NONE) \in NORMATIVE_TRANSITIONS
      /\ Rule("ABORTING", "STAGING_DISCARD_FAILED", "RECOVERY_FAILED", NONE)
           \in NORMATIVE_TRANSITIONS
  BY DEF NORMATIVE_TRANSITIONS, CommitRules, RecoveryRules
<1>5. CASE after = "discarding" /\ state \in PRE_COMMIT_STATES
  <2>1. PICK e \in AbortEvents : todo = <<e>>
    BY <1>5 DEF Plan, PRE_COMMIT_STATES
  <2>2. Head(todo) = e /\ e \in CoordinatorEvents /\ TargetOf(e) = "ABORTING"
    <3>1. Head(todo) = e
      BY <2>1, HeadsAndTails
    <3>2. e \in CoordinatorEvents /\ TargetOf(e) = "ABORTING"
      BY DEF CoordinatorEvents, TargetOf, AbortEvents
    <3> QED
      BY <3>1, <3>2
  <2>3. PICK r \in RulesFor(state, e) : TRUE
    BY <1>5, <2>2
  <2>4. r \in NORMATIVE_TRANSITIONS /\ r.event = e
    BY <2>3 DEF RulesFor
  <2>5. r.target = "ABORTING"
    BY <2>2, <2>4, TableTargets
  <2>6. r.target # NONE
    BY <2>5 DEF NONE
  <2> QED
    BY <2>2, <2>3, <2>6, RuleDecides
<1>6. CASE ~(after = "discarding" /\ state \in PRE_COMMIT_STATES)
  <2>1. CASE state = "NEW"
    <3>1. Head(todo) \in {"VALIDATION_FAILED", "CANCELLED", "PROPOSAL_VALID"}
      BY <1>6, <2>1, HeadsAndTails DEF Plan, PRE_COMMIT_STATES
    <3> QED
      BY <1>1, <1>2, <2>1, <3>1 DEF NONE
  <2>2. CASE state \in {"PLANNED", "AUTHORIZED_TO_STAGE"}
    <3>1. \/ state = "PLANNED" /\ Head(todo) = "AUTHORIZED_FOR_STAGING"
          \/ state = "AUTHORIZED_TO_STAGE" /\ Head(todo) = "WORKER_LEASE_ACQUIRED"
      BY <1>6, <2>2, HeadsAndTails DEF Plan, PRE_COMMIT_STATES
    <3> QED
      BY <1>1, <1>2, <3>1 DEF NONE
  <2>3. CASE state \in {"STAGING", "STAGED", "STAGE_VERIFIED", "READY_TO_COMMIT"}
    <3>1. \/ state = "STAGING" /\ Head(todo) = "STAGING_SUCCEEDED"
          \/ state = "STAGED" /\ Head(todo) = "STAGED_VERIFICATION_PASSED"
          \/ state = "STAGE_VERIFIED" /\ Head(todo) = "NO_APPROVAL_REQUIRED"
          \/ state = "READY_TO_COMMIT" /\ Head(todo) = "COMMIT_GUARDS_PASSED"
      BY <1>6, <2>3, HeadsAndTails DEF Plan, PRE_COMMIT_STATES
    <3> QED
      BY <1>1, <1>3, <3>1 DEF NONE
  <2>4. CASE state = "COMMITTING"
    <3>1. Head(todo) \in CommitEvents \cup {"COMMIT_FAILED_NO_EFFECT"}
      BY <1>6, <2>4, HeadsAndTails DEF Plan, PRE_COMMIT_STATES
    <3> QED
      BY <1>1, <1>4, <2>4, <3>1 DEF NONE, CommitEvents
  <2>5. CASE state = "ABORTING"
    <3>1. Head(todo) \in {"STAGING_DISCARD_SUCCEEDED", "STAGING_DISCARD_FAILED"}
      BY <1>6, <2>5, HeadsAndTails DEF Plan, PRE_COMMIT_STATES
    <3> QED
      BY <1>1, <1>4, <2>5, <3>1
  <2> QED
    BY <1>6, <2>1, <2>2, <2>3, <2>4, <2>5 DEF Plan, PRE_COMMIT_STATES
<1> QED
  BY <1>5, <1>6

-----------------------------------------------------------------------------
(* Steps of one session that leave rows, owners and stages alone           *)

AllTidy == \A t \in Transactions : Tidy(t, session[t])

\* What a session remembers of its past.
Keeps(q, s) ==
  /\ s.staged = q.staged /\ s.cleanup_failed = q.cleanup_failed
  /\ s.previous = q.previous

\* The points of an operation between its admission and its end, but those at
\* which it is about to call the journal.
Posts ==
  {"idle", "stage_guards", "verify_guards", "journaling", "staging", "executing",
   "verifying", "revalidating", "committing", "confirming", "discarding"}

\* How far a session may go in a step without disturbing what it remembers.
Orderly(t, s) ==
  LET q == session[t] IN
  /\ Keeps(q, s)
  /\ s.pc \notin {"unborn", "linking"}
  /\ q.pc = "linking" => "journal" \in Faults
  /\ s.pc = "closed" => q.pc = "journal" /\ q.after = "closed"
  /\ Unbound(q) => Unbound(s)
  /\ s.pc = "journal" =>
       /\ s.todo = <<"STAGING_DISCARD_SUCCEEDED">> => ~MayHoldStage(q)
       /\ s.todo = <<"STAGING_DISCARD_FAILED">> => MayHoldStage(q)
  /\ AbortIsLegal(t, s)

\* A step of t changes nothing that the others remember.
Elsewhere(t) ==
  \A u \in Transactions \ {t} :
    /\ transactions'[u] = transactions[u] /\ session'[u] = session[u]
    /\ u \in stages' => u \in stages
    /\ Owns(u) => Owns(u)' \/ StateOf(u) \in NoEffectOutcomes

\* Then it keeps everybody tidy, if t is.
LEMMA TidyElsewhere ==
  ASSUME TInv, NEW t \in Transactions, Elsewhere(t), Tidy(t, session[t])'
  PROVE  AllTidy'
<1> SUFFICES ASSUME NEW u \in Transactions \ {t} PROVE Tidy(u, session[u])'
  BY DEF AllTidy
<1>1. /\ transactions'[u] = transactions[u] /\ session'[u] = session[u]
      /\ u \in stages' => u \in stages
      /\ Owns(u) => Owns(u)' \/ StateOf(u) \in NoEffectOutcomes
  BY DEF Elsewhere
<1>2. PICK s : s = session[u]
  OBVIOUS
<1>3. Tidy(u, s)
  BY <1>2 DEF TInv
<1>4. StateOf(u)' = StateOf(u) /\ LinkOf(u)' = LinkOf(u)
      /\ transactions'[u].intent_hash = transactions[u].intent_hash
  BY <1>1 DEF StateOf, LinkOf
<1>5. "RECOVERY_FAILED" \notin NoEffectOutcomes
  BY DEF NoEffectOutcomes
<1>6. AbortIsLegal(u, s)' /\ StageIsKnown(u, s)' /\ IsBound(u, s)' /\ IsLinked(u, s)'
  BY <1>1, <1>3, <1>4 DEF Tidy, AbortIsLegal, StageIsKnown, IsBound, IsLinked
<1>7. StagerOwns(u, s)'
  BY <1>1, <1>3, <1>4, <1>5 DEF Tidy, StagerOwns
<1>8. Tidy(u, s)'
  BY <1>6, <1>7 DEF Tidy
<1>9. session'[u] = s
  BY <1>1, <1>2
<1> QED
  BY <1>8, <1>9, Zenon

\* Where the admission ends, its transaction is still NEW or being discarded.
LEMMA ClosingPlans ==
  ASSUME NEW state, NEW todo, Plan(state, todo, "closed")
  PROVE  state = "NEW" \/ todo = <<"STAGING_DISCARD_SUCCEEDED">>
BY DEF Plan

\* An orderly session is tidy.
LEMMA OrderlyIsTidy ==
  ASSUME TInv, NEW t \in Transactions, NEW s, Orderly(t, s)
  PROVE  Tidy(t, s)
<1>1. PICK q : q = session[t]
  OBVIOUS
<1>2. /\ Keeps(q, s)
      /\ s.pc \notin {"unborn", "linking"}
      /\ q.pc = "linking" => "journal" \in Faults
      /\ s.pc = "closed" => q.pc = "journal" /\ q.after = "closed"
      /\ Unbound(q) => Unbound(s)
      /\ s.pc = "journal" =>
           /\ s.todo = <<"STAGING_DISCARD_SUCCEEDED">> => ~MayHoldStage(q)
           /\ s.todo = <<"STAGING_DISCARD_FAILED">> => MayHoldStage(q)
      /\ AbortIsLegal(t, s)
  BY <1>1 DEF Orderly
<1>3. Tidy(t, q) /\ GoodWith(t, q)
  BY <1>1 DEF TInv, CInv, Good
<1>4. MayHoldStage(s) <=> MayHoldStage(q)
  BY <1>2 DEF Keeps, MayHoldStage
<1>5. StageIsKnown(t, s)
  <2> SUFFICES ASSUME t \in stages
               PROVE  /\ s.pc \notin {"unborn", "closed"}
                      /\ StateOf(t) \notin {NONE, "NEW"} \cup NoEffectOutcomes
                      /\ MayHoldStage(s)
                      /\ s.pc = "journal" => s.todo # <<"STAGING_DISCARD_SUCCEEDED">>
    BY DEF StageIsKnown
  <2>1. /\ q.pc \notin {"unborn", "closed"}
        /\ StateOf(t) \notin {NONE, "NEW"} \cup NoEffectOutcomes
        /\ MayHoldStage(q)
        /\ q.pc = "journal" => q.todo # <<"STAGING_DISCARD_SUCCEEDED">>
    BY <1>3 DEF Tidy, StageIsKnown
  <2>2. ~(q.pc = "journal" /\ q.after = "closed")
    BY <1>3, <2>1, ClosingPlans DEF GoodWith, StandsIn, StateOf
  <2> QED
    BY <1>2, <1>4, <2>1, <2>2
<1>6. IsBound(t, s)
  BY <1>2, <1>3 DEF Tidy, IsBound
<1>7. StagerOwns(t, s)
  BY <1>2, <1>3, <1>4 DEF Tidy, StagerOwns
<1>8. IsLinked(t, s)
  BY <1>2, <1>3 DEF Tidy, IsLinked, Keeps
<1> QED
  BY <1>2, <1>5, <1>6, <1>7, <1>8 DEF Tidy

\* So an orderly step keeps everybody tidy.
LEMMA OrderlyStep ==
  ASSUME TInv, NEW t \in Transactions, NEW s, Become(t, s), Orderly(t, s),
         UNCHANGED <<transactions, intents, stages>>
  PROVE  AllTidy'
<1>1. session \in [Transactions -> Session]
  BY DEF TInv, CInv, TypeOK
<1>2. session'[t] = s /\ \A u \in Transactions \ {t} : session'[u] = session[u]
  BY <1>1 DEF Become
<1>3. Tidy(t, s)
  BY OrderlyIsTidy
<1>4. Tidy(t, s)'
  BY <1>3 DEF Tidy, AbortIsLegal, StageIsKnown, IsBound, StagerOwns, IsLinked, StateOf,
              LinkOf, Owns
<1>5. Tidy(t, session[t])'
  BY <1>2, <1>4, Zenon
<1>6. Elsewhere(t)
  BY <1>2 DEF Elsewhere, Owns
<1> QED
  BY <1>5, <1>6, TidyElsewhere

\* Moving a session, or making it record, keeps what it remembers; so does
\* setting a field nobody remembers.
LEMMA Keeping ==
  ASSUME NEW t, session[t] \in Session, NEW pc, NEW todo, NEW after
  PROVE  /\ Keeps(session[t], At(t, pc)) /\ At(t, pc).pc = pc
         /\ At(t, pc).after = session[t].after /\ At(t, pc).todo = session[t].todo
         /\ Keeps(session[t], Recording(t, todo, after))
         /\ Recording(t, todo, after).pc = "journal"
         /\ Recording(t, todo, after).todo = todo
         /\ Recording(t, todo, after).after = after
BY DEF At, Recording, Keeps, Session

LEMMA Marking ==
  ASSUME NEW a \in Session, NEW x, NEW s,
         \/ s = [a EXCEPT !.base = x] \/ s = [a EXCEPT !.inside = x]
         \/ s = [a EXCEPT !.receipt = x] \/ s = [a EXCEPT !.record = x]
  PROVE  Keeps(a, s) /\ s.pc = a.pc /\ s.todo = a.todo /\ s.after = a.after
BY DEF Keeps, Session

-----------------------------------------------------------------------------
(* The local actions, each of them orderly                                 *)

\* An operation that goes on to another post.
LEMMA PostStep ==
  ASSUME TInv, NEW t \in Transactions, session[t].pc \in Posts, NEW pc \in Posts,
         Become(t, At(t, pc)), UNCHANGED <<transactions, intents, stages>>
  PROVE  AllTidy'
<1>1. session[t] \in Session
  BY DEF TInv, CInv, TypeOK
<1>2. PICK s : s = At(t, pc) /\ Keeps(session[t], s) /\ s.pc = pc
  BY <1>1, Keeping
<1>3. Orderly(t, s)
  BY <1>2 DEF Orderly, Posts, Unbound, AbortIsLegal
<1> QED
  BY <1>2, <1>3, OrderlyStep

\* An operation at a post that begins to record: not the discard of a stage,
\* and if an abort, one that the state has a rule for.
LEMMA PlanStep ==
  ASSUME TInv, NEW t \in Transactions, session[t].pc \in Posts, NEW todo, NEW after,
         Become(t, Recording(t, todo, after)), UNCHANGED <<transactions, intents, stages>>,
         after # "closed",
         todo \notin {<<"STAGING_DISCARD_SUCCEEDED">>, <<"STAGING_DISCARD_FAILED">>},
         after = "discarding" /\ StateOf(t) \in PRE_COMMIT_STATES
           => RulesFor(StateOf(t), Head(todo)) # {}
  PROVE  AllTidy'
<1>1. session[t] \in Session
  BY DEF TInv, CInv, TypeOK
<1>2. PICK s : /\ s = Recording(t, todo, after) /\ Keeps(session[t], s)
               /\ s.pc = "journal" /\ s.todo = todo /\ s.after = after
  BY <1>1, Keeping
<1>3. Orderly(t, s)
  BY <1>2 DEF Orderly, Posts, Unbound, AbortIsLegal
<1> QED
  BY <1>2, <1>3, OrderlyStep

\* One event is not the discard of a stage unless it says so.
LEMMA OtherEvents ==
  ASSUME NEW e, e \notin {"STAGING_DISCARD_SUCCEEDED", "STAGING_DISCARD_FAILED"}
  PROVE  /\ <<e>> \notin {<<"STAGING_DISCARD_SUCCEEDED">>, <<"STAGING_DISCARD_FAILED">>}
         /\ Head(<<e>>) = e
<1>1. \A f : <<e>> = <<f>> => e = f
  OBVIOUS
<1> QED
  BY <1>1, HeadsAndTails

\* An operation that begins an abort the state has a rule for.
LEMMA AbortPlanStep ==
  ASSUME TInv, NEW t \in Transactions, session[t].pc \in Posts, NEW e \in AbortEvents,
         Become(t, Abort(t, e)), UNCHANGED <<transactions, intents, stages>>,
         RulesFor(StateOf(t), e) # {}
  PROVE  AllTidy'
<1>1. PICK todo : todo = <<e>>
  OBVIOUS
<1>2. /\ todo \notin {<<"STAGING_DISCARD_SUCCEEDED">>, <<"STAGING_DISCARD_FAILED">>}
      /\ Head(todo) = e
  BY <1>1, OtherEvents DEF AbortEvents
<1> QED
  BY <1>1, <1>2, PlanStep DEF Abort

\* How a failed guard is journaled is legal where what it is called otherwise is.
LEMMA GuardFailureLegal ==
  ASSUME NEW t, NEW otherwise \in AbortEvents, NEW state \in PRE_COMMIT_STATES \ {"NEW"},
         RulesFor(state, otherwise) # {}
  PROVE  /\ GuardFailure(t, otherwise) \in AbortEvents
         /\ RulesFor(state, GuardFailure(t, otherwise)) # {}
<1>1. RulesFor(state, "DEADLINE_EXCEEDED") # {} /\ "DEADLINE_EXCEEDED" \in AbortEvents
  BY AbortRules DEF AbortEvents
<1> QED
  BY <1>1 DEF GuardFailure

\* And so is an interruption.
LEMMA InterruptionLegal ==
  ASSUME NEW otherwise \in AbortEvents, NEW state \in PRE_COMMIT_STATES \ {"NEW"},
         RulesFor(state, otherwise) # {}, NEW e \in Interruptions(otherwise)
  PROVE  e \in AbortEvents /\ RulesFor(state, e) # {}
<1>1. /\ RulesFor(state, "DEADLINE_EXCEEDED") # {} /\ "DEADLINE_EXCEEDED" \in AbortEvents
      /\ RulesFor(state, "CANCELLED") # {} /\ "CANCELLED" \in AbortEvents
  BY AbortRules DEF AbortEvents
<1> QED
  BY <1>1 DEF Interruptions

\* What is known of a running operation, in the names of this module.
LEMMA RunningTidy ==
  ASSUME TInv, NEW t \in Transactions, session[t].pc \notin {"unborn", "closed"}
  PROVE  /\ CInv /\ session[t] \in Session /\ State(t) = StateOf(t)
         /\ StandsIn(session[t], StateOf(t))
         /\ Tidy(t, session[t]) /\ GoodWith(t, session[t])
BY Running DEF TInv, StateOf, CInv, Good

\* What happens in STAGING.
LEMMA StagingTidy ==
  ASSUME TInv, NEW t \in Transactions, BeginStage(t) \/ StagingInterrupted(t)
  PROVE  AllTidy'
<1>1. session[t].pc \in {"stage_guards", "staging", "executing"} /\ StateOf(t) = "STAGING"
      /\ session[t].pc \in Posts
  BY RunningTidy DEF BeginStage, StagingInterrupted, StandsIn, Posts
<1>2. "STAGING" \in PRE_COMMIT_STATES \ {"NEW"} /\ "STAGING_FAILED" \in AbortEvents
  BY DEF PRE_COMMIT_STATES, AbortEvents
<1>3. UNCHANGED <<transactions, intents, stages>>
  BY DEF BeginStage, StagingInterrupted, Local, jvars, adapterVars
<1>4. CASE Become(t, At(t, "staging"))
  BY <1>1, <1>3, <1>4, PostStep DEF Posts
<1>5. CASE Become(t, Abort(t, GuardFailure(t, "STAGING_FAILED")))
  BY <1>1, <1>2, <1>3, <1>5, AbortRules, GuardFailureLegal, AbortPlanStep
<1>6. CASE \E e \in Interruptions("STAGING_FAILED") : Become(t, Abort(t, e))
  BY <1>1, <1>2, <1>3, <1>6, AbortRules, InterruptionLegal, AbortPlanStep
<1> QED
  BY <1>4, <1>5, <1>6 DEF BeginStage, StagingInterrupted, Local

\* What happens in STAGED.
LEMMA VerifyingTidy ==
  ASSUME TInv, NEW t \in Transactions, BeginVerify(t) \/ VerifyPasses(t) \/ VerifyFails(t)
  PROVE  AllTidy'
<1>1. session[t].pc \in {"verify_guards", "verifying"} /\ StateOf(t) = "STAGED"
      /\ session[t].pc \in Posts
  BY RunningTidy DEF BeginVerify, VerifyPasses, VerifyFails, StandsIn, Posts
<1>2. "STAGED" \in PRE_COMMIT_STATES \ {"NEW"} /\ "STAGED_VERIFICATION_FAILED" \in AbortEvents
  BY DEF PRE_COMMIT_STATES, AbortEvents
<1>3. UNCHANGED <<transactions, intents, stages>>
  BY DEF BeginVerify, VerifyPasses, VerifyFails, Local, jvars, adapterVars
<1>4. CASE Become(t, At(t, "verifying"))
  BY <1>1, <1>3, <1>4, PostStep DEF Posts
<1>5. CASE Become(t, Abort(t, GuardFailure(t, "STAGED_VERIFICATION_FAILED")))
  BY <1>1, <1>2, <1>3, <1>5, AbortRules, GuardFailureLegal, AbortPlanStep
<1>6. CASE \E e \in Interruptions("STAGED_VERIFICATION_FAILED") : Become(t, Abort(t, e))
  BY <1>1, <1>2, <1>3, <1>6, AbortRules, InterruptionLegal, AbortPlanStep
<1>7. CASE VerifyPasses(t)
  <2>1. PICK todo : todo = <<"STAGED_VERIFICATION_PASSED", "NO_APPROVAL_REQUIRED">>
    OBVIOUS
  <2>2. todo \notin {<<"STAGING_DISCARD_SUCCEEDED">>, <<"STAGING_DISCARD_FAILED">>}
    BY <2>1
  <2> QED
    BY <1>1, <1>3, <1>7, <2>1, <2>2, PlanStep DEF VerifyPasses, Local
<1> QED
  BY <1>4, <1>5, <1>6, <1>7 DEF BeginVerify, VerifyFails, Local

\* What happens in READY_TO_COMMIT.
LEMMA RevalidatingTidy ==
  ASSUME TInv, NEW t \in Transactions,
         BeginCommit(t) \/ RevalidateReturns(t) \/ RevalidateInterrupted(t)
  PROVE  AllTidy'
<1>1. session[t].pc \in {"idle", "revalidating"} /\ StateOf(t) = "READY_TO_COMMIT"
      /\ session[t].pc \in Posts
  <2>1. session[t].pc \in {"idle", "revalidating"}
    BY DEF BeginCommit, RevalidateReturns, RevalidateInterrupted
  <2>2. State(t) = StateOf(t) /\ StandsIn(session[t], StateOf(t))
    BY <2>1, RunningTidy
  <2> QED
    BY <2>1, <2>2 DEF BeginCommit, RevalidateReturns, RevalidateInterrupted, StandsIn, Posts
<1>2. /\ "READY_TO_COMMIT" \in PRE_COMMIT_STATES \ {"NEW"}
      /\ {"COMMIT_REVALIDATION_FAILED", "TARGET_VERSION_CHANGED"} \subseteq AbortEvents
  BY DEF PRE_COMMIT_STATES, AbortEvents
<1>3. UNCHANGED <<transactions, intents, stages>>
  BY DEF BeginCommit, RevalidateReturns, RevalidateInterrupted, Local, jvars, adapterVars
<1>4. ASSUME NEW pc \in {"revalidating", "idle"}, Become(t, At(t, pc)) PROVE AllTidy'
  BY <1>1, <1>3, <1>4, PostStep DEF Posts
<1>5. CASE Become(t, Abort(t, GuardFailure(t, "COMMIT_REVALIDATION_FAILED")))
  BY <1>1, <1>2, <1>3, <1>5, AbortRules, GuardFailureLegal, AbortPlanStep
<1>6. CASE Become(t, Abort(t, "TARGET_VERSION_CHANGED"))
  BY <1>1, <1>2, <1>3, <1>6, AbortRules, AbortPlanStep
<1>7. CASE Become(t, Recording(t, <<"COMMIT_GUARDS_PASSED">>, "committing"))
  BY <1>1, <1>3, <1>7, OtherEvents, PlanStep
<1> QED
  BY <1>4, <1>5, <1>6, <1>7
     DEF BeginCommit, RevalidateReturns, RevalidateInterrupted, Local

\* How a commit ends, and its receipt.
LEMMA CommittingTidy ==
  ASSUME TInv, NEW t \in Transactions,
         \/ CommitStale(t) \/ CommitInterrupted(t) \/ JournalReceipt(t)
         \/ ConfirmReturns(t) \/ ConfirmInterrupted(t)
  PROVE  AllTidy'
<1>1. session[t].pc \in {"committing", "journaling", "confirming"} /\ StateOf(t) = "COMMITTING"
      /\ session[t].pc \in Posts
  BY RunningTidy DEF CommitStale, CommitInterrupted, JournalReceipt, ConfirmReturns,
                     ConfirmInterrupted, StandsIn, Posts
<1>2. UNCHANGED <<transactions, intents, stages>>
  BY DEF CommitStale, CommitInterrupted, JournalReceipt, ConfirmReturns, ConfirmInterrupted,
         AppendReceipt, Local, jvars, adapterVars
<1>3. ASSUME NEW e \in CommitEvents, Become(t, Recording(t, <<e>>, "idle")) PROVE AllTidy'
  BY <1>1, <1>2, <1>3, OtherEvents, PlanStep DEF CommitEvents
<1>4. CASE CommitStale(t)
  <2>1. Become(t, Recording(t, <<"COMMIT_FAILED_NO_EFFECT">>, "discarding"))
    BY <1>4 DEF CommitStale, Local, Abort
  <2>2. "COMMITTING" \notin PRE_COMMIT_STATES
    BY DEF PRE_COMMIT_STATES
  <2> QED
    BY <1>1, <1>2, <2>1, <2>2, OtherEvents, PlanStep
<1>5. CASE Become(t, At(t, "confirming"))
  BY <1>1, <1>2, <1>5, PostStep DEF Posts
<1> QED
  BY <1>3, <1>4, <1>5 DEF CommitInterrupted, JournalReceipt, ConfirmReturns,
                          ConfirmInterrupted, Local, CommitEvents

\* What a caller asks for at rest, before the commit.
LEMMA CancelTidy ==
  ASSUME TInv, NEW t \in Transactions, EnterRefused(t) \/ Cancel(t) \/ EnforceDeadline(t)
  PROVE  AllTidy'
<1>1. /\ session[t].pc = "idle" /\ State(t) = StateOf(t) /\ session[t].pc \in Posts
      /\ StateOf(t) \in PRE_COMMIT_STATES
  <2>1. session[t].pc = "idle"
    BY DEF EnterRefused, Cancel, EnforceDeadline
  <2>2. State(t) = StateOf(t)
    BY <2>1, RunningTidy
  <2> QED
    BY <2>1, <2>2 DEF EnterRefused, Cancel, EnforceDeadline, Posts, PRE_COMMIT_STATES
<1>2. UNCHANGED <<transactions, intents, stages>>
  BY DEF EnterRefused, Cancel, EnforceDeadline, Local, jvars, adapterVars
<1>3. CASE Become(t, Recording(t, <<"VALIDATION_FAILED">>, "idle"))
  BY <1>1, <1>2, <1>3, OtherEvents, PlanStep
<1>4. CASE Become(t, Abort(t, "CANCELLED"))
  BY <1>1, <1>2, <1>4, AbortRules, AbortPlanStep DEF AbortEvents
<1>5. CASE Become(t, Abort(t, "DEADLINE_EXCEEDED")) /\ StateOf(t) # "NEW"
  BY <1>1, <1>2, <1>5, AbortRules, AbortPlanStep DEF AbortEvents
<1> QED
  BY <1>1, <1>3, <1>4, <1>5 DEF EnterRefused, Cancel, EnforceDeadline, Local

\* __aexit__ sets one field that nobody remembers.
LEMMA ExitTidy ==
  ASSUME TInv, NEW t \in Transactions, Exit(t)
  PROVE  AllTidy'
<1>1. /\ session[t].pc = "idle" /\ State(t) = StateOf(t) /\ session[t] \in Session /\ CInv
  BY RunningTidy DEF Exit
<1>2. PICK a : /\ a = CASE State(t) \in PRE_COMMIT_STATES -> Abort(t, "CONTEXT_EXITED")
                       [] State(t) = "ABORTING" -> At(t, "discarding")
                       [] OTHER -> session[t]
  OBVIOUS
<1>3. PICK s : s = [a EXCEPT !.inside = FALSE]
  OBVIOUS
<1>4. Become(t, s) /\ UNCHANGED <<transactions, intents, stages>>
  BY <1>2, <1>3 DEF Exit, Local, jvars, adapterVars
<1>5. a \in Session =>
        Keeps(a, s) /\ s.pc = a.pc /\ s.todo = a.todo /\ s.after = a.after
  BY <1>3, Marking
<1>6. Orderly(t, s)
  <2>1. CASE State(t) \in PRE_COMMIT_STATES
    <3>1. PICK e \in AbortEvents : e = "CONTEXT_EXITED"
      BY DEF AbortEvents
    <3>2. a = Abort(t, e)
      BY <1>2, <2>1, <3>1 DEF PRE_COMMIT_STATES
    <3>3. a \in Session /\ a.pc = "journal" /\ a.todo = <<e>> /\ a.after = "discarding"
      BY <1>1, <3>2, AbortFields
    <3>4. Keeps(session[t], a)
      BY <1>1, <3>2, Keeping DEF Abort
    <3>5. /\ s.todo \notin {<<"STAGING_DISCARD_SUCCEEDED">>, <<"STAGING_DISCARD_FAILED">>}
          /\ Head(s.todo) = e
      BY <1>5, <3>1, <3>3, OtherEvents
    <3>6. RulesFor(StateOf(t), e) # {}
      BY <1>1, <2>1, <3>1, AbortRules
    <3> QED
      BY <1>1, <1>5, <3>3, <3>4, <3>5, <3>6 DEF Orderly, Keeps, Unbound, AbortIsLegal
  <2>2. CASE State(t) = "ABORTING"
    <3>1. a = At(t, "discarding") /\ "discarding" \in SessionPc
      BY <1>2, <2>2 DEF PRE_COMMIT_STATES, SessionPc, AwaitPoints
    <3>2. a \in Session /\ a.pc = "discarding" /\ Keeps(session[t], a)
      BY <1>1, <3>1, AtFields, Keeping
    <3> QED
      BY <1>1, <1>5, <3>2 DEF Orderly, Keeps, Unbound, AbortIsLegal
  <2>3. CASE State(t) \notin PRE_COMMIT_STATES \cup {"ABORTING"}
    <3>1. a = session[t]
      BY <1>2, <2>3
    <3> QED
      BY <1>1, <1>5, <3>1 DEF Orderly, Keeps, Unbound, AbortIsLegal
  <2> QED
    BY <2>1, <2>2, <2>3
<1> QED
  BY <1>4, <1>6, OrderlyStep

\* An abort that asks the adapter for nothing says truly what is left.
LEMMA DiscardUnaidedTidy ==
  ASSUME TInv, NEW t \in Transactions, DiscardUnaided(t)
  PROVE  AllTidy'
<1>1. /\ session[t].pc = "discarding" /\ session[t] \in Session
      /\ session[t].cleanup_failed \/ session[t].staged = "none"
  BY DEF DiscardUnaided, TInv, CInv, TypeOK
<1>2. PICK e : e = IF session[t].cleanup_failed THEN "STAGING_DISCARD_FAILED"
                                                ELSE "STAGING_DISCARD_SUCCEEDED"
  OBVIOUS
<1>3. Become(t, Recording(t, <<e>>, "idle")) /\ UNCHANGED <<transactions, intents, stages>>
  <2>1. CASE session[t].cleanup_failed
    BY <1>2, <2>1 DEF DiscardUnaided, Local, jvars, adapterVars
  <2>2. CASE ~session[t].cleanup_failed
    BY <1>2, <2>2 DEF DiscardUnaided, Local, jvars, adapterVars
  <2> QED
    BY <2>1, <2>2
<1>4. PICK s : /\ s = Recording(t, <<e>>, "idle") /\ Keeps(session[t], s)
               /\ s.pc = "journal" /\ s.todo = <<e>> /\ s.after = "idle"
  BY <1>1, Keeping
<1>5. /\ s.todo = <<"STAGING_DISCARD_SUCCEEDED">> => ~MayHoldStage(session[t])
      /\ s.todo = <<"STAGING_DISCARD_FAILED">> => MayHoldStage(session[t])
  <2>1. \A f : <<e>> = <<f>> => e = f
    OBVIOUS
  <2>2. CASE session[t].cleanup_failed
    BY <1>2, <1>4, <2>1, <2>2 DEF MayHoldStage
  <2>3. CASE ~session[t].cleanup_failed
    BY <1>1, <1>2, <1>4, <2>1, <2>3 DEF MayHoldStage
  <2> QED
    BY <2>2, <2>3
<1>6. Orderly(t, s)
  BY <1>1, <1>4, <1>5 DEF Orderly, Unbound, AbortIsLegal
<1> QED
  BY <1>3, <1>4, <1>6, OrderlyStep

\* The proposal is inspected, or its admission ends.
LEMMA InspectTidy ==
  ASSUME TInv, NEW t \in Transactions, InspectReturns(t) \/ InspectInterrupted(t)
  PROVE  AllTidy'
<1>1. session[t].pc = "inspecting" /\ session[t] \in Session
  BY DEF InspectReturns, InspectInterrupted, TInv, CInv, TypeOK
<1>2. UNCHANGED <<transactions, intents, stages>>
  BY DEF InspectReturns, InspectInterrupted, Local, jvars, adapterVars
<1>3. CASE InspectReturns(t)
  <2>1. PICK a : a = At(t, "binding")
    OBVIOUS
  <2>2. a \in Session /\ a.pc = "binding" /\ Keeps(session[t], a)
    BY <1>1, <2>1, AtFields, Keeping DEF SessionPc
  <2>3. PICK s : s = [a EXCEPT !.base = target]
    OBVIOUS
  <2>4. s.pc = "binding" /\ Keeps(a, s)
    BY <2>2, <2>3, Marking
  <2>5. Orderly(t, s)
    BY <1>1, <2>2, <2>4 DEF Orderly, Keeps, Unbound, AbortIsLegal
  <2>6. Become(t, s)
    BY <1>3, <2>1, <2>3 DEF InspectReturns, Local
  <2> QED
    BY <1>2, <2>5, <2>6, OrderlyStep
<1>4. CASE InspectInterrupted(t)
  <2>1. PICK todo \in {<<"CANCELLED", "STAGING_DISCARD_SUCCEEDED">>,
                       <<"VALIDATION_FAILED">>} :
          Become(t, Recording(t, todo, "closed"))
    BY <1>4 DEF InspectInterrupted, Local
  <2>2. PICK s : /\ s = Recording(t, todo, "closed") /\ Keeps(session[t], s)
                 /\ s.pc = "journal" /\ s.todo = todo /\ s.after = "closed"
    BY <1>1, Keeping
  <2>3. s.todo \notin {<<"STAGING_DISCARD_SUCCEEDED">>, <<"STAGING_DISCARD_FAILED">>}
    BY <2>1, <2>2
  <2>4. Orderly(t, s)
    BY <1>1, <2>2, <2>3 DEF Orderly, Unbound, AbortIsLegal
  <2> QED
    BY <1>2, <2>1, <2>2, <2>4, OrderlyStep
<1> QED
  BY <1>3, <1>4

\* A journal call raised.
LEMMA JournalFailsTidy ==
  ASSUME TInv, NEW t \in Transactions, JournalFails(t)
  PROVE  AllTidy'
<1>1. /\ session[t].pc \in {"journal", "linking", "binding", "journaling"}
      /\ session[t] \in Session /\ "journal" \in Faults
  BY DEF JournalFails, TInv, CInv, TypeOK
<1>2. UNCHANGED <<transactions, intents, stages>>
  BY DEF JournalFails, Local, jvars, adapterVars
<1>3. CASE session[t].pc = "journal"
  <2>1. PICK pc : pc = IF session[t].after = "closed" THEN "closed" ELSE "idle"
    OBVIOUS
  <2>2. PICK a : a = At(t, pc)
    OBVIOUS
  <2>3. a \in Session /\ a.pc = pc /\ Keeps(session[t], a)
    BY <1>1, <2>1, <2>2, AtFields, Keeping DEF SessionPc
  <2>4. PICK s : s = [a EXCEPT !.todo = <<>>, !.after = "idle"]
    OBVIOUS
  <2>5. s.pc = pc /\ Keeps(a, s)
    BY <2>3, <2>4 DEF Session, Keeps
  <2>6. Orderly(t, s)
    BY <1>1, <1>3, <2>1, <2>3, <2>5 DEF Orderly, Keeps, Unbound, AbortIsLegal
  <2>7. Become(t, s)
    BY <1>3, <2>1, <2>2, <2>4 DEF JournalFails, Local
  <2> QED
    BY <1>2, <2>6, <2>7, OrderlyStep
<1>4. CASE session[t].pc = "linking"
  <2>1. PICK s : s = At(t, "idle") /\ Keeps(session[t], s) /\ s.pc = "idle"
    BY <1>1, Keeping
  <2>2. Orderly(t, s)
    BY <1>1, <1>4, <2>1 DEF Orderly, Unbound, AbortIsLegal
  <2>3. Become(t, s)
    BY <1>4, <2>1 DEF JournalFails, Local
  <2> QED
    BY <1>2, <2>2, <2>3, OrderlyStep
<1>5. CASE session[t].pc \in {"binding", "journaling"}
  <2>1. PICK e, after : /\ e \in {"VALIDATION_FAILED", "COMMIT_OUTCOME_UNKNOWN"}
                        /\ after = IF session[t].pc = "binding" THEN "closed" ELSE "idle"
                        /\ Become(t, Recording(t, <<e>>, after))
    <3>1. CASE session[t].pc = "binding"
      BY <3>1 DEF JournalFails, Local
    <3>2. CASE session[t].pc = "journaling"
      BY <3>2 DEF JournalFails, Local
    <3> QED
      BY <1>5, <3>1, <3>2
  <2>2. PICK s : /\ s = Recording(t, <<e>>, after) /\ Keeps(session[t], s)
                 /\ s.pc = "journal" /\ s.todo = <<e>> /\ s.after = after
    BY <1>1, Keeping
  <2>3. s.todo \notin {<<"STAGING_DISCARD_SUCCEEDED">>, <<"STAGING_DISCARD_FAILED">>}
    BY <2>1, <2>2, OtherEvents
  <2>4. Orderly(t, s)
    BY <1>1, <1>5, <2>1, <2>2, <2>3 DEF Orderly, Unbound, AbortIsLegal
  <2> QED
    BY <1>2, <2>1, <2>2, <2>4, OrderlyStep
<1> QED
  BY <1>1, <1>3, <1>4, <1>5

-----------------------------------------------------------------------------
(* The steps that stage, and those that take a stage away                  *)

\* While it works on the intent it owns, an operation may stage, if its session
\* knows it.
LEMMA HoldingStep ==
  ASSUME TInv, NEW t \in Transactions, session[t].pc \in Posts,
         StateOf(t) \notin Idlers,
         NEW s, Become(t, s), UNCHANGED <<transactions, intents>>,
         stages' \subseteq stages \cup {t},
         MayHoldStage(s), s.previous = session[t].previous,
         s.pc \notin {"unborn", "closed", "linking"},
         s.pc = "journal" => /\ s.after # "closed"
                             /\ s.todo # <<"STAGING_DISCARD_SUCCEEDED">>,
         AbortIsLegal(t, s)
  PROVE  AllTidy'
<1>1. session \in [Transactions -> Session]
  BY DEF TInv, CInv, TypeOK
<1>2. session'[t] = s /\ \A u \in Transactions \ {t} : session'[u] = session[u]
  BY <1>1 DEF Become
<1>3. Tidy(t, session[t]) /\ Owns(t) /\ ~Unbound(session[t]) /\ session[t].pc # "linking"
  BY DEF TInv, CInv, Good, GoodWith, StateOf, Posts, Unbound
<1>4. StateOf(t) \notin {NONE, "NEW", "RECOVERY_FAILED"} \cup NoEffectOutcomes
  BY DEF Idlers, NoEffectOutcomes
<1>5. StateOf(t)' = StateOf(t) /\ LinkOf(t)' = LinkOf(t) /\ Owns(t)'
      /\ transactions'[t].intent_hash = transactions[t].intent_hash
  BY <1>3 DEF StateOf, LinkOf, Owns
<1>6. AbortIsLegal(t, s)' /\ StageIsKnown(t, s)' /\ StagerOwns(t, s)'
  BY <1>4, <1>5 DEF AbortIsLegal, StageIsKnown, StagerOwns
<1>7. IsBound(t, s)' /\ IsLinked(t, s)'
  BY <1>3, <1>5 DEF Tidy, IsBound, IsLinked
<1>8. Tidy(t, session[t])'
  <2>1. Tidy(t, s)'
    BY <1>6, <1>7 DEF Tidy
  <2> QED
    BY <1>2, <2>1, Zenon
<1>9. Elsewhere(t)
  BY <1>2 DEF Elsewhere, Owns
<1> QED
  BY <1>8, <1>9, TidyElsewhere

\* A step may take a stage away, and must before it records a clean discard.
LEMMA ReleasingStep ==
  ASSUME TInv, NEW t \in Transactions, session[t].pc \in Posts,
         NEW s, Become(t, s), UNCHANGED <<transactions, intents>>, stages' \subseteq stages,
         Keeps(session[t], s), s.pc \in Posts \cup {"journal"},
         s.pc = "journal" =>
           /\ s.after = "idle"
           /\ s.todo = <<"STAGING_DISCARD_SUCCEEDED">> => t \notin stages'
           /\ s.todo = <<"STAGING_DISCARD_FAILED">> => MayHoldStage(session[t])
  PROVE  AllTidy'
<1>1. session \in [Transactions -> Session]
  BY DEF TInv, CInv, TypeOK
<1>2. session'[t] = s /\ \A u \in Transactions \ {t} : session'[u] = session[u]
  BY <1>1 DEF Become
<1>3. Tidy(t, session[t]) /\ ~Unbound(session[t]) /\ session[t].pc # "linking"
  BY DEF TInv, Posts, Unbound
<1>4. s.pc \notin {"unborn", "closed", "linking"} /\ (MayHoldStage(s) <=> MayHoldStage(session[t]))
      /\ s.previous = session[t].previous
  BY DEF Posts, Keeps, MayHoldStage
<1>5. StateOf(t)' = StateOf(t) /\ LinkOf(t)' = LinkOf(t) /\ (Owns(t)' <=> Owns(t))
      /\ transactions'[t].intent_hash = transactions[t].intent_hash
  BY DEF StateOf, LinkOf, Owns
<1>6. StageIsKnown(t, s)'
  BY <1>3, <1>4, <1>5 DEF Tidy, StageIsKnown
<1>7. StagerOwns(t, s)'
  BY <1>3, <1>4, <1>5 DEF Tidy, StagerOwns
<1>8. AbortIsLegal(t, s)' /\ IsBound(t, s)' /\ IsLinked(t, s)'
  BY <1>3, <1>4, <1>5 DEF Tidy, AbortIsLegal, IsBound, IsLinked
<1>9. Tidy(t, session[t])'
  <2>1. Tidy(t, s)'
    BY <1>6, <1>7, <1>8 DEF Tidy
  <2> QED
    BY <1>2, <2>1, Zenon
<1>10. Elsewhere(t)
  BY <1>2 DEF Elsewhere, Owns
<1> QED
  BY <1>9, <1>10, TidyElsewhere

\* adapter.stage returned, or stage or execute left material behind.
LEMMA StageTidy ==
  ASSUME TInv, NEW t \in Transactions, StageReturns(t) \/ StagingUnclean(t)
  PROVE  AllTidy'
<1>1. /\ session[t].pc \in {"staging", "executing"} /\ StateOf(t) = "STAGING"
      /\ session[t].pc \in Posts /\ session[t] \in Session /\ CInv
      /\ session[t].pc \notin {"unborn", "closed"}
  <2>1. session[t].pc \in {"staging", "executing"}
    BY DEF StageReturns, StagingUnclean
  <2> QED
    BY <2>1, RunningTidy DEF StandsIn, Posts
<1>2. /\ StateOf(t) \notin Idlers /\ StateOf(t) \in PRE_COMMIT_STATES \ {"NEW"}
      /\ "STAGING_FAILED" \in AbortEvents
  BY <1>1 DEF Idlers, PRE_COMMIT_STATES, AbortEvents, NONE
<1>3. UNCHANGED <<transactions, intents>> /\ stages' \subseteq stages \cup {t}
  BY DEF StageReturns, StagingUnclean, jvars
<1>4. ASSUME NEW e \in AbortEvents, RulesFor(StateOf(t), e) # {},
             NEW a, a = Abort(t, e), NEW s, Become(t, s),
             s = [a EXCEPT !.staged = "effect"] \/ s = [a EXCEPT !.cleanup_failed = TRUE]
      PROVE  AllTidy'
  <2>1. a \in Session /\ a.pc = "journal" /\ a.todo = <<e>> /\ a.after = "discarding"
    BY <1>1, <1>4, AbortFields
  <2>2. Keeps(session[t], a)
    BY <1>1, <1>4, Keeping DEF Abort
  <2>3. /\ s.pc = "journal" /\ s.todo = <<e>> /\ s.after = "discarding"
        /\ s.previous = a.previous /\ MayHoldStage(s)
    BY <1>4, <2>1 DEF Session, MayHoldStage
  <2>4. s.todo # <<"STAGING_DISCARD_SUCCEEDED">> /\ Head(s.todo) = e
    BY <2>3, OtherEvents DEF AbortEvents
  <2>5. AbortIsLegal(t, s)
    BY <1>4, <2>4 DEF AbortIsLegal
  <2> QED
    BY <1>1, <1>2, <1>3, <1>4, <2>2, <2>3, <2>4, <2>5, HoldingStep DEF Keeps
<1>5. CASE StageReturns(t) /\ GuardsHold(t)
  <2>1. PICK a : a = At(t, "executing") /\ a \in Session /\ a.pc = "executing"
                 /\ Keeps(session[t], a)
    BY <1>1, AtFields, Keeping DEF SessionPc, AwaitPoints
  <2>2. PICK s : s = [a EXCEPT !.staged = "effect"]
    OBVIOUS
  <2>3. s.pc = "executing" /\ s.previous = a.previous /\ MayHoldStage(s)
    BY <2>1, <2>2 DEF Session, MayHoldStage
  <2>4. Become(t, s)
    BY <1>5, <2>1, <2>2 DEF StageReturns
  <2>5. AbortIsLegal(t, s)
    BY <2>3 DEF AbortIsLegal
  <2> QED
    BY <1>1, <1>2, <1>3, <2>1, <2>3, <2>4, <2>5, HoldingStep DEF Keeps
<1>6. CASE StageReturns(t) /\ ~GuardsHold(t)
  <2>1. PICK e \in AbortEvents : e = GuardFailure(t, "STAGING_FAILED")
                                 /\ RulesFor(StateOf(t), e) # {}
    BY <1>1, <1>2, AbortRules, GuardFailureLegal
  <2>2. PICK a : a = Abort(t, e)
    OBVIOUS
  <2>3. Become(t, [a EXCEPT !.staged = "effect"])
    BY <1>6, <2>1, <2>2 DEF StageReturns
  <2> QED
    BY <1>4, <2>1, <2>2, <2>3
<1>7. CASE StagingUnclean(t)
  <2>1. PICK e \in AbortEvents : e = "STAGING_FAILED" /\ RulesFor(StateOf(t), e) # {}
    BY <1>1, <1>2, AbortRules
  <2>2. PICK a : a = Abort(t, e)
    OBVIOUS
  <2>3. Become(t, [a EXCEPT !.cleanup_failed = TRUE])
    BY <1>7, <2>1, <2>2 DEF StagingUnclean
  <2> QED
    BY <1>4, <2>1, <2>2, <2>3
<1> QED
  BY <1>5, <1>6, <1>7

\* adapter.execute returned.
LEMMA ExecuteTidy ==
  ASSUME TInv, NEW t \in Transactions, ExecuteReturns(t)
  PROVE  AllTidy'
<1>1. /\ session[t].pc = "executing" /\ StateOf(t) = "STAGING"
      /\ session[t].pc \in Posts /\ session[t] \in Session
      /\ session[t].pc \notin {"unborn", "closed"}
  BY RunningTidy DEF ExecuteReturns, StandsIn, Posts
<1>2. StateOf(t) \notin Idlers
  BY <1>1 DEF Idlers, NONE
<1>3. PICK todo \in Seq(TransitionEvent) : todo = <<"STAGING_SUCCEEDED">>
  BY TodoTyped DEF CoordinatorEvents
<1>4. PICK a : a = Recording(t, todo, "verify_guards")
  OBVIOUS
<1>5. /\ a \in Session /\ a.pc = "journal" /\ a.todo = todo /\ a.after = "verify_guards"
      /\ Keeps(session[t], a)
  BY <1>1, <1>4, RecordingFields, Keeping DEF SessionPc
<1>6. PICK s : s = [a EXCEPT !.staged = "receipt"]
  OBVIOUS
<1>7. /\ s.pc = "journal" /\ s.todo = todo /\ s.after = "verify_guards"
      /\ s.previous = a.previous /\ MayHoldStage(s)
  BY <1>5, <1>6 DEF Session, MayHoldStage
<1>8. s.todo # <<"STAGING_DISCARD_SUCCEEDED">>
  BY <1>3, <1>7, OtherEvents
<1>9. /\ Become(t, s) /\ UNCHANGED <<transactions, intents>>
      /\ stages' \subseteq stages \cup {t}
  BY <1>3, <1>4, <1>6 DEF ExecuteReturns, Local, jvars, adapterVars
<1>10. AbortIsLegal(t, s)
  BY <1>7 DEF AbortIsLegal
<1> QED
  BY <1>1, <1>2, <1>5, <1>7, <1>8, <1>9, <1>10, HoldingStep DEF Keeps

\* adapter.abort answered, or did not.
LEMMA DiscardTidy ==
  ASSUME TInv, NEW t \in Transactions, DiscardReturns(t) \/ DiscardInterrupted(t)
  PROVE  AllTidy'
<1>1. /\ session[t].pc \in Posts /\ session[t] \in Session /\ MayHoldStage(session[t])
  BY DEF DiscardReturns, DiscardInterrupted, Posts, MayHoldStage, TInv, CInv, TypeOK
<1>2. UNCHANGED <<transactions, intents>> /\ stages' \subseteq stages
  BY DEF DiscardReturns, DiscardInterrupted, jvars
<1>3. ASSUME NEW e, Become(t, Recording(t, <<e>>, "idle")),
             e = "STAGING_DISCARD_SUCCEEDED" => t \notin stages'
      PROVE  AllTidy'
  <2>1. PICK s : /\ s = Recording(t, <<e>>, "idle") /\ Keeps(session[t], s)
                 /\ s.pc = "journal" /\ s.todo = <<e>> /\ s.after = "idle"
    BY <1>1, Keeping
  <2>2. s.todo = <<"STAGING_DISCARD_SUCCEEDED">> => t \notin stages'
    BY <1>3, <2>1, OtherEvents
  <2> QED
    BY <1>1, <1>2, <1>3, <2>1, <2>2, ReleasingStep
<1>4. CASE Become(t, At(t, "idle"))
  <2>1. PICK s : s = At(t, "idle") /\ Keeps(session[t], s) /\ s.pc = "idle"
    BY <1>1, Keeping
  <2> QED
    BY <1>1, <1>2, <1>4, <2>1, ReleasingStep DEF Posts
<1> QED
  BY <1>3, <1>4 DEF DiscardReturns, DiscardInterrupted

\* The commit that has its effect moves the staged material to the target.
LEMMA CommitTidy ==
  ASSUME TInv, NEW t \in Transactions, CommitApplies(t)
  PROVE  AllTidy'
<1>1. session[t].pc \in Posts /\ session[t] \in Session
  BY DEF CommitApplies, Posts, TInv, CInv, TypeOK
<1>2. UNCHANGED <<transactions, intents>> /\ stages' \subseteq stages
  BY DEF CommitApplies, jvars, adapterVars
<1>3. CASE Become(t, Recording(t, <<"COMMIT_OUTCOME_UNKNOWN">>, "idle"))
  <2>1. PICK s : /\ s = Recording(t, <<"COMMIT_OUTCOME_UNKNOWN">>, "idle")
                 /\ Keeps(session[t], s) /\ s.pc = "journal"
                 /\ s.todo = <<"COMMIT_OUTCOME_UNKNOWN">> /\ s.after = "idle"
    BY <1>1, Keeping
  <2>2. s.todo \notin {<<"STAGING_DISCARD_SUCCEEDED">>, <<"STAGING_DISCARD_FAILED">>}
    BY <2>1, OtherEvents
  <2> QED
    BY <1>1, <1>2, <1>3, <2>1, <2>2, ReleasingStep
<1>4. CASE \E x : Become(t, [At(t, "journaling") EXCEPT !.receipt = x])
  <2>1. PICK x : Become(t, [At(t, "journaling") EXCEPT !.receipt = x])
    BY <1>4
  <2>2. PICK a : a = At(t, "journaling") /\ a \in Session /\ a.pc = "journaling"
                 /\ Keeps(session[t], a)
    BY <1>1, AtFields, Keeping DEF SessionPc
  <2>3. PICK s : s = [a EXCEPT !.receipt = x]
    OBVIOUS
  <2>4. s.pc = "journaling" /\ Keeps(a, s)
    BY <2>2, <2>3, Marking
  <2>5. Keeps(session[t], s) /\ Become(t, s)
    BY <2>1, <2>2, <2>3, <2>4 DEF Keeps
  <2> QED
    BY <1>1, <1>2, <2>4, <2>5, ReleasingStep DEF Posts
<1> QED
  BY <1>3, <1>4 DEF CommitApplies

-----------------------------------------------------------------------------
(* The steps on the tables                                                 *)

\* The row is created.
LEMMA CreateTidy ==
  ASSUME TInv, NEW t \in Transactions, Create(t)
  PROVE  AllTidy'
<1>1. PICK q : q = session[t]
  OBVIOUS
<1>2. /\ q.pc = "unborn" /\ q \in Session /\ Tidy(t, q) /\ ~Exists(t)
      /\ transactions' = [transactions EXCEPT ![t] = NewRow]
      /\ UNCHANGED <<intents, stages>>
  BY <1>1 DEF Create, CreateTransaction, TInv, CInv, TypeOK, adapterVars
<1>3. transactions \in [Transactions -> Row] /\ transactions[t] = AbsentRow
      /\ session \in [Transactions -> Session]
  BY <1>2 DEF TInv, CInv, TypeOK, JTypeOK, JInv, AbsentIsBlank
<1>4. /\ StateOf(t)' = "NEW" /\ LinkOf(t)' = NONE /\ LinkOf(t) = NONE /\ StateOf(t) = NONE
      /\ \A u \in Transactions \ {t} : transactions'[u] = transactions[u]
  BY <1>2, <1>3 DEF StateOf, LinkOf, NewRow, AbsentRow
<1>5. PICK a : /\ a = At(t, "inspecting") \/ a = Recording(t, <<"VALIDATION_FAILED">>, "closed")
               /\ Become(t, [a EXCEPT !.record = NewRow])
  BY DEF Create
<1>6. /\ a \in Session /\ Keeps(q, a)
      /\ \/ a.pc = "inspecting"
         \/ a.pc = "journal" /\ a.after = "closed" /\ a.todo = <<"VALIDATION_FAILED">>
  <2>1. CASE a = At(t, "inspecting")
    BY <1>1, <1>2, <2>1, AtFields, Keeping DEF SessionPc, AwaitPoints
  <2>2. CASE a = Recording(t, <<"VALIDATION_FAILED">>, "closed")
    <3>1. PICK todo \in Seq(TransitionEvent) : todo = <<"VALIDATION_FAILED">>
      BY TodoTyped DEF CoordinatorEvents
    <3>2. "closed" \in SessionPc
      BY DEF SessionPc
    <3>3. a = Recording(t, todo, "closed")
      BY <2>2, <3>1
    <3>4. session[t] \in Session /\ t \in Transactions
      BY <1>1, <1>2
    <3>5. a \in Session /\ a.pc = "journal" /\ a.todo = todo /\ a.after = "closed"
      BY <3>2, <3>3, <3>4, RecordingFields
    <3>6. Keeps(q, a)
      BY <1>1, <3>3, <3>4, Keeping
    <3> QED
      BY <3>1, <3>5, <3>6
  <2> QED
    BY <1>5, <2>1, <2>2
<1>7. PICK s : s = [a EXCEPT !.record = NewRow]
  OBVIOUS
<1>8. /\ Keeps(a, s) /\ s.pc = a.pc /\ s.todo = a.todo /\ s.after = a.after
  BY <1>6, <1>7, Marking
<1>9. session'[t] = s /\ \A u \in Transactions \ {t} : session'[u] = session[u]
  BY <1>3, <1>5, <1>7 DEF Become
<1>10. Owns(t)' <=> Owns(t)
  BY <1>2 DEF Owns
<1>11. /\ s.previous = q.previous
       /\ MayHoldStage(s) <=> MayHoldStage(q)
       /\ Unbound(s)
       /\ s.pc \notin {"unborn", "linking"}
       /\ s.pc = "journal" => s.todo # <<"STAGING_DISCARD_FAILED">> /\ s.after = "closed"
  <2>1. s.pc = "journal" => s.todo = <<"VALIDATION_FAILED">> /\ s.after = "closed"
    BY <1>6, <1>8
  <2>2. <<"VALIDATION_FAILED">> # <<"STAGING_DISCARD_FAILED">>
    BY OtherEvents
  <2> QED
    BY <1>6, <1>8, <2>1, <2>2 DEF Keeps, MayHoldStage, Unbound
<1>12. AbortIsLegal(t, s)' /\ StageIsKnown(t, s)' /\ IsBound(t, s)'
  <2>1. t \notin stages'
    BY <1>2 DEF Tidy, StageIsKnown
  <2>2. AbortIsLegal(t, s)'
    BY <1>11 DEF AbortIsLegal
  <2>3. StageIsKnown(t, s)'
    BY <2>1 DEF StageIsKnown
  <2>4. IsBound(t, s)'
    BY <1>11 DEF IsBound, Unbound
  <2> QED
    BY <2>2, <2>3, <2>4
<1>13. StagerOwns(t, s)'
  <2>1. MayHoldStage(q) => Owns(t)
    BY <1>2, <1>4 DEF Tidy, StagerOwns, NoEffectOutcomes, NONE
  <2> QED
    BY <1>4, <1>10, <1>11, <2>1 DEF StagerOwns
<1>14. IsLinked(t, s)'
  BY <1>2, <1>4, <1>11 DEF Tidy, IsLinked
<1>15. Tidy(t, session[t])'
  <2>1. Tidy(t, s)'
    BY <1>12, <1>13, <1>14 DEF Tidy
  <2> QED
    BY <1>9, <2>1, Zenon
<1>16. Elsewhere(t)
  BY <1>2, <1>4, <1>9 DEF Elsewhere, Owns
<1> QED
  BY <1>15, <1>16, TidyElsewhere

\* The intent is bound, or the link of a retry is written.
LEMMA BindLinkTidy ==
  ASSUME TInv, NEW t \in Transactions, Bind(t) \/ Link(t)
  PROVE  AllTidy'
<1>1. PICK q : q = session[t]
  OBVIOUS
<1>2. /\ q.pc \in {"binding", "linking"} /\ q \in Session /\ Tidy(t, q)
      /\ UNCHANGED <<intents, stages>>
  BY <1>1 DEF Bind, Link, SetTransactionIntent, LinkTransactionSupersession, TInv, CInv,
              TypeOK, adapterVars
<1>3. transactions \in [Transactions -> Row] /\ session \in [Transactions -> Session]
  BY DEF TInv, CInv, TypeOK, JTypeOK
<1>4. PICK s :
        /\ Become(t, s) /\ s.pc \in {"idle", "journal"} /\ Keeps(q, s)
        /\ s.pc = "journal" => q.pc = "linking" /\ s.todo = EntryEvents
                               /\ s.after = "stage_guards"
        /\ s.pc = "idle" => q.pc = "binding"
  <2>1. CASE Bind(t)
    <3>1. PICK a : a = At(t, "idle") /\ a \in Session /\ a.pc = "idle" /\ Keeps(q, a)
      BY <1>1, <1>2, AtFields, Keeping DEF SessionPc
    <3>2. PICK row : row = transactions'[t]
      OBVIOUS
    <3>3. PICK s : s = [a EXCEPT !.record = row]
      OBVIOUS
    <3>4. Keeps(a, s) /\ s.pc = "idle"
      BY <3>1, <3>3, Marking
    <3>5. Become(t, s)
      BY <2>1, <3>1, <3>2, <3>3 DEF Bind
    <3>6. q.pc = "binding" /\ Keeps(q, s)
      BY <1>1, <2>1, <3>1, <3>4 DEF Bind, Keeps
    <3> QED
      BY <3>4, <3>5, <3>6
  <2>2. CASE Link(t)
    <3>1. PICK a : a = Recording(t, EntryEvents, "stage_guards")
      OBVIOUS
    <3>2. /\ a \in Session /\ a.pc = "journal" /\ a.todo = EntryEvents
          /\ a.after = "stage_guards" /\ Keeps(q, a)
      BY <1>1, <1>2, <3>1, TodoTyped, RecordingFields, Keeping DEF SessionPc
    <3>3. PICK row : row = transactions'[t]
      OBVIOUS
    <3>4. PICK s : s = [a EXCEPT !.record = row]
      OBVIOUS
    <3>5. Keeps(a, s) /\ s.pc = "journal" /\ s.todo = EntryEvents /\ s.after = "stage_guards"
      BY <3>2, <3>4, Marking
    <3>6. Become(t, s)
      BY <2>2, <3>1, <3>3, <3>4 DEF Link
    <3>7. q.pc = "linking" /\ Keeps(q, s)
      BY <1>1, <2>2, <3>2, <3>5 DEF Link, Keeps
    <3> QED
      BY <3>5, <3>6, <3>7
  <2> QED
    BY <2>1, <2>2
<1>5. session'[t] = s /\ \A u \in Transactions \ {t} : session'[u] = session[u]
  BY <1>3, <1>4 DEF Become
<1>6. /\ StateOf(t)' = "NEW" /\ StateOf(t) = "NEW"
      /\ \A u \in Transactions \ {t} : transactions'[u] = transactions[u]
      /\ q.pc = "linking" =>
           /\ transactions'[t].intent_hash = transactions[t].intent_hash
           /\ LinkOf(t)' = q.previous
      /\ q.pc = "binding" => /\ transactions'[t].intent_hash = IntentOf[t]
                             /\ LinkOf(t)' = LinkOf(t)
  <2>1. transactions[t] \in Row
    BY <1>3
  <2>2. CASE Bind(t)
    <3>1. /\ transactions' = [transactions EXCEPT ![t].intent_hash = IntentOf[t]]
          /\ q.pc = "binding" /\ StateOf(t) = "NEW"
      BY <1>1, <2>2 DEF Bind, SetTransactionIntent, StateOf
    <3> QED
      BY <1>3, <2>1, <3>1 DEF StateOf, LinkOf, Row
  <2>3. CASE Link(t)
    <3>1. /\ transactions' = [transactions EXCEPT ![t].supersedes_transaction_id = q.previous]
          /\ q.pc = "linking" /\ StateOf(t) = "NEW"
      BY <1>1, <2>3 DEF Link, LinkTransactionSupersession, StateOf
    <3> QED
      BY <1>3, <2>1, <3>1 DEF StateOf, LinkOf, Row
  <2> QED
    BY <2>2, <2>3
<1>7. Owns(t)' <=> Owns(t)
  BY <1>2 DEF Owns
<1>8. /\ MayHoldStage(s) <=> MayHoldStage(q)
      /\ s.previous = q.previous
      /\ s.pc = "journal" => s.todo \notin {<<"STAGING_DISCARD_SUCCEEDED">>,
                                            <<"STAGING_DISCARD_FAILED">>}
  BY <1>4 DEF Keeps, MayHoldStage, EntryEvents
<1>9. s.previous = q.previous
  BY <1>4 DEF Keeps
<1>10. StageIsKnown(t, s)'
  BY <1>2, <1>6 DEF Tidy, StageIsKnown
<1>11. StagerOwns(t, s)'
  BY <1>2, <1>6, <1>7, <1>8 DEF Tidy, StagerOwns, NoEffectOutcomes
<1>12. IsLinked(t, s)'
  BY <1>2, <1>6, <1>9 DEF Tidy, IsLinked
<1>13. IsBound(t, s)' /\ AbortIsLegal(t, s)'
  BY <1>2, <1>4, <1>6 DEF Tidy, IsBound, Unbound, AbortIsLegal
<1>14. Tidy(t, session[t])'
  <2>1. Tidy(t, s)'
    BY <1>10, <1>11, <1>12, <1>13 DEF Tidy
  <2> QED
    BY <1>5, <2>1, Zenon
<1>15. Elsewhere(t)
  BY <1>2, <1>5, <1>6 DEF Elsewhere, Owns
<1> QED
  BY <1>14, <1>15, TidyElsewhere

\* What the reservation does to the owners: whoever loses an intent has ended
\* without effect, and the caller loses none.
LEMMA ReservationTakes ==
  ASSUME CInv, NEW t \in Transactions, EnterReserves(t)
  PROVE  /\ \A u \in Transactions \ {t} :
              Owns(u) => Owns(u)' \/ StateOf(u) \in NoEffectOutcomes
         /\ Owns(t) => Owns(t)'
<1>1. PICK h \in Intents : h = IntentOf[t]
  BY ConstantsAreTyped
<1>2. /\ intents' = [intents EXCEPT ![h] = OwnerAfterReservation(h, t)]
      /\ intents \in [Intents -> Transactions \cup {NONE}]
  BY <1>1 DEF EnterReserves, ReserveIntent, CInv, TypeOK, JTypeOK
<1>3. intents'[h] = OwnerAfterReservation(h, t)
      /\ \A g \in Intents \ {h} : intents'[g] = intents[g]
  BY <1>2
<1>4. ASSUME NEW u \in Transactions \ {t}
      PROVE  Owns(u) => Owns(u)' \/ StateOf(u) \in NoEffectOutcomes
  <2>1. IntentOf[u] \in Intents /\ u # NONE
    BY ConstantsAreTyped, NoneIsNoIdentifier
  <2> QED
    BY <1>3, <2>1, ReservationOwner, NoEffectIsFinal DEF Owns, StateOf
<1>5. Owns(t) => Owns(t)'
  BY <1>1, <1>3, ReservationOwner DEF Owns
<1> QED
  BY <1>4, <1>5

\* The intent is reserved.
LEMMA ReservesTidy ==
  ASSUME TInv, NEW t \in Transactions, EnterReserves(t)
  PROVE  AllTidy'
<1>1. PICK q : q = session[t]
  OBVIOUS
<1>2. /\ q.pc = "idle" /\ q \in Session /\ Tidy(t, q) /\ StateOf(t) = "NEW" /\ CInv
      /\ UNCHANGED <<transactions, stages>>
  <2>1. q.pc = "idle"
    BY <1>1 DEF EnterReserves
  <2> QED
    BY <1>1, <2>1, RunningTidy DEF EnterReserves, ReserveIntent, adapterVars
<1>3. session \in [Transactions -> Session]
  BY <1>2 DEF CInv, TypeOK
<1>4. PICK s :
        /\ Become(t, s)
        /\ MayHoldStage(s) <=> MayHoldStage(q)
        /\ \/ s.pc = "linking"
           \/ /\ s.pc = "journal" /\ s.previous = q.previous
              /\ s.after \in {"idle", "stage_guards"}
              /\ s.todo \in {EntryEvents, <<"VALIDATION_FAILED">>}
  <2>1. CASE \E todo, after : /\ Become(t, Recording(t, todo, after))
                              /\ after \in {"idle", "stage_guards"}
                              /\ todo \in {EntryEvents, <<"VALIDATION_FAILED">>}
    <3>1. PICK todo, after : /\ Become(t, Recording(t, todo, after))
                             /\ after \in {"idle", "stage_guards"}
                             /\ todo \in {EntryEvents, <<"VALIDATION_FAILED">>}
      BY <2>1
    <3>2. PICK s : /\ s = Recording(t, todo, after) /\ Keeps(q, s) /\ s.pc = "journal"
                   /\ s.todo = todo /\ s.after = after
      BY <1>1, <1>2, Keeping
    <3> QED
      BY <3>1, <3>2 DEF Keeps, MayHoldStage
  <2>2. CASE \E p : Become(t, [At(t, "linking") EXCEPT !.previous = p])
    <3>1. PICK p : Become(t, [At(t, "linking") EXCEPT !.previous = p])
      BY <2>2
    <3>2. PICK a : a = At(t, "linking") /\ a \in Session /\ a.pc = "linking" /\ Keeps(q, a)
      BY <1>1, <1>2, AtFields, Keeping DEF SessionPc
    <3>3. PICK s : s = [a EXCEPT !.previous = p]
      OBVIOUS
    <3>4. s.pc = "linking" /\ s.staged = a.staged /\ s.cleanup_failed = a.cleanup_failed
      BY <3>2, <3>3 DEF Session
    <3> QED
      BY <3>1, <3>2, <3>3, <3>4 DEF Keeps, MayHoldStage
  <2>3. PICK s : /\ Become(t, s)
                 /\ s = CASE OwnerAfterReservation(IntentOf[t], t) # t ->
                               Recording(t, <<"VALIDATION_FAILED">>, "idle")
                          [] PreviousOwner(IntentOf[t], t) # NONE ->
                               [At(t, "linking")
                                EXCEPT !.previous = PreviousOwner(IntentOf[t], t)]
                          [] OTHER -> Recording(t, EntryEvents, "stage_guards")
    BY DEF EnterReserves
  <2> QED
    BY <2>1, <2>2, <2>3
<1>5. session'[t] = s /\ \A u \in Transactions \ {t} : session'[u] = session[u]
  BY <1>3, <1>4 DEF Become
<1>6. StateOf(t)' = "NEW" /\ LinkOf(t)' = LinkOf(t)
      /\ transactions'[t].intent_hash = transactions[t].intent_hash
      /\ (Owns(t) => Owns(t)')
  BY <1>2, ReservationTakes DEF StateOf, LinkOf
<1>7. s.pc = "journal" => s.todo # <<"STAGING_DISCARD_FAILED">>
  BY <1>4 DEF EntryEvents
<1>8. StageIsKnown(t, s)' /\ AbortIsLegal(t, s)'
  BY <1>2, <1>4, <1>6 DEF Tidy, StageIsKnown, AbortIsLegal
<1>9. StagerOwns(t, s)'
  BY <1>2, <1>4, <1>6, <1>7 DEF Tidy, StagerOwns, NoEffectOutcomes
<1>10. IsBound(t, s)' /\ IsLinked(t, s)'
  BY <1>2, <1>4, <1>6 DEF Tidy, IsBound, IsLinked, Unbound
<1>11. Tidy(t, session[t])'
  <2>1. Tidy(t, s)'
    BY <1>8, <1>9, <1>10 DEF Tidy
  <2> QED
    BY <1>5, <2>1, Zenon
<1>12. Elsewhere(t)
  BY <1>2, <1>5, ReservationTakes DEF Elsewhere
<1> QED
  BY <1>11, <1>12, TidyElsewhere

\* The events that end an abort, or a transaction without effect, and those
\* after which more is to be recorded.
LEMMA PlanEnds ==
  ASSUME NEW state, NEW todo \in Seq(TransitionEvent), NEW after, NEW next,
         Plan(state, todo, after), LeadsTo(Head(todo), next)
  PROVE  /\ next \in NoEffectOutcomes \cup {NONE, "NEW"}
              => state = "NEW" \/ todo = <<"STAGING_DISCARD_SUCCEEDED">>
         /\ next = "RECOVERY_FAILED" => todo = <<"STAGING_DISCARD_FAILED">>
         /\ state \in PRE_COMMIT_STATES \cup {"ABORTING", "COMMITTING"}
         /\ Len(todo) # 1 => /\ after # "discarding"
                             /\ Tail(todo) # <<"STAGING_DISCARD_FAILED">>
                             /\ state = "NEW" \/ Tail(todo) # <<"STAGING_DISCARD_SUCCEEDED">>
<1> USE DEF LeadsTo, TargetOf, PRE_COMMIT_STATES, NoEffectOutcomes, NONE
<1>1. CASE Len(todo) = 1
  <2>1. PICK e : todo = <<e>> /\ e = Head(todo)
    <3>1. todo = <<Head(todo)>>
      BY <1>1
    <3> QED
      BY <3>1
  <2>2. \A f : <<f>> = todo => f = e
    BY <2>1
  <2>3. /\ <<"CANCELLED", "STAGING_DISCARD_SUCCEEDED">> # todo
        /\ <<"AUTHORIZED_FOR_STAGING", "WORKER_LEASE_ACQUIRED">> # todo
        /\ <<"STAGED_VERIFICATION_PASSED", "NO_APPROVAL_REQUIRED">> # todo
        /\ EntryEvents # todo
    BY <2>1 DEF EntryEvents
  <2>4. \/ state = "NEW"
        \/ state = "ABORTING" /\ e \in {"STAGING_DISCARD_SUCCEEDED", "STAGING_DISCARD_FAILED"}
        \/ /\ state \in PRE_COMMIT_STATES \cup {"COMMITTING"}
           /\ e \in AbortEvents \cup CommitEvents \cup
                    {"WORKER_LEASE_ACQUIRED", "STAGING_SUCCEEDED", "NO_APPROVAL_REQUIRED",
                     "COMMIT_GUARDS_PASSED", "COMMIT_FAILED_NO_EFFECT"}
    BY <2>2, <2>3 DEF Plan
  <2>5. next = "RECOVERY_FAILED" => e = "STAGING_DISCARD_FAILED"
    <3>1. state = "NEW" => e \in AbortEvents \cup {"VALIDATION_FAILED"}
      BY <2>2, <2>3 DEF Plan
    <3> QED
      BY <2>1, <2>4, <3>1 DEF AbortEvents, CommitEvents, IntendedOutcome
  <2>6. next \in NoEffectOutcomes \cup {NONE, "NEW"}
          => state = "NEW" \/ e = "STAGING_DISCARD_SUCCEEDED"
    BY <2>1, <2>4 DEF AbortEvents, CommitEvents
  <2> QED
    BY <1>1, <2>1, <2>4, <2>5, <2>6
<1>2. CASE Len(todo) # 1
  <2>1. \/ /\ state = "NEW" /\ after = "closed"
           /\ todo = <<"CANCELLED", "STAGING_DISCARD_SUCCEEDED">>
        \/ /\ state = "NEW" /\ after = "stage_guards" /\ todo = EntryEvents
        \/ /\ state = "PLANNED" /\ after = "stage_guards"
           /\ todo = <<"AUTHORIZED_FOR_STAGING", "WORKER_LEASE_ACQUIRED">>
        \/ /\ state = "STAGED" /\ after = "idle"
           /\ todo = <<"STAGED_VERIFICATION_PASSED", "NO_APPROVAL_REQUIRED">>
    BY <1>2, HeadsAndTails DEF Plan
  <2>2. \A e, f : <<e, f>> # <<"STAGING_DISCARD_FAILED">>
    OBVIOUS
  <2>3. \A e, f : <<e>> = <<f>> => e = f
    OBVIOUS
  <2>4. /\ \/ state = "NEW" /\ Tail(todo) = <<"STAGING_DISCARD_SUCCEEDED">>
           \/ Tail(todo) = <<"AUTHORIZED_FOR_STAGING", "WORKER_LEASE_ACQUIRED">>
           \/ Tail(todo) = <<"WORKER_LEASE_ACQUIRED">>
           \/ Tail(todo) = <<"NO_APPROVAL_REQUIRED">>
        /\ Head(todo) \in {"CANCELLED", "PROPOSAL_VALID", "AUTHORIZED_FOR_STAGING",
                           "STAGED_VERIFICATION_PASSED"}
    <3>1. CASE /\ state = "NEW" /\ after = "closed"
               /\ todo = <<"CANCELLED", "STAGING_DISCARD_SUCCEEDED">>
      BY <3>1, HeadsAndTails
    <3>2. CASE todo = EntryEvents
      BY <3>2, HeadsAndTails
    <3>3. CASE todo = <<"AUTHORIZED_FOR_STAGING", "WORKER_LEASE_ACQUIRED">>
      BY <3>3, HeadsAndTails
    <3>4. CASE todo = <<"STAGED_VERIFICATION_PASSED", "NO_APPROVAL_REQUIRED">>
      BY <3>4, HeadsAndTails
    <3> QED
      BY <2>1, <3>1, <3>2, <3>3, <3>4
  <2>5. next \notin NoEffectOutcomes \cup {NONE, "NEW", "RECOVERY_FAILED"}
    BY <2>4 DEF AbortEvents
  <2>6. /\ Tail(todo) # <<"STAGING_DISCARD_FAILED">>
        /\ state = "NEW" \/ Tail(todo) # <<"STAGING_DISCARD_SUCCEEDED">>
    BY <2>2, <2>3, <2>4
  <2> QED
    BY <2>1, <2>5, <2>6
<1> QED
  BY <1>1, <1>2

\* What one _transition does: the first event of the plan todo is journaled, the
\* row of t becomes row, its session s, and the operation goes on at after.
Recorded(t, todo, after, row, s) ==
  /\ session[t].pc = "journal" /\ todo = session[t].todo /\ after = session[t].after
  /\ Plan(StateOf(t), todo, after)
  /\ LeadsTo(Head(todo), row.state)
  /\ transactions' = [transactions EXCEPT ![t] = row]
  /\ row.intent_hash = transactions[t].intent_hash
  /\ row.supersedes_transaction_id = LinkOf(t)
  /\ row.state = "ABORTING" => row.intended_outcome # NONE
  /\ Become(t, s) /\ Keeps(session[t], s)
  /\ s.todo = Tail(todo)
  /\ s.pc = IF Len(todo) = 1 THEN after ELSE "journal"
  /\ s.after = IF Len(todo) = 1 THEN "idle" ELSE after
  /\ UNCHANGED <<intents, receipts, adapterVars>>

LEMMA RecordEventRecords ==
  ASSUME CInv, NEW t \in Transactions, RecordEvent(t)
  PROVE  \E todo \in Seq(TransitionEvent), after \in SessionPc, row \in Row, s \in Session :
           Recorded(t, todo, after, row, s)
<1>1. PICK q : q = session[t]
  OBVIOUS
<1>2. /\ q \in Session /\ q.pc = "journal" /\ q.record = transactions[t]
      /\ Plan(StateOf(t), q.todo, q.after)
  <2>1. q.pc = "journal"
    BY <1>1 DEF RecordEvent
  <2> QED
    BY <1>1, <2>1, Running DEF StandsIn, StateOf
<1>3. PICK todo \in Seq(TransitionEvent) : todo = q.todo
  BY <1>2 DEF Session
<1>4. PICK after \in SessionPc : after = q.after
  BY <1>2 DEF Session
<1>5. PICK current \in Row : current = transactions[t]
  BY DEF CInv, TypeOK, JTypeOK
<1>6. /\ Plan(current.state, todo, after)
      /\ Transition(t, current.version, Head(todo), RunOf[t])
      /\ UNCHANGED <<intents, receipts, adapterVars>>
  BY <1>1, <1>2, <1>3, <1>4, <1>5 DEF RecordEvent, Transition, StateOf
<1>7. todo # <<>> /\ Head(todo) \in TransitionEvent /\ Tail(todo) \in Seq(TransitionEvent)
  <2>1. todo # <<>>
    BY <1>6 DEF Plan, EntryEvents
  <2> QED
    BY <2>1
<1>8. PICK e \in CoordinatorEvents : e = Head(todo)
  <2>1. PICK e : e = Head(todo)
    OBVIOUS
  <2>2. PICK x : LeadsTo(e, x)
    BY DEF LeadsTo, IntendedOutcome
  <2>3. CASE Len(todo) = 1
    BY <1>6, <2>1, <2>2, <2>3, LastEventOfPlan
  <2>4. CASE Len(todo) # 1
    BY <1>6, <2>1, <2>2, <2>4, EventOfPlan
  <2> QED
    BY <2>3, <2>4
<1>9. PICK outcome \in IntendedOutcome \cup {NONE} : outcome = current.intended_outcome
  BY <1>5 DEF Row
<1>10. PICK d \in ApplyTransition(current.state, e, outcome) :
         transactions' = [transactions EXCEPT
           ![t] = [current EXCEPT !.state = d.target, !.version = current.version + 1,
                                  !.intended_outcome = d.outcome]]
  BY <1>5, <1>6, <1>8, <1>9 DEF Transition
<1>11. PICK row : row = [current EXCEPT !.state = d.target, !.version = current.version + 1,
                                        !.intended_outcome = d.outcome]
  OBVIOUS
<1>12. d.target \in TransactionState /\ d.outcome \in IntendedOutcome \cup {NONE}
       /\ (d.target = "ABORTING" => d.outcome # NONE)
  BY <1>9, <1>10, DecisionWellFormed DEF IntendedOutcome, NONE
<1>13. /\ row \in Row /\ row.state = d.target /\ row.intended_outcome = d.outcome
       /\ row.intent_hash = current.intent_hash
       /\ row.supersedes_transaction_id = current.supersedes_transaction_id
  <2>1. PICK state \in TransactionState, out \in IntendedOutcome \cup {NONE} :
          state = d.target /\ out = d.outcome
    BY <1>12
  <2>2. PICK version \in Nat : version = current.version + 1
    BY <1>5 DEF Row
  <2>3. row = [current EXCEPT !.state = state, !.version = version, !.intended_outcome = out]
    BY <1>11, <2>1, <2>2
  <2>4. /\ row \in Row /\ row.state = state /\ row.intended_outcome = out
        /\ row.intent_hash = current.intent_hash
        /\ row.supersedes_transaction_id = current.supersedes_transaction_id
    BY <1>5, <2>3 DEF Row
  <2> QED
    BY <2>1, <2>4
<1>14. LeadsTo(e, row.state)
  BY <1>8, <1>9, <1>10, <1>13, DecisionTargets DEF LeadsTo
<1>15. PICK pc \in SessionPc : pc = IF Len(todo) = 1 THEN after ELSE "journal"
  BY DEF SessionPc
<1>16. PICK on \in SessionPc : on = IF Len(todo) = 1 THEN "idle" ELSE after
  BY DEF SessionPc
<1>17. PICK inside \in BOOLEAN : inside = (q.inside \/ row.state = "READY_TO_COMMIT")
  OBVIOUS
<1>18. PICK rest \in Seq(TransitionEvent) : rest = Tail(todo)
  BY <1>7
<1>19. PICK s : s = [q EXCEPT !.record = row, !.todo = rest, !.pc = pc, !.after = on,
                              !.inside = inside]
  OBVIOUS
<1>20. transactions' = [transactions EXCEPT ![t] = row] /\ transactions'[t] = row
  <2>1. transactions \in [Transactions -> Row]
    BY DEF CInv, TypeOK, JTypeOK
  <2> QED
    BY <1>10, <1>11, <2>1
<1>21. Become(t, s)
  BY <1>1, <1>2, <1>3, <1>4, <1>15, <1>16, <1>17, <1>18, <1>19, <1>20 DEF RecordEvent
<1>22. s \in Session /\ s.todo = rest /\ s.pc = pc /\ s.after = on /\ Keeps(q, s)
  BY <1>2, <1>13, <1>19 DEF Session, Keeps
<1>23. Recorded(t, todo, after, row, s)
  <2>1. Plan(StateOf(t), todo, after) /\ LinkOf(t) = current.supersedes_transaction_id
    BY <1>5, <1>6 DEF StateOf, LinkOf
  <2> QED
    BY <1>1, <1>2, <1>3, <1>4, <1>5, <1>6, <1>8, <1>12, <1>13, <1>14, <1>15, <1>16, <1>18,
       <1>20, <1>21, <1>22, <2>1 DEF Recorded
<1> QED
  BY <1>13, <1>22, <1>23

\* The first event of the plan is recorded.
LEMMA RecordEventTidy ==
  ASSUME TInv, NEW t \in Transactions, RecordEvent(t)
  PROVE  AllTidy'
<1>1. PICK todo \in Seq(TransitionEvent), after \in SessionPc, row \in Row, s \in Session :
        Recorded(t, todo, after, row, s)
  BY RecordEventRecords DEF TInv
<1>2. PICK q : q = session[t]
  OBVIOUS
<1>3. /\ q.pc = "journal" /\ todo = q.todo /\ after = q.after /\ Tidy(t, q) /\ CInv
      /\ Plan(StateOf(t), todo, after) /\ LeadsTo(Head(todo), row.state)
      /\ Keeps(q, s) /\ UNCHANGED <<intents, stages>>
      /\ s.todo = Tail(todo)
      /\ s.pc = IF Len(todo) = 1 THEN after ELSE "journal"
      /\ s.after = IF Len(todo) = 1 THEN "idle" ELSE after
  BY <1>1, <1>2 DEF Recorded, TInv, adapterVars
<1>4. /\ session'[t] = s /\ \A u \in Transactions \ {t} : session'[u] = session[u]
      /\ StateOf(t)' = row.state /\ LinkOf(t)' = LinkOf(t)
      /\ transactions'[t].intent_hash = transactions[t].intent_hash
      /\ \A u \in Transactions \ {t} : transactions'[u] = transactions[u]
  <2>1. transactions \in [Transactions -> Row] /\ session \in [Transactions -> Session]
    BY <1>3 DEF CInv, TypeOK, JTypeOK
  <2> QED
    BY <1>1, <2>1 DEF Recorded, Become, StateOf, LinkOf
<1>5. Owns(t)' <=> Owns(t)
  BY <1>3 DEF Owns
<1>6. MayHoldStage(s) <=> MayHoldStage(q)
  BY <1>3 DEF Keeps, MayHoldStage
<1>7. PICK state : state = StateOf(t)
  OBVIOUS
<1>8. /\ row.state \in NoEffectOutcomes \cup {NONE, "NEW"}
           => state = "NEW" \/ todo = <<"STAGING_DISCARD_SUCCEEDED">>
      /\ row.state = "RECOVERY_FAILED" => todo = <<"STAGING_DISCARD_FAILED">>
      /\ state \in PRE_COMMIT_STATES \cup {"ABORTING", "COMMITTING"}
      /\ Len(todo) # 1 => /\ after # "discarding"
                          /\ Tail(todo) # <<"STAGING_DISCARD_FAILED">>
                          /\ state = "NEW" \/ Tail(todo) # <<"STAGING_DISCARD_SUCCEEDED">>
  BY <1>3, <1>7, PlanEnds
<1>9. /\ after \notin {"unborn", "journal"}
      /\ after = "closed" => state = "NEW" \/ todo = <<"STAGING_DISCARD_SUCCEEDED">>
  BY <1>3, <1>7, ClosingPlans DEF Plan
<1>10. AbortIsLegal(t, s)'
  BY <1>3, <1>8, <1>9 DEF AbortIsLegal
<1>11. StageIsKnown(t, s)'
  <2> SUFFICES ASSUME t \in stages
               PROVE  /\ s.pc \notin {"unborn", "closed"}
                      /\ row.state \notin {NONE, "NEW"} \cup NoEffectOutcomes
                      /\ MayHoldStage(s)
                      /\ s.pc = "journal" => s.todo # <<"STAGING_DISCARD_SUCCEEDED">>
    BY <1>3, <1>4 DEF StageIsKnown
  <2>1. state # "NEW" /\ MayHoldStage(q) /\ todo # <<"STAGING_DISCARD_SUCCEEDED">>
    BY <1>3, <1>7 DEF Tidy, StageIsKnown
  <2> QED
    BY <1>3, <1>6, <1>8, <1>9, <2>1
<1>12. IsBound(t, s)'
  BY <1>3, <1>4 DEF Tidy, IsBound, Unbound
<1>13. StagerOwns(t, s)'
  <2>1. state \notin NoEffectOutcomes
    BY <1>8 DEF PRE_COMMIT_STATES, NoEffectOutcomes
  <2>2. MayHoldStage(q) \/ todo = <<"STAGING_DISCARD_FAILED">> => Owns(t)
    BY <1>3, <1>7, <2>1 DEF Tidy, StagerOwns
  <2>3. s.pc = "journal" => s.todo # <<"STAGING_DISCARD_FAILED">>
    BY <1>3, <1>8, <1>9
  <2> QED
    BY <1>4, <1>5, <1>6, <1>8, <2>2, <2>3 DEF StagerOwns
<1>14. IsLinked(t, s)'
  BY <1>3, <1>4 DEF Tidy, IsLinked, Keeps
<1>15. Tidy(t, session[t])'
  <2>1. Tidy(t, s)'
    BY <1>10, <1>11, <1>12, <1>13, <1>14 DEF Tidy
  <2> QED
    BY <1>4, <2>1, Zenon
<1>16. Elsewhere(t)
  BY <1>3, <1>4 DEF Elsewhere, Owns
<1> QED
  BY <1>15, <1>16, TidyElsewhere

-----------------------------------------------------------------------------
(* The environment, and the whole                                          *)

\* The process dies, and the stages of its adapter with it.
LEMMA CrashTidy ==
  ASSUME TInv, Crash
  PROVE  AllTidy'
<1>1. /\ UNCHANGED <<transactions, intents>> /\ stages' = {}
      /\ session' = [t \in Transactions |->
           IF session[t].pc = "unborn" THEN session[t]
           ELSE [UnbornSession EXCEPT !.pc = "closed"]]
  BY DEF Crash, jvars
<1>2. ASSUME NEW t \in Transactions PROVE Tidy(t, session[t])'
  <2>1. PICK s : s = session'[t]
    OBVIOUS
  <2>2. Tidy(t, session[t])
    BY DEF TInv
  <2>3. /\ Owns(t)' <=> Owns(t)
        /\ StateOf(t)' = StateOf(t) /\ LinkOf(t)' = LinkOf(t)
        /\ transactions'[t].intent_hash = transactions[t].intent_hash
    BY <1>1 DEF Owns, StateOf, LinkOf
  <2>4. CASE session[t].pc = "unborn"
    <3>1. s = session[t]
      BY <1>1, <2>1, <2>4
    <3>2. Tidy(t, s)'
      BY <1>1, <2>2, <2>3, <3>1
         DEF Tidy, AbortIsLegal, StageIsKnown, IsBound, StagerOwns, IsLinked
    <3> QED
      BY <2>1, <3>2, Zenon
  <2>5. CASE session[t].pc # "unborn"
    <3>1. PICK a \in Session : a = UnbornSession
      BY NoSession
    <3>2. a.previous = NONE /\ ~MayHoldStage(a)
      BY <3>1 DEF UnbornSession, MayHoldStage
    <3>3. s = [a EXCEPT !.pc = "closed"]
      BY <1>1, <2>1, <2>5, <3>1
    <3>4. s.pc = "closed" /\ s.previous = NONE /\ ~MayHoldStage(s)
      BY <3>2, <3>3 DEF Session, MayHoldStage
    <3>5. Tidy(t, s)'
      BY <1>1, <2>2, <2>3, <3>4
         DEF Tidy, AbortIsLegal, StageIsKnown, IsBound, Unbound, StagerOwns, IsLinked
    <3> QED
      BY <2>1, <3>5, Zenon
  <2> QED
    BY <2>4, <2>5
<1> QED
  BY <1>2 DEF AllTidy

\* Nothing remembered is touched.
LEMMA QuietTidy ==
  ASSUME TInv, UNCHANGED <<transactions, intents, session, stages>>
  PROVE  AllTidy'
BY DEF TInv, AllTidy, Tidy, AbortIsLegal, StageIsKnown, IsBound, StagerOwns, IsLinked,
       StateOf, LinkOf, Owns

\* No operation of the journal begins an abort without an outcome.
LEMMA OperationsIntend ==
  ASSUME JInv, OutcomeIntended, [JOperation]_jvars
  PROVE  OutcomeIntended'
<1>1. transactions \in [Transactions -> Row]
  BY DEF JInv, JTypeOK
<1>2. ASSUME NEW t \in Transactions, NEW row, transactions' = [transactions EXCEPT ![t] = row],
             row.state = "ABORTING" => row.intended_outcome # NONE
      PROVE  OutcomeIntended'
  BY <1>1, <1>2 DEF OutcomeIntended, StateOf
<1>3. ASSUME NEW t \in Transactions, NEW v, NEW e, NEW run, Transition(t, v, e, run)
      PROVE  OutcomeIntended'
  <2>1. PICK current \in Row : current = transactions[t]
    BY <1>1
  <2>2. current.intended_outcome \in IntendedOutcome \cup {NONE}
    BY DEF Row
  <2>3. PICK d \in ApplyTransition(current.state, e, current.intended_outcome) :
          transactions' = [transactions EXCEPT
            ![t] = [current EXCEPT !.state = d.target, !.version = current.version + 1,
                                   !.intended_outcome = d.outcome]]
    BY <1>3, <2>1 DEF Transition
  <2>4. d.target = "ABORTING" => d.outcome # NONE
    BY <2>3 DEF ApplyTransition
  <2>5. PICK row : row = [current EXCEPT !.state = d.target, !.version = current.version + 1,
                                         !.intended_outcome = d.outcome]
    OBVIOUS
  <2>6. row.state = d.target /\ row.intended_outcome = d.outcome
    BY <2>1, <2>5 DEF Row
  <2> QED
    BY <1>2, <2>3, <2>4, <2>5, <2>6
<1>4. ASSUME NEW t \in Transactions, NEW run, CreateTransaction(t, run)
      PROVE  OutcomeIntended'
  <2>1. NewRow.state = "NEW"
    BY DEF NewRow, AbsentRow
  <2> QED
    BY <1>2, <1>4, <2>1 DEF CreateTransaction
<1>5. ASSUME NEW t \in Transactions, NEW h, SetTransactionIntent(t, h)
      PROVE  OutcomeIntended'
  <2>1. PICK row : row = [transactions[t] EXCEPT !.intent_hash = h]
    OBVIOUS
  <2>2. row.state = "NEW" /\ transactions' = [transactions EXCEPT ![t] = row]
    BY <1>1, <1>5, <2>1 DEF SetTransactionIntent, Row
  <2> QED
    BY <1>2, <2>2
<1>6. ASSUME NEW t \in Transactions, NEW p, LinkTransactionSupersession(t, p)
      PROVE  OutcomeIntended'
  <2>1. PICK row : row = [transactions[t] EXCEPT !.supersedes_transaction_id = p]
    OBVIOUS
  <2>2. row.state = "NEW" /\ transactions' = [transactions EXCEPT ![t] = row]
    BY <1>1, <1>6, <2>1 DEF LinkTransactionSupersession, Row
  <2> QED
    BY <1>2, <2>2
<1>7. CASE UNCHANGED transactions
  BY <1>7 DEF OutcomeIntended, StateOf
<1> QED
  BY <1>3, <1>4, <1>5, <1>6, <1>7
     DEF JOperation, jvars, AppendEvent, ReserveIntent, AppendReceipt

\* Initially nothing is remembered.
LEMMA TInvInit ==
  ASSUME Init
  PROVE  TInv
<1>1. CInv
  BY CInvInit
<1>2. \A t \in Transactions : StateOf(t) = NONE
  BY DEF Init, JInit, AbsentRow, StateOf
<1>3. OutcomeIntended
  BY <1>2 DEF OutcomeIntended, NONE
<1>4. ASSUME NEW t \in Transactions PROVE Tidy(t, session[t])
  <2>1. PICK s : s = session[t]
    OBVIOUS
  <2>2. s.pc = "unborn" /\ s.previous = NONE /\ ~MayHoldStage(s) /\ stages = {}
    BY <2>1 DEF Init, UnbornSession, MayHoldStage
  <2>3. StateOf(t) # "RECOVERY_FAILED"
    BY <1>2 DEF NONE
  <2>4. Tidy(t, s)
    BY <2>2, <2>3 DEF Tidy, AbortIsLegal, StageIsKnown, IsBound, Unbound, StagerOwns, IsLinked
  <2> QED
    BY <2>1, <2>4
<1> QED
  BY <1>1, <1>3, <1>4 DEF TInv

\* No step leaves the invariant.
LEMMA TInvStep ==
  TInv /\ [Next]_vars => TInv'
<1> SUFFICES ASSUME TInv, [Next]_vars PROVE TInv'
  OBVIOUS
<1>1. CInv'
  BY CInvStep DEF TInv
<1>2. OutcomeIntended'
  <2>1. [JOperation]_jvars
    BY StepsAreJournalOperations DEF TInv
  <2> QED
    BY <2>1, OperationsIntend DEF TInv, CInv
<1>3. AllTidy'
  <2>1. CASE UNCHANGED vars
    BY <2>1, QuietTidy DEF vars, jvars, adapterVars
  <2>2. ASSUME NEW t \in Transactions, Progress(t) PROVE AllTidy'
    BY <2>2, InspectTidy, BindLinkTidy, RecordEventTidy, StagingTidy, StageTidy, ExecuteTidy,
       VerifyingTidy, RevalidatingTidy, CommitTidy, CommittingTidy, DiscardUnaidedTidy,
       DiscardTidy
    DEF Progress
  <2>3. ASSUME NEW t \in Transactions, Call(t) PROVE AllTidy'
    BY <2>3, CreateTidy, CancelTidy, ReservesTidy, RevalidatingTidy, ExitTidy DEF Call
  <2>4. CASE Environment
    <3>1. ASSUME (\E t \in Transactions : Expire(t)) \/ ManifestChanges \/ Drift
          PROVE  AllTidy'
      BY <3>1, QuietTidy DEF Expire, ManifestChanges, Drift, jvars, adapterVars
    <3> QED
      BY <2>4, <3>1, JournalFailsTidy, CrashTidy DEF Environment
  <2> QED
    BY <2>1, <2>2, <2>3, <2>4 DEF Next
<1> QED
  BY <1>1, <1>2, <1>3 DEF TInv, AllTidy

-----------------------------------------------------------------------------
(* What a session may rely on                                              *)

\* What sessions remember is true, in every reachable state.
THEOREM SessionsAreTidy == Spec => []TInv
<1>1. Init => TInv
  BY TInvInit
<1> QED
  BY <1>1, TInvStep, PTL DEF Spec

\* No operation is stopped half-way by an illegal or stale transition.
THEOREM TransitionsAreAccepted == Spec => []NoTransitionRefused
<1>1. TInv => NoTransitionRefused
  <2> SUFFICES ASSUME TInv, NEW t \in Transactions
               PROVE  /\ Live(t) => session[t].record = transactions[t]
                      /\ session[t].pc = "journal" =>
                           ApplyTransition(transactions[t].state, Head(session[t].todo),
                                           transactions[t].intended_outcome) # {}
    BY DEF NoTransitionRefused
  <2>1. Live(t) => session[t].record = transactions[t]
    BY DEF Live, TInv, CInv, Good, GoodWith
  <2>2. ASSUME session[t].pc = "journal"
        PROVE  ApplyTransition(transactions[t].state, Head(session[t].todo),
                               transactions[t].intended_outcome) # {}
    <3>1. PICK state, todo, after : /\ state = StateOf(t) /\ todo = session[t].todo
                                    /\ after = session[t].after
      OBVIOUS
    <3>2. Plan(state, todo, after)
      BY <2>2, <3>1, RunningTidy DEF StandsIn
    <3>3. PICK current \in IntendedOutcome \cup {NONE} :
            current = transactions[t].intended_outcome
      BY DEF TInv, CInv, TypeOK, JTypeOK, Row
    <3>4. state = "ABORTING" => current # NONE
      BY <3>1, <3>3 DEF TInv, OutcomeIntended
    <3>5. after = "discarding" /\ state \in PRE_COMMIT_STATES
            => RulesFor(state, Head(todo)) # {}
      BY <2>2, <3>1 DEF TInv, Tidy, AbortIsLegal
    <3> QED
      BY <3>1, <3>2, <3>3, <3>4, <3>5, PlanIsLegal DEF StateOf
  <2> QED
    BY <2>1, <2>2
<1> QED
  BY <1>1, SessionsAreTidy, PTL

\* A transaction that has ended without effect has left nothing staged.
THEOREM CleanEndsAreClean == Spec => []CleanEndLeavesNoStage
<1>1. TInv => CleanEndLeavesNoStage
  BY DEF TInv, CInv, TypeOK, Tidy, StageIsKnown, StateOf, CleanEndLeavesNoStage
<1> QED
  BY <1>1, SessionsAreTidy, PTL

\* If no journal call fails, whoever took an intent over works only once it is
\* linked to the attempt before it; with such failures it need not be.
THEOREM TakeoversAreLinked ==
  ASSUME "journal" \notin Faults
  PROVE  Spec => []TakeoverIsLinked
<1>1. TInv => TakeoverIsLinked
  <2> SUFFICES ASSUME TInv, NEW t \in Transactions, session[t].previous # NONE,
                      transactions[t].state \notin {"NEW", "REJECTED"}
               PROVE  transactions[t].supersedes_transaction_id = session[t].previous
    BY DEF TakeoverIsLinked
  <2>1. session[t].pc # "linking"
    BY DEF TInv, CInv, Good, GoodWith, StandsIn
  <2> QED
    BY <2>1 DEF TInv, Tidy, IsLinked, LinkOf
<1> QED
  BY <1>1, SessionsAreTidy, PTL

\* No step of the coordinator reopens, rebinds or takes back a finished
\* transaction: it keeps the journal's action property.
THEOREM CoordinatorKeepsHistory == Spec => HistoryIsFinal
<1>1. CInv /\ [Next]_vars => [FinalKept]_jvars
  BY StepsAreJournalOperations, OperationsKeepFinal DEF CInv
<1>2. [FinalKept]_jvars =>
        [\A t \in Transactions :
           /\ transactions[t].state \in TERMINAL_TRANSACTION_STATES
                => transactions'[t] = transactions[t]
           /\ transactions'[t].version >= transactions[t].version
           /\ transactions[t].intent_hash # NONE
                => transactions'[t].intent_hash = transactions[t].intent_hash]_jvars
  BY DEF FinalKept
<1> QED
  BY <1>1, <1>2, CoordinatorInvariant, PTL DEF Spec, HistoryIsFinal

\* Nor does one take an intent from an owner whose outcome may be an effect.
THEOREM CoordinatorKeepsOwners == Spec => UncertainOwnerKeepsIntent
<1>1. CInv /\ [Next]_vars => [OwnerKept]_jvars
  BY StepsAreJournalOperations, OperationsKeepOwner DEF CInv
<1>2. [OwnerKept]_jvars =>
        [\A h \in Intents :
           intents[h] # NONE /\ intents'[h] # intents[h]
             => /\ transactions'[intents[h]].state \in NoEffectOutcomes
                /\ \A r \in receipts' : r.transaction_id # intents[h]]_jvars
  BY DEF OwnerKept
<1> QED
  BY <1>1, <1>2, CoordinatorInvariant, PTL DEF Spec, UncertainOwnerKeepsIntent

-----------------------------------------------------------------------------
(* The links of retries                                                    *)

\* The attempts a transaction follows: the one its row is linked to, and the one
\* its session has replaced as owner of the intent.
Claims(t) == {LinkOf(t), session[t].previous} \ {NONE}

\* Owners have bound the intent they own.  What a transaction follows has ended
\* without effect on the same intent and has lost it, and no other follows it.
OwnersAreBound ==
  \A h \in Intents : intents[h] # NONE =>
    IntentOf[intents[h]] = h /\ transactions[intents[h]].intent_hash = h

ClaimsAreDead ==
  \A t \in Transactions : \A p \in Claims(t) :
    /\ p \in Transactions /\ transactions[p].state \in NoEffectOutcomes
    /\ transactions[p].intent_hash = IntentOf[t]
    /\ transactions[t].intent_hash = IntentOf[t]
    /\ intents[IntentOf[t]] # p

ClaimsAreDisjoint ==
  \A t, u \in Transactions : t # u => Claims(t) \cap Claims(u) = {}

Chained == OwnersAreBound /\ ClaimsAreDead /\ ClaimsAreDisjoint

SamePrevious == \A u \in Transactions : session'[u].previous = session[u].previous

\* A step of one session that leaves what it has replaced alone.
LEMMA MovedOn ==
  ASSUME CInv, NEW t \in Transactions, NEW s, Become(t, s), s.previous = session[t].previous
  PROVE  SamePrevious
BY DEF CInv, TypeOK, Become, SamePrevious

\* Only the reservation sets it.
LEMMA PreviousIsKept ==
  ASSUME CInv, NEW t \in Transactions,
         Progress(t) \/ Call(t) \/ JournalFails(t), ~EnterReserves(t)
  PROVE  SamePrevious
<1>1. session[t] \in Session
  BY DEF CInv, TypeOK
<1> USE <1>1, MovedOn DEF Local, At, Recording, Abort, Session
<1>2. CASE \/ Create(t) \/ InspectReturns(t) \/ InspectInterrupted(t) \/ Bind(t)
           \/ RecordEvent(t) \/ Link(t)
  BY <1>2 DEF Create, InspectReturns, InspectInterrupted, Bind, RecordEvent, Link
<1>3. CASE \/ EnterRefused(t) \/ BeginStage(t) \/ StageReturns(t) \/ ExecuteReturns(t)
           \/ StagingInterrupted(t) \/ StagingUnclean(t)
  BY <1>3 DEF EnterRefused, BeginStage, StageReturns, ExecuteReturns, StagingInterrupted,
              StagingUnclean
<1>4. CASE \/ BeginVerify(t) \/ VerifyPasses(t) \/ VerifyFails(t) \/ BeginCommit(t)
           \/ RevalidateReturns(t) \/ RevalidateInterrupted(t)
  BY <1>4 DEF BeginVerify, VerifyPasses, VerifyFails, BeginCommit, RevalidateReturns,
              RevalidateInterrupted
<1>5. CASE \/ CommitApplies(t) \/ CommitStale(t) \/ CommitInterrupted(t)
           \/ JournalReceipt(t) \/ ConfirmReturns(t) \/ ConfirmInterrupted(t)
  BY <1>5 DEF CommitApplies, CommitStale, CommitInterrupted, JournalReceipt, ConfirmReturns,
              ConfirmInterrupted
<1>6. CASE \/ Cancel(t) \/ EnforceDeadline(t) \/ Exit(t) \/ DiscardUnaided(t)
           \/ DiscardReturns(t) \/ DiscardInterrupted(t) \/ JournalFails(t)
  BY <1>6 DEF Cancel, EnforceDeadline, Exit, DiscardUnaided, DiscardReturns,
              DiscardInterrupted, JournalFails
<1> QED
  BY <1>2, <1>3, <1>4, <1>5, <1>6 DEF Progress, Call

\* Nor does any other step change an owner, and only the writing of the link
\* changes a link.
LEMMA LinksAreKept ==
  ASSUME CInv, NEW t \in Transactions,
         Progress(t) \/ Call(t) \/ JournalFails(t), ~EnterReserves(t)
  PROVE  /\ UNCHANGED intents
         /\ \A u \in Transactions : LinkOf(u)' \in {LinkOf(u), session[u].previous, NONE}
<1>1. transactions \in [Transactions -> Row]
  BY DEF CInv, TypeOK, JTypeOK
<1>2. ASSUME NEW row, transactions' = [transactions EXCEPT ![t] = row],
             row.supersedes_transaction_id \in {LinkOf(t), session[t].previous, NONE}
      PROVE  \A u \in Transactions : LinkOf(u)' \in {LinkOf(u), session[u].previous, NONE}
  BY <1>1, <1>2 DEF LinkOf
<1>3. CASE Create(t)
  <2>1. NewRow.supersedes_transaction_id = NONE
    BY DEF NewRow, AbsentRow
  <2> QED
    BY <1>2, <1>3, <2>1 DEF Create, CreateTransaction
<1>4. CASE Bind(t)
  <2>1. PICK row : row = [transactions[t] EXCEPT !.intent_hash = IntentOf[t]]
    OBVIOUS
  <2>2. row.supersedes_transaction_id = LinkOf(t)
        /\ transactions' = [transactions EXCEPT ![t] = row]
    BY <1>1, <1>4, <2>1 DEF Bind, SetTransactionIntent, Row, LinkOf
  <2> QED
    BY <1>2, <1>4, <2>2 DEF Bind, SetTransactionIntent
<1>5. CASE Link(t)
  <2>1. PICK p : p = session[t].previous
    OBVIOUS
  <2>2. PICK row : row = [transactions[t] EXCEPT !.supersedes_transaction_id = p]
    OBVIOUS
  <2>3. row.supersedes_transaction_id = p /\ transactions' = [transactions EXCEPT ![t] = row]
    BY <1>1, <1>5, <2>1, <2>2 DEF Link, LinkTransactionSupersession, Row
  <2> QED
    BY <1>2, <1>5, <2>1, <2>3 DEF Link, LinkTransactionSupersession
<1>6. CASE RecordEvent(t)
  <2>1. PICK todo, after, row, s : Recorded(t, todo, after, row, s)
    BY <1>6, RecordEventRecords
  <2> QED
    BY <1>2, <2>1 DEF Recorded
<1>7. CASE ~(Create(t) \/ Bind(t) \/ Link(t) \/ RecordEvent(t))
  <2>1. UNCHANGED <<transactions, intents>>
    BY <1>7 DEF Progress, Call, InspectReturns, InspectInterrupted, EnterRefused, BeginStage,
       StageReturns, ExecuteReturns, StagingInterrupted, StagingUnclean, BeginVerify,
       VerifyPasses, VerifyFails, BeginCommit, RevalidateReturns, RevalidateInterrupted,
       CommitApplies, CommitStale, CommitInterrupted, JournalReceipt, AppendReceipt,
       ConfirmReturns, ConfirmInterrupted, Cancel, EnforceDeadline, Exit, DiscardUnaided,
       DiscardReturns, DiscardInterrupted, JournalFails, Local, jvars
  <2> QED
    BY <2>1 DEF LinkOf
<1> QED
  BY <1>3, <1>4, <1>5, <1>6, <1>7

\* A step that adds no claim and moves no owner keeps the chains.
LEMMA ChainsAreKept ==
  ASSUME CInv, Chained, FinalKept, UNCHANGED intents,
         \A t \in Transactions : Claims(t)' \subseteq Claims(t)
  PROVE  Chained'
<1>1. /\ \A h \in Intents : intents[h] \in Transactions \cup {NONE}
      /\ NONE \notin Intents /\ \A t \in Transactions : IntentOf[t] \in Intents
  BY NoneIsNoIdentifier, ConstantsAreTyped DEF CInv, TypeOK, JTypeOK
<1>2. NoEffectOutcomes \subseteq TERMINAL_TRANSACTION_STATES
  BY NoEffectIsFinal
<1>3. OwnersAreBound'
  BY <1>1 DEF Chained, OwnersAreBound, FinalKept
<1>4. ClaimsAreDead'
  <2> SUFFICES ASSUME NEW t \in Transactions, NEW p \in Claims(t)'
               PROVE  /\ p \in Transactions /\ transactions'[p].state \in NoEffectOutcomes
                      /\ transactions'[p].intent_hash = IntentOf[t]
                      /\ transactions'[t].intent_hash = IntentOf[t]
                      /\ intents'[IntentOf[t]] # p
    BY DEF ClaimsAreDead
  <2>1. /\ p \in Transactions /\ transactions[p].state \in NoEffectOutcomes
        /\ transactions[p].intent_hash = IntentOf[t]
        /\ transactions[t].intent_hash = IntentOf[t]
        /\ intents[IntentOf[t]] # p
    BY DEF Chained, ClaimsAreDead
  <2> QED
    BY <1>1, <1>2, <2>1 DEF FinalKept
<1>5. ClaimsAreDisjoint'
  BY DEF Chained, ClaimsAreDisjoint
<1> QED
  BY <1>3, <1>4, <1>5 DEF Chained

\* The reservation adds one claim at most: of the owner that is replaced, which
\* nobody claims as long as it is the owner.
LEMMA ReservesChained ==
  ASSUME TInv, Chained, NEW t \in Transactions, EnterReserves(t)
  PROVE  Chained'
<1>1. PICK h \in Intents : h = IntentOf[t]
  BY ConstantsAreTyped
<1>2. PICK o : o = OwnerAfterReservation(h, t)
  OBVIOUS
<1>3. PICK prev : prev = PreviousOwner(h, t)
  OBVIOUS
<1>4. /\ CInv /\ session \in [Transactions -> Session]
      /\ intents \in [Intents -> Transactions \cup {NONE}]
      /\ NONE \notin Transactions /\ NONE \notin Intents
      /\ \A u \in Transactions : IntentOf[u] \in Intents
  BY NoneIsNoIdentifier, ConstantsAreTyped DEF TInv, CInv, TypeOK, JTypeOK
<1>5. /\ session[t].pc = "idle" /\ State(t) = "NEW"
      /\ UNCHANGED transactions /\ intents' = [intents EXCEPT ![h] = o]
  BY <1>1, <1>2 DEF EnterReserves, ReserveIntent
<1>6. /\ transactions[t].state = "NEW" /\ transactions[t].intent_hash = h
      /\ "NEW" \notin NoEffectOutcomes
  BY <1>1, <1>5, RunningTidy, NoEffectIsFinal DEF StateOf, Tidy, IsBound, Unbound
<1>7. /\ intents'[h] = o /\ \A g \in Intents \ {h} : intents'[g] = intents[g]
      /\ o = intents[h] \/ (o = t /\ transactions[t].intent_hash = h)
  BY <1>2, <1>4, <1>5, <1>6, ReservationOwner
<1>8. /\ \A u \in Transactions \ {t} : session'[u].previous = session[u].previous
      /\ session'[t].previous \in {session[t].previous, prev}
  <2>1. PICK s : /\ Become(t, s)
                 /\ s = CASE o # t -> Recording(t, <<"VALIDATION_FAILED">>, "idle")
                          [] prev # NONE -> [At(t, "linking") EXCEPT !.previous = prev]
                          [] OTHER -> Recording(t, EntryEvents, "stage_guards")
    BY <1>1, <1>2, <1>3 DEF EnterReserves
  <2>2. s.previous \in {session[t].previous, prev}
    BY <1>4, <2>1 DEF At, Recording, Session
  <2> QED
    BY <1>4, <2>1, <2>2 DEF Become
<1>9. prev # NONE => /\ prev = intents[h] /\ prev \in Transactions /\ o = t /\ prev # t
                     /\ transactions[prev].state \in NoEffectOutcomes
  BY <1>2, <1>3, <1>4, NoEffectIsFinal DEF PreviousOwner, OwnerAfterReservation
<1>10. /\ \A u \in Transactions \ {t} : Claims(u)' = Claims(u)
       /\ Claims(t)' \subseteq Claims(t) \cup ({prev} \ {NONE})
  BY <1>5, <1>8 DEF Claims, LinkOf
<1>11. OwnersAreBound'
  BY <1>1, <1>4, <1>5, <1>6, <1>7 DEF Chained, OwnersAreBound
<1>12. ASSUME NEW u \in Transactions, NEW p \in Claims(u)
       PROVE  /\ p \in Transactions /\ transactions'[p].state \in NoEffectOutcomes
              /\ transactions'[p].intent_hash = IntentOf[u]
              /\ transactions'[u].intent_hash = IntentOf[u]
              /\ intents'[IntentOf[u]] # p
  <2>1. /\ p \in Transactions /\ transactions[p].state \in NoEffectOutcomes
        /\ transactions[p].intent_hash = IntentOf[u]
        /\ transactions[u].intent_hash = IntentOf[u]
        /\ intents[IntentOf[u]] # p
    BY DEF Chained, ClaimsAreDead
  <2>2. p # t
    BY <1>6, <2>1
  <2> QED
    BY <1>4, <1>5, <1>7, <2>1, <2>2
<1>13. prev # NONE =>
         /\ prev \in Transactions /\ transactions'[prev].state \in NoEffectOutcomes
         /\ transactions'[prev].intent_hash = IntentOf[t]
         /\ transactions'[t].intent_hash = IntentOf[t]
         /\ intents'[IntentOf[t]] # prev
  BY <1>1, <1>5, <1>6, <1>7, <1>9 DEF Chained, OwnersAreBound
<1>14. ClaimsAreDead'
  BY <1>10, <1>12, <1>13 DEF ClaimsAreDead
<1>15. prev # NONE => \A u \in Transactions : prev \notin Claims(u)
  <2> SUFFICES ASSUME prev # NONE, NEW u \in Transactions, prev \in Claims(u) PROVE FALSE
    OBVIOUS
  <2>1. transactions[prev].intent_hash = IntentOf[u] /\ intents[IntentOf[u]] # prev
    BY DEF Chained, ClaimsAreDead
  <2>2. transactions[prev].intent_hash = h /\ intents[h] = prev
    BY <1>9 DEF Chained, OwnersAreBound
  <2> QED
    BY <2>1, <2>2
<1>16. ClaimsAreDisjoint'
  <2>1. \A u, v \in Transactions : u # v => Claims(u) \cap Claims(v) = {}
    BY DEF Chained, ClaimsAreDisjoint
  <2>2. ASSUME NEW u \in Transactions, NEW v \in Transactions, u # v
        PROVE  Claims(u)' \cap Claims(v)' = {}
    BY <1>10, <1>15, <2>1, <2>2
  <2> QED
    BY <2>2 DEF ClaimsAreDisjoint
<1> QED
  BY <1>11, <1>14, <1>16 DEF Chained

\* No step breaks a chain.
LEMMA ChainedStep ==
  TInv /\ Chained /\ [Next]_vars => Chained'
<1> SUFFICES ASSUME TInv, Chained, [Next]_vars PROVE Chained'
  OBVIOUS
<1>1. CInv /\ FinalKept
  BY StepsAreJournalOperations, OperationsKeepFinal DEF TInv, CInv
<1>2. ASSUME NEW t \in Transactions, Progress(t) \/ Call(t) \/ JournalFails(t)
      PROVE  Chained'
  <2>1. CASE EnterReserves(t)
    BY <2>1, ReservesChained
  <2>2. CASE ~EnterReserves(t)
    <3>1. SamePrevious
      BY <1>1, <1>2, <2>2, PreviousIsKept
    <3>2. /\ UNCHANGED intents
          /\ \A u \in Transactions : LinkOf(u)' \in {LinkOf(u), session[u].previous, NONE}
      BY <1>1, <1>2, <2>2, LinksAreKept
    <3>3. \A u \in Transactions : Claims(u)' \subseteq Claims(u)
      BY <3>1, <3>2 DEF Claims, SamePrevious
    <3> QED
      BY <1>1, <3>2, <3>3, ChainsAreKept
  <2> QED
    BY <2>1, <2>2
<1>3. ASSUME UNCHANGED <<transactions, intents>>,
             \A u \in Transactions : session'[u].previous \in {session[u].previous, NONE}
      PROVE  Chained'
  <2>1. \A u \in Transactions : Claims(u)' \subseteq Claims(u)
    BY <1>3 DEF Claims, LinkOf
  <2> QED
    BY <1>1, <1>3, <2>1, ChainsAreKept
<1>4. CASE Crash
  <2>1. [UnbornSession EXCEPT !.pc = "closed"].previous = NONE
    BY DEF UnbornSession
  <2>2. \A u \in Transactions : session'[u].previous \in {session[u].previous, NONE}
    BY <1>4, <2>1 DEF Crash
  <2> QED
    BY <1>3, <1>4, <2>2 DEF Crash, jvars
<1>5. CASE UNCHANGED vars \/ (\E t \in Transactions : Expire(t)) \/ ManifestChanges \/ Drift
  <2>1. UNCHANGED <<transactions, intents, session>>
    BY <1>5 DEF vars, jvars, Expire, ManifestChanges, Drift
  <2> QED
    BY <1>3, <2>1
<1> QED
  BY <1>2, <1>4, <1>5 DEF Next, Environment

\* Initially nothing is claimed.
LEMMA ChainedInit ==
  ASSUME Init
  PROVE  Chained
<1>1. \A t \in Transactions : Claims(t) = {}
  BY DEF Init, JInit, UnbornSession, AbsentRow, Claims, LinkOf
<1>2. \A h \in Intents : intents[h] = NONE
  BY DEF Init, JInit
<1> QED
  BY <1>1, <1>2 DEF Chained, OwnersAreBound, ClaimsAreDead, ClaimsAreDisjoint

\* The links of retries form chains, for any number of attempts, with failures
\* of the journal and crashes between the reservation and the link.
THEOREM RetriesFormChains == Spec => []SupersessionIsAChain
<1>1. Init => TInv /\ Chained
  BY TInvInit, ChainedInit
<1>2. TInv /\ Chained /\ [Next]_vars => (TInv /\ Chained)'
  BY TInvStep, ChainedStep
<1>3. TInv /\ Chained => SupersessionIsAChain
  <2> SUFFICES ASSUME TInv, Chained, NEW t \in Transactions, NEW p, p = LinkOf(t), p # NONE
               PROVE  /\ transactions[p].state \in NoEffectOutcomes /\ EffectsOf(p) = {}
                      /\ transactions[p].intent_hash = transactions[t].intent_hash
                      /\ \A u \in Transactions \ {t} :
                           transactions[u].supersedes_transaction_id # p
    BY DEF SupersessionIsAChain, LinkOf
  <2>1. p \in Claims(t)
    BY DEF Claims
  <2>2. /\ p \in Transactions /\ transactions[p].state \in NoEffectOutcomes
        /\ transactions[p].intent_hash = transactions[t].intent_hash
    BY <2>1 DEF Chained, ClaimsAreDead
  <2>3. EffectsOf(p) = {}
    BY <2>2 DEF TInv, CInv, Good, GoodWith, NoEffectOutcomes
  <2>4. ASSUME NEW u \in Transactions \ {t}, LinkOf(u) = p PROVE FALSE
    <3>1. p \in Claims(u)
      BY <2>4 DEF Claims
    <3> QED
      BY <2>1, <3>1 DEF Chained, ClaimsAreDisjoint
  <2> QED
    BY <2>2, <2>3, <2>4 DEF LinkOf
<1> QED
  BY <1>1, <1>2, <1>3, PTL DEF Spec

-----------------------------------------------------------------------------
(* The coordinator implements EffectOutcome                                *)

\* The variables of the abstract specification, as the refinement maps them.
Applied == {t \in Transactions : EffectsOf(t) # {}}
Verdict == [t \in Transactions |-> VerdictOf(transactions[t].state)]

\* The verdicts of the states that the argument tells apart.
LEMMA VerdictsOfStates ==
  /\ VerdictOf(NONE) = "open"
  /\ \A state \in PRE_COMMIT_STATES \cup {"ABORTING", "COMMITTING"} : VerdictOf(state) = "open"
  /\ \A state : VerdictOf(state) = "none" => state \in NoEffectOutcomes
  /\ \A state : VerdictOf(state) = "done" => state = "COMMITTED"
  /\ \A state : VerdictOf(state) \in {"open", "none"} \/
       state \in {"COMMITTED", "FAILED", "IN_DOUBT", "RECOVERY_FAILED"}
  /\ \A state : VerdictOf(state) \in {"open", "none", "done", "unsure"}
BY DEF VerdictOf, NoEffectOutcomes, PRE_COMMIT_STATES, NONE

\* Nothing durable and no effect changes: a stutter.
LEMMA QuietMaps ==
  ASSUME UNCHANGED <<transactions, effects>>
  PROVE  UNCHANGED <<Applied, Verdict>>
BY DEF Applied, Verdict, EffectsOf

\* The row of an open transaction changes: a stutter, or its verdict.
LEMMA RowMaps ==
  ASSUME CInv, CInv', NEW t \in Transactions, NEW row,
         transactions' = [transactions EXCEPT ![t] = row], UNCHANGED effects,
         VerdictOf(transactions[t].state) = "open"
  PROVE  [Outcome!Next]_<<Applied, Verdict>>
<1>1. transactions \in [Transactions -> Row]
  BY DEF CInv, TypeOK, JTypeOK
<1>2. UNCHANGED Applied
  BY DEF Applied, EffectsOf
<1>3. PICK v : v = VerdictOf(row.state)
  OBVIOUS
<1>4. Verdict' = [Verdict EXCEPT ![t] = v] /\ Verdict[t] = "open"
  BY <1>1, <1>3 DEF Verdict
<1>5. CASE v = "open"
  <2>1. Verdict' = Verdict
    BY <1>4, <1>5 DEF Verdict
  <2> QED
    BY <1>2, <2>1
<1>6. CASE v # "open"
  <2>1. transactions'[t].state = row.state /\ Good(t)'
    BY <1>1 DEF CInv
  <2>2. EffectsOf(t)' = EffectsOf(t)
    BY DEF EffectsOf
  <2>3. v = "none" => t \notin Applied
    <3>1. v = "none" => row.state \in NoEffectOutcomes
      BY <1>3, VerdictsOfStates
    <3>2. EffectsOf(t)' # {} => row.state \in {"COMMITTING", "COMMITTED", "FAILED", "IN_DOUBT"}
      BY <2>1 DEF Good, GoodWith
    <3> QED
      BY <2>2, <3>1, <3>2 DEF Applied, NoEffectOutcomes
  <2>4. v = "done" => t \in Applied
    <3>1. v = "done" => row.state = "COMMITTED"
      BY <1>3, VerdictsOfStates
    <3>2. row.state = "COMMITTED" => EffectsOf(t)' # {}
      BY <2>1 DEF Good, GoodWith
    <3> QED
      BY <2>2, <3>1, <3>2 DEF Applied
  <2>5. v \in {"none", "done", "unsure"}
    BY <1>3, <1>6, VerdictsOfStates
  <2>6. Outcome!Conclude(t, v)
    BY <1>2, <1>4, <2>3, <2>4 DEF Outcome!Conclude, Applied, Verdict
  <2> QED
    BY <2>5, <2>6 DEF Outcome!Next, Outcome!Verdicts
<1> QED
  BY <1>5, <1>6

\* The effect: nobody else has applied the intent, or may have.
LEMMA EffectMaps ==
  ASSUME TInv, NEW t \in Transactions, CommitApplies(t)
  PROVE  [Outcome!Next]_<<Applied, Verdict>>
<1>1. PICK h \in Intents : h = IntentOf[t]
  BY ConstantsAreTyped
<1>2. UNCHANGED transactions
  BY DEF CommitApplies, jvars
<1>3. CASE receiptOf[h] # NoReceipt
  <2>1. UNCHANGED effects
    BY <1>1, <1>3 DEF CommitApplies, adapterVars
  <2> QED
    BY <1>2, <2>1, QuietMaps
<1>4. CASE receiptOf[h] = NoReceipt
  <2>1. PICK e : /\ e.receipt.transaction_id = t
                 /\ effects' = effects \cup {e}
    BY <1>1, <1>4 DEF CommitApplies
  <2>2. /\ StateOf(t) = "COMMITTING" /\ Owns(t) /\ EffectsOf(t) = {} /\ CInv
    <3>1. session[t].pc = "committing"
      BY DEF CommitApplies
    <3>2. CInv /\ StandsIn(session[t], StateOf(t)) /\ GoodWith(t, session[t])
      BY <3>1, RunningTidy
    <3>3. StateOf(t) = "COMMITTING"
      BY <3>1, <3>2 DEF StandsIn
    <3> QED
      BY <3>1, <3>2, <3>3 DEF GoodWith, StateOf, Idlers, NONE
  <2>3. Applied' = Applied \cup {t}
    <3>1. \A u \in Transactions : EffectsOf(u)' # {} <=> EffectsOf(u) # {} \/ u = t
      BY <2>1 DEF EffectsOf
    <3> QED
      BY <3>1 DEF Applied
  <2>4. Verdict[t] = "open"
    BY <2>2, VerdictsOfStates DEF Verdict, StateOf
  <2>5. ASSUME NEW u \in Transactions, IntentOf[u] = IntentOf[t]
        PROVE  u \notin Applied /\ Verdict[u] \in {"open", "none"}
    <3>1. u \notin Applied
      <4> SUFFICES ASSUME EffectsOf(u) # {} PROVE FALSE
        BY DEF Applied
      <4>1. PICK f \in effects : f.receipt.transaction_id = u
        BY DEF EffectsOf
      <4>2. f.intent_hash = IntentOf[t]
        BY <2>2, <2>5, <4>1 DEF CInv, EffectsInv
      <4> QED
        BY <2>2, <4>2, OwnerIsFirst
    <3>2. StateOf(u) \notin {"COMMITTED", "FAILED", "IN_DOUBT", "RECOVERY_FAILED"}
      <4> SUFFICES ASSUME StateOf(u) \in {"COMMITTED", "FAILED", "IN_DOUBT", "RECOVERY_FAILED"}
                   PROVE  FALSE
        OBVIOUS
      <4>1. Owns(u)
        <5>1. CASE StateOf(u) = "RECOVERY_FAILED"
          BY <5>1 DEF TInv, Tidy, StagerOwns
        <5>2. CASE StateOf(u) \in {"COMMITTED", "FAILED", "IN_DOUBT"}
          BY <2>2, <5>2 DEF CInv, Good, GoodWith, StateOf, Idlers, NONE
        <5> QED
          BY <5>1, <5>2
      <4>2. u = t
        BY <2>2, <2>5, <4>1 DEF Owns
      <4> QED
        BY <2>2, <4>2
    <3> QED
      BY <3>1, <3>2, VerdictsOfStates DEF Verdict, StateOf
  <2>6. UNCHANGED Verdict
    BY <1>2 DEF Verdict
  <2>7. Outcome!Apply(t)
    BY <2>3, <2>4, <2>5, <2>6 DEF Outcome!Apply, Applied, Verdict
  <2> QED
    BY <2>7 DEF Outcome!Next
<1> QED
  BY <1>3, <1>4

\* Every step maps to a step of EffectOutcome or to a stutter.
LEMMA StepMaps ==
  TInv /\ TInv' /\ [Next]_vars => [Outcome!Next]_<<Applied, Verdict>>
<1> SUFFICES ASSUME TInv, TInv', [Next]_vars PROVE [Outcome!Next]_<<Applied, Verdict>>
  OBVIOUS
<1>1. CInv /\ CInv'
  BY DEF TInv
<1>2. ASSUME UNCHANGED <<transactions, effects>>
      PROVE  [Outcome!Next]_<<Applied, Verdict>>
  BY <1>2, QuietMaps
<1>3. ASSUME NEW t \in Transactions, RecordEvent(t)
      PROVE  [Outcome!Next]_<<Applied, Verdict>>
  <2>1. PICK todo \in Seq(TransitionEvent), after \in SessionPc, row \in Row, s \in Session :
                Recorded(t, todo, after, row, s)
    BY <1>1, <1>3, RecordEventRecords
  <2>2. /\ transactions' = [transactions EXCEPT ![t] = row] /\ UNCHANGED effects
        /\ Plan(StateOf(t), todo, after) /\ LeadsTo(Head(todo), row.state)
    BY <2>1 DEF Recorded, adapterVars
  <2>3. StateOf(t) \in PRE_COMMIT_STATES \cup {"ABORTING", "COMMITTING"}
    BY <2>2, PlanEnds
  <2>4. VerdictOf(transactions[t].state) = "open"
    BY <2>3, VerdictsOfStates DEF StateOf
  <2> QED
    BY <1>1, <2>2, <2>4, RowMaps
<1>4. ASSUME NEW t \in Transactions, Create(t) \/ Bind(t) \/ Link(t)
      PROVE  [Outcome!Next]_<<Applied, Verdict>>
  <2>1. PICK row : transactions' = [transactions EXCEPT ![t] = row] /\ UNCHANGED effects
    <3>1. CASE Create(t)
      BY <3>1 DEF Create, CreateTransaction, adapterVars
    <3>2. CASE Bind(t)
      BY <3>2 DEF Bind, SetTransactionIntent, adapterVars
    <3>3. CASE Link(t)
      BY <3>3 DEF Link, LinkTransactionSupersession, adapterVars
    <3> QED
      BY <1>4, <3>1, <3>2, <3>3
  <2>2. transactions[t].state \in {NONE, "NEW"}
    BY <1>4 DEF Create, CreateTransaction, Exists, Bind, SetTransactionIntent, Link,
                LinkTransactionSupersession
  <2>3. VerdictOf(transactions[t].state) = "open"
    BY <2>2, VerdictsOfStates DEF PRE_COMMIT_STATES
  <2> QED
    BY <1>1, <2>1, <2>3, RowMaps
<1>5. ASSUME NEW t \in Transactions, Progress(t) \/ Call(t) \/ JournalFails(t)
      PROVE  [Outcome!Next]_<<Applied, Verdict>>
  <2>1. CASE CommitApplies(t)
    BY <2>1, EffectMaps
  <2>2. CASE ~(\/ Create(t) \/ Bind(t) \/ Link(t) \/ RecordEvent(t) \/ CommitApplies(t))
    <3>1. UNCHANGED <<transactions, effects>>
      BY <1>5, <2>2 DEF Progress, Call, InspectReturns, InspectInterrupted, EnterRefused,
         EnterReserves, ReserveIntent, BeginStage, StageReturns, ExecuteReturns,
         StagingInterrupted, StagingUnclean, BeginVerify, VerifyPasses, VerifyFails,
         BeginCommit, RevalidateReturns, RevalidateInterrupted, CommitStale,
         CommitInterrupted, JournalReceipt, AppendReceipt, ConfirmReturns,
         ConfirmInterrupted, Cancel, EnforceDeadline, Exit, DiscardUnaided, DiscardReturns,
         DiscardInterrupted, JournalFails, Local, jvars, adapterVars
    <3> QED
      BY <1>2, <3>1
  <2> QED
    BY <1>3, <1>4, <2>1, <2>2
<1>6. CASE \/ UNCHANGED vars \/ (\E t \in Transactions : Expire(t))
           \/ ManifestChanges \/ Drift \/ Crash
  BY <1>2, <1>6 DEF vars, Expire, ManifestChanges, Drift, Crash, jvars, adapterVars
<1> QED
  BY <1>5, <1>6 DEF Next, Environment

\* The coordinator implements what its callers rely on: whatever fails, is lost
\* or crashes, an intent is applied for one transaction at most, and a verdict
\* is final and true.
THEOREM CoordinatorImplementsEffectOutcome == Spec => RefinesEffectOutcome
<1>1. Init => Outcome!Init
  <2> SUFFICES ASSUME Init PROVE Outcome!Init
    OBVIOUS
  <2>1. \A t \in Transactions : EffectsOf(t) = {} /\ transactions[t].state = NONE
    BY DEF Init, JInit, EffectsOf, AbsentRow
  <2> QED
    BY <2>1, VerdictsOfStates DEF Outcome!Init
<1>2. [Outcome!Next]_<<Applied, Verdict>> =>
        [Outcome!Next]_<<{t \in Transactions : EffectsOf(t) # {}},
                         [t \in Transactions |-> VerdictOf(transactions[t].state)]>>
  BY DEF Applied, Verdict
<1> QED
  BY <1>1, <1>2, StepMaps, SessionsAreTidy, PTL DEF Spec, RefinesEffectOutcome, Outcome!Spec
=============================================================================
