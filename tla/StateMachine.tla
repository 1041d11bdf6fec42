---------------------------- MODULE StateMachine ----------------------------
(***************************************************************************)
(* The deterministic authoritative transaction state machine of            *)
(* src/agentkernel/transactions/state_machine.py: the durable states, the  *)
(* events, the normative transition table and its evaluation.  Constants   *)
(* only: the module has no state of its own, the journal keeps the state.  *)
(***************************************************************************)

\* Python's None, for an intended outcome, an intent, a link or a dynamic target.
NONE == "NONE"

TERMINAL_TRANSACTION_STATES ==
  {"COMMITTED", "REJECTED", "ABORTED", "STALE_STATE", "ROLLED_BACK",
   "COMPENSATED", "RECOVERY_FAILED", "COMPENSATION_FAILED"}

\* The states the coordinator may still leave without an authoritative effect.
PRE_COMMIT_STATES ==
  {"NEW", "PLANNED", "AUTHORIZED_TO_STAGE", "STAGING", "STAGED",
   "STAGE_VERIFIED", "AWAITING_APPROVAL", "READY_TO_COMMIT"}

TransactionState ==
  TERMINAL_TRANSACTION_STATES \cup PRE_COMMIT_STATES \cup
  {"COMMITTING", "FAILED", "ABORTING", "ROLLING_BACK", "COMPENSATING",
   "IN_DOUBT", "RECONCILING"}

IntendedOutcome == {"ABORTED", "STALE_STATE"}

ExitEvents == {"CANCELLED", "DEADLINE_EXCEEDED", "CONTEXT_EXITED"}

TransitionEvent ==
  ExitEvents \cup
  {"PROPOSAL_VALID", "VALIDATION_FAILED", "AUTHORIZED_FOR_STAGING",
   "AUTHORITY_OR_POLICY_DENIED", "WORKER_LEASE_ACQUIRED",
   "STAGING_SUCCEEDED", "STAGING_FAILED", "STAGED_VERIFICATION_PASSED",
   "STAGED_VERIFICATION_FAILED", "APPROVAL_REQUIRED",
   "NO_APPROVAL_REQUIRED", "APPROVAL_GRANTED", "APPROVAL_REJECTED",
   "TARGET_VERSION_CHANGED", "COMMIT_REVALIDATION_FAILED",
   "COMMIT_GUARDS_PASSED", "COMMIT_VERIFIED", "COMMIT_FAILED_NO_EFFECT",
   "COMMIT_PARTIAL_OR_INVALID", "COMMIT_OUTCOME_UNKNOWN",
   "START_ROLLBACK", "START_COMPENSATION", "RECOVERY_UNAVAILABLE",
   "STAGING_DISCARD_SUCCEEDED", "STAGING_DISCARD_FAILED",
   "ROLLBACK_VERIFIED", "ROLLBACK_FAILED_OR_UNKNOWN",
   "COMPENSATION_VERIFIED", "COMPENSATION_FAILED_OR_UNKNOWN",
   "RECONCILIATION_STARTED", "RECONCILIATION_COMMITTED",
   "RECONCILIATION_NO_EFFECT", "RECONCILIATION_PARTIAL_OR_INVALID",
   "RECONCILIATION_UNKNOWN"}

-----------------------------------------------------------------------------
(* The normative table, in the order of the source.                        *)

\* One row; the outcome is NONE when the rule leaves the intended one alone.
Rule(source, event, target, outcome) ==
  [source |-> source, event |-> event, target |-> target, outcome |-> outcome]

\* The rows by which a set of states is left through any of the three exits.
Exits(sources, events) ==
  {Rule(s, e, "ABORTING", "ABORTED") : s \in sources, e \in events}

PlanningRules ==
  {Rule("NEW", "PROPOSAL_VALID", "PLANNED", NONE),
   Rule("NEW", "VALIDATION_FAILED", "REJECTED", NONE),
   Rule("PLANNED", "AUTHORIZED_FOR_STAGING", "AUTHORIZED_TO_STAGE", NONE),
   Rule("PLANNED", "AUTHORITY_OR_POLICY_DENIED", "REJECTED", NONE),
   Rule("AUTHORIZED_TO_STAGE", "WORKER_LEASE_ACQUIRED", "STAGING", NONE)}
  \cup Exits({"NEW"}, {"CANCELLED", "CONTEXT_EXITED"})
  \cup Exits({"PLANNED", "AUTHORIZED_TO_STAGE"}, ExitEvents)

StagingRules ==
  {Rule("STAGING", "STAGING_SUCCEEDED", "STAGED", NONE),
   Rule("STAGING", "STAGING_FAILED", "ABORTING", "ABORTED"),
   Rule("STAGED", "STAGED_VERIFICATION_PASSED", "STAGE_VERIFIED", NONE),
   Rule("STAGED", "STAGED_VERIFICATION_FAILED", "ABORTING", "ABORTED")}
  \cup Exits({"STAGING", "STAGED"}, ExitEvents)

ApprovalRules ==
  {Rule("STAGE_VERIFIED", "APPROVAL_REQUIRED", "AWAITING_APPROVAL", NONE),
   Rule("STAGE_VERIFIED", "NO_APPROVAL_REQUIRED", "READY_TO_COMMIT", NONE),
   Rule("AWAITING_APPROVAL", "APPROVAL_GRANTED", "READY_TO_COMMIT", NONE),
   Rule("AWAITING_APPROVAL", "APPROVAL_REJECTED", "ABORTING", "ABORTED"),
   Rule("READY_TO_COMMIT", "TARGET_VERSION_CHANGED", "ABORTING", "STALE_STATE"),
   Rule("READY_TO_COMMIT", "COMMIT_REVALIDATION_FAILED", "ABORTING", "ABORTED"),
   Rule("READY_TO_COMMIT", "COMMIT_GUARDS_PASSED", "COMMITTING", NONE)}
  \cup Exits({"STAGE_VERIFIED", "AWAITING_APPROVAL", "READY_TO_COMMIT"}, ExitEvents)

CommitRules ==
  {Rule("COMMITTING", "COMMIT_VERIFIED", "COMMITTED", NONE),
   Rule("COMMITTING", "COMMIT_FAILED_NO_EFFECT", "ABORTING", "ABORTED"),
   Rule("COMMITTING", "COMMIT_PARTIAL_OR_INVALID", "FAILED", NONE),
   Rule("COMMITTING", "COMMIT_OUTCOME_UNKNOWN", "IN_DOUBT", NONE)}

RecoveryRules ==
  {Rule("FAILED", "START_ROLLBACK", "ROLLING_BACK", NONE),
   Rule("FAILED", "START_COMPENSATION", "COMPENSATING", NONE),
   Rule("FAILED", "RECOVERY_UNAVAILABLE", "RECOVERY_FAILED", NONE),
   Rule("ABORTING", "STAGING_DISCARD_SUCCEEDED", NONE, NONE),
   Rule("ABORTING", "STAGING_DISCARD_FAILED", "RECOVERY_FAILED", NONE),
   Rule("ROLLING_BACK", "ROLLBACK_VERIFIED", "ROLLED_BACK", NONE),
   Rule("ROLLING_BACK", "ROLLBACK_FAILED_OR_UNKNOWN", "RECOVERY_FAILED", NONE),
   Rule("COMPENSATING", "COMPENSATION_VERIFIED", "COMPENSATED", NONE),
   Rule("COMPENSATING", "COMPENSATION_FAILED_OR_UNKNOWN",
        "COMPENSATION_FAILED", NONE),
   Rule("IN_DOUBT", "RECONCILIATION_STARTED", "RECONCILING", NONE),
   Rule("RECONCILING", "RECONCILIATION_COMMITTED", "COMMITTED", NONE),
   Rule("RECONCILING", "RECONCILIATION_NO_EFFECT", "ABORTING", "ABORTED"),
   Rule("RECONCILING", "RECONCILIATION_PARTIAL_OR_INVALID", "FAILED", NONE),
   Rule("RECONCILING", "RECONCILIATION_UNKNOWN", "IN_DOUBT", NONE)}

NORMATIVE_TRANSITIONS ==
  PlanningRules \cup StagingRules \cup ApprovalRules \cup CommitRules
  \cup RecoveryRules

-----------------------------------------------------------------------------
(* apply_transition: the decision a (state, event) pair leads to, given the *)
(* outcome already intended.  The set is empty where the code raises.      *)

RulesFor(source, event) ==
  {r \in NORMATIVE_TRANSITIONS : r.source = source /\ r.event = event}

\* `rule.intended_outcome or current_intended_outcome`; a rule without a target
\* finishes an abort in the outcome persisted when it began.
Decision(r, current) ==
  [target |-> IF r.target = NONE THEN current ELSE r.target,
   outcome |-> IF r.outcome = NONE THEN current ELSE r.outcome]

ApplyTransition(source, event, current) ==
  {d \in {Decision(r, current) : r \in RulesFor(source, event)} :
     d.target # NONE /\ (d.target = "ABORTING" => d.outcome # NONE)}
=============================================================================
