----------------------- MODULE CoordinatorProperties -----------------------
(* What the coordinator, its journal and its adapter promise together. *)
EXTENDS Coordinator

TypeOK ==
  /\ JTypeOK
  /\ session \in [Transactions -> Session]
  /\ late \subseteq Transactions
  /\ manifestChanged \in BOOLEAN
  /\ target \in Nat
  /\ effects \subseteq [receipt : EffectReceipt, intent_hash : Intents]
  /\ stages \subseteq Transactions
  /\ receiptOf \in [Intents -> EffectReceipt]
  /\ crashes \in Nat

Live(t) == session[t].pc \notin {"unborn", "closed"}
EffectsOf(t) == {e \in effects : e.receipt.transaction_id = t}

\* The operation of a session never asks the journal for a transition that is
\* illegal in the durable state or under a stale version: _transition would
\* raise half-way and leave the transaction where nothing resumes it.
NoTransitionRefused ==
  \A t \in Transactions :
    /\ Live(t) => session[t].record = transactions[t]
    /\ session[t].pc = "journal" =>
         ApplyTransition(transactions[t].state, Head(session[t].todo),
                         transactions[t].intended_outcome) # {}

\* An authoritative effect belongs to a transaction whose durable state admits
\* it, at every moment, also between the effect and its acknowledgement and
\* after a crash there: no transaction that had one is ever declared REJECTED,
\* ABORTED or STALE_STATE, or still pre-commit (docs/architecture.md:152).
EffectsAreAdmitted ==
  \A e \in effects :
    transactions[e.receipt.transaction_id].state
      \in {"COMMITTING", "COMMITTED", "FAILED", "IN_DOUBT"}

\* One normalized intent has at most one authoritative effect, whoever submits
\* it again and whatever was lost or crashed in between (reserve_intent).
AtMostOneEffectPerIntent ==
  \A e, f \in effects : e.intent_hash = f.intent_hash => e = f

\* COMMITTED is only said of an effect that is both real and receipted, and no
\* receipt is journaled for an effect that did not happen.
ReceiptsAreTruthful ==
  \A t \in Transactions :
    /\ transactions[t].state = "COMMITTED" => HasReceipt(t)
    /\ HasReceipt(t) => EffectsOf(t) # {}

\* A transaction that has gone past validation owns its intent, until it ends
\* without effect: no two of them stage or commit one intent at a time, and an
\* owner in doubt is never dispossessed (docs/architecture.md:153).
ActiveMeansOwner ==
  \A t \in Transactions :
    transactions[t].state
      \notin {NONE, "NEW", "REJECTED", "ABORTING", "ABORTED", "STALE_STATE",
              "RECOVERY_FAILED"}
    => intents[IntentOf[t]] = t

\* The links of retries form chains: a transaction supersedes one that ended
\* without effect on the same intent, and no two supersede the same one.
SupersessionIsAChain ==
  \A t \in Transactions :
    LET p == transactions[t].supersedes_transaction_id IN
    p # NONE =>
      /\ transactions[p].state \in NoEffectOutcomes /\ EffectsOf(p) = {}
      /\ transactions[p].intent_hash = transactions[t].intent_hash
      /\ \A u \in Transactions \ {t} :
           transactions[u].supersedes_transaction_id # p

\* A transaction that took an intent over works only once it is linked to the
\* attempt before it (docs/adr/0004-normalization-and-a1-authorization-order.md:147).
TakeoverIsLinked ==
  \A t \in Transactions :
    session[t].previous # NONE /\ transactions[t].state \notin {"NEW", "REJECTED"}
    /\ transactions[t].state \in PRE_COMMIT_STATES \cup {"COMMITTING", "COMMITTED"}
    => transactions[t].supersedes_transaction_id = session[t].previous

\* A clean end is clean: no private staged material outlives a transaction
\* declared REJECTED, ABORTED or STALE_STATE; if it may, the transaction is
\* RECOVERY_FAILED instead (_complete_abort, _staging_cleanup_failed).
CleanEndLeavesNoStage ==
  \A t \in stages : transactions[t].state \notin NoEffectOutcomes

\* "STALE_STATE is the only durable version-mismatch outcome"
\* (docs/architecture.md:151): also when it is the adapter's own guard that saw
\* the other version, which is the one way from COMMITTING to ABORTING here.
VersionMismatchEndsStale ==
  \A t \in Transactions :
    (\E i \in DOMAIN events[RunOf[t]] :
       LET e == events[RunOf[t]][i] IN
       e.transaction_id = t /\ e.from = "COMMITTING" /\ e.to = "ABORTING")
    => transactions[t].state # "ABORTED"

\* The outcomes a session can leave its transaction in; IN_DOUBT and FAILED
\* wait for a reconciliation and a recovery this code does not have yet.
Settled == TERMINAL_TRANSACTION_STATES \cup {"IN_DOUBT", "FAILED"}

\* Every `async with` whose body was entered comes to an end with the
\* transaction settled, nothing being left staged or half-way.
ScopeSettles ==
  \A t \in Transactions :
    session[t].inside ~> (transactions[t].state \in Settled /\ ~session[t].inside)

\* An abort or a commit that was begun is finished.
BegunIsFinished ==
  \A t \in Transactions :
    transactions[t].state \in {"ABORTING", "COMMITTING"}
      ~> transactions[t].state \in Settled

-----------------------------------------------------------------------------
(* What a caller may rely on (EffectOutcome), seen in the durable tables and *)
(* the target.                                                              *)

VerdictOf(state) ==
  CASE state \in NoEffectOutcomes -> "none"
    [] state = "COMMITTED" -> "done"
    [] state \in {"FAILED", "IN_DOUBT", "RECOVERY_FAILED"} -> "unsure"
    [] OTHER -> "open"

Outcome == INSTANCE EffectOutcome WITH
  applied <- {t \in Transactions : EffectsOf(t) # {}},
  verdict <- [t \in Transactions |-> VerdictOf(transactions[t].state)]

\* The coordinator implements the outcome its callers rely on: verdicts are
\* true and final, and an intent that was or may have been applied is not
\* applied for another transaction, through cancellation, loss and crashes.
RefinesEffectOutcome == Outcome!Spec
=============================================================================
