------------------------------ MODULE Journal ------------------------------
(***************************************************************************)
(* The durable SQLite journal of src/agentkernel/storage/sqlite.py.  Each  *)
(* public operation runs between BEGIN IMMEDIATE and COMMIT, so it is one  *)
(* atomic action; an operation that raises is rolled back and leaves no    *)
(* trace, so it is no action at all.  JNext is the journal under arbitrary *)
(* callers: any operation, at any moment, with any expected version.       *)
(*                                                                         *)
(* A definition named Bug_... is a seeded bug: the one after it as a       *)
(* mistake in the code would have it, kept to show which property fails.   *)
(***************************************************************************)
EXTENDS Naturals, Sequences, StateMachine

CONSTANTS
  Transactions,  \* transaction identifiers
  Intents,       \* normalized intent hashes
  Runs,          \* run identifiers, one event log each
  ReceiptIds,    \* receipt identifiers
  MaxVersion,    \* bound: versions a transaction may reach in JNext
  MaxEvents      \* bound: events in the log of a run in JNext

ASSUME NoneIsNoIdentifier ==
  NONE \notin Transactions \cup Intents \cup Runs \cup ReceiptIds
ASSUME BoundsAreNaturals == MaxVersion \in Nat /\ MaxEvents \in Nat

VARIABLES
  transactions,  \* table transactions: the row of each identifier
  intents,       \* table intents: the owner of each reserved intent
  receipts,      \* table receipts, append-only
  events,        \* table events: the log of each run, in sequence order
  granted        \* history: the transactions told that they own an intent

jvars == <<transactions, intents, receipts, events, granted>>

-----------------------------------------------------------------------------
(* Rows                                                                    *)

Row == [state : TransactionState \cup {NONE},
        version : Nat,
        intent_hash : Intents \cup {NONE},
        intended_outcome : IntendedOutcome \cup {NONE},
        supersedes_transaction_id : Transactions \cup {NONE}]

\* The state NONE stands for a transaction that is not in the table.
AbsentRow == [state |-> NONE, version |-> 0, intent_hash |-> NONE,
              intended_outcome |-> NONE, supersedes_transaction_id |-> NONE]

NewRow == [AbsentRow EXCEPT !.state = "NEW"]

Exists(t) == transactions[t].state # NONE

Receipt == [receipt_id : ReceiptIds, transaction_id : Transactions]

\* An event of the log.  `from` is NONE for transaction.created, and both are
\* NONE for evidence that is not a transition.
Event == [transaction_id : Transactions \cup {NONE},
          from : TransactionState \cup {NONE},
          to : TransactionState \cup {NONE},
          version : Nat]

InsertEvent(run, e) == events' = [events EXCEPT ![run] = Append(@, e)]

-----------------------------------------------------------------------------
(* Operations                                                              *)

CreateTransaction(t, run) ==
  /\ ~Exists(t)                        \* primary key
  /\ transactions' = [transactions EXCEPT ![t] = NewRow]
  /\ InsertEvent(run, [transaction_id |-> t, from |-> NONE, to |-> "NEW",
                       version |-> 0])
  /\ UNCHANGED <<intents, receipts, granted>>

AppendEvent(run, t) ==
  /\ InsertEvent(run, [transaction_id |-> t, from |-> NONE, to |-> NONE,
                       version |-> 0])
  /\ UNCHANGED <<transactions, intents, receipts, granted>>

Bug_BindsTransactionId(t, h) ==
  /\ transactions[t].state = "NEW"
  /\ transactions[t].intent_hash = NONE
  /\ transactions' = [transactions EXCEPT ![t].intent_hash = t]
  /\ UNCHANGED <<intents, receipts, events, granted>>

\* Binds the inspected intent; the version is left as it is.
SetTransactionIntent(t, h) ==
  /\ transactions[t].state = "NEW"
  /\ transactions[t].intent_hash = NONE
  /\ transactions' = [transactions EXCEPT ![t].intent_hash = h]
  /\ UNCHANGED <<intents, receipts, events, granted>>

Bug_VersionNotAdvanced(t, expected_version, event, run) ==
  LET current == transactions[t] IN
  /\ Exists(t)
  /\ current.version = expected_version
  /\ \E d \in ApplyTransition(current.state, event, current.intended_outcome) :
       /\ transactions' = [transactions EXCEPT ![t].state = d.target,
                                               ![t].intended_outcome = d.outcome]
       /\ InsertEvent(run, [transaction_id |-> t, from |-> current.state,
                            to |-> d.target, version |-> current.version + 1])
  /\ UNCHANGED <<intents, receipts, granted>>

\* Compare-and-swap of the row, and its event in the same database transaction.
Transition(t, expected_version, event, run) ==
  LET current == transactions[t] IN
  /\ Exists(t)
  /\ current.version = expected_version
  /\ \E d \in ApplyTransition(current.state, event, current.intended_outcome) :
       /\ transactions' = [transactions EXCEPT
            ![t] = [current EXCEPT !.state = d.target,
                                   !.version = current.version + 1,
                                   !.intended_outcome = d.outcome]]
       /\ InsertEvent(run, [transaction_id |-> t, from |-> current.state,
                            to |-> d.target, version |-> current.version + 1])
  /\ UNCHANGED <<intents, receipts, granted>>

Bug_AbortingIsSafe == {"REJECTED", "ABORTED", "STALE_STATE", "ABORTING"}

Bug_InDoubtIsSafe == {"REJECTED", "ABORTED", "STALE_STATE", "IN_DOUBT"}

\* The states whose owner has had no authoritative effect.
SafeNoEffectStates == {"REJECTED", "ABORTED", "STALE_STATE"}

HasReceipt(t) == \E r \in receipts : r.transaction_id = t

Bug_ReceiptIgnored(h, t) ==
  LET owner == intents[h] IN
  IF owner = NONE \/ transactions[owner].state \in SafeNoEffectStates
  THEN t ELSE owner

\* The owner the reservation answers with: the caller when the intent is free or
\* the current owner ended without effect, else the current owner.
OwnerAfterReservation(h, t) ==
  LET owner == intents[h] IN
  IF owner = NONE \/ (/\ transactions[owner].state \in SafeNoEffectStates
                      /\ ~HasReceipt(owner))
  THEN t ELSE owner

\* previous_transaction_id of the answer: the owner the caller replaced.
PreviousOwner(h, t) ==
  IF OwnerAfterReservation(h, t) = t /\ intents[h] # t THEN intents[h] ELSE NONE

Bug_TakeoverNotWritten(h, t) ==
  /\ Exists(t)
  /\ intents' = [intents EXCEPT ![h] = IF @ = NONE THEN t ELSE @]
  /\ granted' = [granted EXCEPT ![h] =
                   IF OwnerAfterReservation(h, t) = t THEN @ \cup {t} ELSE @]
  /\ UNCHANGED <<transactions, receipts, events>>

ReserveIntent(h, t) ==
  /\ Exists(t)                         \* foreign key
  /\ intents' = [intents EXCEPT ![h] = OwnerAfterReservation(h, t)]
  /\ granted' = [granted EXCEPT ![h] =
                   IF OwnerAfterReservation(h, t) = t THEN @ \cup {t} ELSE @]
  /\ UNCHANGED <<transactions, receipts, events>>

Bug_LinkInAnyState(t, previous) ==
  /\ Exists(t)
  /\ transactions[t].supersedes_transaction_id = NONE
  /\ transactions' = [transactions EXCEPT ![t].supersedes_transaction_id = previous]
  /\ UNCHANGED <<intents, receipts, events, granted>>

\* The audit link of a retry; the version is left as it is.
LinkTransactionSupersession(t, previous) ==
  /\ transactions[t].state = "NEW"
  /\ transactions[t].supersedes_transaction_id = NONE
  /\ transactions' = [transactions EXCEPT ![t].supersedes_transaction_id = previous]
  /\ UNCHANGED <<intents, receipts, events, granted>>

AppendReceipt(r) ==
  /\ Exists(r.transaction_id)          \* foreign key
  /\ \A q \in receipts : q.receipt_id # r.receipt_id
  /\ receipts' = receipts \cup {r}
  /\ UNCHANGED <<transactions, intents, events, granted>>

-----------------------------------------------------------------------------
(* The journal under arbitrary callers                                     *)

JInit ==
  /\ transactions = [t \in Transactions |-> AbsentRow]
  /\ intents = [h \in Intents |-> NONE]
  /\ receipts = {}
  /\ events = [run \in Runs |-> <<>>]
  /\ granted = [h \in Intents |-> {}]

RoomInLog(run) == Len(events[run]) < MaxEvents

JNext ==
  \/ \E t \in Transactions, run \in Runs :
       RoomInLog(run) /\ CreateTransaction(t, run)
  \/ \E run \in Runs, t \in Transactions \cup {NONE} :
       RoomInLog(run) /\ AppendEvent(run, t)
  \/ \E t \in Transactions, h \in Intents : SetTransactionIntent(t, h)
  \/ \E t \in Transactions, run \in Runs, v \in 0..MaxVersion, e \in TransitionEvent :
       RoomInLog(run) /\ v < MaxVersion /\ Transition(t, v, e, run)
  \/ \E h \in Intents, t \in Transactions : ReserveIntent(h, t)
  \/ \E t, p \in Transactions : t # p /\ LinkTransactionSupersession(t, p)
  \/ \E r \in Receipt : AppendReceipt(r)

JSpec == JInit /\ [][JNext]_jvars

-----------------------------------------------------------------------------
(* Properties                                                              *)

\* Every table holds rows of its schema.
JTypeOK ==
  /\ transactions \in [Transactions -> Row]
  /\ intents \in [Intents -> Transactions \cup {NONE}]
  /\ receipts \subseteq Receipt
  /\ events \in [Runs -> Seq(Event)]
  /\ granted \in [Intents -> SUBSET Transactions]

\* Event i of a run took transaction t into version v.
Enters(run, i, t, v) ==
  LET e == events[run][i] IN
  e.transaction_id = t /\ e.to # NONE /\ e.version = v

\* The log replays to the table: every version a transaction went through has
\* exactly one event, each event starts where the one of the version before
\* ended, and the last one names the state of the row.  Row and event are
\* written by one database transaction (sqlite.py transition, create_transaction).
LogReplaysToTable ==
  \A t \in Transactions : Exists(t) =>
    /\ \A run \in Runs : \A i \in DOMAIN events[run] :
         events[run][i].transaction_id = t
           => events[run][i].version <= transactions[t].version
    /\ \A v \in 0..transactions[t].version :
         \E run \in Runs : \E i \in DOMAIN events[run] :
           /\ Enters(run, i, t, v)
           /\ \A q \in Runs : \A j \in DOMAIN events[q] :
                Enters(q, j, t, v) => q = run /\ j = i
           /\ v = transactions[t].version => events[run][i].to = transactions[t].state
           /\ v > 0 => \E q \in Runs : \E j \in DOMAIN events[q] :
                         Enters(q, j, t, v - 1) /\ events[q][j].to = events[run][i].from

\* The outcomes that promise that nothing happened.
NoEffectOutcomes == {"REJECTED", "ABORTED", "STALE_STATE"}

\* Mutual exclusion of an intent: of the transactions that reserve_intent ever
\* told they own it, all but the present owner have ended without effect, and
\* stay so.  Otherwise two live transactions would both stage and commit it.
OneLiveOwner ==
  \A h \in Intents : \A t \in granted[h] :
    t = intents[h] \/ transactions[t].state \in NoEffectOutcomes

\* A finished transaction is never reopened, rebound or relinked by any call,
\* stale or not, and no version is ever taken back (sqlite.py transition,
\* set_transaction_intent, link_transaction_supersession).
HistoryIsFinal ==
  [][\A t \in Transactions :
       /\ transactions[t].state \in TERMINAL_TRANSACTION_STATES
            => transactions'[t] = transactions[t]
       /\ transactions'[t].version >= transactions[t].version
       /\ transactions[t].intent_hash # NONE
            => transactions'[t].intent_hash = transactions[t].intent_hash]_jvars

\* An intent owned by a transaction whose outcome may be an effect, or that has
\* a receipt, keeps its owner in every step (docs/architecture.md:153).
UncertainOwnerKeepsIntent ==
  [][\A h \in Intents :
       intents[h] # NONE /\ intents'[h] # intents[h]
         => /\ transactions'[intents[h]].state \in NoEffectOutcomes
            /\ \A r \in receipts' : r.transaction_id # intents[h]]_jvars
=============================================================================
