---------------------------- MODULE JournalProofs ----------------------------
(***************************************************************************)
(* Theorems about the journal, for every set of transactions, intents,     *)
(* runs and receipts and for every bound.  The inductive invariant is      *)
(* JInv; one lemma per operation shows that it preserves JInv, and         *)
(* JOperation, the operations without the bounds of JNext, is what a       *)
(* module that calls the journal composes with.                            *)
(***************************************************************************)
EXTENDS Journal, SequenceTheorems, TLAPS

-----------------------------------------------------------------------------
(* The table of the state machine                                          *)

\* A rule of the table leaves a state that is not final, and says only states
\* and outcomes of the enumerations.
WellFormed(r) ==
  /\ r.source \in TransactionState \ TERMINAL_TRANSACTION_STATES
  /\ r.event \in TransitionEvent
  /\ r.target \in TransactionState \cup {NONE}
  /\ r.outcome \in IntendedOutcome \cup {NONE}

\* Leaving a set of states that are not final through exit events is well formed.
LEMMA ExitsWellFormed ==
  ASSUME NEW sources \in SUBSET (TransactionState \ TERMINAL_TRANSACTION_STATES),
         NEW exits \in SUBSET ExitEvents,
         NEW r \in Exits(sources, exits)
  PROVE  WellFormed(r)
<1>1. PICK s \in sources, e \in exits : r = Rule(s, e, "ABORTING", "ABORTED")
  BY DEF Exits
<1>2. /\ r.source = s /\ r.event = e
      /\ r.target = "ABORTING" /\ r.outcome = "ABORTED"
  BY <1>1 DEF Rule
<1>3. "ABORTING" \in TransactionState /\ "ABORTED" \in IntendedOutcome
  BY DEF TransactionState, IntendedOutcome
<1> QED
  BY <1>2, <1>3 DEF WellFormed, TransitionEvent

\* Every row of the normative table is well formed.
LEMMA TableWellFormed ==
  ASSUME NEW r \in NORMATIVE_TRANSITIONS
  PROVE  WellFormed(r)
<1>1. ASSUME r \in PlanningRules PROVE WellFormed(r)
  <2>1. CASE r \in Exits({"NEW"}, {"CANCELLED", "CONTEXT_EXITED"})
    BY <2>1, ExitsWellFormed
       DEF TransactionState, PRE_COMMIT_STATES, TERMINAL_TRANSACTION_STATES, ExitEvents
  <2>2. CASE r \in Exits({"PLANNED", "AUTHORIZED_TO_STAGE"}, ExitEvents)
    BY <2>2, ExitsWellFormed
       DEF TransactionState, PRE_COMMIT_STATES, TERMINAL_TRANSACTION_STATES
  <2> QED
    BY <1>1, <2>1, <2>2
       DEF PlanningRules, Rule, WellFormed, TransactionState, PRE_COMMIT_STATES,
           TERMINAL_TRANSACTION_STATES, TransitionEvent, IntendedOutcome
<1>2. ASSUME r \in StagingRules PROVE WellFormed(r)
  <2>1. CASE r \in Exits({"STAGING", "STAGED"}, ExitEvents)
    BY <2>1, ExitsWellFormed
       DEF TransactionState, PRE_COMMIT_STATES, TERMINAL_TRANSACTION_STATES
  <2> QED
    BY <1>2, <2>1
       DEF StagingRules, Rule, WellFormed, TransactionState, PRE_COMMIT_STATES,
           TERMINAL_TRANSACTION_STATES, TransitionEvent, IntendedOutcome
<1>3. ASSUME r \in ApprovalRules PROVE WellFormed(r)
  <2>1. CASE r \in Exits({"STAGE_VERIFIED", "AWAITING_APPROVAL", "READY_TO_COMMIT"},
                         ExitEvents)
    BY <2>1, ExitsWellFormed
       DEF TransactionState, PRE_COMMIT_STATES, TERMINAL_TRANSACTION_STATES
  <2> QED
    BY <1>3, <2>1
       DEF ApprovalRules, Rule, WellFormed, TransactionState, PRE_COMMIT_STATES,
           TERMINAL_TRANSACTION_STATES, TransitionEvent, IntendedOutcome
<1>4. ASSUME r \in CommitRules PROVE WellFormed(r)
  BY <1>4
     DEF CommitRules, Rule, WellFormed, TransactionState,
         TERMINAL_TRANSACTION_STATES, TransitionEvent, IntendedOutcome
<1>5. ASSUME r \in RecoveryRules PROVE WellFormed(r)
  BY <1>5
     DEF RecoveryRules, Rule, WellFormed, TransactionState,
         TERMINAL_TRANSACTION_STATES, TransitionEvent, IntendedOutcome
<1> QED
  BY <1>1, <1>2, <1>3, <1>4, <1>5 DEF NORMATIVE_TRANSITIONS

\* A decision of apply_transition is a state and an outcome, it is only taken
\* in a state that is not final, and ABORTING always has an outcome to end in.
LEMMA DecisionWellFormed ==
  ASSUME NEW source, NEW event, NEW current \in IntendedOutcome \cup {NONE},
         NEW d \in ApplyTransition(source, event, current)
  PROVE  /\ d.target \in TransactionState
         /\ d.outcome \in IntendedOutcome \cup {NONE}
         /\ source \notin TERMINAL_TRANSACTION_STATES
         /\ source # NONE
         /\ d.target = "ABORTING" => d.outcome \in IntendedOutcome
<1>1. PICK r \in RulesFor(source, event) : d = Decision(r, current)
  BY DEF ApplyTransition
<1>2. WellFormed(r) /\ r.source = source
  BY TableWellFormed DEF RulesFor
<1>3. d.target # NONE /\ (d.target = "ABORTING" => d.outcome # NONE)
  BY DEF ApplyTransition
<1>4. /\ d.target = IF r.target = NONE THEN current ELSE r.target
      /\ d.outcome = IF r.outcome = NONE THEN current ELSE r.outcome
  BY <1>1 DEF Decision
<1>5. IntendedOutcome \subseteq TransactionState /\ NONE \notin TransactionState
  BY DEF IntendedOutcome, TransactionState, TERMINAL_TRANSACTION_STATES,
         PRE_COMMIT_STATES, NONE
<1> QED
  BY <1>2, <1>3, <1>4, <1>5 DEF WellFormed

-----------------------------------------------------------------------------
(* The invariant and the operations                                        *)

\* A transaction that is not in the table has an empty row, so that creating
\* it cannot take anything back.
AbsentIsBlank ==
  \A t \in Transactions : ~Exists(t) => transactions[t] = AbsentRow

JInv == JTypeOK /\ AbsentIsBlank /\ OneLiveOwner

\* The operations, by any caller and without the bounds TLC needs.
JOperation ==
  \/ \E t \in Transactions, run \in Runs : CreateTransaction(t, run)
  \/ \E run \in Runs, t \in Transactions \cup {NONE} : AppendEvent(run, t)
  \/ \E t \in Transactions, h \in Intents : SetTransactionIntent(t, h)
  \/ \E t \in Transactions, run \in Runs, v \in Nat, e \in TransitionEvent :
       Transition(t, v, e, run)
  \/ \E h \in Intents, t \in Transactions : ReserveIntent(h, t)
  \/ \E t, p \in Transactions : LinkTransactionSupersession(t, p)
  \/ \E r \in Receipt : AppendReceipt(r)

\* What JNext does is done by an operation.
LEMMA BoundedIsOperation ==
  JNext => JOperation
<1>1. 0..MaxVersion \subseteq Nat
  BY BoundsAreNaturals
<1> QED
  BY <1>1 DEF JNext, JOperation

-----------------------------------------------------------------------------
(* Small facts                                                             *)

\* A state without effect is final, and is not the state of an absent row.
LEMMA NoEffectIsFinal ==
  /\ NoEffectOutcomes \subseteq TERMINAL_TRANSACTION_STATES
  /\ NoEffectOutcomes = SafeNoEffectStates
  /\ NONE \notin TERMINAL_TRANSACTION_STATES /\ "NEW" \notin TERMINAL_TRANSACTION_STATES
  /\ NONE # "NEW" /\ NONE \notin TransactionState /\ "NEW" \in TransactionState
BY DEF NoEffectOutcomes, SafeNoEffectStates, TERMINAL_TRANSACTION_STATES, NONE,
       TransactionState, PRE_COMMIT_STATES

\* The row of a transaction that does not exist, and of one that was created.
LEMMA RowsTyped ==
  AbsentRow \in Row /\ NewRow \in Row
BY NoEffectIsFinal DEF AbsentRow, NewRow, Row

\* Recording an event keeps every log a sequence of events.
LEMMA InsertKeepsLogs ==
  ASSUME JTypeOK, NEW run \in Runs, NEW e \in Event, InsertEvent(run, e)
  PROVE  events' \in [Runs -> Seq(Event)]
<1>1. events[run] \in Seq(Event)
  BY DEF JTypeOK
<1>2. Append(events[run], e) \in Seq(Event)
  BY <1>1
<1> QED
  BY <1>2 DEF JTypeOK, InsertEvent

\* A row that advances to a state of the machine is a row.
LEMMA RowAdvances ==
  ASSUME NEW r \in Row, NEW d,
         d.target \in TransactionState, d.outcome \in IntendedOutcome \cup {NONE},
         NEW q, q = [r EXCEPT !.state = d.target,
                              !.version = r.version + 1,
                              !.intended_outcome = d.outcome]
  PROVE  /\ q \in Row
         /\ q.state = d.target /\ q.version = r.version + 1
         /\ q.intent_hash = r.intent_hash
<1>1. q = [state |-> d.target, version |-> r.version + 1, intent_hash |-> r.intent_hash,
           intended_outcome |-> d.outcome,
           supersedes_transaction_id |-> r.supersedes_transaction_id]
  BY DEF Row
<1>2. r.version + 1 \in Nat
  BY DEF Row
<1> QED
  BY <1>1, <1>2 DEF Row

\* What a transition does to the row: it is legal, so the old state is not
\* final, and the version advances by one.
LEMMA TransitionRow ==
  ASSUME JTypeOK, NEW t \in Transactions, NEW run \in Runs, NEW v, NEW e,
         Transition(t, v, e, run)
  PROVE  /\ transactions[t].state \in TransactionState \ TERMINAL_TRANSACTION_STATES
         /\ transactions' = [transactions EXCEPT ![t] = transactions'[t]]
         /\ transactions'[t] \in Row
         /\ transactions'[t].state \in TransactionState
         /\ \E d \in ApplyTransition(transactions[t].state, e,
                                     transactions[t].intended_outcome) :
              transactions'[t].state = d.target
         /\ transactions'[t].version = transactions[t].version + 1
         /\ transactions'[t].intent_hash = transactions[t].intent_hash
         /\ InsertEvent(run, [transaction_id |-> t, from |-> transactions[t].state,
                              to |-> transactions'[t].state,
                              version |-> transactions[t].version + 1])
<1> DEFINE row == transactions[t]
<1>1. /\ row \in Row /\ row.intended_outcome \in IntendedOutcome \cup {NONE}
      /\ row.version \in Nat
  BY DEF JTypeOK, Row
<1>2. PICK d \in ApplyTransition(row.state, e, row.intended_outcome) :
        /\ transactions' = [transactions EXCEPT
             ![t] = [row EXCEPT !.state = d.target,
                                !.version = row.version + 1,
                                !.intended_outcome = d.outcome]]
        /\ InsertEvent(run, [transaction_id |-> t, from |-> row.state,
                             to |-> d.target, version |-> row.version + 1])
  BY DEF Transition
<1>3. /\ d.target \in TransactionState
      /\ d.outcome \in IntendedOutcome \cup {NONE}
      /\ row.state \notin TERMINAL_TRANSACTION_STATES
      /\ row.state # NONE
  BY <1>1, DecisionWellFormed
<1> DEFINE new == [row EXCEPT !.state = d.target,
                              !.version = row.version + 1,
                              !.intended_outcome = d.outcome]
<1>4. transactions'[t] = new
  <2>1. transactions' = [transactions EXCEPT ![t] = new]
    BY <1>2
  <2>2. transactions \in [Transactions -> Row]
    BY DEF JTypeOK
  <2> HIDE DEF new
  <2> QED
    BY <2>1, <2>2
<1>5. /\ transactions'[t].state = d.target
      /\ transactions'[t].version = row.version + 1
      /\ transactions'[t].intent_hash = row.intent_hash
      /\ transactions'[t] \in Row
  <2>1. /\ new.state = d.target
        /\ new.version = row.version + 1
        /\ new.intent_hash = row.intent_hash
        /\ new \in Row
    BY <1>1, <1>3, RowAdvances
  <2> QED
    BY <1>4, <2>1
<1>6. row.state \in TransactionState
  BY <1>1, <1>3 DEF Row
<1>7. transactions' = [transactions EXCEPT ![t] = transactions'[t]]
  BY <1>2, <1>4
<1> QED
  BY <1>2, <1>3, <1>5, <1>6, <1>7

-----------------------------------------------------------------------------
(* Each operation preserves the invariant.                                 *)

\* The initial tables are empty.
LEMMA JInvInit ==
  JInit => JInv
<1> SUFFICES ASSUME JInit PROVE JInv
  OBVIOUS
<1>1. JTypeOK
  BY RowsTyped DEF JInit, JTypeOK
<1>2. AbsentIsBlank
  BY DEF JInit, AbsentIsBlank
<1>3. OneLiveOwner
  BY DEF JInit, OneLiveOwner
<1> QED
  BY <1>1, <1>2, <1>3 DEF JInv

\* create_transaction preserves the invariant.
LEMMA CreatePreserves ==
  ASSUME JInv, NEW t \in Transactions, NEW run \in Runs, CreateTransaction(t, run)
  PROVE  JInv'
<1> USE DEF JInv
<1>1. JTypeOK'
  <2>1. [transaction_id |-> t, from |-> NONE, to |-> "NEW", version |-> 0] \in Event
    BY NoEffectIsFinal DEF Event
  <2> QED
    BY <2>1, InsertKeepsLogs, RowsTyped DEF CreateTransaction, JTypeOK
<1>2. AbsentIsBlank'
  BY NoEffectIsFinal DEF CreateTransaction, AbsentIsBlank, Exists, JTypeOK, NewRow, AbsentRow
<1>3. OneLiveOwner'
  <2> SUFFICES ASSUME NEW h \in Intents, NEW u \in granted[h]
               PROVE  u = intents[h] \/ transactions'[u].state \in NoEffectOutcomes
    BY DEF OneLiveOwner, CreateTransaction
  <2>1. u = intents[h] \/ transactions[u].state \in NoEffectOutcomes
    BY DEF OneLiveOwner
  <2>2. u \in Transactions
    BY DEF JTypeOK
  <2>3. u = t => transactions[u].state \notin NoEffectOutcomes
    BY NoEffectIsFinal DEF CreateTransaction, Exists
  <2> QED
    BY <2>1, <2>2, <2>3 DEF CreateTransaction, JTypeOK
<1> QED
  BY <1>1, <1>2, <1>3

\* append_event preserves the invariant.
LEMMA AppendEventPreserves ==
  ASSUME JInv, NEW run \in Runs, NEW t \in Transactions \cup {NONE}, AppendEvent(run, t)
  PROVE  JInv'
<1> USE DEF JInv
<1>1. [transaction_id |-> t, from |-> NONE, to |-> NONE, version |-> 0] \in Event
  BY DEF Event
<1>2. JTypeOK'
  BY <1>1, InsertKeepsLogs DEF AppendEvent, JTypeOK
<1> QED
  BY <1>2 DEF AppendEvent, AbsentIsBlank, OneLiveOwner, Exists

\* set_transaction_intent preserves the invariant.
LEMMA SetIntentPreserves ==
  ASSUME JInv, NEW t \in Transactions, NEW h \in Intents, SetTransactionIntent(t, h)
  PROVE  JInv'
<1> USE DEF JInv
<1>1. /\ transactions[t] \in Row
      /\ transactions' = [transactions EXCEPT ![t] =
                            [transactions[t] EXCEPT !.intent_hash = h]]
  BY DEF SetTransactionIntent, JTypeOK
<1>2. [transactions[t] EXCEPT !.intent_hash = h] \in Row
  BY <1>1 DEF Row
<1>3. \A u \in Transactions : transactions'[u].state = transactions[u].state
  BY <1>1 DEF JTypeOK, Row
<1>4. JTypeOK'
  BY <1>1, <1>2 DEF SetTransactionIntent, JTypeOK
<1>5. AbsentIsBlank'
  BY <1>1, <1>3, NoEffectIsFinal DEF SetTransactionIntent, AbsentIsBlank, Exists, JTypeOK
<1>6. OneLiveOwner'
  BY <1>3 DEF SetTransactionIntent, OneLiveOwner, JTypeOK
<1> QED
  BY <1>4, <1>5, <1>6

\* link_transaction_supersession preserves the invariant.
LEMMA LinkPreserves ==
  ASSUME JInv, NEW t \in Transactions, NEW p \in Transactions,
         LinkTransactionSupersession(t, p)
  PROVE  JInv'
<1> USE DEF JInv
<1>1. /\ transactions[t] \in Row
      /\ transactions' = [transactions EXCEPT ![t] =
                            [transactions[t] EXCEPT !.supersedes_transaction_id = p]]
  BY DEF LinkTransactionSupersession, JTypeOK
<1>2. [transactions[t] EXCEPT !.supersedes_transaction_id = p] \in Row
  BY <1>1 DEF Row
<1>3. \A u \in Transactions : transactions'[u].state = transactions[u].state
  BY <1>1 DEF JTypeOK, Row
<1>4. JTypeOK'
  BY <1>1, <1>2 DEF LinkTransactionSupersession, JTypeOK
<1>5. AbsentIsBlank'
  BY <1>1, <1>3, NoEffectIsFinal
     DEF LinkTransactionSupersession, AbsentIsBlank, Exists, JTypeOK
<1>6. OneLiveOwner'
  BY <1>3 DEF LinkTransactionSupersession, OneLiveOwner, JTypeOK
<1> QED
  BY <1>4, <1>5, <1>6

\* transition preserves the invariant: it does not touch a transaction that
\* ended without effect, so a past owner stays one.
LEMMA TransitionPreserves ==
  ASSUME JInv, NEW t \in Transactions, NEW run \in Runs, NEW v, NEW e,
         Transition(t, v, e, run)
  PROVE  JInv'
<1> USE DEF JInv
<1>1. /\ transactions[t].state \in TransactionState \ TERMINAL_TRANSACTION_STATES
      /\ transactions' = [transactions EXCEPT ![t] = transactions'[t]]
      /\ transactions'[t] \in Row
      /\ transactions'[t].state \in TransactionState
      /\ InsertEvent(run, [transaction_id |-> t, from |-> transactions[t].state,
                           to |-> transactions'[t].state,
                           version |-> transactions[t].version + 1])
  BY TransitionRow
<1>2. UNCHANGED <<intents, receipts, granted>>
  BY DEF Transition
<1>3. JTypeOK'
  <2>1. transactions' \in [Transactions -> Row]
    BY <1>1 DEF JTypeOK
  <2>2. transactions[t].version + 1 \in Nat
    BY DEF JTypeOK, Row
  <2>3. [transaction_id |-> t, from |-> transactions[t].state,
         to |-> transactions'[t].state,
         version |-> transactions[t].version + 1] \in Event
    BY <1>1, <2>2 DEF Event
  <2>4. events' \in [Runs -> Seq(Event)]
    BY <1>1, <2>3, InsertKeepsLogs
  <2> QED
    BY <1>2, <2>1, <2>4 DEF JTypeOK
<1>4. AbsentIsBlank'
  BY <1>1, NoEffectIsFinal DEF AbsentIsBlank, Exists, JTypeOK
<1>5. OneLiveOwner'
  BY <1>1, <1>2, NoEffectIsFinal DEF OneLiveOwner, JTypeOK
<1> QED
  BY <1>3, <1>4, <1>5

\* reserve_intent preserves the invariant: the only owner it replaces is one
\* that ended without effect.
LEMMA ReservePreserves ==
  ASSUME JInv, NEW h \in Intents, NEW t \in Transactions, ReserveIntent(h, t)
  PROVE  JInv'
<1> USE DEF JInv
<1> DEFINE o == OwnerAfterReservation(h, t)
<1>1. o \in Transactions /\ (o = t \/ o = intents[h])
  BY DEF OwnerAfterReservation, JTypeOK
<1>2. intents[h] # NONE /\ o # intents[h]
        => transactions[intents[h]].state \in NoEffectOutcomes
  BY NoEffectIsFinal DEF OwnerAfterReservation
<1>3. /\ intents' = [intents EXCEPT ![h] = o]
      /\ granted' = [granted EXCEPT ![h] = IF o = t THEN @ \cup {t} ELSE @]
      /\ UNCHANGED <<transactions, receipts, events>>
  BY DEF ReserveIntent
<1>4. JTypeOK'
  BY <1>1, <1>3 DEF JTypeOK
<1>5. AbsentIsBlank'
  BY <1>3 DEF AbsentIsBlank, Exists
<1>6. OneLiveOwner'
  <2> SUFFICES ASSUME NEW g \in Intents, NEW u \in granted'[g]
               PROVE  u = intents'[g] \/ transactions[u].state \in NoEffectOutcomes
    BY <1>3 DEF OneLiveOwner
  <2>1. CASE g # h
    BY <1>3, <2>1 DEF OneLiveOwner, JTypeOK
  <2>2. CASE g = h
    <3>1. intents'[g] = o
      BY <1>3, <2>2 DEF JTypeOK
    <3>2. u \in granted[h] \/ (u = t /\ o = t)
      BY <1>3, <2>2 DEF JTypeOK
    <3>3. CASE u \in granted[h]
      <4>1. u \in Transactions /\ u # NONE
        BY <3>3, NoneIsNoIdentifier DEF JTypeOK
      <4>2. u = intents[h] \/ transactions[u].state \in NoEffectOutcomes
        BY <3>3 DEF OneLiveOwner
      <4> QED
        BY <1>2, <3>1, <4>1, <4>2
    <3> QED
      BY <3>1, <3>2, <3>3
  <2> QED
    BY <2>1, <2>2
<1> QED
  BY <1>4, <1>5, <1>6

\* append_receipt preserves the invariant.
LEMMA AppendReceiptPreserves ==
  ASSUME JInv, NEW r \in Receipt, AppendReceipt(r)
  PROVE  JInv'
BY DEF JInv, AppendReceipt, JTypeOK, AbsentIsBlank, OneLiveOwner, Exists

\* Every operation, and every step that leaves the journal alone, preserves it.
LEMMA JInvStep ==
  JInv /\ [JOperation]_jvars => JInv'
<1> SUFFICES ASSUME JInv, [JOperation]_jvars PROVE JInv'
  OBVIOUS
<1>1. CASE UNCHANGED jvars
  BY <1>1 DEF jvars, JInv, JTypeOK, AbsentIsBlank, OneLiveOwner, Exists
<1>2. CASE JOperation
  BY <1>2, CreatePreserves, AppendEventPreserves, SetIntentPreserves,
     TransitionPreserves, ReservePreserves, LinkPreserves, AppendReceiptPreserves
     DEF JOperation
<1> QED
  BY <1>1, <1>2

-----------------------------------------------------------------------------
(* What no operation does                                                  *)

\* No operation touches a finished transaction, takes a version back or
\* rebinds an intent.
FinalKept ==
  \A t \in Transactions :
    /\ transactions[t].state \in TERMINAL_TRANSACTION_STATES
         => transactions'[t] = transactions[t]
    /\ transactions'[t].version >= transactions[t].version
    /\ transactions[t].intent_hash # NONE
         => transactions'[t].intent_hash = transactions[t].intent_hash

\* A change of the row of one transaction that obeys the rule is enough.
LEMMA FinalKeptForOne ==
  ASSUME JTypeOK, NEW t \in Transactions, NEW row,
         transactions' = [transactions EXCEPT ![t] = row],
         transactions[t].state \notin TERMINAL_TRANSACTION_STATES,
         row.version >= transactions[t].version,
         transactions[t].intent_hash # NONE => row.intent_hash = transactions[t].intent_hash
  PROVE  FinalKept
<1>1. \A u \in Transactions : transactions[u].version \in Nat
  BY DEF JTypeOK, Row
<1>2. \A u \in Transactions : transactions'[u] = IF u = t THEN row ELSE transactions[u]
  BY DEF JTypeOK
<1> QED
  BY <1>1, <1>2 DEF FinalKept

\* Every operation obeys it.
LEMMA OperationsKeepFinal ==
  JInv /\ [JOperation]_jvars => FinalKept
<1> SUFFICES ASSUME JInv, [JOperation]_jvars PROVE FinalKept
  OBVIOUS
<1> USE DEF JInv
<1>1. \A u \in Transactions : transactions[u] \in Row /\ transactions[u].version \in Nat
  BY DEF JTypeOK, Row
<1>2. ASSUME UNCHANGED transactions PROVE FinalKept
  BY <1>1, <1>2 DEF FinalKept
<1>3. ASSUME NEW t \in Transactions, NEW run \in Runs, CreateTransaction(t, run)
      PROVE  FinalKept
  <2>1. transactions[t] = AbsentRow /\ transactions' = [transactions EXCEPT ![t] = NewRow]
    BY <1>3 DEF CreateTransaction, AbsentIsBlank
  <2>2. /\ AbsentRow.state = NONE /\ AbsentRow.version = 0
        /\ AbsentRow.intent_hash = NONE /\ NewRow.version = 0
    BY DEF AbsentRow, NewRow
  <2>3. NewRow.version >= transactions[t].version
    BY <2>1, <2>2
  <2>4. /\ transactions[t].state \notin TERMINAL_TRANSACTION_STATES
        /\ transactions[t].intent_hash = NONE
    BY <2>1, <2>2, NoEffectIsFinal
  <2> QED
    BY <2>1, <2>3, <2>4, FinalKeptForOne
<1>4. ASSUME NEW t \in Transactions, NEW h \in Intents, SetTransactionIntent(t, h)
      PROVE  FinalKept
  <2> DEFINE row == [transactions[t] EXCEPT !.intent_hash = h]
  <2>1. /\ transactions' = [transactions EXCEPT ![t] = row]
        /\ transactions[t].state = "NEW" /\ transactions[t].intent_hash = NONE
    BY <1>4 DEF SetTransactionIntent, JTypeOK
  <2>2. row.version >= transactions[t].version
    BY <1>1 DEF Row
  <2> HIDE DEF row
  <2> QED
    BY <2>1, <2>2, NoEffectIsFinal, FinalKeptForOne
<1>5. ASSUME NEW t \in Transactions, NEW p \in Transactions,
             LinkTransactionSupersession(t, p)
      PROVE  FinalKept
  <2> DEFINE row == [transactions[t] EXCEPT !.supersedes_transaction_id = p]
  <2>1. /\ transactions' = [transactions EXCEPT ![t] = row]
        /\ transactions[t].state = "NEW"
    BY <1>5 DEF LinkTransactionSupersession, JTypeOK
  <2>2. /\ row.version >= transactions[t].version
        /\ row.intent_hash = transactions[t].intent_hash
    BY <1>1 DEF Row
  <2> HIDE DEF row
  <2> QED
    BY <2>1, <2>2, NoEffectIsFinal, FinalKeptForOne
<1>6. ASSUME NEW t \in Transactions, NEW run \in Runs, NEW v, NEW e,
             Transition(t, v, e, run)
      PROVE  FinalKept
  <2>1. /\ transactions[t].state \notin TERMINAL_TRANSACTION_STATES
        /\ transactions' = [transactions EXCEPT ![t] = transactions'[t]]
        /\ transactions'[t].version = transactions[t].version + 1
        /\ transactions'[t].intent_hash = transactions[t].intent_hash
    BY <1>6, TransitionRow
  <2>2. transactions'[t].version >= transactions[t].version
    BY <1>1, <2>1
  <2> QED
    BY <2>1, <2>2, FinalKeptForOne
<1>7. CASE UNCHANGED jvars
  BY <1>2, <1>7 DEF jvars
<1>8. CASE JOperation
  BY <1>2, <1>3, <1>4, <1>5, <1>6, <1>8
     DEF JOperation, AppendEvent, ReserveIntent, AppendReceipt
<1> QED
  BY <1>7, <1>8

\* An intent changes hands only when its owner has ended without effect and
\* without receipt.
OwnerKept ==
  \A h \in Intents :
    intents[h] # NONE /\ intents'[h] # intents[h]
      => /\ transactions'[intents[h]].state \in NoEffectOutcomes
         /\ \A r \in receipts' : r.transaction_id # intents[h]

\* Every operation obeys it.
LEMMA OperationsKeepOwner ==
  JInv /\ [JOperation]_jvars => OwnerKept
<1> SUFFICES ASSUME JInv, [JOperation]_jvars PROVE OwnerKept
  OBVIOUS
<1> USE DEF JInv
<1>1. ASSUME UNCHANGED intents PROVE OwnerKept
  BY <1>1 DEF OwnerKept
<1>2. ASSUME NEW h \in Intents, NEW t \in Transactions, ReserveIntent(h, t)
      PROVE  OwnerKept
  <2> DEFINE o == OwnerAfterReservation(h, t)
  <2>1. /\ intents' = [intents EXCEPT ![h] = o]
        /\ transactions' = transactions /\ receipts' = receipts
    BY <1>2 DEF ReserveIntent
  <2>2. intents[h] # NONE /\ o # intents[h]
          => transactions[intents[h]].state \in NoEffectOutcomes /\ ~HasReceipt(intents[h])
    BY NoEffectIsFinal DEF OwnerAfterReservation
  <2>3. \A g \in Intents : intents'[g] = IF g = h THEN o ELSE intents[g]
    BY <2>1 DEF JTypeOK
  <2> HIDE DEF o
  <2> QED
    BY <2>1, <2>2, <2>3 DEF OwnerKept, HasReceipt
<1>3. CASE UNCHANGED jvars
  BY <1>1, <1>3 DEF jvars
<1>4. CASE JOperation
  BY <1>1, <1>2, <1>4
     DEF JOperation, CreateTransaction, AppendEvent, SetTransactionIntent,
         Transition, LinkTransactionSupersession, AppendReceipt
<1> QED
  BY <1>3, <1>4

-----------------------------------------------------------------------------
(* Theorems                                                                *)

\* The invariant holds in every reachable state.
THEOREM JournalInvariant == JSpec => []JInv
<1>1. JInit => JInv
  BY JInvInit
<1>2. JInv /\ [JNext]_jvars => JInv'
  BY JInvStep, BoundedIsOperation
<1> QED
  BY <1>1, <1>2, PTL DEF JSpec

\* Every table holds rows of its schema, whatever the callers do.
THEOREM JournalTypeCorrect == JSpec => []JTypeOK
<1>1. JInv => JTypeOK
  BY DEF JInv
<1> QED
  BY <1>1, JournalInvariant, PTL

\* However callers interleave, an intent has one live owner: all others that
\* were ever told they own it have ended without effect.
THEOREM IntentHasOneLiveOwner == JSpec => []OneLiveOwner
<1>1. JInv => OneLiveOwner
  BY DEF JInv
<1> QED
  BY <1>1, JournalInvariant, PTL

\* No call reopens, rebinds or relinks a finished transaction, and no version
\* is taken back.
THEOREM FinishedStaysFinished == JSpec => HistoryIsFinal
<1>1. JInv /\ [JNext]_jvars => FinalKept
  BY OperationsKeepFinal, BoundedIsOperation
<1> QED
  BY <1>1, JournalInvariant, PTL DEF JSpec, HistoryIsFinal, FinalKept

\* An owner that may have had an effect, or has a receipt, is never dispossessed.
THEOREM UncertainOwnerIsKept == JSpec => UncertainOwnerKeepsIntent
<1>1. JInv /\ [JNext]_jvars => OwnerKept
  BY OperationsKeepOwner, BoundedIsOperation
<1> QED
  BY <1>1, JournalInvariant, PTL DEF JSpec, UncertainOwnerKeepsIntent, OwnerKept

-----------------------------------------------------------------------------
(* The evidence log and the table of transactions agree.  LogReplaysToTable *)
(* speaks only of transactions that exist; what makes it inductive is that  *)
(* nothing was ever recorded as a transition of one that does not           *)
(* (NoEarlyEvent).                                                          *)

\* No event about a transaction that is not in the table enters a version.
NoEarlyEvent ==
  \A t \in Transactions : ~Exists(t) =>
    \A run \in Runs : \A i \in DOMAIN events[run] :
      events[run][i].transaction_id = t
        => events[run][i].to = NONE /\ events[run][i].version = 0

LogInv == JInv /\ NoEarlyEvent /\ LogReplaysToTable

\* The two halves of LogReplaysToTable for one transaction.
VersionsBounded(t) ==
  \A run \in Runs : \A i \in DOMAIN events[run] :
    events[run][i].transaction_id = t
      => events[run][i].version <= transactions[t].version

\* Event i of the run is the one that took t into version v.
IsTheEntry(run, i, t, v) ==
  /\ Enters(run, i, t, v)
  /\ \A q \in Runs : \A j \in DOMAIN events[q] :
       Enters(q, j, t, v) => q = run /\ j = i
  /\ v = transactions[t].version => events[run][i].to = transactions[t].state
  /\ v > 0 => \E q \in Runs : \E j \in DOMAIN events[q] :
                Enters(q, j, t, v - 1) /\ events[q][j].to = events[run][i].from

VersionsEntered(t) ==
  \A v \in 0..transactions[t].version :
    \E run \in Runs : \E i \in DOMAIN events[run] : IsTheEntry(run, i, t, v)

\* The halves make the whole.
LEMMA Halves ==
  LogReplaysToTable
    <=> \A t \in Transactions : Exists(t) => VersionsBounded(t) /\ VersionsEntered(t)
BY DEF LogReplaysToTable, VersionsBounded, VersionsEntered, IsTheEntry

\* So they do in the state after a step.
LEMMA HalvesAfter ==
  ASSUME \A t \in Transactions : Exists(t)' => VersionsBounded(t)' /\ VersionsEntered(t)'
  PROVE  LogReplaysToTable'
BY DEF LogReplaysToTable, VersionsBounded, VersionsEntered, IsTheEntry

\* What recording an event does to the logs: one more, after all the others.
LEMMA LogExtended ==
  ASSUME JTypeOK, NEW run \in Runs, NEW e \in Event, InsertEvent(run, e)
  PROVE  LET last == Len(events[run]) + 1 IN
         /\ \A q \in Runs : \A j :
              j \in DOMAIN events'[q]
                <=> j \in DOMAIN events[q] \/ (q = run /\ j = last)
         /\ \A q \in Runs : \A j \in DOMAIN events[q] : events'[q][j] = events[q][j]
         /\ events'[run][last] = e
<1> DEFINE last == Len(events[run]) + 1
           log == Append(events[run], e)
<1>1. events[run] \in Seq(Event)
  BY DEF JTypeOK
<1>2. Len(events[run]) \in Nat /\ DOMAIN events[run] = 1..Len(events[run])
  BY <1>1, LenProperties
<1>3. /\ log \in Seq(Event) /\ Len(log) = last /\ log[last] = e
      /\ \A j \in 1..Len(events[run]) : log[j] = events[run][j]
  BY <1>1, AppendProperties
<1>4. DOMAIN log = 1..last
  BY <1>3, LenProperties
<1>5. \A q \in Runs : events'[q] = IF q = run THEN log ELSE events[q]
  BY DEF InsertEvent, JTypeOK
<1> HIDE DEF log
<1>6. \A j : j \in DOMAIN log <=> j \in DOMAIN events[run] \/ j = last
  BY <1>2, <1>4
<1> QED
  BY <1>2, <1>3, <1>5, <1>6

\* A log that gains an event which is no transition of t, while the state and
\* the version of t stay, still replays to t.
LEMMA ReplayUnaffected ==
  ASSUME JTypeOK, NEW run \in Runs, NEW e \in Event, InsertEvent(run, e),
         NEW t \in Transactions,
         e.transaction_id # t \/ (e.to = NONE /\ e.version = 0),
         transactions'[t].state = transactions[t].state,
         transactions'[t].version = transactions[t].version,
         VersionsBounded(t), VersionsEntered(t)
  PROVE  VersionsBounded(t)' /\ VersionsEntered(t)'
<1> DEFINE last == Len(events[run]) + 1
<1>1. transactions[t].version \in Nat
  BY DEF JTypeOK, Row
<1>2. /\ \A q \in Runs : \A j :
           j \in DOMAIN events'[q] <=> j \in DOMAIN events[q] \/ (q = run /\ j = last)
      /\ \A q \in Runs : \A j \in DOMAIN events[q] : events'[q][j] = events[q][j]
      /\ events'[run][last] = e
  BY LogExtended
<1>3. VersionsBounded(t)'
  BY <1>1, <1>2 DEF VersionsBounded
<1>4. \A q \in Runs : \A j \in DOMAIN events'[q] : \A v :
        Enters(q, j, t, v)' <=> j \in DOMAIN events[q] /\ Enters(q, j, t, v)
  <2> SUFFICES ASSUME NEW q \in Runs, NEW j \in DOMAIN events'[q], NEW v
               PROVE  Enters(q, j, t, v)' <=> j \in DOMAIN events[q] /\ Enters(q, j, t, v)
    OBVIOUS
  <2>1. CASE j \in DOMAIN events[q]
    BY <1>2, <2>1 DEF Enters
  <2>2. CASE j \notin DOMAIN events[q]
    <3>1. events'[q][j] = e
      BY <1>2, <2>2
    <3> QED
      BY <2>2, <3>1 DEF Enters
  <2> QED
    BY <2>1, <2>2
<1>5. VersionsEntered(t)'
  <2> SUFFICES ASSUME NEW v \in 0..transactions[t].version
               PROVE  \E q \in Runs : \E j \in DOMAIN events'[q] : IsTheEntry(q, j, t, v)'
    BY DEF VersionsEntered
  <2>1. PICK q, j : q \in Runs /\ j \in DOMAIN events[q] /\ IsTheEntry(q, j, t, v)
    BY DEF VersionsEntered
  <2>2. j \in DOMAIN events'[q] /\ events'[q][j] = events[q][j] /\ Enters(q, j, t, v)'
    BY <1>2, <1>4, <2>1 DEF IsTheEntry
  <2>3. ASSUME NEW p \in Runs, NEW i \in DOMAIN events'[p], Enters(p, i, t, v)'
        PROVE  p = q /\ i = j
    BY <1>4, <2>1, <2>3 DEF IsTheEntry
  <2>4. v = transactions'[t].version => events'[q][j].to = transactions'[t].state
    BY <2>1, <2>2 DEF IsTheEntry
  <2>5. ASSUME v > 0
        PROVE  \E p \in Runs : \E i \in DOMAIN events'[p] :
                 Enters(p, i, t, v - 1)' /\ events'[p][i].to = events'[q][j].from
    <3>1. PICK p, i :
            p \in Runs /\ i \in DOMAIN events[p] /\ Enters(p, i, t, v - 1)
            /\ events[p][i].to = events[q][j].from
      BY <2>1, <2>5 DEF IsTheEntry
    <3>2. /\ i \in DOMAIN events'[p] /\ events'[p][i] = events[p][i]
          /\ Enters(p, i, t, v - 1)'
      BY <1>2, <1>4, <3>1
    <3> QED
      BY <2>2, <3>1, <3>2
  <2>6. IsTheEntry(q, j, t, v)'
    BY <2>2, <2>3, <2>4, <2>5 DEF IsTheEntry
  <2> QED
    BY <2>1, <2>2, <2>6
<1> QED
  BY <1>3, <1>5

\* An event that takes t into the version after its last one, from the state
\* the row had to the state it gets, is what keeps the log replaying to t.
LEMMA ReplayAdvances ==
  ASSUME JTypeOK, NEW run \in Runs, NEW t \in Transactions,
         NEW e \in Event, InsertEvent(run, e), e.transaction_id = t, e.to # NONE,
         e.version = transactions[t].version + 1,
         e.from = transactions[t].state, e.to = transactions'[t].state,
         transactions'[t].version = transactions[t].version + 1,
         VersionsBounded(t), VersionsEntered(t)
  PROVE  VersionsBounded(t)' /\ VersionsEntered(t)'
<1> PICK last : last = Len(events[run]) + 1
  OBVIOUS
<1> PICK n : n = transactions[t].version
  OBVIOUS
<1> PICK m : m = n + 1
  OBVIOUS
<1>1. n \in Nat /\ transactions'[t].version = m /\ m \in Nat /\ e.version = m
  BY DEF JTypeOK, Row
<1>2. /\ \A q \in Runs : \A j :
           j \in DOMAIN events'[q] <=> j \in DOMAIN events[q] \/ (q = run /\ j = last)
      /\ \A q \in Runs : \A j \in DOMAIN events[q] : events'[q][j] = events[q][j]
      /\ events'[run][last] = e
  BY LogExtended
<1>3. VersionsBounded(t)'
  <2> SUFFICES ASSUME NEW q \in Runs, NEW j \in DOMAIN events'[q],
                      events'[q][j].transaction_id = t
               PROVE  events'[q][j].version <= m
    BY <1>1 DEF VersionsBounded
  <2>1. CASE j \in DOMAIN events[q]
    <3>1. events[q][j].version \in Nat
      <4>1. events[q] \in Seq(Event)
        BY DEF JTypeOK
      <4>2. events[q][j] \in Event
        BY <2>1, <4>1, LenProperties, ElementOfSeq
      <4> QED
        BY <4>2 DEF Event
    <3>2. events[q][j].version <= n
      BY <1>2, <2>1 DEF VersionsBounded
    <3> QED
      BY <1>1, <1>2, <2>1, <3>1, <3>2
  <2>2. CASE j \notin DOMAIN events[q]
    BY <1>1, <1>2, <2>2
  <2> QED
    BY <2>1, <2>2
<1>4. ASSUME NEW q \in Runs, NEW j \in DOMAIN events'[q], NEW v
      PROVE  Enters(q, j, t, v)' <=> \/ j \in DOMAIN events[q] /\ Enters(q, j, t, v)
                                     \/ q = run /\ j = last /\ v = m
  <2>1. CASE j \in DOMAIN events[q]
    <3>1. ~(q = run /\ j = last)
      <4>1. events[run] \in Seq(Event)
        BY DEF JTypeOK
      <4> QED
        BY <2>1, <4>1
    <3> QED
      BY <1>2, <2>1, <3>1 DEF Enters
  <2>2. CASE j \notin DOMAIN events[q]
    <3>1. q = run /\ j = last /\ events'[q][j] = e
      BY <1>2, <2>2
    <3> QED
      BY <2>2, <3>1 DEF Enters
  <2> QED
    BY <2>1, <2>2
<1>5. \A q \in Runs : \A j \in DOMAIN events[q] : ~Enters(q, j, t, m)
  <2> SUFFICES ASSUME NEW q \in Runs, NEW j \in DOMAIN events[q], Enters(q, j, t, m)
               PROVE  FALSE
    OBVIOUS
  <2>1. events[q][j].version <= n /\ events[q][j].version = m
    BY DEF VersionsBounded, Enters
  <2> QED
    BY <1>1, <2>1
<1>6. \A v \in 0..n : \A q \in Runs : \A j \in DOMAIN events'[q] :
        Enters(q, j, t, v)' <=> j \in DOMAIN events[q] /\ Enters(q, j, t, v)
  <2>1. \A v \in 0..n : v # m
    BY <1>1
  <2> QED
    BY <1>4, <2>1
<1>7. ASSUME NEW v \in 0..n
      PROVE  \E q \in Runs : \E j \in DOMAIN events'[q] : IsTheEntry(q, j, t, v)'
  <2>1. PICK q, j : q \in Runs /\ j \in DOMAIN events[q] /\ IsTheEntry(q, j, t, v)
    BY DEF VersionsEntered
  <2>2. j \in DOMAIN events'[q] /\ events'[q][j] = events[q][j] /\ Enters(q, j, t, v)'
    BY <1>2, <1>6, <2>1 DEF IsTheEntry
  <2>3. ASSUME NEW p \in Runs, NEW i \in DOMAIN events'[p], Enters(p, i, t, v)'
        PROVE  p = q /\ i = j
    BY <1>6, <2>1, <2>3 DEF IsTheEntry
  <2>4. v # transactions'[t].version
    BY <1>1
  <2>5. ASSUME v > 0
        PROVE  \E p \in Runs : \E i \in DOMAIN events'[p] :
                 Enters(p, i, t, v - 1)' /\ events'[p][i].to = events'[q][j].from
    <3>1. PICK p, i :
            p \in Runs /\ i \in DOMAIN events[p] /\ Enters(p, i, t, v - 1)
            /\ events[p][i].to = events[q][j].from
      BY <2>1, <2>5 DEF IsTheEntry
    <3>2. v - 1 \in 0..n
      BY <1>1, <2>5
    <3>3. /\ i \in DOMAIN events'[p] /\ events'[p][i] = events[p][i]
          /\ Enters(p, i, t, v - 1)'
      BY <1>2, <1>6, <3>1, <3>2
    <3> QED
      BY <2>2, <3>1, <3>3
  <2>6. IsTheEntry(q, j, t, v)'
    BY <2>2, <2>3, <2>4, <2>5 DEF IsTheEntry
  <2> QED
    BY <2>1, <2>2, <2>6
<1>8. last \in DOMAIN events'[run] /\ IsTheEntry(run, last, t, m)'
  <2>1. last \in DOMAIN events'[run] /\ events'[run][last] = e
    BY <1>2
  <2>2. Enters(run, last, t, m)'
    BY <1>4, <2>1
  <2>3. ASSUME NEW p \in Runs, NEW i \in DOMAIN events'[p], Enters(p, i, t, m)'
        PROVE  p = run /\ i = last
    BY <1>4, <1>5, <2>3
  <2>4. \E p \in Runs : \E i \in DOMAIN events'[p] :
          Enters(p, i, t, n)' /\ events'[p][i].to = e.from
    <3>1. n \in 0..n
      BY <1>1
    <3>2. PICK p, i : p \in Runs /\ i \in DOMAIN events[p] /\ IsTheEntry(p, i, t, n)
      BY <3>1 DEF VersionsEntered
    <3>3. Enters(p, i, t, n) /\ events[p][i].to = transactions[t].state
      BY <3>2 DEF IsTheEntry
    <3>4. i \in DOMAIN events'[p] /\ events'[p][i] = events[p][i]
      BY <1>2, <3>2
    <3>5. Enters(p, i, t, n)'
      BY <1>6, <3>1, <3>2, <3>3, <3>4
    <3> QED
      BY <3>2, <3>3, <3>4, <3>5
  <2>5. m - 1 = n
    BY <1>1
  <2> QED
    BY <2>1, <2>2, <2>3, <2>4, <2>5 DEF IsTheEntry
<1>9. VersionsEntered(t)'
  <2>1. \A v \in 0..transactions'[t].version : v \in 0..n \/ v = m
    BY <1>1
  <2> QED
    BY <1>7, <1>8, <2>1 DEF VersionsEntered
<1> QED
  BY <1>3, <1>9

\* A log that gains the event of a creation replays to the transaction created.
LEMMA ReplayBegins ==
  ASSUME JTypeOK, NoEarlyEvent, NEW run \in Runs, NEW t \in Transactions,
         CreateTransaction(t, run)
  PROVE  VersionsBounded(t)' /\ VersionsEntered(t)'
<1> PICK e : e = [transaction_id |-> t, from |-> NONE, to |-> "NEW", version |-> 0]
  OBVIOUS
<1> PICK last : last = Len(events[run]) + 1
  OBVIOUS
<1>1. e \in Event /\ InsertEvent(run, e)
  BY NoEffectIsFinal DEF Event, CreateTransaction
<1>2. /\ \A q \in Runs : \A j :
           j \in DOMAIN events'[q] <=> j \in DOMAIN events[q] \/ (q = run /\ j = last)
      /\ \A q \in Runs : \A j \in DOMAIN events[q] : events'[q][j] = events[q][j]
      /\ events'[run][last] = e
  BY <1>1, LogExtended
<1>3. transactions'[t].state = "NEW" /\ transactions'[t].version = 0
  BY DEF CreateTransaction, JTypeOK, NewRow, AbsentRow
<1>4. /\ e.transaction_id = t /\ e.to = "NEW" /\ e.version = 0 /\ "NEW" # NONE
  BY NoEffectIsFinal
<1>5. \A q \in Runs : \A j \in DOMAIN events'[q] :
        events'[q][j].transaction_id = t =>
          /\ events'[q][j].version = 0
          /\ events'[q][j].to # NONE => q = run /\ j = last
  <2> SUFFICES ASSUME NEW q \in Runs, NEW j \in DOMAIN events'[q],
                      events'[q][j].transaction_id = t
               PROVE  /\ events'[q][j].version = 0
                      /\ events'[q][j].to # NONE => q = run /\ j = last
    OBVIOUS
  <2>1. CASE j \in DOMAIN events[q]
    BY <1>2, <2>1 DEF NoEarlyEvent, CreateTransaction
  <2>2. CASE j \notin DOMAIN events[q]
    BY <1>2, <1>4, <2>2
  <2> QED
    BY <2>1, <2>2
<1>6. VersionsBounded(t)'
  BY <1>3, <1>5 DEF VersionsBounded
<1>7. last \in DOMAIN events'[run] /\ IsTheEntry(run, last, t, 0)'
  BY <1>2, <1>3, <1>4, <1>5 DEF IsTheEntry, Enters
<1>8. VersionsEntered(t)'
  <2>1. \A v \in 0..transactions'[t].version : v = 0
    BY <1>3
  <2> QED
    BY <1>7, <2>1 DEF VersionsEntered
<1> QED
  BY <1>6, <1>8

\* Recording an event about u keeps early events away from every transaction
\* but u, and from u too if it now exists or the event is no transition.
LEMMA NoEarlyEventKept ==
  ASSUME JTypeOK, NoEarlyEvent, NEW run \in Runs, NEW e \in Event, InsertEvent(run, e),
         \A t \in Transactions : ~Exists(t)' =>
           /\ ~Exists(t)
           /\ e.transaction_id = t => e.to = NONE /\ e.version = 0
  PROVE  NoEarlyEvent'
<1> SUFFICES ASSUME NEW t \in Transactions, ~Exists(t)',
                    NEW q \in Runs, NEW j \in DOMAIN events'[q],
                    events'[q][j].transaction_id = t
             PROVE  events'[q][j].to = NONE /\ events'[q][j].version = 0
  BY DEF NoEarlyEvent
<1>1. CASE j \in DOMAIN events[q]
  BY <1>1, LogExtended DEF NoEarlyEvent
<1>2. CASE j \notin DOMAIN events[q]
  BY <1>2, LogExtended
<1> QED
  BY <1>1, <1>2

\* An operation that records nothing and leaves states and versions alone.
LEMMA LogUntouched ==
  ASSUME LogInv, JInv', UNCHANGED events,
         \A t \in Transactions : /\ transactions'[t].state = transactions[t].state
                                 /\ transactions'[t].version = transactions[t].version
  PROVE  LogInv'
<1>1. \A t \in Transactions : Exists(t)' <=> Exists(t)
  BY DEF Exists
<1>2. NoEarlyEvent'
  BY <1>1 DEF NoEarlyEvent, LogInv
<1>3. LogReplaysToTable'
  BY <1>1 DEF LogReplaysToTable, Enters, LogInv
<1> QED
  BY <1>2, <1>3 DEF LogInv

\* The initial tables and logs are empty.
LEMMA LogInvInit ==
  JInit => LogInv
<1> SUFFICES ASSUME JInit PROVE LogInv
  OBVIOUS
<1>1. \A t \in Transactions : ~Exists(t)
  BY DEF JInit, Exists, AbsentRow
<1>2. NoEarlyEvent
  BY EmptySeq DEF JInit, NoEarlyEvent
<1>3. LogReplaysToTable
  BY <1>1 DEF LogReplaysToTable
<1> QED
  BY <1>2, <1>3, JInvInit DEF LogInv

\* Every operation keeps the log in agreement with the table.
LEMMA LogInvStep ==
  LogInv /\ [JOperation]_jvars => LogInv'
<1> SUFFICES ASSUME LogInv, [JOperation]_jvars PROVE LogInv'
  OBVIOUS
<1>1. JInv /\ JInv' /\ JTypeOK /\ NoEarlyEvent
  BY JInvStep DEF LogInv, JInv
<1>2. \A t \in Transactions : Exists(t) => VersionsBounded(t) /\ VersionsEntered(t)
  BY Halves DEF LogInv
<1>3. ASSUME NEW t \in Transactions, NEW run \in Runs, CreateTransaction(t, run)
      PROVE  LogInv'
  <2> PICK e : e = [transaction_id |-> t, from |-> NONE, to |-> "NEW", version |-> 0]
    OBVIOUS
  <2>1. e \in Event /\ e.transaction_id = t /\ InsertEvent(run, e)
    BY <1>3, NoEffectIsFinal DEF Event, CreateTransaction
  <2>2. \A u \in Transactions : u # t => transactions'[u] = transactions[u]
    BY <1>1, <1>3 DEF CreateTransaction, JTypeOK
  <2>3. Exists(t)' /\ ~Exists(t)
    BY <1>1, <1>3, NoEffectIsFinal DEF CreateTransaction, Exists, JTypeOK, NewRow, AbsentRow
  <2>4. NoEarlyEvent'
    BY <1>1, <2>1, <2>2, <2>3, NoEarlyEventKept DEF Exists
  <2>5. ASSUME NEW u \in Transactions, Exists(u)'
        PROVE  VersionsBounded(u)' /\ VersionsEntered(u)'
    <3>1. CASE u = t
      BY <1>1, <1>3, <3>1, ReplayBegins
    <3>2. CASE u # t
      BY <1>1, <1>2, <2>1, <2>2, <2>5, <3>2, ReplayUnaffected DEF Exists
    <3> QED
      BY <3>1, <3>2
  <2>6. LogReplaysToTable'
    BY <2>5, HalvesAfter
  <2> QED
    BY <1>1, <2>4, <2>6 DEF LogInv
<1>4. ASSUME NEW run \in Runs, NEW t \in Transactions \cup {NONE}, AppendEvent(run, t)
      PROVE  LogInv'
  <2> PICK e : e = [transaction_id |-> t, from |-> NONE, to |-> NONE, version |-> 0]
    OBVIOUS
  <2>1. e \in Event /\ e.to = NONE /\ e.version = 0 /\ InsertEvent(run, e)
    BY <1>4 DEF Event, AppendEvent
  <2>2. transactions' = transactions
    BY <1>4 DEF AppendEvent
  <2>3. NoEarlyEvent'
    BY <1>1, <2>1, <2>2, NoEarlyEventKept DEF Exists
  <2>4. ASSUME NEW u \in Transactions, Exists(u)'
        PROVE  VersionsBounded(u)' /\ VersionsEntered(u)'
    BY <1>1, <1>2, <2>1, <2>2, <2>4, ReplayUnaffected DEF Exists
  <2>5. LogReplaysToTable'
    BY <2>4, HalvesAfter
  <2> QED
    BY <1>1, <2>3, <2>5 DEF LogInv
<1>5. ASSUME NEW t \in Transactions, NEW run \in Runs, NEW v, NEW ev,
             Transition(t, v, ev, run)
      PROVE  LogInv'
  <2> PICK e : e = [transaction_id |-> t, from |-> transactions[t].state,
                    to |-> transactions'[t].state,
                    version |-> transactions[t].version + 1]
    OBVIOUS
  <2>1. /\ transactions[t].state \in TransactionState
        /\ transactions' = [transactions EXCEPT ![t] = transactions'[t]]
        /\ transactions'[t].state \in TransactionState
        /\ transactions'[t].version = transactions[t].version + 1
        /\ InsertEvent(run, e)
    BY <1>1, <1>5, TransitionRow
  <2>2. transactions[t].version + 1 \in Nat
    BY <1>1 DEF JTypeOK, Row
  <2>3. /\ e \in Event /\ e.transaction_id = t /\ e.to # NONE
        /\ e.version = transactions[t].version + 1
        /\ e.from = transactions[t].state /\ e.to = transactions'[t].state
    BY <2>1, <2>2, NoEffectIsFinal DEF Event
  <2>4. \A u \in Transactions : u # t => transactions'[u] = transactions[u]
    BY <1>1, <2>1 DEF JTypeOK
  <2>5. Exists(t) /\ Exists(t)'
    BY <2>1, NoEffectIsFinal DEF Exists
  <2>6. NoEarlyEvent'
    BY <1>1, <2>1, <2>3, <2>4, <2>5, NoEarlyEventKept DEF Exists
  <2>7. ASSUME NEW u \in Transactions, Exists(u)'
        PROVE  VersionsBounded(u)' /\ VersionsEntered(u)'
    <3>1. CASE u = t
      BY <1>1, <1>2, <2>1, <2>3, <2>5, <3>1, ReplayAdvances
    <3>2. CASE u # t
      BY <1>1, <1>2, <2>1, <2>3, <2>4, <2>7, <3>2, ReplayUnaffected DEF Exists
    <3> QED
      BY <3>1, <3>2
  <2>8. LogReplaysToTable'
    BY <2>7, HalvesAfter
  <2> QED
    BY <1>1, <2>6, <2>8 DEF LogInv
<1>6. ASSUME NEW t \in Transactions, NEW h \in Intents, SetTransactionIntent(t, h)
      PROVE  LogInv'
  <2>1. \A u \in Transactions : /\ transactions'[u].state = transactions[u].state
                                /\ transactions'[u].version = transactions[u].version
    BY <1>1, <1>6 DEF SetTransactionIntent, JTypeOK, Row
  <2> QED
    BY <1>1, <1>6, <2>1, LogUntouched DEF SetTransactionIntent
<1>7. ASSUME NEW t \in Transactions, NEW p \in Transactions,
             LinkTransactionSupersession(t, p)
      PROVE  LogInv'
  <2>1. \A u \in Transactions : /\ transactions'[u].state = transactions[u].state
                                /\ transactions'[u].version = transactions[u].version
    BY <1>1, <1>7 DEF LinkTransactionSupersession, JTypeOK, Row
  <2> QED
    BY <1>1, <1>7, <2>1, LogUntouched DEF LinkTransactionSupersession
<1>8. ASSUME UNCHANGED <<transactions, events>> PROVE LogInv'
  BY <1>1, <1>8, LogUntouched
<1>9. CASE UNCHANGED jvars
  BY <1>8, <1>9 DEF jvars
<1>10. CASE JOperation
  BY <1>3, <1>4, <1>5, <1>6, <1>7, <1>8, <1>10
     DEF JOperation, ReserveIntent, AppendReceipt
<1> QED
  BY <1>9, <1>10

\* The log replays to the table in every reachable state, for any number of
\* transactions, runs and calls in any order.
THEOREM LogAlwaysReplays == JSpec => []LogReplaysToTable
<1>1. JInit => LogInv
  BY LogInvInit
<1>2. LogInv /\ [JNext]_jvars => LogInv'
  BY LogInvStep, BoundedIsOperation
<1>3. LogInv => LogReplaysToTable
  BY DEF LogInv
<1> QED
  BY <1>1, <1>2, <1>3, PTL DEF JSpec
=============================================================================
