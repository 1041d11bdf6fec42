---------------------------- MODULE MockAdapter ----------------------------
(***************************************************************************)
(* MockReversibleAdapter of src/agentkernel/adapters/mock.py: dictionary   *)
(* updates of a versioned target in memory.  Its methods are coroutines    *)
(* without an await, so each is one step; callers interleave their calls,  *)
(* repeat a commit whose answer they lost, and roll back when they like.   *)
(* Other writers of the target raise its version, too, as the tests do.    *)
(* reconcile changes nothing: it is ReconcileStatus, asked in every state  *)
(* by the properties.  verify_committed changes nothing either.            *)
(***************************************************************************)
EXTENDS Naturals, Sequences, FiniteSets

CONSTANTS
  Callers,      \* the transactions whose effects the adapter is asked for
  Intents,      \* intent hashes
  Keys, Values, \* of the target
  HashOf,       \* intent hash of the plan of a transaction
  ValuesOf,     \* `values' object of an intent, a function on some keys
  Vacant,       \* no value under a key
  NoEntry,      \* no such entry in one of the adapter's dictionaries
  ForeignValue, \* the value that other writers write
  MaxVersion,   \* bound: changes of the target
  MaxDamage     \* bound: staged states damaged before their verification

States == [Keys -> Values \cup {Vacant}]

ASSUME IntentsAreTyped ==
  /\ HashOf \in [Callers -> Intents] /\ ForeignValue \in Values
  /\ \A i \in Intents : \A k \in Keys \cap DOMAIN ValuesOf[i] : ValuesOf[i][k] \in Values
\* the stand-in for "no entry" is no transaction and no state
ASSUME NoEntryIsNoData == NoEntry \notin Callers /\ NoEntry \notin States

VARIABLES
  state, version,       \* VersionedMemoryTarget
  call,                 \* what the caller of each transaction holds
  stages,               \* _stages: transactions with private material
  receipts_by_intent,   \* transaction whose commit is remembered, or NoEntry
  snapshots,            \* state before the commit of a transaction
  changes,              \* history: all changes of the target
  damage
target == <<state, version, changes>>
memory == <<stages, receipts_by_intent, snapshots>>
mockVars == <<target, call, memory, damage>>

\* An effect receipt is named by the transaction whose commit created it: a
\* transaction whose intent is remembered is answered with that receipt.
Change(kind, by, before, after) == [kind |-> kind, by |-> by, before |-> before, after |-> after]

Call(t, fields) == call' = [call EXCEPT ![t] = fields]
Holds(t, pcs) == call[t].pc \in pcs

-----------------------------------------------------------------------------
Updated(s, i) == [k \in Keys |-> IF k \in DOMAIN ValuesOf[i] THEN ValuesOf[i][k] ELSE s[k]]

MockInspect(t) ==
  /\ Holds(t, {"new"})
  /\ Call(t, [call[t] EXCEPT !.pc = "planned", !.base_version = version])
  /\ UNCHANGED <<target, memory, damage>>

MockStage(t) ==
  /\ Holds(t, {"planned"})
  /\ Call(t, [call[t] EXCEPT !.pc = "staged", !.private = state, !.base = state])
  /\ UNCHANGED <<target, memory, damage>>

MockExecute(t) ==
  /\ Holds(t, {"staged"})
  /\ LET updated == Updated(call[t].private, HashOf[t]) IN
       Call(t, [call[t] EXCEPT !.pc = "executed", !.private = updated, !.digest = updated])
  /\ stages' = stages \cup {t}
  /\ UNCHANGED <<target, receipts_by_intent, snapshots, damage>>

(* external: the private state is a plain dictionary in the caller's hands  *)
Damage(t) ==
  /\ Holds(t, {"executed"}) /\ damage < MaxDamage
  /\ \E k \in Keys : Call(t, [call[t] EXCEPT !.private[k] = ForeignValue])
  /\ damage' = damage + 1
  /\ UNCHANGED <<target, memory>>

MockVerifyStaged(t) ==
  /\ Holds(t, {"executed"})
  /\ Call(t, [call[t] EXCEPT !.pc = IF call[t].private = call[t].digest THEN "verified" ELSE "rejected"])
  /\ UNCHANGED <<target, memory, damage>>

-----------------------------------------------------------------------------
(* commit, called once or again by a caller that does not know the answer   *)

Remembered(t) == receipts_by_intent[HashOf[t]]
Receipt(t) == [transaction |-> t, before |-> version, after |-> version + 1]

CommitRepeats(t) ==
  /\ Holds(t, {"verified", "stale", "done"})
  /\ Remembered(t) # NoEntry
  /\ Call(t, [call[t] EXCEPT !.pc = "done", !.receipt = call[Remembered(t)].receipt])
  /\ UNCHANGED <<target, memory, damage>>

CommitRefused(t) ==
  /\ Holds(t, {"verified"})
  /\ Remembered(t) = NoEntry
  /\ version # call[t].base_version
  /\ Call(t, [call[t] EXCEPT !.pc = "stale"])
  /\ UNCHANGED <<target, memory, damage>>

CommitApplies(t) ==
  /\ Holds(t, {"verified"})
  /\ Remembered(t) = NoEntry
  /\ version = call[t].base_version /\ version < MaxVersion
  /\ Call(t, [call[t] EXCEPT !.pc = "done", !.receipt = Receipt(t)])
  /\ state' = call[t].private
  /\ version' = version + 1
  /\ changes' = Append(changes, Change("commit", t, state, state'))
  /\ snapshots' = [snapshots EXCEPT ![t] = state]
  /\ receipts_by_intent' = [receipts_by_intent EXCEPT ![HashOf[t]] = t]
  /\ stages' = stages \ {t}
  /\ UNCHANGED damage

-----------------------------------------------------------------------------
(* recovery                                                                 *)

MockAbort(t) ==
  /\ Holds(t, {"planned", "staged", "executed", "rejected", "verified", "stale"})
  /\ Call(t, [call[t] EXCEPT !.pc = "aborted"])
  /\ stages' = stages \ {t}
  /\ UNCHANGED <<target, receipts_by_intent, snapshots, damage>>

Bug_RollbackOfOlderVersion(t) ==
  /\ Holds(t, {"done"})
  /\ snapshots[call[t].receipt.transaction] # NoEntry /\ version < MaxVersion
  /\ state' = snapshots[call[t].receipt.transaction]
  /\ version' = version + 1
  /\ changes' = Append(changes, Change("rollback", call[t].receipt.transaction, state, state'))
  /\ UNCHANGED <<call, memory, damage>>
MockRollback(t) ==
  /\ Holds(t, {"done"})
  /\ snapshots[call[t].receipt.transaction] # NoEntry
  /\ version = call[t].receipt.after /\ version < MaxVersion
  /\ state' = snapshots[call[t].receipt.transaction]
  /\ version' = version + 1
  /\ changes' = Append(changes, Change("rollback", call[t].receipt.transaction, state, state'))
  /\ UNCHANGED <<call, memory, damage>>

Bug_ForgetsAfterRollback(i) ==
  IF receipts_by_intent[i] = NoEntry
     \/ \E n \in DOMAIN changes : changes[n].kind = "rollback" /\ changes[n].by = receipts_by_intent[i]
  THEN "NO_EFFECT" ELSE "COMMITTED"
ReconcileStatus(i) == IF receipts_by_intent[i] = NoEntry THEN "NO_EFFECT" ELSE "COMMITTED"

(* external: whoever else writes the target *)
ForeignWrite(k) ==
  /\ version < MaxVersion
  /\ state' = [state EXCEPT ![k] = ForeignValue]
  /\ version' = version + 1
  /\ changes' = Append(changes, Change("foreign", NoEntry, state, state'))
  /\ UNCHANGED <<call, memory, damage>>

-----------------------------------------------------------------------------
NoReceipt == [transaction |-> NoEntry, before |-> 0, after |-> 0]
NewCall(s) == [pc |-> "new", base_version |-> 0, base |-> s, private |-> s, digest |-> s, receipt |-> NoReceipt]

MockInit ==
  /\ state = [k \in Keys |-> Vacant] /\ version = 0 /\ changes = <<>>
  /\ call = [t \in Callers |-> NewCall(state)]
  /\ stages = {} /\ damage = 0
  /\ receipts_by_intent = [i \in Intents |-> NoEntry]
  /\ snapshots = [t \in Callers |-> NoEntry]

MockNext ==
  \/ \E t \in Callers :
       \/ MockInspect(t) \/ MockStage(t) \/ MockExecute(t) \/ Damage(t) \/ MockVerifyStaged(t)
       \/ CommitRepeats(t) \/ CommitRefused(t) \/ CommitApplies(t)
       \/ MockAbort(t) \/ MockRollback(t)
  \/ \E k \in Keys : ForeignWrite(k)
MockSpec == MockInit /\ [][MockNext]_mockVars

-----------------------------------------------------------------------------
(* Properties                                                               *)

Commits(i) == {n \in DOMAIN changes : changes[n].kind = "commit" /\ HashOf[changes[n].by] = i}

(* reconcile (mock.py:238) answers NO_EFFECT only if a retry is safe: the   *)
(* intent never took effect, not even one rolled back since.                *)
ReconcileIsTruthful ==
  \A i \in Intents : (ReconcileStatus(i) = "NO_EFFECT") <=> (Commits(i) = {})

(* The adapter keeps the promise of AtomicWorkspace, as the one for files   *)
(* does: every commit is a compare-and-swap of the whole state.             *)
HasSnapshot(t) == snapshots[t] # NoEntry
MockOffers == [t \in Callers |->
  IF Holds(t, {"new", "planned"}) THEN [base |-> NoEntry, staged |-> NoEntry]
  ELSE [base |-> call[t].base, staged |-> call[t].private]]
MockSwaps == [t \in Callers |->
  IF HasSnapshot(t) THEN [before |-> snapshots[t], after |-> call[t].private]
  ELSE [before |-> NoEntry, after |-> NoEntry]]
ForeignWrites == {n \in DOMAIN changes : changes[n].kind = "foreign"}
Contract == INSTANCE AtomicWorkspace WITH
  Transactions <- Callers, Nothing <- NoEntry, Trees <- States, tree <- state,
  offer <- MockOffers, swap <- MockSwaps, foreign <- Cardinality(ForeignWrites), incidents <- 0
MockRefinesAtomicWorkspace == Contract!ASpec
=============================================================================
