---------------------------- MODULE EffectOutcome ----------------------------
(***************************************************************************)
(* What the transactional kernel promises of an effect, without sessions,  *)
(* journal or adapter: an intent is applied at most once, and the verdict  *)
(* on a transaction, once given, is final and true of what happened        *)
(* (docs/architecture.md, "Transaction model").                            *)
(***************************************************************************)
CONSTANTS Transactions, IntentOf

VARIABLES
  applied,  \* transactions whose effect is on the authoritative target
  verdict   \* what is durably said of each transaction

Verdicts == {"open", "none", "done", "unsure"}

Init ==
  /\ applied = {}
  /\ verdict = [t \in Transactions |-> "open"]

\* Nobody else may have applied the intent, or may turn out to have.
Apply(t) ==
  /\ verdict[t] = "open"
  /\ \A u \in Transactions :
       IntentOf[u] = IntentOf[t] =>
         u \notin applied /\ verdict[u] \in {"open", "none"}
  /\ applied' = applied \cup {t}
  /\ UNCHANGED verdict

Conclude(t, v) ==
  /\ verdict[t] = "open"
  /\ v = "none" => t \notin applied
  /\ v = "done" => t \in applied
  /\ verdict' = [verdict EXCEPT ![t] = v]
  /\ UNCHANGED applied

Next == \E t \in Transactions :
          Apply(t) \/ \E v \in Verdicts \ {"open"} : Conclude(t, v)

Spec == Init /\ [][Next]_<<applied, verdict>>
=============================================================================
