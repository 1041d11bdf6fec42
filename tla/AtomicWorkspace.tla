-------------------------- MODULE AtomicWorkspace --------------------------
(***************************************************************************)
(* What the filesystem adapter promises of its workspace: an operation     *)
(* changes all of it or nothing.  A commit is a compare-and-swap of the    *)
(* whole tree, a rollback swaps the tree of a receipt back.                *)
(***************************************************************************)
EXTENDS Naturals

CONSTANTS Transactions, Nothing, Trees

VARIABLES
  tree,      \* the workspace, as operations that have ended left it
  offer,     \* base and staged tree of every transaction
  swap,      \* before and after of every booked receipt
  foreign,   \* writes of others
  incidents  \* operations cut short: by a crash, or a fault nobody handles

avars == <<tree, offer, swap, foreign, incidents>>
NoSwap == [before |-> Nothing, after |-> Nothing]

AInit ==
  /\ tree \in Trees
  /\ offer = [t \in Transactions |-> [base |-> Nothing, staged |-> Nothing]]
  /\ swap = [t \in Transactions |-> NoSwap]
  /\ foreign = 0 /\ incidents = 0

(* private work: what is offered *)
Offer(t) ==
  /\ \A u \in Transactions \ {t} : offer'[u] = offer[u]
  /\ UNCHANGED <<tree, swap, foreign, incidents>>

(* a receipt is booked once, before its effect, and never rewritten *)
Book(t) ==
  /\ swap[t] = NoSwap
  /\ offer[t].base = tree
  /\ swap' = [swap EXCEPT ![t] = [before |-> offer[t].base, after |-> offer[t].staged]]
  /\ UNCHANGED <<tree, offer, foreign, incidents>>

(* the effect, never before some receipt says how to undo it *)
Apply(t) ==
  /\ tree = offer[t].base
  /\ \E r \in Transactions : swap[r].before = tree
  /\ tree' = offer[t].staged
  /\ UNCHANGED <<offer, swap, foreign, incidents>>

(* both at once, for an effect that is a single assignment *)
BookAndApply(t) ==
  /\ swap[t] = NoSwap
  /\ offer[t].base = tree
  /\ swap' = [swap EXCEPT ![t] = [before |-> tree, after |-> offer[t].staged]]
  /\ tree' = offer[t].staged
  /\ UNCHANGED <<offer, foreign, incidents>>

Undo(t) ==
  /\ swap[t] # NoSwap
  /\ tree = swap[t].after
  /\ tree' = swap[t].before
  /\ UNCHANGED <<offer, swap, foreign, incidents>>

Foreign ==
  /\ foreign' = foreign + 1
  /\ tree' \in Trees
  /\ UNCHANGED <<offer, swap, incidents>>

(* a crash, or a fault nobody handles in the midst of a change *)
Shatter ==
  /\ tree' \in Trees \cup {Nothing}
  /\ incidents' = incidents + 1
  /\ UNCHANGED <<offer, swap, foreign>>

ANext ==
  \/ \E t \in Transactions : Offer(t) \/ Book(t) \/ Apply(t) \/ BookAndApply(t) \/ Undo(t)
  \/ Foreign
  \/ Shatter

ASpec == AInit /\ [][ANext]_avars
=============================================================================
