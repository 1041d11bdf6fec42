---------------------------- MODULE MCCoordinator ----------------------------
(* Small instances of the coordinator.  Every transaction is recorded in a  *)
(* run of its own, so that the logs add no interleavings to the states.     *)
EXTENDS CoordinatorProperties, TLC

CONSTANTS t1, t2, t3, h1, h2

TwoTransactions == {t1, t2}
ThreeTransactions == {t1, t2, t3}

SameIntent == [t \in Transactions |-> h1]
TwoIntents == (t1 :> h1) @@ [t \in Transactions |-> h2]
OwnRun == [t \in Transactions |-> t]

Symmetry == Permutations(Transactions)
=============================================================================
