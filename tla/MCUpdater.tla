----------------------------- MODULE MCUpdater ------------------------------
(* A small instance of Updater for TLC. *)
EXTENDS Updater

\* Processes are alike: when none runs, the next is called the same each time.
First == CHOOSE p \in Proc : TRUE
SameName == (\A p \in Proc : ~Alive(p)) => \A p \in Proc \ {First} : ~Alive(p)'

\* A quiet program and one that does not start are each tried with the other
\* in order.
SmallInit == Init /\ (quiet => broken = {})

SmallFairSpec == SmallInit /\ [][Next]_vars /\ Fairness
=============================================================================
