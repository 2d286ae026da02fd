------------------------------- MODULE MCTun --------------------------------
(* A small instance of Tun for TLC. *)
EXTENDS Tun

\* The listener begins with a maximum above the overhead, a smaller one comes
\* with SetMaxMessageSize; and an MTU of the operator's own is there from the
\* beginning on Windows, and on Linux after a SetMTU.
SmallInit ==
  /\ Init
  /\ max > Overhead
  /\ platform = "linux" => devMTU = max - Overhead

SmallFairSpec == SmallInit /\ [][Next]_vars /\ Fairness
=============================================================================
