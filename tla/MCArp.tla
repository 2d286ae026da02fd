------------------------------- MODULE MCArp -------------------------------
(* Small instances of Arp for TLC. *)
EXTENDS Arp

\* Addresses are interchangeable, and so are the peers' MACs.
Symmetry == Permutations(Addr) \cup Permutations(Mac)
=============================================================================
