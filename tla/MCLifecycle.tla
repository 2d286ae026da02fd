---------------------------- MODULE MCLifecycle ----------------------------
(* Small instances of Lifecycle for TLC. *)
EXTENDS Lifecycle, TLC

\* Handlers, interfaces, VNIs and listeners are interchangeable; names and
\* addresses are too, each among themselves.
Symmetry == Permutations(Handlers) \cup Permutations(Ifc) \cup Permutations(VNI)
SymmetryTwo == Permutations(Handlers) \cup Permutations(Listener)
                 \cup Permutations(Name) \cup Permutations(Address)
=============================================================================
