----------------------------- MODULE MCMacTable -----------------------------
(* A small instance of MacTable for TLC. *)
EXTENDS MacTable

\* Two MACs, one of them known at two destinations: any two rows differ in two
\* words or more, so that a mixture of two is no row.
MCRow == {[MAC |-> "m1", Dst |-> "d1", Permanent |-> TRUE],
          [MAC |-> "m1", Dst |-> "d2", Permanent |-> FALSE],
          [MAC |-> "m2", Dst |-> "d3", Permanent |-> TRUE]}
=============================================================================
