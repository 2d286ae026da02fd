------------------------------ MODULE MCTables ------------------------------
(* A small instance of Tables for TLC: two metrics of one network and        *)
(* gateway, and another gateway.                                             *)
EXTENDS Tables

MCRoute == {[net |-> "n1", gw |-> "g1", metric |-> 1], [net |-> "n1", gw |-> "g1", metric |-> 2],
            [net |-> "n1", gw |-> "g2", metric |-> 1]}
=============================================================================
