------------------------------ MODULE MCConfig ------------------------------
(* Small instances of Config for TLC. *)
EXTENDS Config

CONSTANTS a1, n1, n2, v1, d1, d2

\* One IP address that the file, operators and peers give MAC addresses, one
\* entry of the MAC table, one route.
Arp(mac) == [kind |-> "arp", key |-> "ip1", mac |-> mac]
Fdb == [kind |-> "mac"]
Route == [kind |-> "route"]

MCRow == {Arp("m1"), Fdb, Route}
MCHeard == {Arp("m2")}

\* Three hand-written files, which differ in a listener's name, an interface's name
\* and its rows.
MCFiles ==
  {{[addr |-> a1, name |-> n1, ifcs |-> {[vni |-> v1, name |-> d1, rows |-> {Arp("m1"), Fdb}]}]},
   {[addr |-> a1, name |-> n1, ifcs |-> {[vni |-> v1, name |-> d2, rows |-> {Route}]}]},
   {[addr |-> a1, name |-> n2, ifcs |-> {}]}}
=============================================================================
