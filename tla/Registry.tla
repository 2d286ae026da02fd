------------------------------ MODULE Registry ------------------------------
(***************************************************************************)
(* What opening and closing listeners and interfaces (listener.go,         *)
(* interface.go) promises to those who do it at the same time: every       *)
(* listener and interface lives once, goes through its life in one order   *)
(* and in single steps, and while a listener closes its interfaces do not  *)
(* change.  How: the locks, the lists, the time between a comparison    *)
(* and an addition, the packet readers and the waits for them are the      *)
(* business of module Lifecycle.                                           *)
(***************************************************************************)
CONSTANTS Listener, Ifc, Name, Address, VNI, None

VARIABLES
  listener,  \* the life of each listener, with its name and its address
  ifc        \* the life of each interface, with its listener and its VNI

vars == <<listener, ifc>>

\* An object that is "closing" can still be found.
Listed(object) == object.life \in {"open", "closing"}

Init ==
  /\ listener = [l \in Listener |-> [life |-> "none", name |-> None, addr |-> None]]
  /\ ifc = [i \in Ifc |-> [life |-> "none", l |-> None, vni |-> None]]

\* A name and an address belong to one listener until it is gone.
Open(l, name, addr) ==
  /\ listener[l].life = "none"
  /\ \A k \in Listener :
       Listed(listener[k]) => listener[k].name # name /\ listener[k].addr # addr
  /\ listener' = [listener EXCEPT ![l] = [life |-> "open", name |-> name, addr |-> addr]]
  /\ UNCHANGED ifc

Close(l) ==
  /\ listener[l].life = "open"
  /\ listener' = [listener EXCEPT ![l].life = "closing"]
  /\ UNCHANGED ifc

Remove(l) ==
  /\ listener[l].life = "closing"
  /\ listener' = [listener EXCEPT ![l].life = "gone"]
  /\ UNCHANGED ifc

\* Who found a listener before it went may still add an interface to it.
Attach(i, l, vni) ==
  /\ ifc[i].life = "none"
  /\ listener[l].life \in {"open", "gone"}
  /\ \A j \in Ifc : Listed(ifc[j]) /\ ifc[j].l = l => ifc[j].vni # vni
  /\ ifc' = [ifc EXCEPT ![i] = [life |-> "open", l |-> l, vni |-> vni]]
  /\ UNCHANGED listener

CloseIfc(i) ==
  /\ ifc[i].life = "open"
  /\ ifc' = [ifc EXCEPT ![i].life = "closing"]
  /\ UNCHANGED listener

Detach(i) ==
  /\ ifc[i].life = "closing"
  /\ \E l \in Listener : ifc[i].l = l /\ listener[l].life \in {"open", "gone"}
  /\ ifc' = [ifc EXCEPT ![i].life = "gone"]
  /\ UNCHANGED listener

Next ==
  \/ \E l \in Listener :
       \/ \E name \in Name, addr \in Address : Open(l, name, addr)
       \/ Close(l)
       \/ Remove(l)
       \/ \E i \in Ifc, vni \in VNI : Attach(i, l, vni)
  \/ \E i \in Ifc : CloseIfc(i) \/ Detach(i)

Spec == Init /\ [][Next]_vars
=============================================================================
