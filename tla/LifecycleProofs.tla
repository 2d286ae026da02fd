-------------------------- MODULE LifecycleProofs --------------------------
(***************************************************************************)
(* Proofs about module Lifecycle, for any number of listeners, interfaces  *)
(* and handlers, and any names, addresses and VNIs.                        *)
(*                                                                         *)
(* The inductive invariant is IInv: who holds which lock, and what the     *)
(* holder of a lock knows of the object it locks.  The other properties    *)
(* are inductive relative to IInv; the lemmas of the section "Who changes  *)
(* what" give each its cases.                                              *)
(***************************************************************************)
EXTENDS Lifecycle, TLAPS

-----------------------------------------------------------------------------
(* The inductive invariant.                                                  *)

\* Each lock has one holder.
Exclusive ==
  /\ \A p, q \in Procs : HoldsApp(p) /\ HoldsApp(q) => p = q
  /\ \A p, q \in Procs, i \in Ifc : HoldsState(p, i) /\ HoldsState(q, i) => p = q

\* A listener that is being bound is not in the list yet, keeps app.Net, and
\* differs from every listener in the list.
Binding ==
  \A p \in Procs : proc[p].pc = "bind" =>
    LET l == proc[p].l IN
    /\ l \notin listeners
    /\ lst[l].name # None /\ lst[l].conn = "none"
    /\ \A k \in listeners : lst[k].name # lst[l].name /\ lst[k].addr # lst[l].addr

\* Names are given before the socket is opened, and kept.
ListenersMade ==
  /\ \A l \in Listener : /\ lst[l].name = None => lst[l].conn = "none"
                         /\ lst[l].conn = "none" => lst[l].reader = "none"
  /\ \A l \in listeners : lst[l].name # None

\* While Listener.Close holds l.net the socket is closed, the reader is not in
\* the middle of a packet, and SaveConfig cannot have kept the lock.
ClosingListener ==
  \A p \in Procs, l \in Listener : HoldsNet(p, l) =>
    /\ lst[l].conn = "closed"
    /\ lst[l].reader # "handle"
    /\ l \notin leaked

\* An interface is in no list but its listener's, and before it is made nothing
\* of it runs.  The goroutine that closes it is started by its reader's end.
IfcsMade ==
  /\ \A l \in Listener : \A i \in interfaces[l] : ifc[i].state # "none" /\ ifc[i].l = l
  /\ \A i \in Ifc : /\ ifc[i].state = "none" => ifc[i].reader = "none" /\ ifc[i].device = "none"
                    /\ ifc[i].reader # "stopped" => proc[i].pc = "idle"

\* While Interface.Close holds i.state the interface is closed and so is its
\* device.
ClosingIfcs ==
  \A p \in Procs, i \in Ifc : HoldsState(p, i) =>
    ifc[i].state = "closed" /\ ifc[i].device = "gone"

ListenerInv == Exclusive /\ Binding /\ ListenersMade /\ ClosingListener
IfcInv == IfcsMade /\ ClosingIfcs
IInv == TypeOK /\ ListenerInv /\ IfcInv

-----------------------------------------------------------------------------
(* What the steps of a goroutine do to proc.                                 *)

\* A goroutine's state changes and no other's does.
LEMMA BecomeEffect ==
  ASSUME proc \in [Procs -> ProcState], NEW p \in Procs, NEW s \in ProcState, Become(p, s)
  PROVE  /\ proc' \in [Procs -> ProcState]
         /\ proc'[p] = s
         /\ \A q \in Procs : q # p => proc'[q] = proc[q]
  BY DEF Become

\* The same, when only its program counter changes.
LEMMA GotoEffect ==
  ASSUME proc \in [Procs -> ProcState], NEW p \in Procs, NEW pc \in PC, Goto(p, pc),
         pc \in OnListener => proc[p].l # None,
         pc \in ClosingIfc <=> proc[p].i # None
  PROVE  /\ proc' \in [Procs -> ProcState]
         /\ proc'[p].pc = pc /\ proc'[p].l = proc[p].l /\ proc'[p].i = proc[p].i
         /\ \A q \in Procs : q # p => proc'[q] = proc[q]
<1> DEFINE s == [proc[p] EXCEPT !.pc = pc]
<1>1. s \in ProcState /\ s.pc = pc /\ s.l = proc[p].l /\ s.i = proc[p].i
  BY DEF ProcState
<1>2. Become(p, s)
  BY DEF Goto
<1> HIDE DEF s
<1> QED BY <1>1, <1>2, BecomeEffect

\* The program counters are told apart by the sets that collect them.
LEMMA PCs ==
  /\ {"idle", "bind", "newIfc", "findIfc", "list", "save", "close", "stop", "remove", "loop",
      "first", "quit", "quitFirst", "state", "stopIfc", "detach"} = PC
  BY DEF PC, ClosingIfc

-----------------------------------------------------------------------------
(* Type correctness.                                                         *)

LEMMA InitTypes == Init => TypeOK
<1> SUFFICES ASSUME Init PROVE TypeOK
  OBVIOUS
<1>1. Idle \in ProcState /\ Idle.pc = "idle" /\ Idle.i = None
  BY PCs DEF Idle, ProcState, OnListener, ClosingIfc
<1> QED BY <1>1 DEF Init, TypeOK, ListenerState, IfcState, OnListener, ClosingIfc

-----------------------------------------------------------------------------
(* Steps that change nothing but the state of one goroutine, take listeners  *)
(* and interfaces out of the lists, or leave a lock behind.                  *)

\* What a goroutine in state s holds.
AppIn(s) == \/ s.pc \in {"bind", "list", "save", "loop", "first"}
            \/ s.pc \in ClosingIfc /\ s.l # None
NetIn(s) == s.pc \in {"stop", "remove"}
StateIn(s) == s.pc \in {"stopIfc", "detach"}

\* Goroutine p goes to state s, taking no lock but a free app.Net, and only if
\* it is not a goroutine yet to be started.
Moves(p, s) ==
  /\ s \in ProcState
  /\ Become(p, s)
  /\ s.pc # "bind"
  /\ AppIn(s) => HoldsApp(p) \/ AppFree
  /\ NetIn(s) => HoldsNet(p, s.l)
  /\ StateIn(s) => HoldsState(p, s.i)
  /\ p \in Ifc => ifc[p].reader = "stopped"

\* The lists of listeners and interfaces only shrink.
Shrinks ==
  /\ listeners' \subseteq listeners
  /\ interfaces' \in [Listener -> SUBSET Ifc]
  /\ \A l \in Listener : interfaces'[l] \subseteq interfaces[l]

LEMMA MoveKeepsInv ==
  ASSUME IInv, NEW p \in Procs, NEW s, Moves(p, s), Shrinks, UNCHANGED <<lst, ifc>>,
         status' \in {"running", "exited", "crashed"},
         leaked' \subseteq Listener,
         \A q \in Procs, l \in Listener : HoldsNet(q, l) => l \notin leaked'
  PROVE  IInv'
<1>1. /\ proc' \in [Procs -> ProcState]
      /\ proc'[p] = s
      /\ \A q \in Procs : q # p => proc'[q] = proc[q]
  BY BecomeEffect DEF Moves, IInv, TypeOK
<1>2. TypeOK'
  BY <1>1 DEF IInv, TypeOK, Shrinks
<1>3. Exclusive'
  BY <1>1 DEF Moves, AppIn, NetIn, StateIn, IInv, ListenerInv, Exclusive, HoldsApp, HoldsState, AppFree
<1>4. Binding'
  BY <1>1 DEF Moves, Shrinks, IInv, ListenerInv, Binding
<1>5. ListenersMade'
  BY DEF Shrinks, IInv, ListenerInv, ListenersMade
<1>6. ClosingListener'
  BY <1>1 DEF Moves, NetIn, IInv, ListenerInv, ClosingListener, HoldsNet
<1>7. IfcsMade'
  BY <1>1 DEF Moves, Shrinks, IInv, IfcInv, IfcsMade, Procs
<1>8. ClosingIfcs'
  BY <1>1 DEF Moves, StateIn, IInv, IfcInv, ClosingIfcs, HoldsState
<1> QED BY <1>2, <1>3, <1>4, <1>5, <1>6, <1>7, <1>8 DEF IInv, ListenerInv, IfcInv

\* Nothing but the process's status changes.
LEMMA CrashKeepsInv ==
  ASSUME IInv, status' \in {"running", "exited", "crashed"},
         UNCHANGED <<listeners, lst, interfaces, ifc, leaked, proc>>
  PROVE  IInv'
<1>1. TypeOK'
  BY DEF IInv, TypeOK
<1>2. ListenerInv'
  BY DEF IInv, ListenerInv, Exclusive, Binding, ListenersMade, ClosingListener,
         HoldsApp, HoldsState, HoldsNet
<1>3. IfcInv'
  BY DEF IInv, IfcInv, IfcsMade, ClosingIfcs, HoldsState
<1> QED BY <1>1, <1>2, <1>3 DEF IInv

\* The states a goroutine inside an operation moves to are well formed.
LEMMA NextStates ==
  ASSUME IInv, NEW p \in Procs
  PROVE  /\ proc[p] \in ProcState
         /\ proc[p].pc \in OnListener => proc[p].l \in Listener
         /\ proc[p].pc \in ClosingIfc => proc[p].i \in Ifc
         /\ proc[p].pc # "idle" => (p \in Ifc => ifc[p].reader = "stopped")
         /\ Idle \in ProcState /\ Idle.pc = "idle"
<1>1. proc[p] \in ProcState
  BY DEF IInv, TypeOK
<1>2. Idle \in ProcState /\ Idle.pc = "idle"
  BY PCs DEF Idle, ProcState, OnListener, ClosingIfc
<1> QED BY <1>1, <1>2 DEF ProcState, IInv, IfcInv, IfcsMade

\* A goroutine that is done holds nothing.
LEMMA ReturnMoves ==
  ASSUME IInv, NEW p \in Procs, Become(p, Idle), proc[p].pc # "idle"
  PROVE  Moves(p, Idle)
  BY NextStates DEF Moves, AppIn, NetIn, StateIn, ClosingIfc

\* A handler or the shutdown loop that starts an operation on a listener.
LEMMA StartMoves ==
  ASSUME IInv, NEW p \in Procs \ Ifc, NEW s \in ProcState, Become(p, s),
         s.pc \in {"newIfc", "findIfc", "list", "save", "close"},
         s.pc \in {"list", "save"} => AppFree
  PROVE  Moves(p, s)
  BY DEF Moves, AppIn, NetIn, StateIn, ClosingIfc

\* The steps inside an operation that only change the program counter.
LEMMA GotoMoves ==
  ASSUME IInv, NEW p \in Procs, NEW pc \in PC, Goto(p, pc),
         <<proc[p].pc, pc>> \in {<<"stop", "remove">>, <<"remove", "loop">>, <<"loop", "first">>,
                                 <<"stopIfc", "detach">>, <<"idle", "quit">>,
                                 <<"quit", "quitFirst">>},
         pc = "loop" => AppFree,
         proc[p].pc = "idle" => p = Quit
  PROVE  Moves(p, [proc[p] EXCEPT !.pc = pc])
<1> DEFINE s == [proc[p] EXCEPT !.pc = pc]
<1>1. /\ s \in ProcState
      /\ s.pc = pc /\ s.l = proc[p].l /\ s.i = proc[p].i
  BY NextStates DEF ProcState, OnListener, ClosingIfc
<1>2. Become(p, s)
  BY DEF Goto
<1> HIDE DEF s
<1>3. p \in Ifc => ifc[p].reader = "stopped"
  BY NextStates, ConstAssumption DEF Procs
<1>4. \/ proc[p].pc = "stop" /\ pc = "remove"
      \/ proc[p].pc = "remove" /\ pc = "loop"
      \/ proc[p].pc = "loop" /\ pc = "first"
      \/ proc[p].pc = "stopIfc" /\ pc = "detach"
      \/ pc \in {"quit", "quitFirst"}
  OBVIOUS
<1>5. AppIn(s) => HoldsApp(p) \/ AppFree
  BY <1>1, <1>4 DEF AppIn, ClosingIfc, HoldsApp
<1>6. NetIn(s) => HoldsNet(p, s.l)
  BY <1>1, <1>4 DEF NetIn, HoldsNet
<1>7. StateIn(s) => HoldsState(p, s.i)
  BY <1>1, <1>4 DEF StateIn, HoldsState
<1>8. Moves(p, s)
  BY <1>1, <1>2, <1>3, <1>4, <1>5, <1>6, <1>7 DEF Moves
<1>9. QED BY <1>8 DEF s

\* The end of Interface.Close.
LEMMA ClosedIfcMoves ==
  ASSUME IInv, NEW p \in Procs, proc[p].pc \in ClosingIfc, ClosedIfc(p)
  PROVE  \E s : Moves(p, s)
<1>1. CASE proc[p].l = None
  <2>1. Become(p, Idle)
    BY <1>1 DEF ClosedIfc
  <2>2. QED BY <2>1, ReturnMoves DEF ClosingIfc
<1>2. CASE proc[p].l # None
  <2> DEFINE s == [proc[p] EXCEPT !.pc = "loop", !.i = None]
  <2>1. s \in ProcState /\ s.pc = "loop" /\ s.l # None
    BY <1>2, NextStates DEF ProcState, OnListener, ClosingIfc, PC
  <2>2. Become(p, s)
    BY <1>2 DEF ClosedIfc
  <2> HIDE DEF s
  <2>3. p \in Ifc => ifc[p].reader = "stopped"
    BY NextStates DEF ClosingIfc
  <2>4. QED BY <1>2, <2>1, <2>2, <2>3 DEF Moves, AppIn, NetIn, StateIn, ClosingIfc, HoldsApp
<1>3. QED BY <1>1, <1>2

-----------------------------------------------------------------------------
(* The other steps.                                                          *)

LEMMA NewListenerInv ==
  ASSUME IInv, NEW h \in Handlers, NEW l \in Listener, NEW name \in Name, NEW addr \in Address,
         NewListener(h, l, name, addr)
  PROVE  IInv'
<1> DEFINE s == [Idle EXCEPT !.pc = "bind", !.l = l]
<1>1. s \in ProcState /\ s.pc = "bind" /\ s.l = l
  BY ConstAssumption DEF Idle, ProcState, PC, OnListener, ClosingIfc
<1>2. /\ h \in Procs \ Ifc
      /\ Become(h, s)
  BY ConstAssumption DEF NewListener, Procs
<1> HIDE DEF s
<1>3. /\ proc' \in [Procs -> ProcState] /\ proc'[h] = s
      /\ \A q \in Procs : q # h => proc'[q] = proc[q]
  BY <1>1, <1>2, BecomeEffect DEF IInv, TypeOK
<1>4. /\ lst \in [Listener -> ListenerState] /\ lst' \in [Listener -> ListenerState]
      /\ lst[l].name = None /\ lst'[l].name = name /\ lst'[l].addr = addr
      /\ lst'[l].conn = lst[l].conn /\ lst'[l].reader = lst[l].reader
      /\ \A k \in Listener : k # l => lst'[k] = lst[k]
      /\ name # None
  <2>1. lst \in [Listener -> ListenerState] /\ lst[l].name = None
    BY DEF NewListener, IInv, TypeOK
  <2>2. lst' = [lst EXCEPT ![l].name = name, ![l].addr = addr]
    BY DEF NewListener
  <2>3. name # None
    BY ConstAssumption
  <2>4. QED BY <2>1, <2>2, <2>3 DEF ListenerState
<1>5. AppFree /\ proc[h].pc = "idle"
      /\ UNCHANGED <<status, listeners, interfaces, ifc, leaked>>
  BY DEF NewListener, At
<1>6. TypeOK'
  BY <1>3, <1>4, <1>5 DEF IInv, TypeOK
<1>7. Exclusive'
  BY <1>1, <1>3, <1>5 DEF IInv, ListenerInv, Exclusive, AppFree, HoldsApp, HoldsState, ClosingIfc
<1>8. Binding'
  <2>1. l \notin listeners /\ lst[l].conn = "none"
    BY <1>4 DEF IInv, ListenerInv, ListenersMade
  <2>2. \A k \in listeners : lst'[k].name # name /\ lst'[k].addr # addr
    BY <1>4, <2>1 DEF NewListener, IInv, TypeOK
  <2>3. \A q \in Procs : q # h => proc'[q].pc # "bind"
    BY <1>3, <1>5 DEF AppFree, HoldsApp
  <2>4. QED BY <1>1, <1>3, <1>4, <1>5, <2>1, <2>2, <2>3 DEF Binding
<1>9. ListenersMade'
  BY <1>4, <1>5 DEF IInv, TypeOK, ListenerInv, ListenersMade
<1>10. ClosingListener'
  BY <1>1, <1>3, <1>4, <1>5 DEF IInv, ListenerInv, ClosingListener, HoldsNet
<1>11. IfcInv'
  BY <1>1, <1>2, <1>3, <1>5 DEF IInv, IfcInv, IfcsMade, ClosingIfcs, HoldsState, Procs
<1>12. QED BY <1>6, <1>7, <1>8, <1>9, <1>10, <1>11 DEF IInv, ListenerInv

LEMMA BindInv ==
  ASSUME IInv, NEW h \in Procs, Bind(h)
  PROVE  IInv'
<1> DEFINE l == proc[h].l
<1>1. /\ proc' \in [Procs -> ProcState] /\ proc'[h].pc = "idle"
      /\ \A q \in Procs : q # h => proc'[q] = proc[q]
      /\ h \in Ifc => ifc[h].reader = "stopped"
  BY NextStates, BecomeEffect DEF Bind, At, IInv, TypeOK
<1>2. /\ proc[h].pc = "bind" /\ l \in Listener
      /\ l \notin listeners
      /\ lst[l].name # None /\ lst[l].conn = "none" /\ lst[l].reader = "none"
      /\ \A q \in Procs : q # h => proc[q].pc # "bind"
  BY NextStates DEF Bind, At, OnListener, IInv, ListenerInv, Binding, ListenersMade, Exclusive, HoldsApp
<1>3. \A q \in Procs : ~HoldsNet(q, l)
  BY <1>2 DEF IInv, ListenerInv, ClosingListener
<1>4. UNCHANGED <<status, interfaces, ifc, leaked>>
  BY DEF Bind
<1>5. Exclusive'
  BY <1>1 DEF IInv, ListenerInv, Exclusive, HoldsApp, HoldsState, ClosingIfc
<1>6. Binding'
  BY <1>1, <1>2 DEF Binding
<1>7. IfcInv'
  BY <1>1, <1>4 DEF IInv, IfcInv, IfcsMade, ClosingIfcs, HoldsState, Procs
<1>8. CASE /\ listeners' = listeners \cup {l}
           /\ lst' = [lst EXCEPT ![l].conn = "open", ![l].reader = "start"]
  <2>1. /\ lst' \in [Listener -> ListenerState]
        /\ lst'[l].name = lst[l].name /\ lst'[l].conn = "open"
        /\ \A k \in Listener : k # l => lst'[k] = lst[k]
    BY <1>2, <1>8 DEF IInv, TypeOK, ListenerState
  <2>2. TypeOK'
    BY <1>1, <1>2, <1>4, <1>8, <2>1 DEF IInv, TypeOK
  <2>3. ListenersMade'
    BY <1>2, <1>8, <2>1 DEF IInv, TypeOK, ListenerInv, ListenersMade
  <2>4. ClosingListener'
    BY <1>1, <1>3, <1>4, <2>1 DEF IInv, ListenerInv, ClosingListener, HoldsNet
  <2>5. QED BY <1>5, <1>6, <1>7, <2>2, <2>3, <2>4 DEF IInv, ListenerInv
<1>9. CASE /\ lst' = [lst EXCEPT ![l].name = None, ![l].addr = None]
           /\ UNCHANGED listeners
  <2>1. /\ lst' \in [Listener -> ListenerState]
        /\ lst'[l].conn = lst[l].conn /\ lst'[l].reader = lst[l].reader
        /\ \A k \in Listener : k # l => lst'[k] = lst[k]
    BY <1>2, <1>9 DEF IInv, TypeOK, ListenerState
  <2>2. TypeOK'
    BY <1>1, <1>4, <1>9, <2>1 DEF IInv, TypeOK
  <2>3. ListenersMade'
    BY <1>2, <1>9, <2>1 DEF IInv, TypeOK, ListenerInv, ListenersMade
  <2>4. ClosingListener'
    BY <1>1, <1>3, <1>4, <2>1 DEF IInv, ListenerInv, ClosingListener, HoldsNet
  <2>5. QED BY <1>5, <1>6, <1>7, <2>2, <2>3, <2>4 DEF IInv, ListenerInv
<1>10. QED BY <1>8, <1>9 DEF Bind

\* Steps that change interfaces and leave the goroutines and listeners alone, or
\* put a goroutine on the way to or from i.state.
LEMMA IfcKeepsListeners ==
  ASSUME IInv, UNCHANGED <<listeners, lst, leaked>>, NEW p \in Procs,
         \A q \in Procs : q # p => proc'[q] = proc[q],
         proc'[p] = proc[p] \/ (/\ proc'[p].pc \in {"idle"} \cup ClosingIfc
                                /\ \A q, i : HoldsState(q, i)' /\ q \in Procs =>
                                      HoldsState(q, i) \/ (q = p /\ StateFree(i))
                                /\ HoldsApp(p)' => HoldsApp(p))
  PROVE  ListenerInv'
<1>1. Exclusive'
  BY DEF IInv, ListenerInv, Exclusive, HoldsApp, HoldsState, ClosingIfc, StateFree
<1>2. Binding' /\ ListenersMade'
  BY DEF IInv, ListenerInv, Binding, ListenersMade, ClosingIfc
<1>3. ClosingListener'
  BY DEF IInv, ListenerInv, ClosingListener, HoldsNet, ClosingIfc
<1>4. QED BY <1>1, <1>2, <1>3 DEF ListenerInv

LEMMA NewInterfaceInv ==
  ASSUME IInv, NEW h \in Procs, NewInterface(h)
  PROVE  IInv'
<1>1. /\ Become(h, Idle) /\ proc[h].pc # "idle" /\ proc[h].l \in Listener
      /\ UNCHANGED <<status, listeners, lst, leaked>>
  BY NextStates DEF NewInterface, At, OnListener
<1>2. CASE UNCHANGED <<interfaces, ifc>>
  <2>1. Moves(h, Idle)
    BY <1>1, ReturnMoves
  <2>2. Shrinks /\ leaked' \subseteq Listener /\ status' \in {"running", "exited", "crashed"}
    BY <1>1, <1>2 DEF Shrinks, IInv, TypeOK
  <2>3. \A q \in Procs, l \in Listener : HoldsNet(q, l) => l \notin leaked'
    BY <1>1 DEF IInv, ListenerInv, ClosingListener
  <2>4. QED BY <1>1, <1>2, <2>1, <2>2, <2>3, MoveKeepsInv
<1>3. ASSUME NEW i \in Ifc, NEW v \in VNI, ifc[i].state = "none",
             ifc' = [ifc EXCEPT ![i] = [l |-> proc[h].l, vni |-> v, state |-> "live",
                                        device |-> "up", reader |-> "start"]],
             interfaces' = [interfaces EXCEPT ![proc[h].l] = @ \cup {i}]
      PROVE  IInv'
  <2>1. /\ proc' \in [Procs -> ProcState] /\ proc'[h] = Idle /\ Idle.pc = "idle"
        /\ \A q \in Procs : q # h => proc'[q] = proc[q]
        /\ i \in Procs /\ proc[i].pc = "idle"
    BY <1>1, <1>3, NextStates, BecomeEffect DEF IInv, TypeOK, IfcInv, IfcsMade, Procs
  <2>2. /\ ifc' \in [Ifc -> IfcState]
        /\ ifc'[i].state = "live" /\ ifc'[i].l = proc[h].l /\ ifc'[i].reader = "start"
        /\ \A j \in Ifc : j # i => ifc'[j] = ifc[j]
    BY <1>1, <1>3 DEF IInv, TypeOK, IfcState
  <2>3. /\ interfaces' \in [Listener -> SUBSET Ifc]
        /\ \A l \in Listener : interfaces'[l] =
              IF l = proc[h].l THEN interfaces[l] \cup {i} ELSE interfaces[l]
    BY <1>1, <1>3 DEF IInv, TypeOK
  <2>4. TypeOK'
    BY <1>1, <2>1, <2>2, <2>3 DEF IInv, TypeOK
  <2>5. ListenerInv'
    BY <1>1, <2>1, IfcKeepsListeners DEF HoldsApp, HoldsState, ClosingIfc
  <2>6. IfcsMade'
    BY <1>3, <2>1, <2>2, <2>3 DEF IInv, TypeOK, IfcInv, IfcsMade, Procs
  <2>7. ClosingIfcs'
    BY <1>3, <2>1, <2>2 DEF IInv, IfcInv, ClosingIfcs, HoldsState
  <2>8. QED BY <2>4, <2>5, <2>6, <2>7 DEF IInv, IfcInv
<1>4. QED BY <1>2, <1>3 DEF NewInterface

LEMMA CloseConnInv ==
  ASSUME IInv, NEW p \in Procs, CloseConn(p)
  PROVE  IInv'
<1> DEFINE l == proc[p].l
<1>1. /\ proc[p].pc = "close" /\ l \in Listener /\ NetFree(l)
      /\ UNCHANGED <<listeners, interfaces, ifc, leaked>>
      /\ p \in Ifc => ifc[p].reader = "stopped"
  BY NextStates DEF CloseConn, At, OnListener
<1>2. CASE Crash /\ UNCHANGED <<lst, proc>>
  BY <1>1, <1>2, CrashKeepsInv DEF Crash
<1>3. CASE /\ lst[l].conn = "open"
           /\ lst' = [lst EXCEPT ![l].conn = "closed"]
           /\ Goto(p, "stop")
           /\ UNCHANGED status
  <2>1. /\ proc' \in [Procs -> ProcState]
        /\ proc'[p].pc = "stop" /\ proc'[p].l = l /\ proc'[p].i = proc[p].i
        /\ \A q \in Procs : q # p => proc'[q] = proc[q]
    <3>1. "stop" \in PC /\ proc[p].i = None /\ l # None
      BY <1>1, NextStates, ConstAssumption DEF PC, OnListener, ClosingIfc, ProcState
    <3>2. QED BY <1>1, <1>3, <3>1, GotoEffect DEF IInv, TypeOK, OnListener, ClosingIfc
  <2>2. /\ lst' \in [Listener -> ListenerState]
        /\ lst'[l].name = lst[l].name /\ lst'[l].addr = lst[l].addr
        /\ lst'[l].conn = "closed" /\ lst'[l].reader = lst[l].reader
        /\ \A k \in Listener : k # l => lst'[k] = lst[k]
    BY <1>1, <1>3 DEF IInv, TypeOK, ListenerState
  <2>3. TypeOK'
    BY <1>1, <1>3, <2>1, <2>2 DEF IInv, TypeOK
  <2>4. Exclusive'
    BY <1>1, <2>1 DEF IInv, ListenerInv, Exclusive, HoldsApp, HoldsState, ClosingIfc
  <2>5. Binding'
    <3>1. \A q \in Procs : proc[q].pc = "bind" => proc[q].l # l
      BY <1>3 DEF IInv, ListenerInv, Binding
    <3>2. \A k \in Listener : lst'[k].name = lst[k].name /\ lst'[k].addr = lst[k].addr
      BY <2>2
    <3>3. \A q \in Procs : proc[q].pc = "bind" => proc[q].l \in Listener
      BY NextStates DEF OnListener
    <3>4. QED BY <1>1, <2>1, <2>2, <3>1, <3>2, <3>3 DEF IInv, TypeOK, ListenerInv, Binding
  <2>6. ListenersMade'
    BY <1>1, <1>3, <2>2 DEF IInv, TypeOK, ListenerInv, ListenersMade
  <2>7. ClosingListener'
    BY <1>1, <2>1, <2>2 DEF IInv, ListenerInv, ClosingListener, HoldsNet, NetFree, NetWriter
  <2>8. IfcInv'
    BY <1>1, <2>1 DEF IInv, IfcInv, IfcsMade, ClosingIfcs, HoldsState, Procs
  <2>9. QED BY <2>3, <2>4, <2>5, <2>6, <2>7, <2>8 DEF IInv, ListenerInv
<1>4. QED BY <1>2, <1>3 DEF CloseConn

LEMMA CloseDeviceInv ==
  ASSUME IInv, NEW p \in Procs, CloseDevice(p)
  PROVE  IInv'
<1> DEFINE i == proc[p].i
<1>1. /\ proc[p].pc = "state" /\ i \in Ifc /\ StateFree(i)
      /\ UNCHANGED <<status, listeners, lst, interfaces, leaked>>
      /\ p \in Ifc => ifc[p].reader = "stopped"
  BY NextStates DEF CloseDevice, At, ClosingIfc
<1>2. CASE ClosedIfc(p) /\ UNCHANGED ifc
  <2>1. PICK s : Moves(p, s)
    BY <1>1, <1>2, ClosedIfcMoves DEF ClosingIfc
  <2>2. Shrinks /\ leaked' \subseteq Listener /\ status' \in {"running", "exited", "crashed"}
    BY <1>1 DEF Shrinks, IInv, TypeOK
  <2>3. \A q \in Procs, l \in Listener : HoldsNet(q, l) => l \notin leaked'
    BY <1>1 DEF IInv, ListenerInv, ClosingListener
  <2>4. QED BY <1>1, <1>2, <2>1, <2>2, <2>3, MoveKeepsInv
<1>3. CASE /\ ifc[i].state = "live"
           /\ ifc' = [ifc EXCEPT ![i].state = "closed", ![i].device = "gone"]
           /\ Goto(p, "stopIfc")
  <2>1. /\ proc' \in [Procs -> ProcState]
        /\ proc'[p].pc = "stopIfc" /\ proc'[p].l = proc[p].l /\ proc'[p].i = i
        /\ \A q \in Procs : q # p => proc'[q] = proc[q]
    <3>1. "stopIfc" \in PC /\ i # None
      BY <1>1, NextStates, ConstAssumption DEF PC, ClosingIfc
    <3>2. QED BY <1>1, <1>3, <3>1, GotoEffect DEF IInv, TypeOK, OnListener, ClosingIfc
  <2>2. /\ ifc' \in [Ifc -> IfcState]
        /\ \A j \in Ifc : ifc'[j].l = ifc[j].l /\ ifc'[j].reader = ifc[j].reader
        /\ ifc'[i].state = "closed" /\ ifc'[i].device = "gone"
        /\ \A j \in Ifc : j # i => ifc'[j] = ifc[j]
    BY <1>1, <1>3 DEF IInv, TypeOK, IfcState
  <2>3. TypeOK'
    BY <1>1, <2>1, <2>2 DEF IInv, TypeOK
  <2>4. ListenerInv'
    <3>1. HoldsApp(p)' => HoldsApp(p)
      BY <1>1, <2>1 DEF HoldsApp, ClosingIfc
    <3>2. \A q, j : HoldsState(q, j)' /\ q \in Procs =>
             HoldsState(q, j) \/ (q = p /\ StateFree(j))
      BY <1>1, <2>1 DEF HoldsState
    <3>3. QED BY <1>1, <2>1, <3>1, <3>2, IfcKeepsListeners DEF ClosingIfc
  <2>5. IfcsMade'
    <3>1. \A l \in Listener : \A j \in interfaces'[l] : ifc'[j].state # "none" /\ ifc'[j].l = l
      BY <1>1, <2>2 DEF IInv, TypeOK, IfcInv, IfcsMade
    <3>2. \A j \in Ifc : ifc'[j].state = "none" => ifc'[j].reader = "none" /\ ifc'[j].device = "none"
      BY <2>2 DEF IInv, IfcInv, IfcsMade
    <3>3. ASSUME NEW j \in Ifc, ifc'[j].reader # "stopped" PROVE proc'[j].pc = "idle"
      <4>1. proc[j].pc = "idle"
        BY <2>2, <3>3 DEF IInv, IfcInv, IfcsMade
      <4>2. p # j
        BY <1>1, <4>1
      <4>3. QED BY <2>1, <4>1, <4>2 DEF Procs
    <3>4. QED BY <3>1, <3>2, <3>3 DEF IfcsMade
  <2>6. ClosingIfcs'
    BY <1>1, <2>1, <2>2 DEF IInv, IfcInv, ClosingIfcs, HoldsState
  <2>7. QED BY <2>3, <2>4, <2>5, <2>6 DEF IInv, IfcInv
<1>4. QED BY <1>2, <1>3 DEF CloseDevice

\* The listener's packet reader goes from one state to another.
LEMMA ReadingInv ==
  ASSUME IInv, NEW l \in Listener,
         NEW from \in {"start", "read", "rlock", "handle"},
         NEW to \in {"read", "rlock", "handle", "stopped"}, Reading(l, from, to),
         to = "handle" => NetRFree(l)
  PROVE  IInv'
<1>1. /\ lst[l].reader = from
      /\ lst' = [lst EXCEPT ![l].reader = to]
      /\ UNCHANGED <<status, listeners, interfaces, ifc, leaked, proc>>
  BY DEF Reading
<1>2. /\ lst' \in [Listener -> ListenerState]
      /\ lst'[l].reader = to
      /\ \A k \in Listener : k # l => lst'[k] = lst[k]
      /\ \A k \in Listener : /\ lst'[k].name = lst[k].name /\ lst'[k].addr = lst[k].addr
                             /\ lst'[k].conn = lst[k].conn
  BY <1>1 DEF IInv, TypeOK, ListenerState
<1>3. TypeOK'
  BY <1>1, <1>2 DEF IInv, TypeOK
<1>4. Exclusive'
  BY <1>1 DEF IInv, ListenerInv, Exclusive, HoldsApp, HoldsState
<1>5. Binding'
  <2>1. \A q \in Procs : proc[q].pc = "bind" => proc[q].l \in Listener
    BY NextStates DEF OnListener
  <2>2. QED BY <1>1, <1>2, <2>1 DEF IInv, TypeOK, ListenerInv, Binding
<1>6. ListenersMade'
  BY <1>1, <1>2 DEF IInv, TypeOK, ListenerInv, ListenersMade
<1>7. ClosingListener'
  BY <1>1, <1>2 DEF IInv, ListenerInv, ClosingListener, HoldsNet, NetRFree, NetWriter
<1>8. IfcInv'
  BY <1>1 DEF IInv, IfcInv, IfcsMade, ClosingIfcs, HoldsState
<1>9. QED BY <1>3, <1>4, <1>5, <1>6, <1>7, <1>8 DEF IInv, ListenerInv

\* The interface's packet reader, and the failure of its device.
LEMMA IfcReadingInv ==
  ASSUME IInv, NEW i \in Ifc, UNCHANGED <<status, listeners, lst, interfaces, leaked>>,
         NEW r \in {"none", "start", "read", "forward", "stopped"},
         NEW d \in {"none", "up", "gone"},
         ifc' = [ifc EXCEPT ![i].reader = r, ![i].device = d],
         ifc[i].state # "none",
         ifc[i].reader = "stopped" => r = "stopped",
         d = ifc[i].device \/ d = "gone",
         \/ UNCHANGED proc
         \/ /\ r = "stopped" /\ ifc[i].reader # "stopped"
            /\ Become(i, [Idle EXCEPT !.pc = "state", !.i = i])
  PROVE  IInv'
<1> DEFINE s == [Idle EXCEPT !.pc = "state", !.i = i]
<1>1. i \in Procs
  BY DEF Procs
<1>2. s \in ProcState /\ s.pc = "state" /\ s.l = None
  BY ConstAssumption DEF Idle, ProcState, PC, OnListener, ClosingIfc
<1>3. ASSUME Become(i, s)
      PROVE  /\ proc' \in [Procs -> ProcState] /\ proc'[i] = s
             /\ \A q \in Procs : q # i => proc'[q] = proc[q]
  BY <1>1, <1>2, <1>3, BecomeEffect DEF IInv, TypeOK
<1> HIDE DEF s
<1>4. /\ proc' \in [Procs -> ProcState]
      /\ \A q \in Procs : q # i => proc'[q] = proc[q]
      /\ proc'[i] = proc[i] \/ (proc'[i] = s /\ r = "stopped" /\ ifc[i].reader # "stopped")
  BY <1>3 DEF IInv, TypeOK, s
<1>5. /\ ifc' \in [Ifc -> IfcState]
      /\ ifc'[i].reader = r /\ ifc'[i].device = d
      /\ \A j \in Ifc : ifc'[j].l = ifc[j].l /\ ifc'[j].state = ifc[j].state
      /\ \A j \in Ifc : j # i => ifc'[j] = ifc[j]
  <2>1. ifc \in [Ifc -> IfcState] /\ ifc' = [ifc EXCEPT ![i].reader = r, ![i].device = d]
    BY DEF IInv, TypeOK
  <2> DEFINE new == [[ifc[i] EXCEPT !.reader = r] EXCEPT !.device = d]
  <2>2. /\ new \in IfcState /\ new.reader = r /\ new.device = d
        /\ new.l = ifc[i].l /\ new.state = ifc[i].state
    BY <2>1 DEF IfcState
  <2>3. ifc' = [ifc EXCEPT ![i] = new]
    BY <2>1
  <2> HIDE DEF new
  <2>4. QED BY <2>1, <2>2, <2>3
<1>6. TypeOK'
  BY <1>4, <1>5 DEF IInv, TypeOK
<1>7. ListenerInv'
  BY <1>1, <1>2, <1>4, IfcKeepsListeners DEF HoldsApp, HoldsState, ClosingIfc
<1>8. IfcsMade'
  BY <1>1, <1>2, <1>4, <1>5 DEF IInv, TypeOK, IfcInv, IfcsMade, Procs
<1>9. ClosingIfcs'
  BY <1>1, <1>2, <1>4, <1>5 DEF IInv, IfcInv, ClosingIfcs, HoldsState
<1>10. QED BY <1>6, <1>7, <1>8, <1>9 DEF IInv, IfcInv

-----------------------------------------------------------------------------
(* The invariant is inductive.                                               *)

LEMMA InitInv == Init => IInv
<1> SUFFICES ASSUME Init PROVE IInv
  OBVIOUS
<1>1. Idle.pc = "idle"
  BY DEF Idle
<1>2. TypeOK
  BY InitTypes
<1>3. \A p \in Procs : proc[p].pc = "idle"
  BY <1>1 DEF Init
<1>4. ListenerInv
  BY <1>3 DEF Init, ListenerInv, Exclusive, Binding, ListenersMade, ClosingListener,
              HoldsApp, HoldsState, HoldsNet, ClosingIfc
<1>5. IfcInv
  BY <1>3 DEF Init, IfcInv, IfcsMade, ClosingIfcs, HoldsState, Procs
<1>6. QED BY <1>2, <1>4, <1>5 DEF IInv

\* A move with nothing taken out of the lists and no lock left behind.
LEMMA PlainMove ==
  ASSUME IInv, NEW p \in Procs, NEW s, Moves(p, s),
         UNCHANGED <<listeners, lst, interfaces, ifc, leaked>>,
         status' \in {"running", "exited", "crashed"}
  PROVE  IInv'
<1>1. Shrinks /\ leaked' \subseteq Listener
  BY DEF Shrinks, IInv, TypeOK
<1>2. \A q \in Procs, l \in Listener : HoldsNet(q, l) => l \notin leaked'
  BY DEF IInv, ListenerInv, ClosingListener
<1>3. QED BY <1>1, <1>2, MoveKeepsInv

\* The calls of the handlers.
LEMMA CallsInv ==
  ASSUME IInv, NEW h \in Handlers, NEW l \in Listener, FindListener(h, l) \/ Scan(h, l)
  PROVE  IInv'
<1>1. /\ h \in Procs \ Ifc /\ AppFree /\ l \in listeners
      /\ UNCHANGED <<status, listeners, lst, interfaces, ifc, leaked>>
      /\ status' \in {"running", "exited", "crashed"}
  BY ConstAssumption DEF FindListener, Scan, Procs, IInv, TypeOK
<1>2. \E s \in ProcState : /\ Become(h, s)
                           /\ s.pc \in {"newIfc", "findIfc", "list", "save", "close"}
  <2>1. CASE FindListener(h, l)
    <3>1. PICK pc \in {"newIfc", "close", "findIfc"} : Become(h, [Idle EXCEPT !.pc = pc, !.l = l])
      BY <2>1 DEF FindListener
    <3>2. {} \in SUBSET Listener
      OBVIOUS
    <3>3. /\ [Idle EXCEPT !.pc = pc, !.l = l] \in ProcState
          /\ [Idle EXCEPT !.pc = pc, !.l = l].pc = pc
      BY <3>2, ConstAssumption DEF Idle, ProcState, PC, OnListener, ClosingIfc
    <3>4. QED BY <3>1, <3>3
  <2>2. CASE Scan(h, l)
    <3>1. \/ Become(h, [Idle EXCEPT !.pc = "list", !.l = l])
          \/ Become(h, [Idle EXCEPT !.pc = "save", !.l = l, !.todo = listeners \ {l}])
      BY <2>2 DEF Scan
    <3>2. listeners \ {l} \in SUBSET Listener
      BY DEF IInv, TypeOK
    <3>3. /\ [Idle EXCEPT !.pc = "list", !.l = l] \in ProcState
          /\ [Idle EXCEPT !.pc = "list", !.l = l].pc = "list"
          /\ [Idle EXCEPT !.pc = "save", !.l = l, !.todo = listeners \ {l}] \in ProcState
          /\ [Idle EXCEPT !.pc = "save", !.l = l, !.todo = listeners \ {l}].pc = "save"
      BY <3>2, ConstAssumption DEF Idle, ProcState, PC, OnListener, ClosingIfc
    <3>4. QED BY <3>1, <3>3
  <2>3. QED BY <2>1, <2>2
<1>3. QED BY <1>1, <1>2, StartMoves, PlainMove

LEMMA FindInterfaceInv ==
  ASSUME IInv, NEW h \in Procs, FindInterface(h)
  PROVE  IInv'
<1>1. /\ proc[h].pc = "findIfc" /\ proc[h].l \in Listener
      /\ h \in Ifc => ifc[h].reader = "stopped"
      /\ UNCHANGED <<status, listeners, lst, interfaces, ifc, leaked>>
      /\ status' \in {"running", "exited", "crashed"}
  BY NextStates DEF FindInterface, At, OnListener, IInv, TypeOK
<1>2. ASSUME NEW i \in interfaces[proc[h].l], Become(h, [Idle EXCEPT !.pc = "state", !.i = i])
      PROVE  IInv'
  <2> DEFINE s == [Idle EXCEPT !.pc = "state", !.i = i]
  <2>1. i \in Ifc
    BY <1>1 DEF IInv, TypeOK
  <2>2. s \in ProcState /\ s.pc = "state" /\ s.l = None
    BY <2>1, ConstAssumption DEF Idle, ProcState, PC, OnListener, ClosingIfc
  <2> HIDE DEF s
  <2>3. Become(h, s)
    BY <1>2 DEF s
  <2>4. Moves(h, s)
    BY <1>1, <2>2, <2>3 DEF Moves, AppIn, NetIn, StateIn
  <2>5. QED BY <1>1, <2>4, PlainMove
<1>3. CASE Become(h, Idle)
  BY <1>1, <1>3, ReturnMoves, PlainMove
<1>4. QED BY <1>2, <1>3 DEF FindInterface

LEMMA SaveConfigInv ==
  ASSUME IInv, NEW h \in Procs, SaveConfig(h)
  PROVE  IInv'
<1> DEFINE l == proc[h].l
           todo == proc[h].todo
<1>1. /\ proc[h].pc = "save" /\ l \in Listener /\ todo \subseteq Listener
      /\ NetFree(l)
      /\ h \in Ifc => ifc[h].reader = "stopped"
      /\ UNCHANGED <<status, listeners, lst, interfaces, ifc>>
      /\ status' \in {"running", "exited", "crashed"}
  BY NextStates DEF SaveConfig, At, OnListener, ProcState, IInv, TypeOK
<1>2. CASE leaked' = leaked \cup {l} /\ Become(h, Idle)
  <2>1. Moves(h, Idle)
    BY <1>1, <1>2, ReturnMoves
  <2>2. Shrinks /\ leaked' \subseteq Listener
    BY <1>1, <1>2 DEF Shrinks, IInv, TypeOK
  <2>3. \A q \in Procs, k \in Listener : HoldsNet(q, k) => k \notin leaked'
    BY <1>1, <1>2 DEF IInv, ListenerInv, ClosingListener, NetFree, NetWriter
  <2>4. QED BY <1>1, <2>1, <2>2, <2>3, MoveKeepsInv
<1>3. CASE Become(h, Idle) /\ UNCHANGED leaked
  BY <1>1, <1>3, ReturnMoves, PlainMove
<1>4. ASSUME NEW k \in todo, Become(h, [proc[h] EXCEPT !.l = k, !.todo = todo \ {k}]),
             UNCHANGED leaked
      PROVE  IInv'
  <2> DEFINE s == [proc[h] EXCEPT !.l = k, !.todo = todo \ {k}]
  <2>1. s \in ProcState /\ s.pc = "save"
    BY <1>1, NextStates, ConstAssumption DEF ProcState, OnListener, ClosingIfc
  <2> HIDE DEF s
  <2>2. Become(h, s)
    BY <1>4 DEF s
  <2>3. Moves(h, s)
    BY <1>1, <2>1, <2>2 DEF Moves, AppIn, NetIn, StateIn, HoldsApp
  <2>4. QED BY <1>1, <1>4, <2>3, PlainMove
<1>5. QED BY <1>2, <1>3, <1>4 DEF SaveConfig

\* The steps of Listener.Close after the socket is closed.
LEMMA ListenerCloseInv ==
  ASSUME IInv, NEW p \in Procs,
         StopReader(p) \/ RemoveSelf(p) \/ MoreInterfaces(p) \/ FirstInterface(p)
  PROVE  IInv'
<1>1. /\ UNCHANGED <<lst, interfaces, ifc, leaked>>
      /\ status' \in {"running", "exited", "crashed"}
  BY DEF StopReader, RemoveSelf, MoreInterfaces, FirstInterface, Crash, IInv, TypeOK
<1>2. CASE StopReader(p)
  <2>1. Goto(p, "remove") /\ proc[p].pc = "stop" /\ UNCHANGED listeners
    BY <1>2 DEF StopReader, At
  <2>2. Moves(p, [proc[p] EXCEPT !.pc = "remove"])
    BY <2>1, PCs, GotoMoves
  <2>3. QED BY <1>1, <2>1, <2>2, PlainMove
<1>3. CASE RemoveSelf(p)
  <2>1. /\ Goto(p, "loop") /\ proc[p].pc = "remove" /\ AppFree
        /\ listeners' \subseteq listeners /\ listeners \subseteq Listener
    BY <1>3 DEF RemoveSelf, At, IInv, TypeOK
  <2>2. Moves(p, [proc[p] EXCEPT !.pc = "loop"])
    BY <2>1, PCs, GotoMoves
  <2>3. Shrinks /\ leaked' \subseteq Listener
    BY <1>1, <2>1 DEF Shrinks, IInv, TypeOK
  <2>4. \A q \in Procs, l \in Listener : HoldsNet(q, l) => l \notin leaked'
    BY <1>1 DEF IInv, ListenerInv, ClosingListener
  <2>5. QED BY <1>1, <2>2, <2>3, <2>4, MoveKeepsInv
<1>4. CASE MoreInterfaces(p)
  <2>1. proc[p].pc = "loop" /\ UNCHANGED listeners
    BY <1>4 DEF MoreInterfaces, At
  <2>2. CASE Goto(p, "first")
    <3>1. Moves(p, [proc[p] EXCEPT !.pc = "first"])
      BY <2>1, <2>2, PCs, GotoMoves
    <3>2. QED BY <1>1, <2>1, <3>1, PlainMove
  <2>3. CASE ClosedListener(p)
    <3>1. CASE Become(p, Idle)
      BY <1>1, <2>1, <3>1, ReturnMoves, PlainMove
    <3>2. CASE Become(p, [Idle EXCEPT !.pc = "quit"])
      <4> DEFINE s == [Idle EXCEPT !.pc = "quit"]
      <4>1. s \in ProcState /\ s.pc = "quit"
        BY DEF Idle, ProcState, PC, OnListener, ClosingIfc
      <4>2. Become(p, s)
        BY <3>2
      <4> HIDE DEF s
      <4>3. p \in Ifc => ifc[p].reader = "stopped"
        BY <2>1, NextStates
      <4>4. Moves(p, s)
        BY <4>1, <4>2, <4>3 DEF Moves, AppIn, NetIn, StateIn, ClosingIfc
      <4>5. QED BY <1>1, <2>1, <4>4, PlainMove
    <3>3. QED BY <2>3, <3>1, <3>2 DEF ClosedListener
  <2>4. QED BY <1>4, <2>2, <2>3 DEF MoreInterfaces
<1>5. CASE FirstInterface(p)
  <2>1. /\ proc[p].pc = "first" /\ proc[p].l \in Listener /\ UNCHANGED listeners
        /\ p \in Ifc => ifc[p].reader = "stopped"
    BY <1>5, NextStates DEF FirstInterface, At, OnListener
  <2>2. CASE UNCHANGED proc
    BY <1>1, <2>1, <2>2, CrashKeepsInv
  <2>3. ASSUME NEW i \in interfaces[proc[p].l],
               Become(p, [proc[p] EXCEPT !.pc = "state", !.i = i])
        PROVE  IInv'
    <3> DEFINE s == [proc[p] EXCEPT !.pc = "state", !.i = i]
    <3>1. i \in Ifc
      BY <2>1 DEF IInv, TypeOK
    <3>2. s \in ProcState /\ s.pc = "state"
      BY <3>1, NextStates, ConstAssumption DEF ProcState, PC, OnListener, ClosingIfc
    <3>3. Become(p, s)
      BY <2>3
    <3> HIDE DEF s
    <3>4. Moves(p, s)
      BY <2>1, <3>2, <3>3 DEF Moves, AppIn, NetIn, StateIn, HoldsApp
    <3>5. QED BY <1>1, <2>1, <3>4, PlainMove
  <2>4. QED BY <1>5, <2>2, <2>3 DEF FirstInterface
<1>6. QED BY <1>2, <1>3, <1>4, <1>5

\* The steps of Interface.Close after the device is closed.
LEMMA IfcCloseInv ==
  ASSUME IInv, NEW p \in Procs, StopIfcReader(p) \/ Detach(p)
  PROVE  IInv'
<1>1. /\ UNCHANGED <<status, listeners, lst, ifc, leaked>>
      /\ status' \in {"running", "exited", "crashed"}
  BY DEF StopIfcReader, Detach, IInv, TypeOK
<1>2. CASE StopIfcReader(p)
  <2>1. Goto(p, "detach") /\ proc[p].pc = "stopIfc" /\ UNCHANGED interfaces
    BY <1>2 DEF StopIfcReader, At
  <2>2. Moves(p, [proc[p] EXCEPT !.pc = "detach"])
    BY <2>1, PCs, GotoMoves
  <2>3. QED BY <1>1, <2>1, <2>2, PlainMove
<1>3. CASE Detach(p)
  <2> DEFINE i == proc[p].i
             l == ifc[i].l
  <2>1. /\ proc[p].pc = "detach" /\ ClosedIfc(p)
        /\ interfaces' = [interfaces EXCEPT ![l] = @ \ {i}]
    BY <1>3 DEF Detach, At
  <2>2. PICK s : Moves(p, s)
    BY <2>1, ClosedIfcMoves DEF ClosingIfc
  <2>3. Shrinks /\ leaked' \subseteq Listener
    BY <1>1, <2>1 DEF Shrinks, IInv, TypeOK
  <2>4. \A q \in Procs, k \in Listener : HoldsNet(q, k) => k \notin leaked'
    BY <1>1 DEF IInv, ListenerInv, ClosingListener
  <2>5. QED BY <1>1, <2>2, <2>3, <2>4, MoveKeepsInv
<1>4. QED BY <1>2, <1>3

\* The shutdown loop.
LEMMA QuitInv ==
  ASSUME IInv, Signal \/ MoreListeners \/ FirstListener
  PROVE  IInv'
<1>1. /\ Quit \in Procs \ Ifc
      /\ UNCHANGED <<listeners, lst, interfaces, ifc, leaked>>
      /\ status' \in {"running", "exited", "crashed"}
  BY ConstAssumption DEF Procs, Signal, MoreListeners, FirstListener, Crash, IInv, TypeOK
<1>2. CASE UNCHANGED proc
  BY <1>1, <1>2, CrashKeepsInv
<1>3. CASE Goto(Quit, "quit") /\ proc[Quit].pc = "idle"
  <2>1. Moves(Quit, [proc[Quit] EXCEPT !.pc = "quit"])
    BY <1>1, <1>3, PCs, GotoMoves
  <2>2. QED BY <1>1, <2>1, PlainMove
<1>4. CASE Goto(Quit, "quitFirst") /\ proc[Quit].pc = "quit"
  <2>1. Moves(Quit, [proc[Quit] EXCEPT !.pc = "quitFirst"])
    BY <1>1, <1>4, PCs, GotoMoves
  <2>2. QED BY <1>1, <2>1, PlainMove
<1>5. ASSUME NEW l \in listeners, Become(Quit, [Idle EXCEPT !.pc = "close", !.l = l])
      PROVE  IInv'
  <2> DEFINE s == [Idle EXCEPT !.pc = "close", !.l = l]
  <2>1. l \in Listener
    BY DEF IInv, TypeOK
  <2>2. s \in ProcState /\ s.pc = "close"
    BY <2>1, ConstAssumption DEF Idle, ProcState, PC, OnListener, ClosingIfc
  <2>3. Become(Quit, s)
    BY <1>5
  <2> HIDE DEF s
  <2>4. QED BY <1>1, <2>2, <2>3, StartMoves, PlainMove
<1>6. QED BY <1>2, <1>3, <1>4, <1>5 DEF Signal, MoreListeners, FirstListener, At

\* The packet readers of the interfaces and their devices.
LEMMA IfcReadersInv ==
  ASSUME IInv, NEW i \in Ifc,
         \/ StartIfcReader(i) \/ ReadFromDevice(i) \/ Forwarded(i)
         \/ IfcReaderStops(i) \/ DeviceFails(i)
  PROVE  IInv'
<1>1. ifc \in [Ifc -> IfcState] /\ ifc[i] \in IfcState
  BY DEF IInv, TypeOK
<1>2. ASSUME NEW from \in {"start", "read", "forward"}, NEW to \in {"read", "forward", "stopped"},
             IfcReading(i, from, to),
             UNCHANGED proc \/ (to = "stopped" /\ Become(i, [Idle EXCEPT !.pc = "state", !.i = i]))
      PROVE  IInv'
  <2>1. /\ ifc[i].reader = from /\ ifc[i].state # "none"
        /\ UNCHANGED <<status, listeners, lst, interfaces, leaked>>
    BY <1>2 DEF IfcReading, IInv, IfcInv, IfcsMade
  <2>2. ifc' = [ifc EXCEPT ![i].reader = to, ![i].device = ifc[i].device]
    BY <1>1, <1>2 DEF IfcReading, IfcState
  <2>3. ifc[i].device \in {"none", "up", "gone"}
    BY <1>1 DEF IfcState
  <2>4. QED BY <1>2, <2>1, <2>2, <2>3, IfcReadingInv
<1>3. CASE DeviceFails(i)
  <2>1. /\ ifc[i].state # "none"
        /\ UNCHANGED <<status, listeners, lst, interfaces, leaked, proc>>
    BY <1>3 DEF DeviceFails, IInv, IfcInv, IfcsMade
  <2>2. ifc' = [ifc EXCEPT ![i].reader = ifc[i].reader, ![i].device = "gone"]
    BY <1>1, <1>3 DEF DeviceFails, IfcState
  <2>3. ifc[i].reader \in {"none", "start", "read", "forward", "stopped"}
    BY <1>1 DEF IfcState
  <2>4. QED BY <2>1, <2>2, <2>3, IfcReadingInv
<1>4. QED BY <1>2, <1>3 DEF StartIfcReader, ReadFromDevice, Forwarded, IfcReaderStops

LEMMA NextInv == IInv /\ [Next]_vars => IInv'
<1> SUFFICES ASSUME IInv, [Next]_vars PROVE IInv'
  OBVIOUS
<1>1. ASSUME NEW h \in Handlers, NEW l \in Listener,
             \/ \E name \in Name, addr \in Address : NewListener(h, l, name, addr)
             \/ FindListener(h, l)
             \/ Scan(h, l)
      PROVE  IInv'
  BY <1>1, NewListenerInv, CallsInv
<1>2. ASSUME NEW p \in Procs, Step(p)
      PROVE  IInv'
  <2>1. CASE ListInterfaces(p)
    <3>1. /\ Become(p, Idle) /\ proc[p].pc # "idle"
          /\ UNCHANGED <<listeners, lst, interfaces, ifc, leaked>>
          /\ status' \in {"running", "exited", "crashed"}
      BY <2>1 DEF ListInterfaces, At, IInv, TypeOK
    <3>2. QED BY <3>1, ReturnMoves, PlainMove
  <2>2. CASE Bind(p)
    BY <2>2, BindInv
  <2>3. CASE NewInterface(p)
    BY <2>3, NewInterfaceInv
  <2>4. CASE FindInterface(p)
    BY <2>4, FindInterfaceInv
  <2>5. CASE SaveConfig(p)
    BY <2>5, SaveConfigInv
  <2>6. CASE CloseConn(p)
    BY <2>6, CloseConnInv
  <2>7. CASE StopReader(p) \/ RemoveSelf(p) \/ MoreInterfaces(p) \/ FirstInterface(p)
    BY <2>7, ListenerCloseInv
  <2>8. CASE CloseDevice(p)
    BY <2>8, CloseDeviceInv
  <2>9. CASE StopIfcReader(p) \/ Detach(p)
    BY <2>9, IfcCloseInv
  <2>10. QED BY <1>2, <2>1, <2>2, <2>3, <2>4, <2>5, <2>6, <2>7, <2>8, <2>9 DEF Step
<1>3. CASE Signal \/ MoreListeners \/ FirstListener
  BY <1>3, QuitInv
<1>4. ASSUME NEW l \in Listener,
             \/ StartReader(l) \/ ReadPacket(l) \/ LockForPacket(l)
             \/ HandledPacket(l) \/ ReaderStops(l)
      PROVE  IInv'
  BY <1>4, ReadingInv DEF StartReader, ReadPacket, LockForPacket, HandledPacket, ReaderStops
<1>5. ASSUME NEW i \in Ifc,
             \/ StartIfcReader(i) \/ ReadFromDevice(i) \/ Forwarded(i)
             \/ IfcReaderStops(i) \/ DeviceFails(i)
      PROVE  IInv'
  BY <1>5, IfcReadersInv
<1>6. CASE UNCHANGED vars
  <2>1. /\ UNCHANGED <<listeners, lst, interfaces, ifc, leaked, proc>>
        /\ status' \in {"running", "exited", "crashed"}
    BY <1>6 DEF vars, IInv, TypeOK
  <2>2. QED BY <2>1, CrashKeepsInv
<1>7. QED BY <1>1, <1>2, <1>3, <1>4, <1>5, <1>6 DEF Next

\* The invariant holds in every reachable state.
THEOREM Invariance == Spec => []IInv
<1>1. QED BY InitInv, NextInv, PTL DEF Spec

\* Every variable of Lifecycle has its type in every reachable state.
THEOREM TypeCorrect == Spec => []TypeOK
<1>1. IInv => TypeOK
  BY DEF IInv
<1>2. QED BY <1>1, Invariance, PTL

-----------------------------------------------------------------------------
(* Listeners are unique.                                                     *)

\* The list and the names of the listeners change in three places only.
LEMMA ListSteps ==
  ASSUME IInv, [Next]_vars
  PROVE  \/ /\ listeners' \subseteq listeners
            /\ listeners' = listeners \/ \E p \in Procs : RemoveSelf(p)
            /\ \A l \in Listener : lst'[l].name = lst[l].name /\ lst'[l].addr = lst[l].addr
         \/ \E h \in Handlers, l \in Listener, name \in Name, addr \in Address :
              NewListener(h, l, name, addr)
         \/ \E p \in Procs : Bind(p)
<1>1. lst \in [Listener -> ListenerState]
  BY DEF IInv, TypeOK
<1>2. CASE UNCHANGED <<listeners, lst>>
  BY <1>2
<1>3. ASSUME NEW l \in Listener, NEW from, NEW to, Reading(l, from, to)
      PROVE  /\ UNCHANGED listeners
             /\ \A k \in Listener : lst'[k].name = lst[k].name /\ lst'[k].addr = lst[k].addr
  BY <1>1, <1>3 DEF Reading, ListenerState
<1>4. ASSUME NEW p \in Procs, CloseConn(p)
      PROVE  /\ UNCHANGED listeners
             /\ \A k \in Listener : lst'[k].name = lst[k].name /\ lst'[k].addr = lst[k].addr
  BY <1>1, <1>4 DEF CloseConn, ListenerState
<1>5. ASSUME NEW p \in Procs, RemoveSelf(p)
      PROVE  /\ listeners' \subseteq listeners
             /\ UNCHANGED lst
  BY <1>5 DEF RemoveSelf
<1>6. ASSUME NEW p \in Procs, Step(p)
      PROVE  UNCHANGED <<listeners, lst>> \/ CloseConn(p) \/ RemoveSelf(p) \/ Bind(p)
  BY <1>6 DEF Step, NewInterface, FindInterface, ListInterfaces, SaveConfig, StopReader,
              MoreInterfaces, FirstInterface, CloseDevice, StopIfcReader, Detach
<1>7. ASSUME NEW h \in Handlers, NEW l \in Listener, FindListener(h, l) \/ Scan(h, l)
      PROVE  UNCHANGED <<listeners, lst>>
  BY <1>7 DEF FindListener, Scan
<1>8. CASE Signal \/ MoreListeners \/ FirstListener \/ UNCHANGED vars
  BY <1>8, <1>2 DEF Signal, MoreListeners, FirstListener, vars
<1>9. ASSUME NEW i \in Ifc,
             \/ StartIfcReader(i) \/ ReadFromDevice(i) \/ Forwarded(i)
             \/ IfcReaderStops(i) \/ DeviceFails(i)
      PROVE  UNCHANGED <<listeners, lst>>
  BY <1>9 DEF StartIfcReader, ReadFromDevice, Forwarded, IfcReaderStops, DeviceFails, IfcReading
<1>10. ASSUME NEW l \in Listener,
              \/ StartReader(l) \/ ReadPacket(l) \/ LockForPacket(l)
              \/ HandledPacket(l) \/ ReaderStops(l)
       PROVE  \E from, to : Reading(l, from, to)
  BY <1>10 DEF StartReader, ReadPacket, LockForPacket, HandledPacket, ReaderStops
<1>11. QED BY <1>2, <1>3, <1>4, <1>5, <1>6, <1>7, <1>8, <1>9, <1>10 DEF Next

\* No two listeners in the list share a name or an address: the lock that
\* NewListener keeps while it looks for the address keeps out every other
\* addition.
THEOREM UniqueListenersHolds == Spec => []UniqueListeners
<1>1. Init => UniqueListeners
  BY DEF Init, UniqueListeners
<1>2. ASSUME IInv, UniqueListeners, [Next]_vars
      PROVE  UniqueListeners'
  <2>1. listeners \subseteq Listener /\ lst \in [Listener -> ListenerState]
    BY <1>2 DEF IInv, TypeOK
  <2>2. CASE /\ listeners' \subseteq listeners
             /\ \A l \in Listener : lst'[l].name = lst[l].name /\ lst'[l].addr = lst[l].addr
    BY <1>2, <2>1, <2>2 DEF UniqueListeners
  <2>3. ASSUME NEW h \in Handlers, NEW l \in Listener, NEW name \in Name, NEW addr \in Address,
               NewListener(h, l, name, addr)
        PROVE  UniqueListeners'
    <3>1. l \notin listeners /\ UNCHANGED listeners
      BY <1>2, <2>3 DEF NewListener, IInv, ListenerInv, ListenersMade
    <3>2. \A k \in Listener : k # l => lst'[k] = lst[k]
      BY <2>1, <2>3 DEF NewListener
    <3>3. QED BY <1>2, <2>1, <3>1, <3>2 DEF UniqueListeners
  <2>4. ASSUME NEW p \in Procs, Bind(p)
        PROVE  UniqueListeners'
    <3> DEFINE l == proc[p].l
    <3>1. /\ l \in Listener /\ l \notin listeners
          /\ \A k \in listeners : lst[k].name # lst[l].name /\ lst[k].addr # lst[l].addr
      BY <1>2, <2>4, NextStates DEF Bind, At, OnListener, IInv, ListenerInv, Binding
    <3>2. /\ \A k \in Listener : k # l => lst'[k] = lst[k]
          /\ \/ /\ listeners' = listeners \cup {l}
                /\ lst'[l].name = lst[l].name /\ lst'[l].addr = lst[l].addr
             \/ listeners' = listeners
      BY <2>1, <2>4, <3>1 DEF Bind, ListenerState
    <3>3. QED BY <1>2, <2>1, <3>1, <3>2 DEF UniqueListeners
  <2>5. QED BY <1>2, <2>2, <2>3, <2>4, ListSteps
<1>3. QED BY <1>1, <1>2, Invariance, PTL DEF Spec

-----------------------------------------------------------------------------
(* Who changes what.                                                         *)

\* A step inside an operation changes its own goroutine only.
LEMMA StepFrame ==
  ASSUME IInv, NEW p \in Procs, NEW q \in Procs, Step(p), q # p
  PROVE  proc'[q] = proc[q]
<1>1. proc \in [Procs -> ProcState]
  BY DEF IInv, TypeOK
<1>2. UNCHANGED proc \/ \E s : Become(p, s)
  BY DEF Step, Bind, NewInterface, FindInterface, ListInterfaces, SaveConfig, CloseConn,
         StopReader, RemoveSelf, MoreInterfaces, FirstInterface, CloseDevice,
         StopIfcReader, Detach, Goto, ClosedListener, ClosedIfc
<1>3. QED BY <1>1, <1>2 DEF Become

\* A goroutine inside an operation is moved by its own steps only.
LEMMA Movers ==
  ASSUME IInv, [Next]_vars, NEW q \in Procs, proc[q].pc \notin {"idle", "quit", "quitFirst"}
  PROVE  proc'[q] = proc[q] \/ Step(q)
<1>1. proc \in [Procs -> ProcState]
  BY DEF IInv, TypeOK
<1>2. ASSUME NEW p \in Procs, Step(p)
      PROVE  proc'[q] = proc[q] \/ Step(q)
  BY <1>2, StepFrame
<1>3. ASSUME NEW p \in Procs, proc[p].pc \in {"idle", "quit", "quitFirst"},
             NEW s, Become(p, s)
      PROVE  proc'[q] = proc[q]
  BY <1>1, <1>3 DEF Become
<1>4. ASSUME NEW h \in Handlers, NEW l \in Listener,
             \/ \E name \in Name, addr \in Address : NewListener(h, l, name, addr)
             \/ FindListener(h, l)
             \/ Scan(h, l)
      PROVE  proc'[q] = proc[q]
  <2>1. h \in Procs /\ proc[h].pc = "idle" /\ \E s : Become(h, s)
    BY <1>4 DEF NewListener, FindListener, Scan, At, Procs
  <2>2. QED BY <2>1, <1>3
<1>5. CASE Signal \/ MoreListeners \/ FirstListener
  <2>1. /\ Quit \in Procs /\ proc[Quit].pc \in {"idle", "quit", "quitFirst"}
        /\ UNCHANGED proc \/ \E s : Become(Quit, s)
    BY <1>5 DEF Signal, MoreListeners, FirstListener, Goto, At, Procs
  <2>2. QED BY <2>1, <1>3
<1>6. ASSUME NEW l \in Listener,
             \/ StartReader(l) \/ ReadPacket(l) \/ LockForPacket(l)
             \/ HandledPacket(l) \/ ReaderStops(l)
      PROVE  UNCHANGED proc
  BY <1>6 DEF StartReader, ReadPacket, LockForPacket, HandledPacket, ReaderStops, Reading
<1>7. ASSUME NEW i \in Ifc,
             \/ StartIfcReader(i) \/ ReadFromDevice(i) \/ Forwarded(i)
             \/ IfcReaderStops(i) \/ DeviceFails(i)
      PROVE  proc'[q] = proc[q]
  <2>1. i \in Procs /\ (UNCHANGED proc \/ (ifc[i].reader = "read" /\ \E s : Become(i, s)))
    BY <1>7 DEF StartIfcReader, ReadFromDevice, Forwarded, IfcReaderStops, DeviceFails,
                IfcReading, Procs
  <2>2. ifc[i].reader = "read" => proc[i].pc = "idle"
    BY DEF IInv, IfcInv, IfcsMade
  <2>3. QED BY <2>1, <2>2, <1>3
<1>8. CASE UNCHANGED vars
  BY <1>8 DEF vars
<1>9. QED BY <1>2, <1>4, <1>5, <1>6, <1>7, <1>8 DEF Next

\* The socket and the reader of a listener.
LEMMA ReaderSteps ==
  ASSUME IInv, [Next]_vars, NEW l \in Listener
  PROVE  \/ lst'[l].conn = lst[l].conn /\ lst'[l].reader = lst[l].reader
         \/ StartReader(l) \/ ReadPacket(l) \/ LockForPacket(l)
         \/ HandledPacket(l) \/ ReaderStops(l)
         \/ \E p \in Procs : (CloseConn(p) \/ Bind(p)) /\ proc[p].l = l
<1>1. lst \in [Listener -> ListenerState]
  BY DEF IInv, TypeOK
<1>2. ASSUME NEW k \in Listener, NEW from, NEW to, Reading(k, from, to), k # l
      PROVE  lst'[l] = lst[l]
  BY <1>1, <1>2 DEF Reading
<1>3. ASSUME NEW h \in Handlers, NEW k \in Listener, NEW name \in Name, NEW addr \in Address,
             NewListener(h, k, name, addr)
      PROVE  lst'[l].conn = lst[l].conn /\ lst'[l].reader = lst[l].reader
  BY <1>1, <1>3 DEF NewListener, ListenerState
<1>4. ASSUME NEW p \in Procs, CloseConn(p) \/ Bind(p), proc[p].l # l
      PROVE  lst'[l] = lst[l]
  <2>1. proc[p].l \in Listener
    BY <1>4, NextStates DEF CloseConn, Bind, At, OnListener
  <2>2. QED BY <1>1, <1>4, <2>1 DEF CloseConn, Bind
<1>5. ASSUME NEW p \in Procs, Step(p)
      PROVE  UNCHANGED lst \/ CloseConn(p) \/ Bind(p)
  BY <1>5 DEF Step, NewInterface, FindInterface, ListInterfaces, SaveConfig, StopReader,
              RemoveSelf, MoreInterfaces, FirstInterface, CloseDevice, StopIfcReader, Detach
<1>6. ASSUME NEW h \in Handlers, NEW k \in Listener, FindListener(h, k) \/ Scan(h, k)
      PROVE  UNCHANGED lst
  BY <1>6 DEF FindListener, Scan
<1>7. CASE Signal \/ MoreListeners \/ FirstListener \/ UNCHANGED vars
  BY <1>7 DEF Signal, MoreListeners, FirstListener, vars
<1>8. ASSUME NEW i \in Ifc,
             \/ StartIfcReader(i) \/ ReadFromDevice(i) \/ Forwarded(i)
             \/ IfcReaderStops(i) \/ DeviceFails(i)
      PROVE  UNCHANGED lst
  BY <1>8 DEF StartIfcReader, ReadFromDevice, Forwarded, IfcReaderStops, DeviceFails, IfcReading
<1>9. ASSUME NEW k \in Listener, k # l,
             \/ StartReader(k) \/ ReadPacket(k) \/ LockForPacket(k)
             \/ HandledPacket(k) \/ ReaderStops(k)
      PROVE  lst'[l] = lst[l]
  BY <1>2, <1>9 DEF StartReader, ReadPacket, LockForPacket, HandledPacket, ReaderStops
<1>10. QED BY <1>3, <1>4, <1>5, <1>6, <1>7, <1>8, <1>9 DEF Next

\* The list of a listener's interfaces.
LEMMA ListChanges ==
  ASSUME IInv, [Next]_vars, NEW l \in Listener
  PROVE  \/ interfaces'[l] = interfaces[l]
         \/ \E p \in Procs : NewInterface(p) /\ proc[p].l = l
         \/ \E p \in Procs : Detach(p) /\ ifc[proc[p].i].l = l
<1>1. interfaces \in [Listener -> SUBSET Ifc]
  BY DEF IInv, TypeOK
<1>2. ASSUME NEW p \in Procs, Step(p)
      PROVE  UNCHANGED interfaces \/ NewInterface(p) \/ Detach(p)
  BY <1>2 DEF Step, Bind, FindInterface, ListInterfaces, SaveConfig, CloseConn, StopReader,
              RemoveSelf, MoreInterfaces, FirstInterface, CloseDevice, StopIfcReader
<1>3. ASSUME NEW p \in Procs, NewInterface(p), proc[p].l # l
      PROVE  interfaces'[l] = interfaces[l]
  BY <1>1, <1>3 DEF NewInterface
<1>4. ASSUME NEW p \in Procs, Detach(p), ifc[proc[p].i].l # l
      PROVE  interfaces'[l] = interfaces[l]
  BY <1>1, <1>4 DEF Detach
<1>5. ASSUME NEW h \in Handlers, NEW k \in Listener,
             \/ \E name \in Name, addr \in Address : NewListener(h, k, name, addr)
             \/ FindListener(h, k)
             \/ Scan(h, k)
      PROVE  UNCHANGED interfaces
  BY <1>5 DEF NewListener, FindListener, Scan
<1>6. CASE Signal \/ MoreListeners \/ FirstListener \/ UNCHANGED vars
  BY <1>6 DEF Signal, MoreListeners, FirstListener, vars
<1>7. ASSUME NEW i \in Ifc,
             \/ StartIfcReader(i) \/ ReadFromDevice(i) \/ Forwarded(i)
             \/ IfcReaderStops(i) \/ DeviceFails(i)
      PROVE  UNCHANGED interfaces
  BY <1>7 DEF StartIfcReader, ReadFromDevice, Forwarded, IfcReaderStops, DeviceFails, IfcReading
<1>8. ASSUME NEW k \in Listener,
             \/ StartReader(k) \/ ReadPacket(k) \/ LockForPacket(k)
             \/ HandledPacket(k) \/ ReaderStops(k)
      PROVE  UNCHANGED interfaces
  BY <1>8 DEF StartReader, ReadPacket, LockForPacket, HandledPacket, ReaderStops, Reading
<1>9. QED BY <1>2, <1>3, <1>4, <1>5, <1>6, <1>7, <1>8 DEF Next

\* An interface's identity and state.
LEMMA IfcSteps ==
  ASSUME IInv, [Next]_vars, NEW i \in Ifc
  PROVE  \/ UNCHANGED <<ifc[i].vni, ifc[i].l, ifc[i].state>>
         \/ ifc[i].state = "none" /\ \E p \in Procs : NewInterface(p)
         \/ /\ UNCHANGED <<ifc[i].vni, ifc[i].l>>
            /\ \E p \in Procs : CloseDevice(p) /\ HoldsState(p, i)'
<1>1. ifc \in [Ifc -> IfcState]
  BY DEF IInv, TypeOK
<1>2. ASSUME NEW j \in Ifc, NEW from, NEW to, IfcReading(j, from, to)
      PROVE  UNCHANGED <<ifc[i].vni, ifc[i].l, ifc[i].state>>
  BY <1>1, <1>2 DEF IfcReading, IfcState
<1>3. ASSUME NEW j \in Ifc, DeviceFails(j)
      PROVE  UNCHANGED <<ifc[i].vni, ifc[i].l, ifc[i].state>>
  BY <1>1, <1>3 DEF DeviceFails, IfcState
<1>4. ASSUME NEW p \in Procs, NewInterface(p)
      PROVE  UNCHANGED ifc[i] \/ ifc[i].state = "none"
  BY <1>1, <1>4 DEF NewInterface
<1>5. ASSUME NEW p \in Procs, CloseDevice(p)
      PROVE  \/ UNCHANGED ifc[i]
             \/ UNCHANGED <<ifc[i].vni, ifc[i].l>> /\ HoldsState(p, i)'
  <2> DEFINE j == proc[p].i
  <2>1. /\ proc \in [Procs -> ProcState] /\ j \in Ifc /\ proc[p].pc = "state"
    BY <1>5, NextStates DEF CloseDevice, At, ClosingIfc, IInv, TypeOK
  <2>2. CASE UNCHANGED ifc
    BY <2>2
  <2>3. CASE /\ ifc' = [ifc EXCEPT ![j].state = "closed", ![j].device = "gone"]
             /\ Goto(p, "stopIfc")
    <3>1. proc'[p].pc = "stopIfc" /\ proc'[p].i = j
      BY <2>1, <2>3 DEF Goto, Become, ProcState
    <3>2. CASE i = j
      BY <1>1, <2>1, <2>3, <3>1, <3>2 DEF HoldsState, IfcState
    <3>3. CASE i # j
      BY <1>1, <2>1, <2>3, <3>3
    <3>4. QED BY <3>2, <3>3
  <2>4. QED BY <1>5, <2>2, <2>3 DEF CloseDevice
<1>6. ASSUME NEW p \in Procs, Step(p)
      PROVE  UNCHANGED ifc \/ NewInterface(p) \/ CloseDevice(p)
  BY <1>6 DEF Step, Bind, FindInterface, ListInterfaces, SaveConfig, CloseConn, StopReader,
              RemoveSelf, MoreInterfaces, FirstInterface, StopIfcReader, Detach
<1>7. ASSUME NEW h \in Handlers, NEW k \in Listener,
             \/ \E name \in Name, addr \in Address : NewListener(h, k, name, addr)
             \/ FindListener(h, k)
             \/ Scan(h, k)
      PROVE  UNCHANGED ifc
  BY <1>7 DEF NewListener, FindListener, Scan
<1>8. CASE Signal \/ MoreListeners \/ FirstListener \/ UNCHANGED vars
  BY <1>8 DEF Signal, MoreListeners, FirstListener, vars
<1>9. ASSUME NEW k \in Listener,
             \/ StartReader(k) \/ ReadPacket(k) \/ LockForPacket(k)
             \/ HandledPacket(k) \/ ReaderStops(k)
      PROVE  UNCHANGED ifc
  BY <1>9 DEF StartReader, ReadPacket, LockForPacket, HandledPacket, ReaderStops, Reading
<1>10. ASSUME NEW j \in Ifc,
              \/ StartIfcReader(j) \/ ReadFromDevice(j) \/ Forwarded(j) \/ IfcReaderStops(j)
       PROVE  UNCHANGED <<ifc[i].vni, ifc[i].l, ifc[i].state>>
  BY <1>2, <1>10 DEF StartIfcReader, ReadFromDevice, Forwarded, IfcReaderStops
<1>11. QED BY <1>3, <1>4, <1>5, <1>6, <1>7, <1>8, <1>9, <1>10 DEF Next

-----------------------------------------------------------------------------
(* The interfaces of a listener.                                             *)

\* No two interfaces of a listener have the same VNI: a packet would be handled
\* by both, and ApplyConfig would find only the last.
UniqueVNIs ==
  \A l \in Listener : \A i, j \in interfaces[l] : i # j => ifc[i].vni # ifc[j].vni

\* No two interfaces of a listener have the same VNI.
THEOREM UniqueVNIsHolds == Spec => []UniqueVNIs
<1>1. Init => UniqueVNIs
  BY DEF Init, UniqueVNIs
<1>2. ASSUME IInv, UniqueVNIs, [Next]_vars
      PROVE  UniqueVNIs'
  <2> SUFFICES ASSUME NEW l \in Listener, NEW i \in interfaces'[l], NEW j \in interfaces'[l], i # j
               PROVE  ifc'[i].vni # ifc'[j].vni
    BY DEF UniqueVNIs
  <2>1. /\ interfaces \in [Listener -> SUBSET Ifc] /\ ifc \in [Ifc -> IfcState]
        /\ interfaces' \in [Listener -> SUBSET Ifc]
    BY <1>2, NextInv DEF IInv, TypeOK
  <2>2. i \in Ifc /\ j \in Ifc
    BY <2>1
  <2>3. \A k \in interfaces[l] : ifc[k].state # "none"
    BY <1>2 DEF IInv, IfcInv, IfcsMade
  <2>4. CASE \E p \in Procs : NewInterface(p)
    <3>1. PICK p \in Procs : NewInterface(p)
      BY <2>4
    <3>2. CASE UNCHANGED <<interfaces, ifc>>
      BY <1>2, <3>2 DEF UniqueVNIs
    <3>3. ASSUME NEW m \in Ifc, NEW v \in VNI,
                 \A k \in interfaces[proc[p].l] : ifc[k].vni # v,
                 ifc[m].state = "none",
                 ifc' = [ifc EXCEPT ![m] = [l |-> proc[p].l, vni |-> v, state |-> "live",
                                            device |-> "up", reader |-> "start"]],
                 interfaces' = [interfaces EXCEPT ![proc[p].l] = @ \cup {m}]
          PROVE  ifc'[i].vni # ifc'[j].vni
      <4>1. ifc'[m].vni = v /\ \A k \in Ifc : k # m => ifc'[k] = ifc[k]
        BY <2>1, <3>3
      <4>2. \A k \in interfaces[l] : k # m /\ k \in Ifc
        BY <2>1, <2>3, <3>3
      <4>3. CASE l = proc[p].l
        <5>1. interfaces'[l] = interfaces[l] \cup {m}
          BY <2>1, <3>3, <4>3
        <5>2. QED BY <1>2, <3>3, <4>1, <4>2, <4>3, <5>1 DEF UniqueVNIs
      <4>4. CASE l # proc[p].l
        <5>1. interfaces'[l] = interfaces[l]
          BY <2>1, <3>3, <4>4
        <5>2. QED BY <1>2, <4>1, <4>2, <5>1 DEF UniqueVNIs
      <4>5. QED BY <4>3, <4>4
    <3>4. QED BY <3>1, <3>2, <3>3 DEF NewInterface
  <2>5. CASE ~\E p \in Procs : NewInterface(p)
    <3>1. interfaces'[l] \subseteq interfaces[l]
      <4>1. ASSUME NEW p \in Procs, Detach(p)
            PROVE  interfaces'[l] \subseteq interfaces[l]
        BY <2>1, <4>1 DEF Detach
      <4>2. QED BY <1>2, <2>5, <4>1, ListChanges
    <3>2. ifc'[i].vni = ifc[i].vni /\ ifc'[j].vni = ifc[j].vni
      BY <1>2, <2>2, <2>5, IfcSteps
    <3>3. QED BY <1>2, <3>1, <3>2 DEF UniqueVNIs
  <2>6. QED BY <2>4, <2>5
<1>3. QED BY <1>1, <1>2, Invariance, PTL DEF Spec

\* A goroutine lets go of i.state when it takes the interface out of the list.
LEMMA StateHeldOn ==
  ASSUME IInv, [Next]_vars, NEW p \in Procs, NEW i \in Ifc, HoldsState(p, i)
  PROVE  HoldsState(p, i)' \/ Detach(p)
<1>1. /\ proc \in [Procs -> ProcState]
      /\ proc[p].pc \in {"stopIfc", "detach"} /\ proc[p].i = i
  BY DEF IInv, TypeOK, HoldsState
<1>2. CASE proc'[p] = proc[p]
  BY <1>1, <1>2 DEF HoldsState
<1>3. CASE Step(p)
  <2>1. StopIfcReader(p) \/ Detach(p)
    BY <1>1, <1>3 DEF Step, At, Bind, NewInterface, FindInterface, ListInterfaces, SaveConfig,
                      CloseConn, StopReader, RemoveSelf, MoreInterfaces, FirstInterface,
                      CloseDevice
  <2>2. StopIfcReader(p) => proc'[p].pc = "detach" /\ proc'[p].i = i
    BY <1>1 DEF StopIfcReader, Goto, Become, ProcState
  <2>3. QED BY <2>1, <2>2 DEF HoldsState
<1>4. QED BY <1>1, <1>2, <1>3, Movers

\* A closed interface that is still listed is being removed by a goroutine, so
\* the loop of Listener.Close never spins on an interface nobody will remove.
LEMMA ClosedIfcHasCloserHolds == Spec => []ClosedIfcHasCloser
<1>1. Init => ClosedIfcHasCloser
  BY DEF Init, ClosedIfcHasCloser
<1>2. ASSUME IInv, ClosedIfcHasCloser, [Next]_vars
      PROVE  ClosedIfcHasCloser'
  <2> SUFFICES ASSUME NEW l \in Listener, NEW i \in interfaces'[l], ifc'[i].state = "closed"
               PROVE  \E p \in Procs : HoldsState(p, i)'
    BY DEF ClosedIfcHasCloser
  <2>1. /\ interfaces \in [Listener -> SUBSET Ifc] /\ ifc \in [Ifc -> IfcState]
        /\ interfaces' \in [Listener -> SUBSET Ifc]
    BY <1>2, NextInv DEF IInv, TypeOK
  <2>2. i \in Ifc
    BY <2>1
  <2>3. CASE i \in interfaces[l] /\ ifc[i].state = "closed"
    <3>1. PICK p \in Procs : HoldsState(p, i)
      BY <1>2, <2>3 DEF ClosedIfcHasCloser
    <3>2. CASE Detach(p)
      <4>1. proc[p].i = i /\ ifc[i].l = l
        BY <1>2, <2>3, <3>1 DEF HoldsState, IInv, IfcInv, IfcsMade
      <4>2. interfaces'[l] = interfaces[l] \ {i}
        BY <2>1, <3>2, <4>1 DEF Detach
      <4>3. QED BY <4>2
    <3>3. QED BY <1>2, <2>2, <3>1, <3>2, StateHeldOn
  <2>4. CASE i \notin interfaces[l] /\ ifc[i].state = "closed"
    <3>1. ASSUME NEW p \in Procs, NewInterface(p)
          PROVE  FALSE
      <4>1. interfaces'[l] \subseteq interfaces[l] \/ (ifc'[i].state = "live")
        BY <2>1, <2>2, <2>4, <3>1 DEF NewInterface
      <4>2. QED BY <2>4, <4>1
    <3>2. ASSUME NEW p \in Procs, Detach(p)
          PROVE  FALSE
      BY <2>1, <2>4, <3>2 DEF Detach
    <3>3. QED BY <1>2, <2>4, <3>1, <3>2, ListChanges
  <2>5. CASE ifc[i].state # "closed"
    <3>1. ASSUME NEW p \in Procs, NewInterface(p)
          PROVE  ifc'[i].state # "closed"
      BY <2>1, <2>2, <2>5, <3>1 DEF NewInterface
    <3>2. QED BY <1>2, <2>2, <2>5, <3>1, IfcSteps
  <2>6. QED BY <2>3, <2>4, <2>5
<1>3. QED BY <1>1, <1>2, Invariance, PTL DEF Spec

-----------------------------------------------------------------------------
(* Closing a listener.                                                       *)

\* A goroutine lets go of l.net when it takes the listener out of the list.
LEMMA NetHeldOn ==
  ASSUME IInv, [Next]_vars, NEW p \in Procs, NEW l \in Listener, HoldsNet(p, l)
  PROVE  HoldsNet(p, l)' \/ RemoveSelf(p)
<1>1. /\ proc \in [Procs -> ProcState]
      /\ proc[p].pc \in {"stop", "remove"} /\ proc[p].l = l
  BY DEF IInv, TypeOK, HoldsNet
<1>2. CASE proc'[p] = proc[p]
  BY <1>1, <1>2 DEF HoldsNet
<1>3. CASE Step(p)
  <2>1. StopReader(p) \/ RemoveSelf(p)
    BY <1>1, <1>3 DEF Step, At, Bind, NewInterface, FindInterface, ListInterfaces, SaveConfig,
                      CloseConn, MoreInterfaces, FirstInterface, CloseDevice, StopIfcReader,
                      Detach
  <2>2. StopReader(p) => proc'[p].pc = "remove" /\ proc'[p].l = l
    BY <1>1 DEF StopReader, Goto, Become, ProcState
  <2>3. QED BY <2>1, <2>2 DEF HoldsNet
<1>4. QED BY <1>1, <1>2, <1>3, Movers

\* Whoever finds a listener whose socket is closed finds its lock held by the
\* goroutine that closes it.
LEMMA ClosedListenerHasCloserHolds == Spec => []ClosedListenerHasCloser
<1>1. Init => ClosedListenerHasCloser
  BY DEF Init, ClosedListenerHasCloser
<1>2. ASSUME IInv, ClosedListenerHasCloser, [Next]_vars
      PROVE  ClosedListenerHasCloser'
  <2> SUFFICES ASSUME NEW l \in listeners', lst'[l].conn = "closed"
               PROVE  \E p \in Procs : HoldsNet(p, l)'
    BY DEF ClosedListenerHasCloser
  <2>1. /\ listeners' \subseteq Listener /\ lst \in [Listener -> ListenerState]
        /\ lst' \in [Listener -> ListenerState] /\ proc \in [Procs -> ProcState]
    BY <1>2, NextInv DEF IInv, TypeOK
  <2>2. l \in Listener
    BY <2>1
  <2>3. CASE l \in listeners /\ lst[l].conn = "closed"
    <3>1. PICK p \in Procs : HoldsNet(p, l)
      BY <1>2, <2>3 DEF ClosedListenerHasCloser
    <3>2. ~RemoveSelf(p)
      BY <3>1 DEF RemoveSelf, HoldsNet
    <3>3. QED BY <1>2, <2>2, <3>1, <3>2, NetHeldOn
  <2>4. CASE lst[l].conn # "closed"
    <3>1. ASSUME NEW p \in Procs, CloseConn(p), proc[p].l = l
          PROVE  HoldsNet(p, l)'
      BY <2>1, <2>2, <2>4, <3>1 DEF CloseConn, Goto, Become, ProcState, HoldsNet
    <3>2. ASSUME NEW p \in Procs, Bind(p), proc[p].l = l
          PROVE  FALSE
      BY <2>1, <2>2, <2>4, <3>2 DEF Bind, ListenerState
    <3>3. ASSUME NEW from, NEW to, Reading(l, from, to)
          PROVE  FALSE
      BY <2>1, <2>2, <2>4, <3>3 DEF Reading, ListenerState
    <3>4. QED BY <1>2, <2>2, <2>4, <3>1, <3>2, <3>3, ReaderSteps
              DEF StartReader, ReadPacket, LockForPacket, HandledPacket, ReaderStops
  <2>5. CASE l \notin listeners /\ lst[l].conn = "closed"
    <3>1. CASE listeners' \subseteq listeners
      BY <2>5, <3>1
    <3>2. ASSUME NEW h \in Handlers, NEW k \in Listener, NEW name \in Name, NEW addr \in Address,
                 NewListener(h, k, name, addr)
          PROVE  FALSE
      BY <2>5, <3>2 DEF NewListener
    <3>3. ASSUME NEW p \in Procs, Bind(p)
          PROVE  FALSE
      <4>1. proc[p].l # l
        BY <1>2, <2>5, <3>3 DEF Bind, At, IInv, ListenerInv, Binding
      <4>2. QED BY <2>5, <3>3, <4>1 DEF Bind
    <3>4. QED BY <1>2, <3>1, <3>2, <3>3, ListSteps
  <2>6. QED BY <2>3, <2>4, <2>5
<1>3. QED BY <1>1, <1>2, Invariance, PTL DEF Spec

\* Whatever is closed and still listed has a goroutine that removes it.
THEOREM ClosedHasCloserHolds == Spec => []ClosedHasCloser
<1>1. ClosedIfcHasCloser /\ ClosedListenerHasCloser => ClosedHasCloser
  BY DEF ClosedHasCloser
<1>2. QED BY <1>1, ClosedIfcHasCloserHolds, ClosedListenerHasCloserHolds, PTL

\* The list of interfaces and the socket stay as they are while the listener's
\* reader hands a packet on.
THEOREM StableWhileHandlingHolds == Spec => StableWhileHandling
<1>1. ASSUME IInv, [Next]_vars, NEW l \in Listener, lst[l].reader = "handle"
      PROVE  interfaces'[l] = interfaces[l] /\ lst'[l].conn = lst[l].conn
  <2>1. ~NetFree(l) /\ lst \in [Listener -> ListenerState]
    BY <1>1 DEF NetFree, IInv, TypeOK
  <2>2. interfaces'[l] = interfaces[l]
    BY <1>1, <2>1, ListChanges DEF NewInterface, Detach
  <2>3. ASSUME NEW p \in Procs, CloseConn(p) \/ Bind(p), proc[p].l = l
        PROVE  FALSE
    BY <1>1, <2>1, <2>3 DEF CloseConn, Bind, At, IInv, ListenerInv, Binding, ListenersMade
  <2>4. ASSUME NEW from, NEW to, Reading(l, from, to)
        PROVE  lst'[l].conn = lst[l].conn
    BY <2>1, <2>4 DEF Reading, ListenerState
  <2>5. QED BY <1>1, <2>2, <2>3, <2>4, ReaderSteps
            DEF StartReader, ReadPacket, LockForPacket, HandledPacket, ReaderStops
<1>2. IInv /\ [Next]_vars =>
        [\A l \in Listener : lst[l].reader = "handle" =>
           interfaces'[l] = interfaces[l] /\ lst'[l].conn = lst[l].conn]_vars
  BY <1>1
<1>3. QED BY <1>2, Invariance, PTL DEF Spec, StableWhileHandling

-----------------------------------------------------------------------------
(* After the wait.                                                           *)

\* A goroutine gets to the removal of a listener or an interface only by the
\* wait for its reader.
LEMMA AfterWait ==
  ASSUME IInv, [Next]_vars, NEW p \in Procs, proc'[p].pc \in {"remove", "detach"}
  PROVE  \/ proc'[p] = proc[p]
         \/ StopReader(p) /\ proc'[p] = [proc[p] EXCEPT !.pc = "remove"]
         \/ StopIfcReader(p) /\ proc'[p] = [proc[p] EXCEPT !.pc = "detach"]
<1>1. proc \in [Procs -> ProcState]
  BY DEF IInv, TypeOK
<1>2. ASSUME NEW q \in Procs, NEW s, Become(q, s), s.pc \notin {"remove", "detach"}
      PROVE  proc'[p] = proc[p]
  BY <1>1, <1>2 DEF Become
<1>3. ASSUME NEW q \in Procs, NEW pc, Goto(q, pc), pc \notin {"remove", "detach"}
      PROVE  proc'[p] = proc[p]
  <2>1. [proc[q] EXCEPT !.pc = pc].pc = pc
    BY <1>1 DEF ProcState
  <2>2. QED BY <1>2, <1>3, <2>1 DEF Goto
<1>4. ASSUME NEW q \in Procs, Step(q), q # p
      PROVE  proc'[p] = proc[p]
  BY <1>4, StepFrame
<1>5. CASE Step(p)
  <2>1. CASE StopReader(p) \/ StopIfcReader(p)
    BY <1>1, <2>1 DEF StopReader, StopIfcReader, Goto, Become
  <2>2. CASE \/ Bind(p) \/ NewInterface(p) \/ ListInterfaces(p) \/ FindInterface(p)
             \/ FirstInterface(p)
    <3>1. /\ Idle.pc = "idle"
          /\ \A i : [Idle EXCEPT !.pc = "state", !.i = i].pc = "state"
          /\ \A i : [proc[p] EXCEPT !.pc = "state", !.i = i].pc = "state"
      BY <1>1 DEF Idle, ProcState
    <3>2. \/ UNCHANGED proc
          \/ Become(p, Idle)
          \/ \E i : Become(p, [Idle EXCEPT !.pc = "state", !.i = i])
          \/ \E i : Become(p, [proc[p] EXCEPT !.pc = "state", !.i = i])
      BY <2>2 DEF Bind, NewInterface, ListInterfaces, FindInterface, FirstInterface
    <3>3. QED BY <1>2, <3>1, <3>2
  <2>3. CASE \/ CloseConn(p) \/ RemoveSelf(p) \/ CloseDevice(p) \/ Detach(p) \/ MoreInterfaces(p)
             \/ SaveConfig(p)
    <3>1. /\ Idle.pc = "idle" /\ [Idle EXCEPT !.pc = "quit"].pc = "quit"
          /\ [proc[p] EXCEPT !.pc = "loop", !.i = None].pc = "loop"
      BY <1>1 DEF Idle, ProcState
    <3>2. proc[p].pc = "save" => \A l, t : [proc[p] EXCEPT !.l = l, !.todo = t].pc = "save"
      BY <1>1 DEF ProcState
    <3>3. \/ UNCHANGED proc
          \/ Goto(p, "stop") \/ Goto(p, "loop") \/ Goto(p, "first") \/ Goto(p, "stopIfc")
          \/ Become(p, Idle) \/ Become(p, [Idle EXCEPT !.pc = "quit"])
          \/ Become(p, [proc[p] EXCEPT !.pc = "loop", !.i = None])
          \/ /\ proc[p].pc = "save"
             /\ \E l, t : Become(p, [proc[p] EXCEPT !.l = l, !.todo = t])
      BY <2>3 DEF CloseConn, RemoveSelf, CloseDevice, Detach, MoreInterfaces, SaveConfig,
                  ClosedIfc, ClosedListener, At
    <3>4. QED BY <1>2, <1>3, <3>1, <3>2, <3>3
  <2>4. QED BY <1>5, <2>1, <2>2, <2>3 DEF Step
<1>6. ASSUME NEW h \in Handlers, NEW l \in Listener,
             \/ \E name \in Name, addr \in Address : NewListener(h, l, name, addr)
             \/ FindListener(h, l)
             \/ Scan(h, l)
      PROVE  proc'[p] = proc[p]
  <2>1. h \in Procs /\ Idle.pc = "idle"
    BY DEF Procs, Idle
  <2>2. /\ \A pc : [Idle EXCEPT !.pc = pc, !.l = l].pc = pc
        /\ \A t : [Idle EXCEPT !.pc = "save", !.l = l, !.todo = t].pc = "save"
    BY DEF Idle
  <2>3. \/ \E pc \in {"bind", "newIfc", "close", "findIfc", "list"} :
             Become(h, [Idle EXCEPT !.pc = pc, !.l = l])
        \/ \E t : Become(h, [Idle EXCEPT !.pc = "save", !.l = l, !.todo = t])
    BY <1>6 DEF NewListener, FindListener, Scan
  <2>4. QED BY <1>2, <2>1, <2>2, <2>3
<1>7. CASE Signal \/ MoreListeners \/ FirstListener
  <2>1. /\ Quit \in Procs
        /\ \/ UNCHANGED proc
           \/ \E pc \in {"quit", "quitFirst"} : Goto(Quit, pc)
           \/ \E l : Become(Quit, [Idle EXCEPT !.pc = "close", !.l = l])
    BY <1>7 DEF Signal, MoreListeners, FirstListener, Procs
  <2>2. \A l : [Idle EXCEPT !.pc = "close", !.l = l].pc = "close"
    BY DEF Idle
  <2>3. QED BY <1>2, <1>3, <2>1, <2>2
<1>8. ASSUME NEW i \in Ifc,
             \/ StartIfcReader(i) \/ ReadFromDevice(i) \/ Forwarded(i)
             \/ IfcReaderStops(i) \/ DeviceFails(i)
      PROVE  proc'[p] = proc[p]
  <2>1. i \in Procs /\ (UNCHANGED proc \/ Become(i, [Idle EXCEPT !.pc = "state", !.i = i]))
    BY <1>8 DEF StartIfcReader, ReadFromDevice, Forwarded, IfcReaderStops, DeviceFails,
                IfcReading, Procs
  <2>2. [Idle EXCEPT !.pc = "state", !.i = i].pc = "state"
    BY DEF Idle
  <2>3. QED BY <1>2, <2>1, <2>2
<1>9. ASSUME NEW l \in Listener,
             \/ StartReader(l) \/ ReadPacket(l) \/ LockForPacket(l)
             \/ HandledPacket(l) \/ ReaderStops(l)
      PROVE  UNCHANGED proc
  BY <1>9 DEF StartReader, ReadPacket, LockForPacket, HandledPacket, ReaderStops, Reading
<1>10. CASE UNCHANGED vars
  BY <1>10 DEF vars
<1>11. QED BY <1>4, <1>5, <1>6, <1>7, <1>8, <1>9, <1>10 DEF Next

\* With the socket closed, a listener's reader gets no further packet.
LEMMA ListenerStaysQuiet ==
  ASSUME IInv, [Next]_vars, NEW l \in Listener,
         lst[l].conn = "closed", lst[l].reader \notin {"rlock", "handle"}
  PROVE  lst'[l].reader \notin {"rlock", "handle"}
<1>1. lst \in [Listener -> ListenerState]
  BY DEF IInv, TypeOK
<1>2. ASSUME NEW p \in Procs, CloseConn(p) \/ Bind(p), proc[p].l = l
      PROVE  UNCHANGED lst
  BY <1>2 DEF CloseConn, Bind, At, IInv, ListenerInv, Binding
<1>3. CASE StartReader(l) \/ ReadPacket(l) \/ LockForPacket(l) \/ HandledPacket(l) \/ ReaderStops(l)
  BY <1>1, <1>3 DEF StartReader, ReadPacket, LockForPacket, HandledPacket, ReaderStops, Reading,
                    ListenerState
<1>4. QED BY <1>2, <1>3, ReaderSteps

\* With the device closed, an interface's reader gets no further packet.
LEMMA IfcStaysQuiet ==
  ASSUME IInv, [Next]_vars, NEW i \in Ifc,
         ifc[i].state = "closed", ifc[i].device = "gone", ifc[i].reader # "forward"
  PROVE  ifc'[i].reader # "forward"
<1>1. ifc \in [Ifc -> IfcState]
  BY DEF IInv, TypeOK
<1>2. ASSUME NEW j \in Ifc,
             \/ StartIfcReader(j) \/ ReadFromDevice(j) \/ Forwarded(j)
             \/ IfcReaderStops(j) \/ DeviceFails(j)
      PROVE  ifc'[i].reader # "forward"
  <2>1. CASE j = i
    BY <1>1, <1>2, <2>1 DEF StartIfcReader, ReadFromDevice, Forwarded, IfcReaderStops,
                            DeviceFails, IfcReading, IfcState
  <2>2. CASE j # i
    BY <1>1, <1>2, <2>2 DEF StartIfcReader, ReadFromDevice, Forwarded, IfcReaderStops,
                            DeviceFails, IfcReading
  <2>3. QED BY <2>1, <2>2
<1>3. ASSUME NEW p \in Procs, NewInterface(p) \/ CloseDevice(p)
      PROVE  ifc'[i].reader = ifc[i].reader
  BY <1>1, <1>3 DEF NewInterface, CloseDevice, IfcState
<1>4. ASSUME NEW p \in Procs, Step(p)
      PROVE  UNCHANGED ifc \/ NewInterface(p) \/ CloseDevice(p)
  BY <1>4 DEF Step, Bind, FindInterface, ListInterfaces, SaveConfig, CloseConn, StopReader,
              RemoveSelf, MoreInterfaces, FirstInterface, StopIfcReader, Detach
<1>5. ASSUME NEW h \in Handlers, NEW k \in Listener,
             \/ \E name \in Name, addr \in Address : NewListener(h, k, name, addr)
             \/ FindListener(h, k)
             \/ Scan(h, k)
      PROVE  UNCHANGED ifc
  BY <1>5 DEF NewListener, FindListener, Scan
<1>6. CASE Signal \/ MoreListeners \/ FirstListener \/ UNCHANGED vars
  BY <1>6 DEF Signal, MoreListeners, FirstListener, vars
<1>7. ASSUME NEW k \in Listener,
             \/ StartReader(k) \/ ReadPacket(k) \/ LockForPacket(k)
             \/ HandledPacket(k) \/ ReaderStops(k)
      PROVE  UNCHANGED ifc
  BY <1>7 DEF StartReader, ReadPacket, LockForPacket, HandledPacket, ReaderStops, Reading
<1>8. QED BY <1>2, <1>3, <1>4, <1>5, <1>6, <1>7 DEF Next

\* After Close has waited for a packet reader, that reader handles no packet.
THEOREM QuietAfterWaitHolds == Spec => []QuietAfterWait
<1>1. Init => QuietAfterWait
  BY DEF Init, QuietAfterWait, Idle
<1>2. ASSUME IInv, QuietAfterWait, [Next]_vars
      PROVE  QuietAfterWait'
  <2>1. proc \in [Procs -> ProcState] /\ lst \in [Listener -> ListenerState]
    BY <1>2 DEF IInv, TypeOK
  <2>2. ASSUME NEW p \in Procs, proc'[p].pc = "remove"
        PROVE  lst'[proc'[p].l].reader \notin {"rlock", "handle"}
    <3> DEFINE l == proc[p].l
    <3>1. proc'[p].l = l /\ proc[p].pc \in {"stop", "remove"}
          /\ lst[l].reader \notin {"rlock", "handle"}
      <4>1. CASE proc'[p] = proc[p]
        BY <1>2, <2>2, <4>1 DEF QuietAfterWait
      <4>2. CASE StopReader(p) /\ proc'[p] = [proc[p] EXCEPT !.pc = "remove"]
        BY <2>1, <4>2 DEF StopReader, At, ProcState
      <4>3. ~(proc'[p] = [proc[p] EXCEPT !.pc = "detach"])
        BY <2>1, <2>2 DEF ProcState
      <4>4. QED BY <1>2, <2>2, <4>1, <4>2, <4>3, AfterWait
    <3>2. l \in Listener
      BY <1>2, <3>1, NextStates DEF OnListener
    <3>3. lst[l].conn = "closed"
      BY <1>2, <3>1, <3>2 DEF HoldsNet, IInv, ListenerInv, ClosingListener
    <3>4. QED BY <1>2, <3>1, <3>2, <3>3, ListenerStaysQuiet
  <2>3. ASSUME NEW p \in Procs, proc'[p].pc = "detach"
        PROVE  ifc'[proc'[p].i].reader # "forward"
    <3> DEFINE i == proc[p].i
    <3>1. proc'[p].i = i /\ proc[p].pc \in {"stopIfc", "detach"} /\ ifc[i].reader # "forward"
      <4>1. CASE proc'[p] = proc[p]
        BY <1>2, <2>3, <4>1 DEF QuietAfterWait
      <4>2. CASE StopIfcReader(p) /\ proc'[p] = [proc[p] EXCEPT !.pc = "detach"]
        BY <2>1, <4>2 DEF StopIfcReader, At, ProcState
      <4>3. ~(proc'[p] = [proc[p] EXCEPT !.pc = "remove"])
        BY <2>1, <2>3 DEF ProcState
      <4>4. QED BY <1>2, <2>3, <4>1, <4>2, <4>3, AfterWait
    <3>2. i \in Ifc
      BY <1>2, <3>1, NextStates DEF ClosingIfc
    <3>3. ifc[i].state = "closed" /\ ifc[i].device = "gone"
      BY <1>2, <3>1, <3>2 DEF HoldsState, IInv, IfcInv, ClosingIfcs
    <3>4. QED BY <1>2, <3>1, <3>2, <3>3, IfcStaysQuiet
  <2>4. QED BY <2>2, <2>3 DEF QuietAfterWait
<1>3. QED BY <1>1, <1>2, Invariance, PTL DEF Spec

-----------------------------------------------------------------------------
(* The ways to get stuck.                                                    *)

LEMMA StuckStays == IInv /\ Stuck /\ [Next]_vars => Stuck'
<1> SUFFICES ASSUME IInv, Stuck, [Next]_vars PROVE Stuck'
  OBVIOUS
<1>1. /\ proc \in [Procs -> ProcState] /\ lst \in [Listener -> ListenerState]
  BY DEF IInv, TypeOK
<1>2. CASE status # "running"
  <2>1. UNCHANGED status
    BY <1>2 DEF Next, Step, NewListener, FindListener, Scan, Bind, NewInterface, FindInterface,
         ListInterfaces, SaveConfig, CloseConn, StopReader, RemoveSelf, MoreInterfaces,
         FirstInterface, CloseDevice, StopIfcReader, Detach, Signal, MoreListeners,
         FirstListener, StartReader, ReadPacket, LockForPacket, HandledPacket, ReaderStops,
         Reading, StartIfcReader, ReadFromDevice, Forwarded, IfcReaderStops, DeviceFails,
         IfcReading, At, vars
  <2>2. QED BY <1>2, <2>1 DEF Stuck
<1>3. CASE leaked # {}
  <2>1. leaked \subseteq leaked'
    BY DEF Next, Step, NewListener, FindListener, Scan, Bind, NewInterface, FindInterface,
         ListInterfaces, SaveConfig, CloseConn, StopReader, RemoveSelf, MoreInterfaces,
         FirstInterface, CloseDevice, StopIfcReader, Detach, Signal, MoreListeners,
         FirstListener, StartReader, ReadPacket, LockForPacket, HandledPacket, ReaderStops,
         Reading, StartIfcReader, ReadFromDevice, Forwarded, IfcReaderStops, DeviceFails,
         IfcReading, vars
  <2>2. QED BY <1>3, <2>1 DEF Stuck
<1>4. CASE ReaderCycle
  <2>1. PICK p \in Procs : proc[p].pc = "stop" /\ lst[proc[p].l].reader = "rlock"
    BY <1>4 DEF ReaderCycle
  <2> DEFINE l == proc[p].l
  <2>2. l \in Listener /\ HoldsNet(p, l) /\ lst[l].conn = "closed" /\ ~NetRFree(l)
    BY <2>1, NextStates DEF OnListener, HoldsNet, NetRFree, NetWriter, IInv, ListenerInv,
                            ClosingListener
  <2>3. ~Step(p)
    BY <2>1 DEF Step, At, Bind, NewInterface, FindInterface, ListInterfaces, SaveConfig,
                CloseConn, StopReader, RemoveSelf, MoreInterfaces, FirstInterface, CloseDevice,
                StopIfcReader, Detach
  <2>4. proc'[p] = proc[p]
    BY <2>1, <2>3, Movers
  <2>5. lst'[l].reader = "rlock"
    <3>1. ASSUME NEW q \in Procs, CloseConn(q) \/ Bind(q), proc[q].l = l
          PROVE  lst'[l].reader = "rlock"
      <4>1. ~Bind(q)
        BY <2>2, <3>1 DEF Bind, At, IInv, ListenerInv, Binding
      <4>2. lst' = lst
        BY <2>2, <3>1, <4>1 DEF CloseConn
      <4>3. QED BY <2>1, <4>2
    <3>2. ~(StartReader(l) \/ ReadPacket(l) \/ LockForPacket(l) \/ HandledPacket(l)
            \/ ReaderStops(l))
      BY <2>1, <2>2 DEF StartReader, ReadPacket, LockForPacket, HandledPacket, ReaderStops,
                        Reading
    <3>3. QED BY <2>1, <2>2, <3>1, <3>2, ReaderSteps
  <2>6. QED BY <2>1, <2>4, <2>5 DEF Stuck, ReaderCycle
<1>5. CASE LockInversion
  <2>1. PICK p \in Procs, h \in Procs : /\ proc[p].pc = "remove"
                                        /\ proc[h].pc \in {"list", "save"}
                                        /\ proc[h].l = proc[p].l
    BY <1>5 DEF LockInversion
  <2>2. ~AppFree /\ ~NetRFree(proc[h].l) /\ ~NetFree(proc[h].l)
    BY <2>1 DEF AppFree, HoldsApp, HoldsNet, NetRFree, NetFree, NetWriter
  <2>3. ~Step(p) /\ ~Step(h)
    BY <2>1, <2>2 DEF Step, At, Bind, NewInterface, FindInterface, ListInterfaces, SaveConfig,
                CloseConn, StopReader, RemoveSelf, MoreInterfaces, FirstInterface, CloseDevice,
                StopIfcReader, Detach
  <2>4. proc'[p] = proc[p] /\ proc'[h] = proc[h]
    BY <2>1, <2>3, Movers
  <2>5. QED BY <2>1, <2>4 DEF Stuck, LockInversion
<1>6. QED BY <1>2, <1>3, <1>4, <1>5 DEF Stuck

\* A reader that waits for the lock its listener's Close holds, a Close and a
\* scan of the lists that wait for each other's lock, and a lock SaveConfig has
\* left behind stay: no step of any goroutine undoes them.
THEOREM StuckForeverHolds == Spec => StuckForever
<1>1. IInv /\ [Next]_vars => [Stuck => Stuck']_vars
  BY StuckStays
<1>2. QED BY <1>1, Invariance, PTL DEF Spec, StuckForever
-----------------------------------------------------------------------------
(* No goroutines wait for each other in a circle.                            *)

\* The states of Listener.Close from the closing of the socket on, and those of
\* Interface.Close.
Closings == {"stop", "remove", "loop", "first"} \cup ClosingIfc

\* Goroutine p has closed the socket of l, and its Listener.Close goes on.
Closes(p, l) == proc[p].l = l /\ proc[p].pc \in Closings

\* A listener has one goroutine that has closed its socket.
OneCloser ==
  \A l \in Listener :
    /\ \A p \in Procs : Closes(p, l) => lst[l].conn = "closed"
    /\ \A p, q \in Procs : Closes(p, l) /\ Closes(q, l) => p = q

\* Listener.Close closes interfaces of its listener.
OwnIfcs ==
  \A p \in Procs : proc[p].pc \in ClosingIfc =>
    /\ ifc[proc[p].i].state # "none"
    /\ proc[p].l # None => ifc[proc[p].i].l = proc[p].l

\* How a goroutine gets to such a state.
LEMMA Arrivals ==
  ASSUME IInv, [Next]_vars, NEW p \in Procs, proc'[p].pc \in Closings
  PROVE  \/ /\ proc[p].pc \in Closings
            /\ proc'[p].l = proc[p].l /\ proc'[p].i \in {proc[p].i, None}
         \/ /\ proc[p].pc = "first"
            /\ proc'[p].l = proc[p].l /\ proc'[p].i \in interfaces[proc[p].l]
         \/ CloseConn(p) /\ lst[proc[p].l].conn = "open" /\ proc'[p].l = proc[p].l
         \/ /\ proc'[p].l = None
            /\ proc'[p].i \in Ifc /\ ifc[proc'[p].i].state # "none"
<1>1. proc \in [Procs -> ProcState] /\ interfaces \in [Listener -> SUBSET Ifc]
  BY DEF IInv, TypeOK
<1>2. ASSUME NEW q \in Procs, NEW s, Become(q, s), s.pc \notin Closings
      PROVE  proc'[p] = proc[p]
  BY <1>1, <1>2 DEF Become
<1>3. ASSUME NEW q \in Procs, NEW i, Become(q, [Idle EXCEPT !.pc = "state", !.i = i]),
             i \in Ifc, ifc[i].state # "none"
      PROVE  \/ proc'[p] = proc[p]
             \/ /\ proc'[p].l = None
                /\ proc'[p].i \in Ifc /\ ifc[proc'[p].i].state # "none"
  BY <1>1, <1>3 DEF Become, Idle
<1>4. CASE proc'[p] = proc[p]
  BY <1>4
<1>5. ASSUME NEW q \in Procs, Step(q), q # p
      PROVE  proc'[p] = proc[p]
  BY <1>5, StepFrame
<1>6. CASE Step(p)
  <2>1. CASE CloseConn(p)
    <3>1. CASE lst[proc[p].l].conn = "closed" /\ UNCHANGED proc
      BY <3>1, <1>4
    <3>2. CASE lst[proc[p].l].conn = "open" /\ Goto(p, "stop")
      <4>1. proc'[p].l = proc[p].l
        BY <1>1, <3>2 DEF Goto, Become, ProcState
      <4>2. QED BY <2>1, <3>2, <4>1
    <3>3. QED BY <2>1, <3>1, <3>2 DEF CloseConn
  <2>2. CASE FirstInterface(p)
    <3>1. CASE UNCHANGED proc
      BY <3>1, <1>4
    <3>2. ASSUME NEW i \in interfaces[proc[p].l],
                 Become(p, [proc[p] EXCEPT !.pc = "state", !.i = i])
          PROVE  proc'[p].l = proc[p].l /\ proc'[p].i = i
      BY <1>1, <3>2 DEF Become, ProcState
    <3>3. QED BY <2>2, <3>1, <3>2 DEF FirstInterface, At
  <2>3. CASE FindInterface(p)
    <3>1. proc[p].l \in Listener
      BY <2>3, NextStates DEF FindInterface, At, OnListener
    <3>2. CASE Become(p, Idle)
      BY <3>2, <1>2, <1>4 DEF Idle, Closings, ClosingIfc
    <3>3. ASSUME NEW i \in interfaces[proc[p].l],
                 Become(p, [Idle EXCEPT !.pc = "state", !.i = i])
          PROVE  i \in Ifc /\ ifc[i].state # "none"
      BY <1>1, <3>1, <3>3 DEF IInv, IfcInv, IfcsMade
    <3>4. QED BY <1>3, <1>4, <2>3, <3>2, <3>3 DEF FindInterface
  <2>4. CASE \/ StopReader(p) \/ RemoveSelf(p) \/ MoreInterfaces(p)
             \/ CloseDevice(p) \/ StopIfcReader(p) \/ Detach(p)
    <3>1. /\ Idle.pc = "idle" /\ [Idle EXCEPT !.pc = "quit"].pc = "quit"
          /\ "idle" \notin Closings /\ "quit" \notin Closings
      BY DEF Idle, Closings, ClosingIfc
    <3>2. /\ proc[p].pc \in Closings
          /\ \/ \E pc : Goto(p, pc)
             \/ Become(p, Idle) \/ Become(p, [Idle EXCEPT !.pc = "quit"])
             \/ Become(p, [proc[p] EXCEPT !.pc = "loop", !.i = None])
      BY <2>4 DEF StopReader, RemoveSelf, MoreInterfaces, CloseDevice, StopIfcReader, Detach,
                  ClosedIfc, ClosedListener, At, Closings, ClosingIfc
    <3>3. CASE \E pc : Goto(p, pc)
      <4>1. proc'[p].l = proc[p].l /\ proc'[p].i = proc[p].i
        BY <1>1, <3>3 DEF Goto, Become, ProcState
      <4>2. QED BY <3>2, <4>1
    <3>4. CASE Become(p, [proc[p] EXCEPT !.pc = "loop", !.i = None])
      <4>1. proc'[p].l = proc[p].l /\ proc'[p].i = None
        BY <1>1, <3>4 DEF Become, ProcState
      <4>2. QED BY <3>2, <4>1
    <3>5. QED BY <1>2, <1>4, <3>1, <3>2, <3>3, <3>4
  <2>5. CASE Bind(p) \/ NewInterface(p) \/ ListInterfaces(p) \/ SaveConfig(p)
    <3>1. Idle.pc = "idle" /\ "idle" \notin Closings /\ "save" \notin Closings
      BY DEF Idle, Closings, ClosingIfc
    <3>2. proc[p].pc = "save" => \A l, t : [proc[p] EXCEPT !.l = l, !.todo = t].pc = "save"
      BY <1>1 DEF ProcState
    <3>3. \/ Become(p, Idle)
          \/ /\ proc[p].pc = "save"
             /\ \E l, t : Become(p, [proc[p] EXCEPT !.l = l, !.todo = t])
      BY <2>5 DEF Bind, NewInterface, ListInterfaces, SaveConfig, At
    <3>4. QED BY <1>2, <1>4, <3>1, <3>2, <3>3
  <2>6. QED BY <1>6, <2>1, <2>2, <2>3, <2>4, <2>5 DEF Step
<1>7. ASSUME NEW h \in Handlers, NEW l \in Listener,
             \/ \E name \in Name, addr \in Address : NewListener(h, l, name, addr)
             \/ FindListener(h, l)
             \/ Scan(h, l)
      PROVE  proc'[p] = proc[p]
  <2>1. /\ h \in Procs
        /\ \A pc : [Idle EXCEPT !.pc = pc, !.l = l].pc = pc
        /\ \A t : [Idle EXCEPT !.pc = "save", !.l = l, !.todo = t].pc = "save"
    BY DEF Procs, Idle
  <2>2. \/ \E pc \in {"bind", "newIfc", "close", "findIfc", "list"} :
             Become(h, [Idle EXCEPT !.pc = pc, !.l = l])
        \/ \E t : Become(h, [Idle EXCEPT !.pc = "save", !.l = l, !.todo = t])
    BY <1>7 DEF NewListener, FindListener, Scan
  <2>3. {"bind", "newIfc", "close", "findIfc", "list", "save"} \cap Closings = {}
    BY DEF Closings, ClosingIfc
  <2>4. QED BY <1>2, <2>1, <2>2, <2>3
<1>8. CASE Signal \/ MoreListeners \/ FirstListener
  <2>1. /\ Quit \in Procs
        /\ \/ UNCHANGED proc
           \/ \E pc \in {"quit", "quitFirst"} : Goto(Quit, pc)
           \/ \E l : Become(Quit, [Idle EXCEPT !.pc = "close", !.l = l])
    BY <1>8 DEF Signal, MoreListeners, FirstListener, Procs
  <2>2. /\ \A l : [Idle EXCEPT !.pc = "close", !.l = l].pc = "close"
        /\ \A pc : [proc[Quit] EXCEPT !.pc = pc].pc = pc
    BY <1>1, <2>1 DEF Idle, ProcState
  <2>3. {"quit", "quitFirst", "close"} \cap Closings = {}
    BY DEF Closings, ClosingIfc
  <2>4. proc'[p] = proc[p]
    BY <1>2, <2>1, <2>2, <2>3 DEF Goto
  <2>5. QED BY <1>4, <2>4
<1>9. ASSUME NEW i \in Ifc,
             \/ StartIfcReader(i) \/ ReadFromDevice(i) \/ Forwarded(i)
             \/ IfcReaderStops(i) \/ DeviceFails(i)
      PROVE  UNCHANGED proc \/ /\ i \in Procs /\ ifc[i].state # "none"
                               /\ Become(i, [Idle EXCEPT !.pc = "state", !.i = i])
  BY <1>9 DEF StartIfcReader, ReadFromDevice, Forwarded, IfcReaderStops, DeviceFails,
              IfcReading, Procs
<1>10. ASSUME NEW l \in Listener,
              \/ StartReader(l) \/ ReadPacket(l) \/ LockForPacket(l)
              \/ HandledPacket(l) \/ ReaderStops(l)
       PROVE  UNCHANGED proc
  BY <1>10 DEF StartReader, ReadPacket, LockForPacket, HandledPacket, ReaderStops, Reading
<1>11. CASE UNCHANGED vars
  BY <1>4, <1>11 DEF vars
<1>12. QED BY <1>3, <1>4, <1>5, <1>6, <1>7, <1>8, <1>9, <1>10, <1>11 DEF Next
\* An interface that was made stays, on its listener.
LEMMA IfcStays ==
  ASSUME IInv, [Next]_vars
  PROVE  \A i \in Ifc : ifc[i].state # "none" => ifc'[i].state # "none" /\ ifc'[i].l = ifc[i].l
<1> SUFFICES ASSUME NEW i \in Ifc, ifc[i].state # "none"
             PROVE  ifc'[i].state # "none" /\ ifc'[i].l = ifc[i].l
  OBVIOUS
<1>1. CASE UNCHANGED <<ifc[i].vni, ifc[i].l, ifc[i].state>>
  BY <1>1
<1>2. CASE /\ UNCHANGED <<ifc[i].vni, ifc[i].l>>
           /\ \E q \in Procs : CloseDevice(q) /\ HoldsState(q, i)'
  <2>1. ifc'[i].state = "closed"
    BY <1>2, NextInv DEF IInv, IfcInv, ClosingIfcs
  <2>2. QED BY <1>2, <2>1
<1>3. QED BY <1>1, <1>2, IfcSteps

LEMMA OwnIfcsStep == IInv /\ OwnIfcs /\ [Next]_vars => OwnIfcs'
<1> SUFFICES ASSUME IInv, OwnIfcs, [Next]_vars, NEW p \in Procs, proc'[p].pc \in ClosingIfc
             PROVE  /\ ifc'[proc'[p].i].state # "none"
                    /\ proc'[p].l # None => ifc'[proc'[p].i].l = proc'[p].l
  BY DEF OwnIfcs
<1> DEFINE l == proc'[p].l
           i == proc'[p].i
<1>1. /\ proc \in [Procs -> ProcState] /\ proc' \in [Procs -> ProcState]
      /\ interfaces \in [Listener -> SUBSET Ifc]
  BY NextInv DEF IInv, TypeOK
<1>2. i \in Ifc /\ l \in Listener \cup {None}
  BY <1>1 DEF ProcState
<1>3. ifc[i].state # "none" /\ (l # None => ifc[i].l = l)
  <2>1. CASE /\ proc[p].pc \in Closings
             /\ l = proc[p].l /\ i \in {proc[p].i, None}
    <3>1. i = proc[p].i
      BY <1>2, <2>1, ConstAssumption
    <3>2. proc[p].pc \in ClosingIfc
      BY <1>1, <1>2, <3>1, ConstAssumption DEF ProcState
    <3>3. QED BY <2>1, <3>1, <3>2 DEF OwnIfcs
  <2>2. CASE proc[p].pc = "first" /\ l = proc[p].l /\ i \in interfaces[proc[p].l]
    <3>1. proc[p].l \in Listener
      BY <2>2, NextStates DEF OnListener
    <3>2. QED BY <2>2, <3>1 DEF IInv, IfcInv, IfcsMade
  <2>3. CASE CloseConn(p) /\ lst[proc[p].l].conn = "open"
    <3>1. Goto(p, "stop")
      BY <2>3 DEF CloseConn
    <3>2. proc'[p].pc = "stop"
      BY <1>1, <3>1 DEF Goto, Become, ProcState
    <3>3. QED BY <3>2 DEF ClosingIfc
  <2>4. CASE l = None /\ i \in Ifc /\ ifc[i].state # "none"
    BY <2>4
  <2>5. proc'[p].pc \in Closings
    BY DEF Closings
  <2>6. QED BY <2>1, <2>2, <2>3, <2>4, <2>5, Arrivals
<1>4. QED BY <1>2, <1>3, IfcStays

\* A closed socket stays closed.
LEMMA ConnClosedStays ==
  ASSUME IInv, [Next]_vars, NEW l \in Listener, lst[l].conn = "closed"
  PROVE  lst'[l].conn = "closed"
<1>1. lst \in [Listener -> ListenerState]
  BY DEF IInv, TypeOK
<1>2. ASSUME NEW from, NEW to, Reading(l, from, to)
      PROVE  lst'[l].conn = "closed"
  BY <1>1, <1>2 DEF Reading, ListenerState
<1>3. ASSUME NEW p \in Procs, CloseConn(p) \/ Bind(p), proc[p].l = l
      PROVE  UNCHANGED lst
  BY <1>3 DEF CloseConn, Bind, At, IInv, ListenerInv, Binding
<1>4. QED BY <1>2, <1>3, ReaderSteps
          DEF StartReader, ReadPacket, LockForPacket, HandledPacket, ReaderStops

LEMMA OneCloserStep == IInv /\ OneCloser /\ [Next]_vars => OneCloser'
<1> SUFFICES ASSUME IInv, OneCloser, [Next]_vars, NEW l \in Listener
             PROVE  /\ \A p \in Procs : Closes(p, l)' => lst'[l].conn = "closed"
                    /\ \A p, q \in Procs : Closes(p, l)' /\ Closes(q, l)' => p = q
  BY DEF OneCloser
<1>1. lst \in [Listener -> ListenerState] /\ l # None
  BY ConstAssumption DEF IInv, TypeOK
<1>2. ASSUME NEW p \in Procs, Closes(p, l)'
      PROVE  Closes(p, l) \/ (CloseConn(p) /\ proc[p].l = l /\ lst[l].conn = "open")
  <2>1. proc'[p].l = l /\ proc'[p].pc \in Closings
    BY <1>2 DEF Closes
  <2>2. proc[p].pc = "first" => proc[p].pc \in Closings
    BY DEF Closings
  <2>3. QED BY <1>1, <2>1, <2>2, Arrivals DEF Closes
<1>3. ASSUME NEW p \in Procs, CloseConn(p), proc[p].l = l, lst[l].conn = "open"
      PROVE  /\ lst'[l].conn = "closed"
             /\ \A q \in Procs : ~Closes(q, l)
             /\ \A q \in Procs : q # p => proc'[q] = proc[q]
  <2>1. lst'[l].conn = "closed"
    BY <1>1, <1>3 DEF CloseConn, ListenerState
  <2>2. \A q \in Procs : ~Closes(q, l)
    BY <1>3 DEF OneCloser
  <2>3. Step(p)
    BY <1>3 DEF Step
  <2>4. QED BY <2>1, <2>2, <2>3, StepFrame
<1>4. ASSUME NEW p \in Procs, Closes(p, l)'
      PROVE  lst'[l].conn = "closed"
  BY <1>2, <1>3, <1>4, ConnClosedStays DEF OneCloser
<1>5. ASSUME NEW p \in Procs, NEW q \in Procs, Closes(p, l)', Closes(q, l)'
      PROVE  p = q
  <2>1. CASE Closes(p, l) /\ Closes(q, l)
    BY <2>1 DEF OneCloser
  <2>2. ASSUME NEW r \in Procs, CloseConn(r), proc[r].l = l, lst[l].conn = "open"
        PROVE  p = q
    <3>1. \A s \in Procs : Closes(s, l)' => s = r
      BY <2>2, <1>3 DEF Closes
    <3>2. QED BY <1>5, <3>1
  <2>3. QED BY <1>2, <1>5, <2>1, <2>2
<1>6. QED BY <1>4, <1>5

-----------------------------------------------------------------------------
(* The goroutines by the length of the chains in which they wait.            *)

\* Those who wait, if at all, for goroutines of A.
Then(A) == {p \in Procs : \A q \in Procs : WaitsFor(p, q) => q \in A}
Wait0 == Then({})
Wait1 == Then(Wait0)
Wait2 == Then(Wait1)
Wait3 == Then(Wait2)
Wait4 == Then(Wait3)

LEMMA WaitsGrow == Wait0 \subseteq Wait1 /\ Wait1 \subseteq Wait2 /\ Wait2 \subseteq Wait3 /\ Wait3 \subseteq Wait4
<1>1. Wait0 \subseteq Wait1
  BY DEF Wait0, Wait1, Then
<1>2. Wait1 \subseteq Wait2
  BY <1>1 DEF Wait2, Wait1, Then
<1>3. Wait2 \subseteq Wait3
  BY <1>2 DEF Wait3, Wait2, Then
<1>4. Wait3 \subseteq Wait4
  BY <1>3 DEF Wait4, Wait3, Then
<1>5. QED BY <1>1, <1>2, <1>3, <1>4

\* If no chain is longer than four, the goroutines of no set wait for each other.
LEMMA ChainsEnd ==
  ASSUME Wait4 = Procs, NEW waiting \in SUBSET Procs, waiting # {}
  PROVE  \E p \in waiting : \A q \in waiting : ~WaitsFor(p, q)
<1> SUFFICES ASSUME \A p \in waiting : \E q \in waiting : WaitsFor(p, q) PROVE FALSE
  OBVIOUS
<1>1. PICK p4 \in waiting : p4 \in Wait4
  OBVIOUS
<1>2. PICK p3 \in waiting : p3 \in Wait3
  BY <1>1 DEF Wait4, Then
<1>3. PICK p2 \in waiting : p2 \in Wait2
  BY <1>2 DEF Wait3, Then
<1>4. PICK p1 \in waiting : p1 \in Wait1
  BY <1>3 DEF Wait2, Then
<1>5. PICK p0 \in waiting : p0 \in Wait0
  BY <1>4 DEF Wait1, Then
<1>6. QED BY <1>5 DEF Wait0, Then

\* Who holds the l.net of a listener in Close waits for its reader or app.Net.
\* The Close that has gone on to the listener's interfaces leaves l.net to nobody.
LEMMA NetOfClosing ==
  ASSUME OneCloser, OwnIfcs, NEW p \in Procs, proc[p].pc \in ClosingIfc, proc[p].l \in Listener,
         NEW q \in Procs
  PROVE  ~HoldsNet(q, ifc[proc[p].i].l)
<1>1. proc[p].l # None
  BY ConstAssumption
<1>2. ifc[proc[p].i].l = proc[p].l /\ Closes(p, proc[p].l)
  BY <1>1 DEF OwnIfcs, Closes, Closings
<1>3. SUFFICES ASSUME HoldsNet(q, proc[p].l) PROVE FALSE
  BY <1>2
<1>4. Closes(q, proc[p].l) /\ proc[q].pc \in {"stop", "remove"}
  BY <1>3 DEF HoldsNet, Closes, Closings
<1>5. QED BY <1>2, <1>4 DEF OneCloser, ClosingIfc

LEMMA EveryChainEnds ==
  ASSUME IInv, OneCloser, OwnIfcs, ~Stuck
  PROVE  Wait4 = Procs
<1> USE DEF WaitsFor, WantsNet
<1>1. ASSUME NEW p \in Procs,
             proc[p].pc \notin {"newIfc", "findIfc", "list", "save", "close", "detach",
                                "remove", "state"}
      PROVE  p \in Wait0
  BY <1>1 DEF Wait0, Then
<1>2. ASSUME NEW p \in Procs, proc[p].pc = "detach", proc[p].l \in Listener
      PROVE  p \in Wait0
  <2>1. \A q \in Procs : ~HoldsNet(q, ifc[proc[p].i].l)
    BY <1>2, NetOfClosing DEF ClosingIfc
  <2>2. QED BY <1>2, <2>1 DEF Wait0, Then
<1>3. ASSUME NEW p \in Procs, proc[p].pc \in {"list", "save"}
      PROVE  p \in Wait1
  <2>1. ASSUME NEW q \in Procs, HoldsNet(q, proc[p].l)
        PROVE  q \in Wait0
    <3>1. proc[q].pc = "stop"
      BY <1>3, <2>1 DEF HoldsNet, Stuck, LockInversion
    <3>2. QED BY <1>1, <3>1
  <2>2. QED BY <1>3, <2>1 DEF Wait1, Then
<1>4. ASSUME NEW p \in Procs, proc[p].pc = "state", proc[p].l \in Listener
      PROVE  p \in Wait1
  <2>1. ASSUME NEW q \in Procs, HoldsState(q, proc[p].i)
        PROVE  q \in Wait0
    <3>1. CASE proc[q].pc = "stopIfc"
      BY <1>1, <3>1
    <3>2. CASE proc[q].pc = "detach" /\ proc[q].i = proc[p].i
      <4>1. \A r \in Procs : ~HoldsNet(r, ifc[proc[q].i].l)
        BY <1>4, <3>2, NetOfClosing DEF ClosingIfc
      <4>2. QED BY <3>2, <4>1 DEF Wait0, Then
    <3>3. QED BY <2>1, <3>1, <3>2 DEF HoldsState
  <2>2. QED BY <1>4, <2>1 DEF Wait1, Then
<1>5. ASSUME NEW p \in Procs, proc[p].pc = "remove"
      PROVE  p \in Wait2
  <2>1. ASSUME NEW q \in Procs, HoldsApp(q)
        PROVE  q \in Wait1
    <3>1. CASE proc[q].pc \in {"bind", "loop", "first", "stopIfc"}
      BY <1>1, <3>1, WaitsGrow
    <3>2. CASE proc[q].pc \in {"list", "save"}
      BY <1>3, <3>2
    <3>3. CASE proc[q].pc \in {"state", "detach"} /\ proc[q].l # None
      <4>1. proc[q].l \in Listener
        BY <3>3 DEF IInv, TypeOK, ProcState
      <4>2. QED BY <1>2, <1>4, <3>3, <4>1, WaitsGrow
    <3>4. QED BY <2>1, <3>1, <3>2, <3>3 DEF HoldsApp, ClosingIfc
  <2>2. QED BY <1>5, <2>1 DEF Wait2, Then
<1>6. ASSUME NEW p \in Procs, proc[p].pc \in {"newIfc", "findIfc", "close", "detach"}
      PROVE  p \in Wait3
  <2>1. ASSUME NEW q \in Procs, NEW l \in Listener, HoldsNet(q, l)
        PROVE  q \in Wait2
    BY <1>1, <1>5, <2>1, WaitsGrow DEF HoldsNet
  <2>2. QED BY <1>6, <2>1 DEF Wait3, Then
<1>7. ASSUME NEW p \in Procs, proc[p].pc = "state"
      PROVE  p \in Wait4
  <2>1. ASSUME NEW q \in Procs, HoldsState(q, proc[p].i)
        PROVE  q \in Wait3
    BY <1>1, <1>6, <2>1, WaitsGrow DEF HoldsState
  <2>2. QED BY <1>7, <2>1 DEF Wait4, Then
<1>8. \A p \in Procs : p \in Wait4
  BY <1>1, <1>3, <1>5, <1>6, <1>7, WaitsGrow
<1>9. QED BY <1>8 DEF Wait4, Then

\* However many goroutines open, list, save and close, no set of them waits in a
\* circle, unless in one of the ways Stuck names.
THEOREM NoDeadlockHolds == Spec => []NoDeadlock
<1>1. Init => OneCloser /\ OwnIfcs
  BY DEF Init, OneCloser, OwnIfcs, Closes, Closings, ClosingIfc, Idle
<1>2. IInv /\ OneCloser /\ OwnIfcs /\ [Next]_vars => (OneCloser /\ OwnIfcs)'
  BY OneCloserStep, OwnIfcsStep
<1>3. IInv /\ OneCloser /\ OwnIfcs => NoDeadlock
  <2> SUFFICES ASSUME IInv, OneCloser, OwnIfcs, ~Stuck,
                      NEW waiting \in (SUBSET Procs) \ {{}}
               PROVE  \E p \in waiting : \A q \in waiting : ~WaitsFor(p, q)
    BY DEF NoDeadlock
  <2> QED BY EveryChainEnds, ChainsEnd
<1>4. QED BY <1>1, <1>2, <1>3, Invariance, PTL DEF Spec
-----------------------------------------------------------------------------
(* Lifecycle implements Registry.                                            *)

\* What the lists have, beside IInv: every open listener and live interface, and
\* nothing that was not made.
Listing ==
  /\ \A l \in Listener : lst[l].conn = "open" => l \in listeners
  /\ \A l \in listeners : lst[l].conn # "none"
  /\ \A l \in Listener : lst[l].conn = "none" => interfaces[l] = {}
  /\ \A p \in Procs : /\ proc[p].pc = "newIfc" => lst[proc[p].l].conn # "none"
                      /\ proc[p].pc = "bind" => lst[proc[p].l].addr # None
  /\ \A i \in Ifc : ifc[i].state = "live" =>
       \E l \in Listener : ifc[i].l = l /\ i \in interfaces[l]

\* How a handler gets to the making of an interface or a listener.
LEMMA Calls ==
  ASSUME IInv, [Next]_vars, NEW p \in Procs, proc'[p].pc \in {"newIfc", "bind"}
  PROVE  \/ proc'[p] = proc[p]
         \/ proc'[p].pc = "newIfc" /\ proc'[p].l \in listeners
         \/ \E l \in Listener, name \in Name, addr \in Address :
              NewListener(p, l, name, addr) /\ proc'[p].l = l
<1>1. proc \in [Procs -> ProcState]
  BY DEF IInv, TypeOK
<1>2. ASSUME NEW q \in Procs, NEW s, Become(q, s), s.pc \notin {"newIfc", "bind"}
      PROVE  proc'[p] = proc[p]
  BY <1>1, <1>2 DEF Become
<1>3. ASSUME NEW q \in Procs, NEW pc, Goto(q, pc), pc \notin {"newIfc", "bind"}
      PROVE  proc'[p] = proc[p]
  <2>1. [proc[q] EXCEPT !.pc = pc].pc = pc
    BY <1>1 DEF ProcState
  <2>2. QED BY <1>2, <1>3, <2>1 DEF Goto
<1>4. ASSUME NEW q \in Procs, Step(q)
      PROVE  proc'[p] = proc[p]
  <2>1. CASE q # p
    BY <1>4, <2>1, StepFrame
  <2>2. CASE q = p
    <3>1. /\ Idle.pc = "idle" /\ [Idle EXCEPT !.pc = "quit"].pc = "quit"
          /\ [proc[p] EXCEPT !.pc = "loop", !.i = None].pc = "loop"
          /\ \A i : [Idle EXCEPT !.pc = "state", !.i = i].pc = "state"
          /\ \A i : [proc[p] EXCEPT !.pc = "state", !.i = i].pc = "state"
      BY <1>1 DEF Idle, ProcState
    <3>2. proc[p].pc = "save" => \A l, t : [proc[p] EXCEPT !.l = l, !.todo = t].pc = "save"
      BY <1>1 DEF ProcState
    <3>3. CASE \/ Bind(p) \/ NewInterface(p) \/ ListInterfaces(p) \/ FindInterface(p)
               \/ FirstInterface(p)
      <4>1. \/ UNCHANGED proc
            \/ Become(p, Idle)
            \/ \E i : Become(p, [Idle EXCEPT !.pc = "state", !.i = i])
            \/ \E i : Become(p, [proc[p] EXCEPT !.pc = "state", !.i = i])
        BY <3>3 DEF Bind, NewInterface, ListInterfaces, FindInterface, FirstInterface
      <4>2. QED BY <1>2, <3>1, <4>1
    <3>4. CASE \/ CloseConn(p) \/ StopReader(p) \/ RemoveSelf(p) \/ MoreInterfaces(p)
               \/ CloseDevice(p) \/ StopIfcReader(p) \/ Detach(p) \/ SaveConfig(p)
      <4>1. \/ UNCHANGED proc
            \/ Goto(p, "stop") \/ Goto(p, "remove") \/ Goto(p, "loop") \/ Goto(p, "first")
            \/ Goto(p, "stopIfc") \/ Goto(p, "detach")
            \/ Become(p, Idle) \/ Become(p, [Idle EXCEPT !.pc = "quit"])
            \/ Become(p, [proc[p] EXCEPT !.pc = "loop", !.i = None])
            \/ /\ proc[p].pc = "save"
               /\ \E l, t : Become(p, [proc[p] EXCEPT !.l = l, !.todo = t])
        BY <3>4 DEF CloseConn, StopReader, RemoveSelf, MoreInterfaces, CloseDevice,
                    StopIfcReader, Detach, SaveConfig, ClosedIfc, ClosedListener, At
      <4>2. QED BY <1>2, <1>3, <3>1, <3>2, <4>1
    <3>5. QED BY <1>4, <2>2, <3>3, <3>4 DEF Step
  <2>3. QED BY <2>1, <2>2
<1>5. ASSUME NEW h \in Handlers, NEW l \in Listener, FindListener(h, l) \/ Scan(h, l)
      PROVE  \/ proc'[p] = proc[p]
             \/ proc'[p].pc = "newIfc" /\ proc'[p].l \in listeners
  <2>1. /\ h \in Procs /\ Idle.pc = "idle"
        /\ \A pc : /\ [Idle EXCEPT !.pc = pc, !.l = l].pc = pc
                   /\ [Idle EXCEPT !.pc = pc, !.l = l].l = l
        /\ \A t : [Idle EXCEPT !.pc = "save", !.l = l, !.todo = t].pc = "save"
    BY DEF Procs, Idle
  <2>2. /\ l \in listeners
        /\ \/ \E pc \in {"newIfc", "close", "findIfc", "list"} :
                Become(h, [Idle EXCEPT !.pc = pc, !.l = l])
           \/ \E t : Become(h, [Idle EXCEPT !.pc = "save", !.l = l, !.todo = t])
    BY <1>5 DEF FindListener, Scan
  <2>3. CASE Become(h, [Idle EXCEPT !.pc = "newIfc", !.l = l])
    BY <1>1, <2>1, <2>2, <2>3 DEF Become
  <2>4. QED BY <1>2, <2>1, <2>2, <2>3
<1>6. ASSUME NEW h \in Handlers, NEW l \in Listener, NEW name \in Name, NEW addr \in Address,
             NewListener(h, l, name, addr)
      PROVE  proc'[p] = proc[p] \/ (h = p /\ proc'[p].l = l)
  <2>1. h \in Procs /\ [Idle EXCEPT !.pc = "bind", !.l = l].l = l
    BY DEF Procs, Idle
  <2>2. QED BY <1>1, <1>6, <2>1 DEF NewListener, Become
<1>7. CASE Signal \/ MoreListeners \/ FirstListener
  <2>1. /\ Quit \in Procs
        /\ \/ UNCHANGED proc
           \/ \E pc \in {"quit", "quitFirst"} : Goto(Quit, pc)
           \/ \E l : Become(Quit, [Idle EXCEPT !.pc = "close", !.l = l])
    BY <1>7 DEF Signal, MoreListeners, FirstListener, Procs
  <2>2. \A l : [Idle EXCEPT !.pc = "close", !.l = l].pc = "close"
    BY DEF Idle
  <2>3. QED BY <1>2, <1>3, <2>1, <2>2
<1>8. ASSUME NEW i \in Ifc,
             \/ StartIfcReader(i) \/ ReadFromDevice(i) \/ Forwarded(i)
             \/ IfcReaderStops(i) \/ DeviceFails(i)
      PROVE  proc'[p] = proc[p]
  <2>1. i \in Procs /\ (UNCHANGED proc \/ Become(i, [Idle EXCEPT !.pc = "state", !.i = i]))
    BY <1>8 DEF StartIfcReader, ReadFromDevice, Forwarded, IfcReaderStops, DeviceFails,
                IfcReading, Procs
  <2>2. [Idle EXCEPT !.pc = "state", !.i = i].pc = "state"
    BY DEF Idle
  <2>3. QED BY <1>2, <2>1, <2>2
<1>9. ASSUME NEW l \in Listener,
             \/ StartReader(l) \/ ReadPacket(l) \/ LockForPacket(l)
             \/ HandledPacket(l) \/ ReaderStops(l)
      PROVE  UNCHANGED proc
  BY <1>9 DEF StartReader, ReadPacket, LockForPacket, HandledPacket, ReaderStops, Reading
<1>10. CASE UNCHANGED vars
  BY <1>10 DEF vars
<1>11. QED BY <1>4, <1>5, <1>6, <1>7, <1>8, <1>9, <1>10 DEF Next
\* A listener that has had a socket keeps it, open or closed.
LEMMA ConnStays ==
  ASSUME IInv, [Next]_vars
  PROVE  \A l \in Listener : lst[l].conn # "none" => lst'[l].conn # "none"
<1> SUFFICES ASSUME NEW l \in Listener, lst[l].conn # "none" PROVE lst'[l].conn # "none"
  OBVIOUS
<1>1. lst \in [Listener -> ListenerState]
  BY DEF IInv, TypeOK
<1>2. ASSUME NEW from, NEW to, Reading(l, from, to)
      PROVE  lst'[l].conn # "none"
  BY <1>1, <1>2 DEF Reading, ListenerState
<1>3. ASSUME NEW p \in Procs, CloseConn(p) \/ Bind(p), proc[p].l = l
      PROVE  lst'[l].conn # "none"
  BY <1>1, <1>3 DEF CloseConn, Bind, At, IInv, ListenerInv, Binding, ListenerState
<1>4. QED BY <1>2, <1>3, ReaderSteps
          DEF StartReader, ReadPacket, LockForPacket, HandledPacket, ReaderStops

\* Only a listener whose socket is closed is taken out of the list.
LEMMA OpenStaysListed ==
  ASSUME IInv, [Next]_vars
  PROVE  \A l \in listeners : lst[l].conn # "closed" => l \in listeners'
<1> SUFFICES ASSUME NEW l \in listeners, lst[l].conn # "closed" PROVE l \in listeners'
  OBVIOUS
<1>1. l \in Listener
  BY DEF IInv, TypeOK
<1>2. ASSUME NEW p \in Procs, RemoveSelf(p)
      PROVE  l \in listeners'
  <2>1. HoldsNet(p, proc[p].l)
    BY <1>2 DEF RemoveSelf, At, HoldsNet
  <2>2. proc[p].l # l
    BY <1>1, <2>1 DEF IInv, ListenerInv, ClosingListener
  <2>3. QED BY <1>2, <2>2 DEF RemoveSelf
<1>3. QED BY <1>2, ListSteps DEF NewListener, Bind

LEMMA ListedStep ==
  ASSUME IInv, Listing, [Next]_vars
  PROVE  /\ \A l \in Listener : lst'[l].conn = "open" => l \in listeners'
         /\ \A l \in listeners' : lst'[l].conn # "none"
<1>1. lst \in [Listener -> ListenerState] /\ listeners \subseteq Listener
  BY DEF IInv, TypeOK
<1>2. ASSUME NEW p \in Procs, Bind(p)
      PROVE  /\ proc[p].l \in Listener /\ lst[proc[p].l].conn = "none"
             /\ \/ lst'[proc[p].l].conn = "open" /\ listeners' = listeners \cup {proc[p].l}
                \/ lst'[proc[p].l].conn = "none" /\ listeners' = listeners
  <2>1. proc[p].l \in Listener /\ lst[proc[p].l].conn = "none"
    BY <1>2, NextStates DEF Bind, At, OnListener, IInv, ListenerInv, Binding
  <2>2. QED BY <1>1, <1>2, <2>1 DEF Bind, ListenerState
<1>3. ASSUME NEW l \in Listener, lst'[l].conn = "open"
      PROVE  l \in listeners'
  <2>1. CASE lst[l].conn = "open"
    BY <2>1, OpenStaysListed DEF Listing
  <2>2. ASSUME NEW from, NEW to, Reading(l, from, to)
        PROVE  lst'[l].conn = lst[l].conn
    BY <1>1, <2>2 DEF Reading, ListenerState
  <2>3. ASSUME NEW p \in Procs, CloseConn(p), proc[p].l = l, lst[l].conn # "open"
        PROVE  UNCHANGED lst
    BY <2>3 DEF CloseConn
  <2>4. ASSUME NEW p \in Procs, Bind(p), proc[p].l = l
        PROVE  l \in listeners'
    BY <1>2, <1>3, <2>4
  <2>5. QED BY <1>3, <2>1, <2>2, <2>3, <2>4, ReaderSteps
            DEF StartReader, ReadPacket, LockForPacket, HandledPacket, ReaderStops
<1>4. ASSUME NEW l \in listeners'
      PROVE  lst'[l].conn # "none"
  <2>1. CASE l \in listeners
    BY <1>1, <2>1, ConnStays DEF Listing
  <2>2. CASE l \notin listeners
    <3>1. PICK p \in Procs : Bind(p)
      BY <2>2, ListSteps DEF NewListener
    <3>2. QED BY <1>2, <2>2, <3>1
  <2>3. QED BY <2>1, <2>2
<1>5. QED BY <1>3, <1>4

LEMMA CallsStep ==
  ASSUME IInv, Listing, [Next]_vars, NEW p \in Procs
  PROVE  /\ proc'[p].pc = "newIfc" => lst'[proc'[p].l].conn # "none"
         /\ proc'[p].pc = "bind" => lst'[proc'[p].l].addr # None
<1>1. lst \in [Listener -> ListenerState] /\ listeners \subseteq Listener
  BY DEF IInv, TypeOK
<1>2. ASSUME NEW l \in Listener, NEW name \in Name, NEW addr \in Address,
             NewListener(p, l, name, addr), proc'[p].l = l
      PROVE  /\ proc'[p].pc # "newIfc"
             /\ lst'[l].addr # None
  <2>1. proc'[p].pc = "bind"
    BY <1>2 DEF NewListener, Become, Idle, IInv, TypeOK
  <2>2. lst'[l].addr = addr
    BY <1>1, <1>2 DEF NewListener, ListenerState
  <2>3. QED BY <2>1, <2>2, ConstAssumption
<1>3. CASE proc'[p].pc = "newIfc"
  <2>1. CASE proc'[p] = proc[p]
    <3>1. proc[p].l \in Listener /\ lst[proc[p].l].conn # "none"
      BY <1>3, <2>1, NextStates DEF Listing, OnListener
    <3>2. QED BY <1>3, <2>1, <3>1, ConnStays
  <2>2. CASE proc'[p].l \in listeners
    BY <1>1, <1>3, <2>2, ConnStays DEF Listing
  <2>3. QED BY <1>2, <1>3, <2>1, <2>2, Calls
<1>4. CASE proc'[p].pc = "bind"
  <2>1. CASE proc'[p] = proc[p]
    <3>1. /\ proc[p].pc = "bind" /\ proc[p].l \in Listener /\ lst[proc[p].l].addr # None
          /\ HoldsApp(p)
      BY <1>4, <2>1, NextStates DEF Listing, OnListener, HoldsApp
    <3>2. ASSUME NEW q \in Procs, Bind(q)
          PROVE  FALSE
      <4>1. HoldsApp(q)
        BY <3>2 DEF Bind, At, HoldsApp
      <4>2. q = p
        BY <3>1, <4>1 DEF IInv, ListenerInv, Exclusive
      <4>3. proc'[p].pc = "idle"
        BY <3>2, <4>2 DEF Bind, Become, Idle, IInv, TypeOK
      <4>4. QED BY <1>4, <4>3
    <3>3. ASSUME NEW h \in Handlers, NEW l \in Listener, NEW name \in Name, NEW addr \in Address,
                 NewListener(h, l, name, addr)
          PROVE  FALSE
      BY <3>1, <3>3 DEF NewListener, AppFree
    <3>4. lst'[proc[p].l].addr = lst[proc[p].l].addr
      BY <3>1, <3>2, <3>3, ListSteps
    <3>5. QED BY <1>4, <2>1, <3>1, <3>4
  <2>2. QED BY <1>2, <1>4, <2>1, Calls
<1>5. QED BY <1>3, <1>4

LEMMA LiveStep ==
  ASSUME IInv, Listing, [Next]_vars, NEW i \in Ifc, ifc'[i].state = "live"
  PROVE  \E l \in Listener : ifc'[i].l = l /\ i \in interfaces'[l]
<1>1. interfaces \in [Listener -> SUBSET Ifc] /\ ifc \in [Ifc -> IfcState]
  BY DEF IInv, TypeOK
<1>2. CASE ifc[i].state = "live"
  <2>1. PICK l \in Listener : ifc[i].l = l /\ i \in interfaces[l]
    BY <1>2 DEF Listing
  <2>2. ifc'[i].l = l
    BY <1>2, <2>1, IfcStays
  <2>3. ASSUME NEW p \in Procs, NewInterface(p)
        PROVE  i \in interfaces'[l]
    BY <1>1, <2>1, <2>3 DEF NewInterface
  <2>4. ASSUME NEW p \in Procs, Detach(p)
        PROVE  i \in interfaces'[l]
    <3>1. proc[p].i \in Ifc /\ HoldsState(p, proc[p].i)
      BY <2>4, NextStates DEF Detach, At, ClosingIfc, HoldsState
    <3>2. proc[p].i # i
      BY <1>2, <3>1 DEF IInv, IfcInv, ClosingIfcs
    <3>3. QED BY <1>1, <2>1, <2>4, <3>2 DEF Detach
  <2>5. i \in interfaces'[l]
    BY <2>1, <2>3, <2>4, ListChanges
  <2>6. QED BY <2>2, <2>5
<1>3. CASE ifc[i].state # "live"
  <2>1. PICK p \in Procs : NewInterface(p)
    <3>1. ~\E p \in Procs : HoldsState(p, i)'
      BY NextInv DEF IInv, IfcInv, ClosingIfcs
    <3>2. QED BY <1>3, <3>1, IfcSteps
  <2>2. proc[p].l \in Listener
    BY <2>1, NextStates DEF NewInterface, At, OnListener
  <2>3. ~UNCHANGED ifc
    BY <1>3
  <2>4. PICK j \in Ifc, v \in VNI :
          /\ ifc' = [ifc EXCEPT ![j] = [l |-> proc[p].l, vni |-> v, state |-> "live",
                                        device |-> "up", reader |-> "start"]]
          /\ interfaces' = [interfaces EXCEPT ![proc[p].l] = @ \cup {j}]
    BY <2>1, <2>3 DEF NewInterface
  <2>5. j = i
    BY <1>1, <1>3, <2>4
  <2>6. QED BY <1>1, <2>2, <2>4, <2>5
<1>4. QED BY <1>2, <1>3

LEMMA NoIfcsStep ==
  ASSUME IInv, Listing, [Next]_vars, NEW l \in Listener, lst'[l].conn = "none"
  PROVE  interfaces'[l] = {}
<1>1. lst[l].conn = "none" /\ interfaces[l] = {}
  BY ConnStays DEF Listing
<1>2. ASSUME NEW p \in Procs, NewInterface(p), proc[p].l = l
      PROVE  FALSE
  BY <1>1, <1>2 DEF NewInterface, At, Listing
<1>3. ASSUME NEW p \in Procs, Detach(p)
      PROVE  interfaces'[l] \subseteq interfaces[l]
  BY <1>3 DEF Detach, IInv, TypeOK
<1>4. QED BY <1>1, <1>2, <1>3, ListChanges

LEMMA ListingStep == IInv /\ Listing /\ [Next]_vars => Listing'
  BY ListedStep, CallsStep, LiveStep, NoIfcsStep DEF Listing
\* What the registry shows of a listener, before and after a step.
LEMMA SeenListener ==
  ASSUME NEW l \in Listener
  PROVE  /\ lst[l].conn = "none" =>
              ListenerSeen[l] = [life |-> "none", name |-> None, addr |-> None]
         /\ lst[l].conn = "open" =>
              ListenerSeen[l] = [life |-> "open", name |-> lst[l].name, addr |-> lst[l].addr]
         /\ lst[l].conn = "closed" /\ l \in listeners =>
              ListenerSeen[l] = [life |-> "closing", name |-> lst[l].name, addr |-> lst[l].addr]
         /\ lst[l].conn = "closed" /\ l \notin listeners =>
              ListenerSeen[l] = [life |-> "gone", name |-> lst[l].name, addr |-> lst[l].addr]
  BY DEF ListenerSeen, ListenerLife

LEMMA SeenListenerNext ==
  ASSUME NEW l \in Listener
  PROVE  /\ lst'[l].conn = "none" =>
              ListenerSeen'[l] = [life |-> "none", name |-> None, addr |-> None]
         /\ lst'[l].conn = "open" =>
              ListenerSeen'[l] = [life |-> "open", name |-> lst'[l].name, addr |-> lst'[l].addr]
         /\ lst'[l].conn = "closed" /\ l \in listeners' =>
              ListenerSeen'[l] = [life |-> "closing", name |-> lst'[l].name, addr |-> lst'[l].addr]
         /\ lst'[l].conn = "closed" /\ l \notin listeners' =>
              ListenerSeen'[l] = [life |-> "gone", name |-> lst'[l].name, addr |-> lst'[l].addr]
  BY DEF ListenerSeen, ListenerLife

\* And of an interface.
InSomeList(i) == \E l \in Listener : i \in interfaces[l]

LEMMA SeenIfc ==
  ASSUME NEW i \in Ifc
  PROVE  /\ ifc[i].state = "none" =>
              IfcSeen[i] = [life |-> "none", l |-> ifc[i].l, vni |-> ifc[i].vni]
         /\ ifc[i].state = "live" =>
              IfcSeen[i] = [life |-> "open", l |-> ifc[i].l, vni |-> ifc[i].vni]
         /\ ifc[i].state = "closed" /\ InSomeList(i) =>
              IfcSeen[i] = [life |-> "closing", l |-> ifc[i].l, vni |-> ifc[i].vni]
         /\ ifc[i].state = "closed" /\ ~InSomeList(i) =>
              IfcSeen[i] = [life |-> "gone", l |-> ifc[i].l, vni |-> ifc[i].vni]
  BY DEF IfcSeen, IfcLife, InSomeList

LEMMA SeenIfcNext ==
  ASSUME NEW i \in Ifc
  PROVE  /\ ifc'[i].state = "none" =>
              IfcSeen'[i] = [life |-> "none", l |-> ifc'[i].l, vni |-> ifc'[i].vni]
         /\ ifc'[i].state = "live" =>
              IfcSeen'[i] = [life |-> "open", l |-> ifc'[i].l, vni |-> ifc'[i].vni]
         /\ ifc'[i].state = "closed" /\ InSomeList(i)' =>
              IfcSeen'[i] = [life |-> "closing", l |-> ifc'[i].l, vni |-> ifc'[i].vni]
         /\ ifc'[i].state = "closed" /\ ~InSomeList(i)' =>
              IfcSeen'[i] = [life |-> "gone", l |-> ifc'[i].l, vni |-> ifc'[i].vni]
  BY DEF IfcSeen, IfcLife, InSomeList

\* When the registry shows no change.
LEMMA SameListener ==
  ASSUME IInv, NEW l \in Listener, lst'[l].conn = lst[l].conn,
         lst[l].conn # "none" => lst'[l].name = lst[l].name /\ lst'[l].addr = lst[l].addr,
         lst[l].conn = "closed" => (l \in listeners <=> l \in listeners')
  PROVE  ListenerSeen'[l] = ListenerSeen[l]
<1>1. lst[l].conn \in {"none", "open", "closed"}
  BY DEF IInv, TypeOK, ListenerState
<1>2. QED BY <1>1, SeenListener, SeenListenerNext

LEMMA SameListeners ==
  ASSUME \A l \in Listener : ListenerSeen'[l] = ListenerSeen[l]
  PROVE  ListenerSeen' = ListenerSeen
  BY DEF ListenerSeen

LEMMA SameIfc ==
  ASSUME IInv, NEW i \in Ifc, ifc'[i].state = ifc[i].state,
         ifc'[i].l = ifc[i].l, ifc'[i].vni = ifc[i].vni,
         ifc[i].state = "closed" => (InSomeList(i) <=> InSomeList(i)')
  PROVE  IfcSeen'[i] = IfcSeen[i]
<1>1. ifc[i].state \in {"none", "live", "closed"}
  BY DEF IInv, TypeOK, IfcState
<1>2. QED BY <1>1, SeenIfc, SeenIfcNext

LEMMA SameIfcs ==
  ASSUME \A i \in Ifc : IfcSeen'[i] = IfcSeen[i]
  PROVE  IfcSeen' = IfcSeen
  BY DEF IfcSeen

LEMMA UnchangedIfcs ==
  ASSUME IInv, UNCHANGED <<interfaces, ifc>>
  PROVE  IfcSeen' = IfcSeen
  BY DEF IfcSeen, IfcLife

LEMMA UnchangedListeners ==
  ASSUME IInv, UNCHANGED <<listeners, lst>>
  PROVE  ListenerSeen' = ListenerSeen
  BY DEF ListenerSeen, ListenerLife

\* The socket of a listener is opened: the registry opens it.
LEMMA BindRefines ==
  ASSUME IInv, Listing, NEW p \in Procs, Bind(p)
  PROVE  Reg!Next \/ UNCHANGED Reg!vars
<1>1. PICK l \in Listener : l = proc[p].l
  BY NextStates DEF Bind, At, OnListener
<1>2. /\ lst \in [Listener -> ListenerState]
      /\ proc[p].pc = "bind" /\ UNCHANGED <<interfaces, ifc>>
  BY DEF IInv, TypeOK, Bind, At
<1>3. /\ l \notin listeners /\ lst[l].conn = "none"
      /\ lst[l].name \in Name /\ lst[l].addr \in Address
      /\ \A k \in listeners : lst[k].name # lst[l].name /\ lst[k].addr # lst[l].addr
  <2>1. /\ l \notin listeners /\ lst[l].conn = "none" /\ lst[l].name # None
        /\ \A k \in listeners : lst[k].name # lst[l].name /\ lst[k].addr # lst[l].addr
    BY <1>1, <1>2 DEF IInv, ListenerInv, Binding
  <2>2. lst[l].addr # None
    BY <1>1, <1>2 DEF Listing
  <2>3. QED BY <1>2, <2>1, <2>2 DEF ListenerState
<1>4. IfcSeen' = IfcSeen
  BY <1>2, UnchangedIfcs
<1>5. CASE /\ listeners' = listeners \cup {l}
           /\ lst' = [lst EXCEPT ![l].conn = "open", ![l].reader = "start"]
  <2>1. ListenerSeen[l].life = "none"
    <3>1. ListenerSeen[l] = [life |-> "none", name |-> None, addr |-> None]
      BY <1>3, SeenListener
    <3>2. QED BY <3>1
  <2>2. \A k \in Listener : Reg!Listed(ListenerSeen[k]) =>
          ListenerSeen[k].name # lst[l].name /\ ListenerSeen[k].addr # lst[l].addr
    <3> SUFFICES ASSUME NEW k \in Listener, ListenerSeen[k].life \in {"open", "closing"}
                 PROVE  ListenerSeen[k].name # lst[l].name /\ ListenerSeen[k].addr # lst[l].addr
      BY DEF Reg!Listed
    <3>1. lst[k].conn \in {"none", "open", "closed"}
      BY <1>2 DEF ListenerState
    <3>2. CASE lst[k].conn = "none"
      <4>1. ListenerSeen[k] = [life |-> "none", name |-> None, addr |-> None]
        BY <3>2, SeenListener
      <4>2. QED BY <4>1
    <3>3. CASE lst[k].conn = "open"
      <4>1. ListenerSeen[k] = [life |-> "open", name |-> lst[k].name, addr |-> lst[k].addr]
        BY <3>3, SeenListener
      <4>2. k \in listeners
        BY <3>3 DEF Listing
      <4>3. QED BY <1>3, <4>1, <4>2
    <3>4. CASE lst[k].conn = "closed" /\ k \in listeners
      <4>1. ListenerSeen[k] = [life |-> "closing", name |-> lst[k].name, addr |-> lst[k].addr]
        BY <3>4, SeenListener
      <4>2. QED BY <1>3, <3>4, <4>1
    <3>5. CASE lst[k].conn = "closed" /\ k \notin listeners
      <4>1. ListenerSeen[k] = [life |-> "gone", name |-> lst[k].name, addr |-> lst[k].addr]
        BY <3>5, SeenListener
      <4>2. QED BY <4>1
    <3>6. QED BY <3>1, <3>2, <3>3, <3>4, <3>5
  <2>3. /\ lst'[l].conn = "open" /\ lst'[l].name = lst[l].name /\ lst'[l].addr = lst[l].addr
        /\ \A k \in Listener : k # l => lst'[k] = lst[k]
    BY <1>2, <1>5 DEF ListenerState
  <2>4. ListenerSeen'[l] = [life |-> "open", name |-> lst[l].name, addr |-> lst[l].addr]
    BY <2>3, SeenListenerNext
  <2>5. \A k \in Listener : k # l => ListenerSeen'[k] = ListenerSeen[k]
    BY <1>5, <2>3, SameListener
  <2>6. ListenerSeen' = [ListenerSeen EXCEPT
          ![l] = [life |-> "open", name |-> lst[l].name, addr |-> lst[l].addr]]
    BY <2>4, <2>5 DEF ListenerSeen
  <2>7. Reg!Open(l, lst[l].name, lst[l].addr)
    BY <1>4, <2>1, <2>2, <2>6 DEF Reg!Open
  <2>8. QED BY <1>3, <2>7 DEF Reg!Next
<1>6. CASE /\ lst' = [lst EXCEPT ![l].name = None, ![l].addr = None]
           /\ UNCHANGED listeners
  <2>1. /\ lst'[l].conn = lst[l].conn
        /\ \A k \in Listener : k # l => lst'[k] = lst[k]
    BY <1>2, <1>6 DEF ListenerState
  <2>2. \A k \in Listener : ListenerSeen'[k] = ListenerSeen[k]
    BY <1>3, <1>6, <2>1, SameListener
  <2>3. QED BY <1>4, <2>2, SameListeners DEF Reg!vars
<1>7. QED BY <1>1, <1>5, <1>6 DEF Bind

\* The socket is closed: the listener is closing, in its list until RemoveSelf.
LEMMA CloseConnRefines ==
  ASSUME IInv, Listing, NEW p \in Procs, CloseConn(p)
  PROVE  Reg!Next \/ UNCHANGED Reg!vars
<1>1. PICK l \in Listener : l = proc[p].l
  BY NextStates DEF CloseConn, At, OnListener
<1>2. lst \in [Listener -> ListenerState] /\ UNCHANGED <<listeners, interfaces, ifc>>
  BY DEF IInv, TypeOK, CloseConn
<1>3. IfcSeen' = IfcSeen
  BY <1>2, UnchangedIfcs
<1>4. CASE UNCHANGED lst
  BY <1>2, <1>3, <1>4, UnchangedListeners DEF Reg!vars
<1>5. CASE /\ lst[l].conn = "open"
           /\ lst' = [lst EXCEPT ![l].conn = "closed"]
  <2>1. /\ lst'[l].conn = "closed" /\ lst'[l].name = lst[l].name /\ lst'[l].addr = lst[l].addr
        /\ \A k \in Listener : k # l => lst'[k] = lst[k]
    BY <1>2, <1>5 DEF ListenerState
  <2>2. l \in listeners'
    BY <1>2, <1>5 DEF Listing
  <2>3. ListenerSeen[l] = [life |-> "open", name |-> lst[l].name, addr |-> lst[l].addr]
    BY <1>5, SeenListener
  <2>4. ListenerSeen'[l] = [life |-> "closing", name |-> lst[l].name, addr |-> lst[l].addr]
    BY <2>1, <2>2, SeenListenerNext
  <2>5. \A k \in Listener : k # l => ListenerSeen'[k] = ListenerSeen[k]
    BY <1>2, <2>1, SameListener
  <2>6. ListenerSeen' = [ListenerSeen EXCEPT ![l].life = "closing"]
    BY <2>3, <2>4, <2>5 DEF ListenerSeen
  <2>7. Reg!Close(l)
    BY <1>3, <2>3, <2>6 DEF Reg!Close
  <2>8. QED BY <2>7 DEF Reg!Next
<1>6. QED BY <1>1, <1>4, <1>5 DEF CloseConn

\* The listener is removed, if it is still in the list.
LEMMA RemoveSelfRefines ==
  ASSUME IInv, NEW p \in Procs, RemoveSelf(p)
  PROVE  Reg!Next \/ UNCHANGED Reg!vars
<1>1. PICK l \in Listener : l = proc[p].l
  BY NextStates DEF RemoveSelf, At, OnListener
<1>2. listeners' = listeners \ {l} /\ UNCHANGED <<lst, interfaces, ifc>>
  BY <1>1 DEF RemoveSelf
<1>3. lst[l].conn = "closed"
  BY <1>1 DEF RemoveSelf, At, HoldsNet, IInv, ListenerInv, ClosingListener
<1>4. IfcSeen' = IfcSeen
  BY <1>2, UnchangedIfcs
<1>5. CASE l \notin listeners
  BY <1>2, <1>4, <1>5, UnchangedListeners DEF Reg!vars
<1>6. CASE l \in listeners
  <2>1. ListenerSeen[l] = [life |-> "closing", name |-> lst[l].name, addr |-> lst[l].addr]
    BY <1>3, <1>6, SeenListener
  <2>2. ListenerSeen'[l] = [life |-> "gone", name |-> lst[l].name, addr |-> lst[l].addr]
    BY <1>2, <1>3, SeenListenerNext
  <2>3. \A k \in Listener : k # l => ListenerSeen'[k] = ListenerSeen[k]
    BY <1>2, SameListener
  <2>4. ListenerSeen' = [ListenerSeen EXCEPT ![l].life = "gone"]
    BY <2>1, <2>2, <2>3 DEF ListenerSeen
  <2>5. Reg!Remove(l)
    BY <1>4, <2>1, <2>4 DEF Reg!Remove
  <2>6. QED BY <2>5 DEF Reg!Next
<1>7. QED BY <1>5, <1>6
\* An interface is made on a listener that is open or gone, as a listener that
\* is closing has its lock taken.
LEMMA NewInterfaceRefines ==
  ASSUME IInv, Listing, ClosedListenerHasCloser, NEW p \in Procs, NewInterface(p)
  PROVE  Reg!Next \/ UNCHANGED Reg!vars
<1>1. PICK l \in Listener : l = proc[p].l
  BY NextStates DEF NewInterface, At, OnListener
<1>2. /\ interfaces \in [Listener -> SUBSET Ifc] /\ ifc \in [Ifc -> IfcState]
      /\ lst \in [Listener -> ListenerState]
      /\ NetFree(l) /\ UNCHANGED <<listeners, lst>> /\ proc[p].pc = "newIfc"
  BY <1>1 DEF NewInterface, At, IInv, TypeOK
<1>3. ListenerSeen' = ListenerSeen
  BY <1>2, UnchangedListeners
<1>4. CASE UNCHANGED <<interfaces, ifc>>
  BY <1>3, <1>4, UnchangedIfcs DEF Reg!vars
<1>5. ASSUME NEW i \in Ifc, NEW v \in VNI,
             \A j \in interfaces[l] : ifc[j].vni # v,
             ifc[i].state = "none",
             ifc' = [ifc EXCEPT ![i] = [l |-> l, vni |-> v, state |-> "live",
                                        device |-> "up", reader |-> "start"]],
             interfaces' = [interfaces EXCEPT ![l] = @ \cup {i}]
      PROVE  Reg!Next
  <2>1. IfcSeen[i].life = "none"
    <3>1. IfcSeen[i] = [life |-> "none", l |-> ifc[i].l, vni |-> ifc[i].vni]
      BY <1>5, SeenIfc
    <3>2. QED BY <3>1
  <2>2. ListenerSeen[l].life \in {"open", "gone"}
    <3>1. lst[l].conn \in {"open", "closed"}
      BY <1>1, <1>2 DEF Listing, ListenerState
    <3>2. CASE lst[l].conn = "open"
      <4>1. ListenerSeen[l] = [life |-> "open", name |-> lst[l].name, addr |-> lst[l].addr]
        BY <3>2, SeenListener
      <4>2. QED BY <4>1
    <3>3. CASE lst[l].conn = "closed"
      <4>1. l \notin listeners
        BY <1>2, <3>3 DEF ClosedListenerHasCloser, NetFree, NetWriter
      <4>2. ListenerSeen[l] = [life |-> "gone", name |-> lst[l].name, addr |-> lst[l].addr]
        BY <3>3, <4>1, SeenListener
      <4>3. QED BY <4>2
    <3>4. QED BY <3>1, <3>2, <3>3
  <2>3. \A j \in Ifc : Reg!Listed(IfcSeen[j]) /\ IfcSeen[j].l = l => IfcSeen[j].vni # v
    <3> SUFFICES ASSUME NEW j \in Ifc, IfcSeen[j].life \in {"open", "closing"}, IfcSeen[j].l = l
                 PROVE  IfcSeen[j].vni # v
      BY DEF Reg!Listed
    <3>1. ifc[j].state \in {"none", "live", "closed"}
      BY <1>2 DEF IfcState
    <3>2. CASE ifc[j].state = "none"
      <4>1. IfcSeen[j] = [life |-> "none", l |-> ifc[j].l, vni |-> ifc[j].vni]
        BY <3>2, SeenIfc
      <4>2. QED BY <4>1
    <3>3. CASE ifc[j].state = "live"
      <4>1. IfcSeen[j] = [life |-> "open", l |-> ifc[j].l, vni |-> ifc[j].vni]
        BY <3>3, SeenIfc
      <4>2. IfcSeen[j].l = ifc[j].l /\ IfcSeen[j].vni = ifc[j].vni
        BY <4>1
      <4>3. j \in interfaces[l]
        BY <3>3, <4>2 DEF Listing
      <4>4. QED BY <1>5, <4>2, <4>3
    <3>4. CASE ifc[j].state = "closed" /\ InSomeList(j)
      <4>1. IfcSeen[j] = [life |-> "closing", l |-> ifc[j].l, vni |-> ifc[j].vni]
        BY <3>4, SeenIfc
      <4>2. IfcSeen[j].l = ifc[j].l /\ IfcSeen[j].vni = ifc[j].vni
        BY <4>1
      <4>3. j \in interfaces[l]
        BY <3>4, <4>2 DEF InSomeList, IInv, IfcInv, IfcsMade
      <4>4. QED BY <1>5, <4>2, <4>3
    <3>5. CASE ifc[j].state = "closed" /\ ~InSomeList(j)
      <4>1. IfcSeen[j] = [life |-> "gone", l |-> ifc[j].l, vni |-> ifc[j].vni]
        BY <3>5, SeenIfc
      <4>2. QED BY <4>1
    <3>6. QED BY <3>1, <3>2, <3>3, <3>4, <3>5
  <2>4. /\ ifc'[i].state = "live" /\ ifc'[i].l = l /\ ifc'[i].vni = v
        /\ \A j \in Ifc : j # i => ifc'[j] = ifc[j]
    BY <1>2, <1>5
  <2>5. IfcSeen'[i] = [life |-> "open", l |-> l, vni |-> v]
    BY <2>4, SeenIfcNext
  <2>6. \A j \in Ifc : j # i => IfcSeen'[j] = IfcSeen[j]
    <3> SUFFICES ASSUME NEW j \in Ifc, j # i PROVE IfcSeen'[j] = IfcSeen[j]
      OBVIOUS
    <3>1. InSomeList(j) <=> InSomeList(j)'
      BY <1>2, <1>5 DEF InSomeList
    <3>2. QED BY <2>4, <3>1, SameIfc
  <2>7. IfcSeen' = [IfcSeen EXCEPT ![i] = [life |-> "open", l |-> l, vni |-> v]]
    BY <2>5, <2>6 DEF IfcSeen
  <2>8. Reg!Attach(i, l, v)
    BY <1>3, <2>1, <2>2, <2>3, <2>7 DEF Reg!Attach
  <2>9. QED BY <2>8 DEF Reg!Next
<1>6. QED BY <1>1, <1>4, <1>5 DEF NewInterface

\* The interface becomes closed; it is in its listener's list until Detach.
LEMMA CloseDeviceRefines ==
  ASSUME IInv, Listing, NEW p \in Procs, CloseDevice(p)
  PROVE  Reg!Next \/ UNCHANGED Reg!vars
<1>1. PICK i \in Ifc : i = proc[p].i
  BY NextStates DEF CloseDevice, At, ClosingIfc
<1>2. ifc \in [Ifc -> IfcState] /\ UNCHANGED <<listeners, lst, interfaces>>
  BY DEF CloseDevice, IInv, TypeOK
<1>3. ListenerSeen' = ListenerSeen
  BY <1>2, UnchangedListeners
<1>4. CASE UNCHANGED ifc
  BY <1>2, <1>3, <1>4, UnchangedIfcs DEF Reg!vars
<1>5. CASE /\ ifc[i].state = "live"
           /\ ifc' = [ifc EXCEPT ![i].state = "closed", ![i].device = "gone"]
  <2>1. /\ ifc'[i].state = "closed" /\ ifc'[i].l = ifc[i].l /\ ifc'[i].vni = ifc[i].vni
        /\ \A j \in Ifc : j # i => ifc'[j] = ifc[j]
    BY <1>2, <1>5 DEF IfcState
  <2>2. \A j \in Ifc : InSomeList(j) <=> InSomeList(j)'
    BY <1>2 DEF InSomeList
  <2>3. InSomeList(i)
    BY <1>5 DEF Listing, InSomeList
  <2>4. IfcSeen[i] = [life |-> "open", l |-> ifc[i].l, vni |-> ifc[i].vni]
    BY <1>5, SeenIfc
  <2>5. IfcSeen'[i] = [life |-> "closing", l |-> ifc[i].l, vni |-> ifc[i].vni]
    BY <2>1, <2>2, <2>3, SeenIfcNext
  <2>6. \A j \in Ifc : j # i => IfcSeen'[j] = IfcSeen[j]
    BY <2>1, <2>2, SameIfc
  <2>7. IfcSeen' = [IfcSeen EXCEPT ![i].life = "closing"]
    BY <2>4, <2>5, <2>6 DEF IfcSeen
  <2>8. Reg!CloseIfc(i)
    BY <1>3, <2>4, <2>7 DEF Reg!CloseIfc
  <2>9. QED BY <2>8 DEF Reg!Next
<1>6. QED BY <1>1, <1>4, <1>5 DEF CloseDevice

\* The interface is removed, if it is still in the list.
LEMMA DetachRefines ==
  ASSUME IInv, Listing, ClosedListenerHasCloser, NEW p \in Procs, Detach(p)
  PROVE  Reg!Next \/ UNCHANGED Reg!vars
<1>1. PICK i \in Ifc : i = proc[p].i
  BY NextStates DEF Detach, At, ClosingIfc
<1>2. PICK l \in Listener \cup {None} : l = ifc[i].l
  BY DEF IInv, TypeOK, IfcState
<1>3. /\ interfaces \in [Listener -> SUBSET Ifc] /\ lst \in [Listener -> ListenerState]
      /\ NetFree(l) /\ UNCHANGED <<listeners, lst, ifc>>
      /\ interfaces' = [interfaces EXCEPT ![l] = @ \ {i}]
  BY <1>1, <1>2 DEF Detach, IInv, TypeOK
<1>4. ifc[i].state = "closed"
  BY <1>1 DEF Detach, At, HoldsState, IInv, IfcInv, ClosingIfcs
<1>5. ListenerSeen' = ListenerSeen
  BY <1>3, UnchangedListeners
<1>6. \A j \in Ifc : j # i => IfcSeen'[j] = IfcSeen[j]
  <2> SUFFICES ASSUME NEW j \in Ifc, j # i PROVE IfcSeen'[j] = IfcSeen[j]
    OBVIOUS
  <2>1. InSomeList(j) <=> InSomeList(j)'
    BY <1>3 DEF InSomeList
  <2>2. QED BY <1>3, <2>1, SameIfc
<1>7. CASE ~InSomeList(i)
  <2>1. ~InSomeList(i)'
    BY <1>3, <1>7 DEF InSomeList
  <2>2. IfcSeen'[i] = IfcSeen[i]
    BY <1>3, <1>7, <2>1, SameIfc
  <2>3. QED BY <1>5, <1>6, <2>2, SameIfcs DEF Reg!vars
<1>8. CASE InSomeList(i)
  <2>1. PICK k \in Listener : i \in interfaces[k]
    BY <1>8 DEF InSomeList
  <2>2. \A m \in Listener : i \in interfaces[m] => m = l
    BY <1>2 DEF IInv, IfcInv, IfcsMade
  <2>3. l \in Listener
    BY <2>1, <2>2
  <2>4. ~InSomeList(i)'
    BY <1>3, <2>2, <2>3 DEF InSomeList
  <2>5. IfcSeen[i] = [life |-> "closing", l |-> l, vni |-> ifc[i].vni]
    BY <1>2, <1>4, <1>8, SeenIfc
  <2>6. IfcSeen'[i] = [life |-> "gone", l |-> l, vni |-> ifc[i].vni]
    BY <1>2, <1>3, <1>4, <2>4, SeenIfcNext
  <2>7. IfcSeen' = [IfcSeen EXCEPT ![i].life = "gone"]
    BY <1>6, <2>5, <2>6 DEF IfcSeen
  <2>8. ListenerSeen[l].life \in {"open", "gone"}
    <3>1. lst[l].conn \in {"none", "open", "closed"}
      BY <1>3, <2>3 DEF ListenerState
    <3>2. lst[l].conn # "none"
      BY <2>1, <2>2 DEF Listing
    <3>3. CASE lst[l].conn = "open"
      <4>1. ListenerSeen[l] = [life |-> "open", name |-> lst[l].name, addr |-> lst[l].addr]
        BY <2>3, <3>3, SeenListener
      <4>2. QED BY <4>1
    <3>4. CASE lst[l].conn = "closed"
      <4>1. l \notin listeners
        BY <1>3, <3>4 DEF ClosedListenerHasCloser, NetFree, NetWriter
      <4>2. ListenerSeen[l] = [life |-> "gone", name |-> lst[l].name, addr |-> lst[l].addr]
        BY <2>3, <3>4, <4>1, SeenListener
      <4>3. QED BY <4>2
    <3>5. QED BY <3>1, <3>2, <3>3, <3>4
  <2>9. Reg!Detach(i)
    BY <1>5, <2>3, <2>5, <2>7, <2>8 DEF Reg!Detach
  <2>10. QED BY <2>9 DEF Reg!Next
<1>9. QED BY <1>7, <1>8
\* No other step changes what the registry shows.
LEMMA OtherSteps ==
  ASSUME IInv, [Next]_vars,
         \A p \in Procs : ~(Bind(p) \/ CloseConn(p) \/ RemoveSelf(p)
                            \/ NewInterface(p) \/ CloseDevice(p) \/ Detach(p))
  PROVE  UNCHANGED Reg!vars
<1>1. lst \in [Listener -> ListenerState]
  BY DEF IInv, TypeOK
<1>2. listeners' = listeners
  BY ListSteps DEF NewListener
<1>3. ASSUME NEW l \in Listener
      PROVE  ListenerSeen'[l] = ListenerSeen[l]
  <2>1. lst'[l].conn = lst[l].conn
    <3>1. ASSUME NEW from, NEW to, Reading(l, from, to)
          PROVE  lst'[l].conn = lst[l].conn
      BY <1>1, <3>1 DEF Reading, ListenerState
    <3>2. QED BY <3>1, ReaderSteps
              DEF StartReader, ReadPacket, LockForPacket, HandledPacket, ReaderStops
  <2>2. lst[l].conn # "none" => lst'[l].name = lst[l].name /\ lst'[l].addr = lst[l].addr
    <3>1. ASSUME NEW h \in Handlers, NEW k \in Listener, NEW name \in Name, NEW addr \in Address,
                 NewListener(h, k, name, addr), lst[l].conn # "none"
          PROVE  lst'[l] = lst[l]
      <4>1. k # l
        BY <3>1 DEF NewListener, IInv, ListenerInv, ListenersMade
      <4>2. QED BY <1>1, <3>1, <4>1 DEF NewListener
    <3>2. QED BY <3>1, ListSteps
  <2>3. QED BY <1>2, <2>1, <2>2, SameListener
<1>4. ASSUME NEW i \in Ifc
      PROVE  IfcSeen'[i] = IfcSeen[i]
  <2>1. UNCHANGED <<ifc[i].vni, ifc[i].l, ifc[i].state>>
    BY IfcSteps
  <2>2. \A l \in Listener : interfaces'[l] = interfaces[l]
    BY ListChanges
  <2>3. InSomeList(i) <=> InSomeList(i)'
    BY <2>2 DEF InSomeList
  <2>4. QED BY <2>1, <2>3, SameIfc
<1>5. QED BY <1>3, <1>4, SameListeners, SameIfcs DEF Reg!vars

LEMMA RegistryStep ==
  IInv /\ Listing /\ ClosedListenerHasCloser /\ [Next]_vars => [Reg!Next]_(Reg!vars)
BY BindRefines, CloseConnRefines, RemoveSelfRefines, NewInterfaceRefines, CloseDeviceRefines,
   DetachRefines, OtherSteps

LEMMA RegistryInit == Init => Reg!Init
<1> SUFFICES ASSUME Init PROVE Reg!Init
  OBVIOUS
<1>1. ListenerSeen = [l \in Listener |-> [life |-> "none", name |-> None, addr |-> None]]
  BY DEF Init, ListenerSeen, ListenerLife
<1>2. IfcSeen = [i \in Ifc |-> [life |-> "none", l |-> None, vni |-> None]]
  BY DEF Init, IfcSeen, IfcLife
<1>3. QED BY <1>1, <1>2 DEF Reg!Init

\* Handlers, shutdown loop, closers of failed interfaces and packet readers, with
\* their three locks and the stretches between a check and its use, implement a
\* registry whose operations are single steps.
THEOREM RegistryHolds == Spec => ImplementsRegistry
<1>1. Init => Listing
  BY DEF Init, Listing, Idle
<1>2. IInv /\ Listing /\ [Next]_vars => Listing'
  BY ListingStep
<1>3. IInv /\ Listing /\ ClosedListenerHasCloser /\ [Next]_vars => [Reg!Next]_(Reg!vars)
  BY RegistryStep
<1>4. QED BY <1>1, <1>2, <1>3, RegistryInit, Invariance, ClosedListenerHasCloserHolds, PTL
          DEF Spec, ImplementsRegistry, Reg!Spec
=============================================================================
