----------------------------- MODULE Lifecycle -----------------------------
(***************************************************************************)
(* Opening and closing listeners and interfaces (listener.go, interface.go)*)
(* by concurrent goroutines, with the locks they take.                     *)
(*                                                                         *)
(* The goroutines are the gRPC handlers, the shutdown loop of the server   *)
(* command, the `go i.Close()` an interface's packet reader starts when    *)
(* its device fails (named by the interface), and one packet reader per    *)
(* listener and per interface.                                             *)
(*                                                                         *)
(* The locks are app.Net, the RWMutex l.net of each listener and i.state   *)
(* of each interface.  A critical section released before its goroutine    *)
(* blocks is one action.  Any other is spread over the states its          *)
(* goroutine passes through, and who holds the lock is read off those      *)
(* states (HoldsApp, NetWriter, StateHeld).                                *)
(*                                                                         *)
(* app.Net.Listeners and l.net.interfaces are sets: no property depends on *)
(* their order, and element 0 is any element.                              *)
(***************************************************************************)
EXTENDS FiniteSets

CONSTANTS
  Listener,   \* the Listener objects that may be made (a bound)
  Ifc,        \* the Interface objects that may be made (a bound)
  Name, Address, VNI,
  Handlers,   \* the gRPC handlers that may run at one time (a bound)
  Quit,       \* the goroutine of the server command, after a signal
  None        \* no listener, interface, name, address or VNI

ASSUME ConstAssumption ==
  /\ Quit \notin Handlers \cup Ifc
  /\ Handlers \cap Ifc = {}
  /\ None \notin Listener \cup Ifc \cup Name \cup Address \cup VNI

Procs == Handlers \cup {Quit} \cup Ifc

VARIABLES
  status,      \* the process: running, exited, or crashed by a panic
  listeners,   \* app.Net.Listeners
  lst,         \* the listeners' fields, and the state of their packet readers
  interfaces,  \* l.net.interfaces of each listener
  ifc,         \* the interfaces' fields, and the state of their packet readers
  leaked,      \* listeners whose l.net.Lock() has no Unlock() to come
  proc         \* what each goroutine is doing

vars == <<status, listeners, lst, interfaces, ifc, leaked, proc>>

-----------------------------------------------------------------------------
(* State.                                                                    *)

ListenerState ==
  [name: Name \cup {None}, addr: Address \cup {None},
   conn: {"none", "open", "closed"},
   reader: {"none", "start", "read", "rlock", "handle", "stopped"}]

IfcState ==
  [l: Listener \cup {None}, vni: VNI \cup {None},
   state: {"none", "live", "closed"}, device: {"none", "up", "gone"},
   reader: {"none", "start", "read", "forward", "stopped"}]

\* Interface.Close, called for itself or by the Listener.Close of proc[p].l.
ClosingIfc == {"state", "stopIfc", "detach"}
PC == {"idle", "bind", "newIfc", "findIfc", "list", "save",
       "close", "stop", "remove", "loop", "first", "quit", "quitFirst"} \cup ClosingIfc

\* The states that work on proc[p].l.
OnListener == {"bind", "newIfc", "findIfc", "list", "save", "close", "stop", "remove",
               "loop", "first"}

\* pc, the listener and the interface at hand, and the listeners SaveConfig has
\* yet to visit.
ProcState ==
  {s \in [pc: PC, l: Listener \cup {None}, i: Ifc \cup {None}, todo: SUBSET Listener] :
     /\ s.pc \in OnListener => s.l # None
     /\ s.pc \in ClosingIfc <=> s.i # None}

Idle == [pc |-> "idle", l |-> None, i |-> None, todo |-> {}]

TypeOK ==
  /\ status \in {"running", "exited", "crashed"}
  /\ listeners \subseteq Listener
  /\ lst \in [Listener -> ListenerState]
  /\ interfaces \in [Listener -> SUBSET Ifc]
  /\ ifc \in [Ifc -> IfcState]
  /\ leaked \subseteq Listener
  /\ proc \in [Procs -> ProcState]

Init ==
  /\ status = "running"
  /\ listeners = {}
  /\ lst = [l \in Listener |-> [name |-> None, addr |-> None, conn |-> "none", reader |-> "none"]]
  /\ interfaces = [l \in Listener |-> {}]
  /\ ifc = [i \in Ifc |-> [l |-> None, vni |-> None, state |-> "none", device |-> "none",
                           reader |-> "none"]]
  /\ leaked = {}
  /\ proc = [p \in Procs |-> Idle]

At(p, pc) == status = "running" /\ proc[p].pc = pc
Become(p, state) == proc' = [proc EXCEPT ![p] = state]
Goto(p, pc) == Become(p, [proc[p] EXCEPT !.pc = pc])
Crash == status' = "crashed"

-----------------------------------------------------------------------------
(* The locks.                                                                *)

\* Mutant: NewListener lets go of app.Net while it looks for the address.
HoldsAppNotInBind(p) ==
  \/ proc[p].pc \in {"list", "save", "loop", "first"}
  \/ proc[p].pc \in ClosingIfc /\ proc[p].l # None

\* app.Net: NewListener, ListInterfaces and SaveConfig hold it throughout, and
\* Listener.Close from the removal of the listener to its return.
HoldsApp(p) ==
  \/ proc[p].pc \in {"bind", "list", "save", "loop", "first"}
  \/ proc[p].pc \in ClosingIfc /\ proc[p].l # None
AppFree == \A p \in Procs : ~HoldsApp(p)

\* Mutant: Listener.Close lets go of l.net before it takes app.Net.
HoldsNetToStop(p, l) == proc[p].pc = "stop" /\ proc[p].l = l

\* Mutant: Listener.Close lets go of l.net only when it returns.
HoldsNetToReturn(p, l) ==
  /\ proc[p].pc \in {"stop", "remove", "loop", "first"} \cup ClosingIfc
  /\ proc[p].l = l

\* l.net: Listener.Close holds it until it has removed the listener, and the
\* listener's packet reader holds it for reading while it handles a packet.
HoldsNet(p, l) == proc[p].pc \in {"stop", "remove"} /\ proc[p].l = l
NetWriter(l) == l \in leaked \/ \E p \in Procs : HoldsNet(p, l)
NetRFree(l) == ~NetWriter(l)

\* Mutant: a write lock that does not wait for the reader.
NetFreeOfWriters(l) == ~NetWriter(l)

NetFree(l) == ~NetWriter(l) /\ lst[l].reader # "handle"

\* i.state: Interface.Close holds it throughout.
HoldsState(p, i) == proc[p].pc \in {"stopIfc", "detach"} /\ proc[p].i = i
StateFree(i) == \A p \in Procs : ~HoldsState(p, i)

-----------------------------------------------------------------------------
(* The gRPC handlers.                                                        *)

\* NewListener takes app.Net and compares names and addresses; then it looks
\* for the address on the machine, for minutes, with the lock held ...
NewListener(h, l, name, addr) ==
  /\ At(h, "idle")
  /\ AppFree
  /\ \A k \in listeners : lst[k].name # name /\ lst[k].addr # addr
  /\ lst[l].name = None
  /\ lst' = [lst EXCEPT ![l].name = name, ![l].addr = addr]
  /\ Become(h, [Idle EXCEPT !.pc = "bind", !.l = l])
  /\ UNCHANGED <<status, listeners, interfaces, ifc, leaked>>

\* ... and opens the socket, or fails.
Bind(h) ==
  LET l == proc[h].l IN
  /\ At(h, "bind")
  /\ \/ /\ listeners' = listeners \cup {l}
        /\ lst' = [lst EXCEPT ![l].conn = "open", ![l].reader = "start"]
     \/ /\ lst' = [lst EXCEPT ![l].name = None, ![l].addr = None]
        /\ UNCHANGED listeners
  /\ Become(h, Idle)
  /\ UNCHANGED <<status, interfaces, ifc, leaked>>

\* FindListener returns the listener and lets go of app.Net; the handler goes
\* on with AddInterface, RemoveListener or RemoveInterface.
FindListener(h, l) ==
  /\ At(h, "idle")
  /\ AppFree
  /\ l \in listeners
  /\ \E pc \in {"newIfc", "close", "findIfc"} : Become(h, [Idle EXCEPT !.pc = pc, !.l = l])
  /\ UNCHANGED <<status, listeners, lst, interfaces, ifc, leaked>>

\* Mutant: the VNI is not compared with those of the list.
NewInterfaceUnchecked(h) ==
  LET l == proc[h].l IN
  /\ At(h, "newIfc")
  /\ NetFree(l)
  /\ \E i \in Ifc, v \in VNI :
       /\ ifc[i].state = "none"
       /\ ifc' = [ifc EXCEPT ![i] = [l |-> l, vni |-> v, state |-> "live",
                                     device |-> "up", reader |-> "start"]]
       /\ interfaces' = [interfaces EXCEPT ![l] = @ \cup {i}]
  /\ Become(h, Idle)
  /\ UNCHANGED <<status, listeners, lst, leaked>>

\* NewInterface returns an error for a VNI the listener has, and when the device
\* cannot be made.
NewInterface(h) ==
  LET l == proc[h].l IN
  /\ At(h, "newIfc")
  /\ NetFree(l)
  /\ \/ UNCHANGED <<interfaces, ifc>>
     \/ \E i \in Ifc, v \in VNI :
          /\ \A j \in interfaces[l] : ifc[j].vni # v
          /\ ifc[i].state = "none"
          /\ ifc' = [ifc EXCEPT ![i] = [l |-> l, vni |-> v, state |-> "live",
                                        device |-> "up", reader |-> "start"]]
          /\ interfaces' = [interfaces EXCEPT ![l] = @ \cup {i}]
  /\ Become(h, Idle)
  /\ UNCHANGED <<status, listeners, lst, leaked>>

\* FindInterface looks in the listener's list and lets go of l.net.
FindInterface(h) ==
  LET l == proc[h].l IN
  /\ At(h, "findIfc")
  /\ NetRFree(l)
  /\ \/ \E i \in interfaces[l] : Become(h, [Idle EXCEPT !.pc = "state", !.i = i])
     \/ Become(h, Idle)
  /\ UNCHANGED <<status, listeners, lst, interfaces, ifc, leaked>>

\* ListInterfaces and SaveConfig find a listener under app.Net ...
Scan(h, l) ==
  /\ At(h, "idle")
  /\ AppFree
  /\ l \in listeners
  /\ \/ Become(h, [Idle EXCEPT !.pc = "list", !.l = l])
     \/ Become(h, [Idle EXCEPT !.pc = "save", !.l = l, !.todo = listeners \ {l}])
  /\ UNCHANGED <<status, listeners, lst, interfaces, ifc, leaked>>

\* ... and still holding it take l.net, to read ...
ListInterfaces(h) ==
  /\ At(h, "list")
  /\ NetRFree(proc[h].l)
  /\ Become(h, Idle)
  /\ UNCHANGED <<status, listeners, lst, interfaces, ifc, leaked>>

\* ... or, in SaveConfig, for writing, one listener after the other.  When the
\* addresses of an interface cannot be read because its device is gone,
\* SaveConfig returns without unlocking l.net.
SaveConfig(h) ==
  LET l == proc[h].l  todo == proc[h].todo IN
  /\ At(h, "save")
  /\ NetFree(l)
  /\ \/ /\ \E i \in interfaces[l] : ifc[i].device = "gone"
        /\ leaked' = leaked \cup {l}
        /\ Become(h, Idle)
     \/ /\ todo = {}
        /\ Become(h, Idle)
        /\ UNCHANGED leaked
     \/ /\ \E k \in todo : Become(h, [proc[h] EXCEPT !.l = k, !.todo = todo \ {k}])
        /\ UNCHANGED leaked
  /\ UNCHANGED <<status, listeners, lst, interfaces, ifc>>

-----------------------------------------------------------------------------
(* Listener.Close.                                                           *)

\* The goroutine takes l.net and closes the socket and the channel l.closed; to
\* close a closed channel is a panic, which ends the process.
CloseConn(p) ==
  LET l == proc[p].l IN
  /\ At(p, "close")
  /\ NetFree(l)
  /\ \/ /\ lst[l].conn = "closed"
        /\ Crash
        /\ UNCHANGED <<lst, proc>>
     \/ /\ lst[l].conn = "open"
        /\ lst' = [lst EXCEPT ![l].conn = "closed"]
        /\ Goto(p, "stop")
        /\ UNCHANGED status
  /\ UNCHANGED <<listeners, interfaces, ifc, leaked>>

\* Mutant: no wait for the packet reader.
StopNoWait(p) ==
  /\ At(p, "stop")
  /\ Goto(p, "remove")
  /\ UNCHANGED <<status, listeners, lst, interfaces, ifc, leaked>>

\* It waits for the packet reader, which counts from its own first statement.
StopReader(p) ==
  /\ At(p, "stop")
  /\ lst[proc[p].l].reader \in {"start", "stopped"}
  /\ Goto(p, "remove")
  /\ UNCHANGED <<status, listeners, lst, interfaces, ifc, leaked>>

\* It takes app.Net, removes the listener and lets go of l.net.
RemoveSelf(p) ==
  /\ At(p, "remove")
  /\ AppFree
  /\ listeners' = listeners \ {proc[p].l}
  /\ Goto(p, "loop")
  /\ UNCHANGED <<status, lst, interfaces, ifc, leaked>>

\* The end of Listener.Close: the shutdown loop goes on, a handler is done.
ClosedListener(p) == Become(p, IF p = Quit THEN [Idle EXCEPT !.pc = "quit"] ELSE Idle)

\* The length of the list is read without l.net ...
MoreInterfaces(p) ==
  /\ At(p, "loop")
  /\ \/ interfaces[proc[p].l] = {} /\ ClosedListener(p)
     \/ interfaces[proc[p].l] # {} /\ Goto(p, "first")
  /\ UNCHANGED <<status, listeners, lst, interfaces, ifc, leaked>>

\* ... and so is element 0, a panic if the list has become empty.
FirstInterface(p) ==
  /\ At(p, "first")
  /\ \/ /\ interfaces[proc[p].l] = {}
        /\ Crash
        /\ UNCHANGED proc
     \/ /\ \E i \in interfaces[proc[p].l] :
             Become(p, [proc[p] EXCEPT !.pc = "state", !.i = i])
        /\ UNCHANGED status
  /\ UNCHANGED <<listeners, lst, interfaces, ifc, leaked>>

-----------------------------------------------------------------------------
(* Interface.Close.                                                          *)

\* Mutant: the loop of Listener.Close goes on with the interface it has closed.
ClosedIfcKept(p) == Become(p, IF proc[p].l = None THEN Idle ELSE [proc[p] EXCEPT !.pc = "loop"])

ClosedIfc(p) == Become(p, IF proc[p].l = None THEN Idle ELSE
                            [proc[p] EXCEPT !.pc = "loop", !.i = None])

\* The goroutine takes i.state; an interface that is closed already is left as
\* it is, otherwise it becomes closed and its device is closed.
CloseDevice(p) ==
  LET i == proc[p].i IN
  /\ At(p, "state")
  /\ StateFree(i)
  /\ \/ /\ ifc[i].state = "closed"
        /\ ClosedIfc(p)
        /\ UNCHANGED ifc
     \/ /\ ifc[i].state = "live"
        /\ ifc' = [ifc EXCEPT ![i].state = "closed", ![i].device = "gone"]
        /\ Goto(p, "stopIfc")
  /\ UNCHANGED <<status, listeners, lst, interfaces, leaked>>

\* It waits for the interface's packet reader.
StopIfcReader(p) ==
  /\ At(p, "stopIfc")
  /\ ifc[proc[p].i].reader \in {"start", "stopped"}
  /\ Goto(p, "detach")
  /\ UNCHANGED <<status, listeners, lst, interfaces, ifc, leaked>>

\* It takes l.net, removes the interface and lets go of both locks.
Detach(p) ==
  LET i == proc[p].i  l == ifc[i].l IN
  /\ At(p, "detach")
  /\ NetFree(l)
  /\ interfaces' = [interfaces EXCEPT ![l] = @ \ {i}]
  /\ ClosedIfc(p)
  /\ UNCHANGED <<status, listeners, lst, ifc, leaked>>

-----------------------------------------------------------------------------
(* The shutdown loop, which reads app.Net.Listeners without the lock.        *)

Signal ==
  /\ At(Quit, "idle")
  /\ Goto(Quit, "quit")
  /\ UNCHANGED <<status, listeners, lst, interfaces, ifc, leaked>>

MoreListeners ==
  /\ At(Quit, "quit")
  /\ \/ /\ listeners = {}
        /\ status' = "exited"
        /\ UNCHANGED proc
     \/ /\ listeners # {}
        /\ Goto(Quit, "quitFirst")
        /\ UNCHANGED status
  /\ UNCHANGED <<listeners, lst, interfaces, ifc, leaked>>

FirstListener ==
  /\ At(Quit, "quitFirst")
  /\ \/ /\ listeners = {}
        /\ Crash
        /\ UNCHANGED proc
     \/ /\ \E l \in listeners : Become(Quit, [Idle EXCEPT !.pc = "close", !.l = l])
        /\ UNCHANGED status
  /\ UNCHANGED <<listeners, lst, interfaces, ifc, leaked>>

-----------------------------------------------------------------------------
(* The packet readers.                                                       *)

Reading(l, from, to) ==
  /\ status = "running"
  /\ lst[l].reader = from
  /\ lst' = [lst EXCEPT ![l].reader = to]
  /\ UNCHANGED <<status, listeners, interfaces, ifc, leaked, proc>>

StartReader(l) == Reading(l, "start", "read")
\* A packet is decoded ...
ReadPacket(l) == lst[l].conn = "open" /\ Reading(l, "read", "rlock")
\* Mutant: the interfaces are read without l.net.
HandleUnlocked(l) == Reading(l, "rlock", "handle")

\* ... l.net is taken for reading while the interfaces handle it ...
LockForPacket(l) == NetRFree(l) /\ Reading(l, "rlock", "handle")
HandledPacket(l) == Reading(l, "handle", "read")
\* ... and a closed socket ends the reader.
ReaderStops(l) == lst[l].conn = "closed" /\ Reading(l, "read", "stopped")

IfcReading(i, from, to) ==
  /\ status = "running"
  /\ ifc[i].reader = from
  /\ ifc' = [ifc EXCEPT ![i].reader = to]
  /\ UNCHANGED <<status, listeners, lst, interfaces, leaked>>

StartIfcReader(i) == IfcReading(i, "start", "read") /\ UNCHANGED proc
\* A packet is read from the device, resolved and sent.
ReadFromDevice(i) == ifc[i].device = "up" /\ IfcReading(i, "read", "forward") /\ UNCHANGED proc
Forwarded(i) == IfcReading(i, "forward", "read") /\ UNCHANGED proc
\* Mutant: the reader marks the interface as closed before it starts Close().
IfcReaderMarksClosed(i) ==
  /\ status = "running"
  /\ ifc[i].device = "gone" /\ ifc[i].reader = "read"
  /\ ifc' = [ifc EXCEPT ![i].reader = "stopped", ![i].state = "closed"]
  /\ UNCHANGED <<status, listeners, lst, interfaces, leaked>>
  /\ \/ ifc[i].state = "closed" /\ UNCHANGED proc
     \/ ifc[i].state = "live" /\ Become(i, [Idle EXCEPT !.pc = "state", !.i = i])

\* Mutant: the reader stops without closing the interface.
IfcReaderJustStops(i) ==
  ifc[i].device = "gone" /\ IfcReading(i, "read", "stopped") /\ UNCHANGED proc

\* An error ends the reader.  If the interface is not closed it starts a
\* goroutine that closes it.
IfcReaderStops(i) ==
  /\ ifc[i].device = "gone"
  /\ IfcReading(i, "read", "stopped")
  /\ \/ ifc[i].state = "closed" /\ UNCHANGED proc
     \/ ifc[i].state = "live" /\ Become(i, [Idle EXCEPT !.pc = "state", !.i = i])

\* The device fails, or is removed from the machine.
DeviceFails(i) ==
  /\ status = "running"
  /\ ifc[i].device = "up"
  /\ ifc' = [ifc EXCEPT ![i].device = "gone"]
  /\ UNCHANGED <<status, listeners, lst, interfaces, leaked, proc>>

-----------------------------------------------------------------------------

\* The next step of a goroutine that is inside an operation.
Step(p) ==
  \/ Bind(p)
  \/ NewInterface(p)
  \/ FindInterface(p)
  \/ ListInterfaces(p)
  \/ SaveConfig(p)
  \/ CloseConn(p)
  \/ StopReader(p)
  \/ RemoveSelf(p)
  \/ MoreInterfaces(p)
  \/ FirstInterface(p)
  \/ CloseDevice(p)
  \/ StopIfcReader(p)
  \/ Detach(p)

Next ==
  \/ \E h \in Handlers, l \in Listener :
       \/ \E name \in Name, addr \in Address : NewListener(h, l, name, addr)
       \/ FindListener(h, l)
       \/ Scan(h, l)
  \/ \E p \in Procs : Step(p)
  \/ Signal
  \/ MoreListeners
  \/ FirstListener
  \/ \E l \in Listener : \/ StartReader(l)
                         \/ ReadPacket(l)
                         \/ LockForPacket(l)
                         \/ HandledPacket(l)
                         \/ ReaderStops(l)
  \/ \E i \in Ifc : \/ StartIfcReader(i)
                    \/ ReadFromDevice(i)
                    \/ Forwarded(i)
                    \/ IfcReaderStops(i)
                    \/ DeviceFails(i)

Spec == Init /\ [][Next]_vars

\* A goroutine that can run does, and a lock that is free again and again is
\* got (Go's mutexes starve nobody).  Packets, failures, signals and new calls
\* owe nothing.
Fairness ==
  /\ \A p \in Procs : SF_vars(Step(p))
  /\ WF_vars(MoreListeners \/ FirstListener)
  /\ \A l \in Listener : /\ SF_vars(LockForPacket(l))
                         /\ WF_vars(StartReader(l) \/ HandledPacket(l) \/ ReaderStops(l))
  /\ \A i \in Ifc : WF_vars(StartIfcReader(i) \/ Forwarded(i) \/ IfcReaderStops(i))

FairSpec == Spec /\ Fairness

-----------------------------------------------------------------------------
(* Safety.                                                                   *)

\* No two listeners of the application share a name or an address, although
\* the comparison and the addition are minutes apart.
UniqueListeners ==
  \A k, l \in listeners : k # l => lst[k].name # lst[l].name /\ lst[k].addr # lst[l].addr

ClosedIfcHasCloser ==
  \A l \in Listener : \A i \in interfaces[l] :
    ifc[i].state = "closed" => \E p \in Procs : HoldsState(p, i)

ClosedListenerHasCloser ==
  \A l \in listeners : lst[l].conn = "closed" => \E p \in Procs : HoldsNet(p, l)

\* A closed interface that is still in its listener's list has a goroutine
\* that is about to remove it.  Otherwise Listener.Close, for which Close()
\* on a closed interface does nothing, would spin on it for ever.  A closed
\* listener that can still be found has a goroutine holding its lock, so that
\* whoever finds it can do nothing with it until it is gone.
ClosedHasCloser == ClosedIfcHasCloser /\ ClosedListenerHasCloser

\* Once Close has waited for a packet reader, the reader handles no packet: not
\* the listener's when the listener is removed, not the interface's when the
\* interface is; not even a reader that Close did not wait for because it had
\* not begun to count.
QuietAfterWait ==
  \A p \in Procs :
    /\ proc[p].pc = "remove" => lst[proc[p].l].reader \notin {"rlock", "handle"}
    /\ proc[p].pc = "detach" => ifc[proc[p].i].reader # "forward"

\* While the listener's reader hands a packet to the interfaces, no interface is
\* added or removed and nobody is closing the listener's socket.
StableWhileHandling ==
  [][\A l \in Listener : lst[l].reader = "handle" =>
       interfaces'[l] = interfaces[l] /\ lst'[l].conn = lst[l].conn]_vars

-----------------------------------------------------------------------------
(* The ways to get stuck.                                                    *)

\* Listener.Close holds l.net and waits for the reader, the reader has a packet
\* and waits for l.net.
ReaderCycle == \E p \in Procs : proc[p].pc = "stop" /\ lst[proc[p].l].reader = "rlock"

\* Listener.Close holds l.net and wants app.Net, ListInterfaces or SaveConfig
\* holds app.Net and wants l.net.
LockInversion ==
  \E p, h \in Procs : /\ proc[p].pc = "remove"
                      /\ proc[h].pc \in {"list", "save"}
                      /\ proc[h].l = proc[p].l

Stuck == status # "running" \/ ReaderCycle \/ LockInversion \/ leaked # {}

\* Nothing undoes them: no other operation, not even the shutdown loop, frees a
\* goroutine once they have begun.
StuckForever == [][Stuck => Stuck']_vars

\* The locks a goroutine needs for its next step: l.net of l ...
WantsNet(p, l) ==
  \/ proc[p].pc \in {"newIfc", "findIfc", "list", "save", "close"} /\ proc[p].l = l
  \/ proc[p].pc = "detach" /\ ifc[proc[p].i].l = l

\* ... app.Net, or i.state; goroutine q has one of them.
WaitsFor(p, q) ==
  \/ proc[p].pc = "remove" /\ HoldsApp(q)
  \/ \E l \in Listener : WantsNet(p, l) /\ HoldsNet(q, l)
  \/ proc[p].pc = "state" /\ HoldsState(q, proc[p].i)

\* The three locks are taken in no order: Listener.Close goes from l.net to
\* app.Net, a scan from app.Net to l.net, and both go on to i.state and back to
\* l.net in Interface.Close.  Still, apart from the ways above, no goroutines of
\* whatever number wait for each other in a circle: one of any set of them waits
\* for none of the set.
NoDeadlock ==
  Stuck \/ \A waiting \in (SUBSET Procs) \ {{}} :
             \E p \in waiting : \A q \in waiting : ~WaitsFor(p, q)

\* And there is no other way: every operation of a handler, of the shutdown loop
\* or of a failing device is done at some time, or one of them has happened.
OperationEndsUnlessStuck ==
  \A p \in Procs : proc[p].pc # "idle" ~> (proc[p].pc = "idle" \/ Stuck)

\* An interface whose device fails is removed from its listener.
FailedIfcIsRemoved ==
  \A i \in Ifc : ifc[i].device = "gone" ~> ((\A l \in Listener : i \notin interfaces[l]) \/ Stuck)

-----------------------------------------------------------------------------
(* What opening and closing promises, without locks, lists and readers.      *)

\* The socket and the list tell how far a listener is: one that is being bound
\* has not begun to live, one whose socket is closed lives until it is removed.
ListenerLife(l) ==
  CASE lst[l].conn = "none" -> "none"
    [] lst[l].conn = "open" -> "open"
    [] lst[l].conn = "closed" -> IF l \in listeners THEN "closing" ELSE "gone"

ListenerSeen == [l \in Listener |->
  [life |-> ListenerLife(l),
   name |-> IF lst[l].conn = "none" THEN None ELSE lst[l].name,
   addr |-> IF lst[l].conn = "none" THEN None ELSE lst[l].addr]]

IfcLife(i) ==
  CASE ifc[i].state = "none" -> "none"
    [] ifc[i].state = "live" -> "open"
    [] ifc[i].state = "closed" ->
         IF \E l \in Listener : i \in interfaces[l] THEN "closing" ELSE "gone"

IfcSeen == [i \in Ifc |-> [life |-> IfcLife(i), l |-> ifc[i].l, vni |-> ifc[i].vni]]

\* The handlers, closers and readers together implement a registry in which each
\* opening, closing and removal is one step: names, addresses and VNIs belong to
\* one object at a time, nothing is removed that is not closed, nothing lives
\* twice, and a listener that closes keeps its interfaces.
Reg == INSTANCE Registry WITH listener <- ListenerSeen, ifc <- IfcSeen
ImplementsRegistry == Reg!Spec
=============================================================================
