------------------------------- MODULE Tables -------------------------------
(***************************************************************************)
(* The route table of one vxlan interface, its addresses and its MAC, and  *)
(* the two locks that guard them (interface.go).                           *)
(*                                                                         *)
(* Three kinds of goroutine meet here:                                     *)
(*   - the gRPC handlers, which edit routes and addresses;                 *)
(*   - the listener's packet reader in HandleARP, which answers a request  *)
(*     with i.tun read-locked from beginning to end, and takes i.tables    *)
(*     twice on the way;                                                   *)
(*   - the TUN packet reader, which asks for a gateway, an address and a   *)
(*     destination, one lock after the other.                              *)
(* AddStaticRoute and RemoveStaticRoute take i.tables first and i.tun      *)
(* second, HandleARP the other way round.                                  *)
(*                                                                         *)
(* A critical section that ends before its goroutine blocks is one action. *)
(* The locks are read off the goroutines' states: a handler in "route" has *)
(* i.tables, a handler in "addresses" has i.tun, HandleARP reads i.tun     *)
(* while it is not idle.                                                   *)
(***************************************************************************)
EXTENDS Integers, Sequences, FiniteSets, SequencesExt

CONSTANTS
  Handlers,   \* the gRPC handlers
  Mac,        \* MAC addresses an operator may give the interface
  Route,      \* the routes operators add: network, gateway and metric
  Address,    \* IP addresses an operator may give the interface
  MaxRoutes   \* bound on the length of the route table

ASSUME TablesAssumption ==
  /\ Route \subseteq [net: STRING, gw: STRING, metric: Nat]
  /\ MaxRoutes \in Nat

VARIABLES
  route,    \* i.tables.route
  kernel,   \* the routes the device has in the kernel's table
  address,  \* i.tun.addresses
  device,   \* the addresses the device has
  mac,      \* i.tun.mac
  proc,     \* the handlers
  arp,      \* the listener's reader in HandleARP
  reader    \* the TUN packet reader

vars == <<route, kernel, address, device, mac, proc, arp, reader>>

Idle == [pc |-> "idle"]
\* AddStaticRoute or RemoveStaticRoute with i.tables locked, before i.tun.Lock().
Routing == [pc: {"route"}, op: {"add", "remove"}, r: Route]
\* SetIPAddresses with i.tun locked, giving the addresses to the device.
Addressing == [pc: {"addresses"}, want: SUBSET Address]

TablesFree == \A h \in Handlers : proc[h].pc # "route"
TunWritten == \E h \in Handlers : proc[h].pc = "addresses"
TunRead == arp # "idle"
CanLockTun == ~TunWritten /\ ~TunRead

\* HandleARP waits for i.tables with i.tun read-locked, a route handler for
\* i.tun with i.tables locked.
Crossed == arp \in {"find", "learn"} /\ ~TablesFree

TypeOK ==
  /\ route \in Seq(Route) /\ Len(route) <= MaxRoutes
  /\ kernel \subseteq Route
  /\ address \subseteq Address /\ device \subseteq Address
  /\ mac \in Mac
  /\ proc \in [Handlers -> {Idle} \cup Routing \cup Addressing]
  /\ arp \in {"idle", "find", "learn", "reply"}
  /\ reader \in {"idle", "address", "send"}
  \* the locks exclude as locks do
  /\ \A g, h \in Handlers : proc[g].pc # "idle" /\ proc[g].pc = proc[h].pc => g = h
  /\ ~(TunWritten /\ TunRead)

Init ==
  /\ route = <<>> /\ kernel = {}
  /\ address = {} /\ device = {}
  /\ mac \in Mac
  /\ proc = [h \in Handlers |-> Idle]
  /\ arp = "idle"
  /\ reader = "idle"

-----------------------------------------------------------------------------
(* Routes.                                                                   *)

SameRoute(r, s) == r.net = s.net /\ r.gw = s.gw

\* AddStaticRoute and RemoveStaticRoute take i.tables, then i.tun.
LockTables(h, op, r) ==
  /\ proc[h] = Idle
  /\ TablesFree
  /\ op = "add" => Len(route) < MaxRoutes
  /\ proc' = [proc EXCEPT ![h] = [pc |-> "route", op |-> op, r |-> r]]
  /\ UNCHANGED <<route, kernel, address, device, mac, arp, reader>>

\* The kernel has one route of a network and a metric, whatever the gateway.
RouteAdd(r) ==
  /\ \A s \in kernel : ~(s.net = r.net /\ s.metric = r.metric)
  /\ kernel' = kernel \cup {r}

\* Without a metric the kernel drops the route with the least.
RouteDel(r) ==
  \E s \in kernel :
    /\ SameRoute(s, r)
    /\ \A t \in kernel : SameRoute(t, r) => s.metric <= t.metric
    /\ kernel' = kernel \ {s}

\* The row is appended once the device has the route.
AddStaticRoute(h) ==
  /\ proc[h].pc = "route" /\ proc[h].op = "add"
  /\ CanLockTun
  /\ \/ /\ RouteAdd(proc[h].r)
        /\ route' = Append(route, proc[h].r)
     \/ UNCHANGED <<kernel, route>>        \* the device refuses
  /\ proc' = [proc EXCEPT ![h] = Idle]
  /\ UNCHANGED <<address, device, mac, arp, reader>>

\* Mutant: the loop goes on after the first row.
RemoveAllRows(r) == route' = SelectSeq(route, LAMBDA s : ~SameRoute(s, r))

\* The first row of the network and the gateway goes, whatever its metric.
RemoveRow(r) ==
  IF \E k \in 1..Len(route) : SameRoute(route[k], r)
  THEN \E k \in 1..Len(route) :
         /\ SameRoute(route[k], r)
         /\ \A j \in 1..(k - 1) : ~SameRoute(route[j], r)
         /\ route' = RemoveAt(route, k)
  ELSE UNCHANGED route

RemoveStaticRoute(h) ==
  /\ proc[h].pc = "route" /\ proc[h].op = "remove"
  /\ CanLockTun
  /\ \/ /\ RouteDel(proc[h].r)
        /\ RemoveRow(proc[h].r)
     \/ UNCHANGED <<kernel, route>>        \* the device has none, or fails
  /\ proc' = [proc EXCEPT ![h] = Idle]
  /\ UNCHANGED <<address, device, mac, arp, reader>>

\* The kernel forgets a device's routes when its link goes down.
LinkDown ==
  /\ kernel # {}
  /\ kernel' = {}
  /\ UNCHANGED <<route, address, device, mac, proc, arp, reader>>

-----------------------------------------------------------------------------
(* Addresses and the MAC.                                                    *)

\* i.tun stays locked while the device is told, one address at a time.
SetIPAddresses(h, want) ==
  /\ proc[h] = Idle
  /\ CanLockTun
  /\ proc' = [proc EXCEPT ![h] = [pc |-> "addresses", want |-> want]]
  /\ UNCHANGED <<route, kernel, address, device, mac, arp, reader>>

\* First the addresses the device has too many, then those it lacks.
NextAddress(h) ==
  /\ proc[h].pc = "addresses"
  /\ LET want == proc[h].want IN
     \/ \E a \in device \ want : device' = device \ {a}
     \/ /\ device \subseteq want
        /\ \E a \in want \ device : device' = device \cup {a}
  /\ UNCHANGED <<route, kernel, address, mac, proc, arp, reader>>

\* With the last one, or a failure of the device, i.tun is released.
AddressesSet(h) ==
  /\ proc[h].pc = "addresses"
  /\ \/ device = proc[h].want /\ address' = device
     \/ address' = address
  /\ proc' = [proc EXCEPT ![h] = Idle]
  /\ UNCHANGED <<route, kernel, device, mac, arp, reader>>

\* Mutant: i.tun is not locked for the assignment.
SetMACUnlocked(h, m) ==
  /\ proc[h] = Idle
  /\ mac' = m
  /\ UNCHANGED <<route, kernel, address, device, proc, arp, reader>>

SetMACAddress(h, m) ==
  /\ proc[h] = Idle
  /\ CanLockTun
  /\ mac' = m
  /\ UNCHANGED <<route, kernel, address, device, proc, arp, reader>>

-----------------------------------------------------------------------------
(* HandleARP, a request for an address of the interface.                     *)

\* Mutant: i.tun.RLock() does not wait for SetIPAddresses.
HandleUnlocked ==
  /\ arp = "idle"
  /\ address # {}
  /\ arp' = "find"
  /\ UNCHANGED <<route, kernel, address, device, mac, proc, reader>>

\* A request for one of the interface's addresses; i.tun stays read-locked.
HandleRequest ==
  /\ arp = "idle"
  /\ ~TunWritten
  /\ address # {}
  /\ arp' = "find"
  /\ UNCHANGED <<route, kernel, address, device, mac, proc, reader>>

\* GetDestinationFor, with i.tables read-locked: the reply goes to a row of
\* the MAC table with the requester's MAC or a controller's, or nowhere.
FindRequester ==
  /\ arp = "find"
  /\ TablesFree
  /\ arp' \in {"idle", "learn"}
  /\ UNCHANGED <<route, kernel, address, device, mac, proc, reader>>

\* Mutant: the requester is entered with i.tables not locked.
LearnUnlocked ==
  /\ arp = "learn"
  /\ arp' = "reply"
  /\ UNCHANGED <<route, kernel, address, device, mac, proc, reader>>

\* AddOrUpdateARP, with i.tables locked: Arp has the table it changes.
LearnRequester ==
  /\ arp = "learn"
  /\ TablesFree
  /\ arp' = "reply"
  /\ UNCHANGED <<route, kernel, address, device, mac, proc, reader>>

\* Mutant: i.tun is never released.
ReplyKeepsLock ==
  /\ arp = "reply"
  /\ UNCHANGED vars

\* The reply is built and sent, and i.tun released.
Reply ==
  /\ arp = "reply"
  /\ arp' = "idle"
  /\ UNCHANGED <<route, kernel, address, device, mac, proc, reader>>

-----------------------------------------------------------------------------
(* The TUN packet reader.                                                    *)

\* GetMacFor asks for the packet's gateway, with i.tables read-locked.
GetGateway ==
  /\ reader = "idle"
  /\ TablesFree
  /\ reader' = "address"
  /\ UNCHANGED <<route, kernel, address, device, mac, proc, arp>>

\* Then for an address to ask from.  A Lock() that waits bars new readers.
FindAddress ==
  /\ reader = "address"
  /\ ~TunWritten /\ (TunRead => TablesFree)
  /\ reader' = "send"
  /\ UNCHANGED <<route, kernel, address, device, mac, proc, arp>>

\* With the MAC found (see Arp), the destination is looked up and sent to.
Send ==
  /\ reader = "send"
  /\ TablesFree
  /\ reader' = "idle"
  /\ UNCHANGED <<route, kernel, address, device, mac, proc, arp>>

-----------------------------------------------------------------------------

Next ==
  \/ \E h \in Handlers :
       \/ \E op \in {"add", "remove"}, r \in Route : LockTables(h, op, r)
       \/ AddStaticRoute(h)
       \/ RemoveStaticRoute(h)
       \/ \E want \in SUBSET Address : SetIPAddresses(h, want)
       \/ NextAddress(h)
       \/ AddressesSet(h)
       \/ \E m \in Mac : SetMACAddress(h, m)
  \/ LinkDown
  \/ HandleRequest
  \/ FindRequester
  \/ LearnRequester
  \/ Reply
  \/ GetGateway
  \/ FindAddress
  \/ Send

Spec == Init /\ [][Next]_vars

\* The next step of a goroutine that is in an operation.
Run(h) == AddStaticRoute(h) \/ RemoveStaticRoute(h) \/ NextAddress(h) \/ AddressesSet(h)
Answer == FindRequester \/ LearnRequester \/ Reply
Forward == FindAddress \/ Send

\* A blocked Lock() or RLock() succeeds if the lock is free again and again;
\* requests, packets and operators owe nothing.
Fairness == (\A h \in Handlers : SF_vars(Run(h))) /\ SF_vars(Answer) /\ SF_vars(Forward)

FairSpec == Spec /\ Fairness

-----------------------------------------------------------------------------
(* Properties.                                                               *)

\* No route is left in the kernel that the table does not list, so that
\* RemoveStaticRoute can remove all that AddStaticRoute added: for a network
\* and a gateway the table has a row for each route of the kernel, though not
\* always of its metric.
KernelRoutesListed ==
  \A r \in Route :
    Cardinality({s \in kernel : SameRoute(s, r)})
      <= Cardinality({k \in 1..Len(route) : SameRoute(route[k], r)})

\* The address HandleARP has found to be ours is ours, and the MAC it puts in
\* two places of the reply is one MAC, until the reply is sent.
StableWhileAnswering ==
  [][TunRead /\ TunRead' => UNCHANGED <<address, mac>>]_vars

\* HandleARP and a route handler that wait for each other's lock
\* (interface.go:408-411, :924-935) wait for ever: no packet or command
\* resolves it.
CrossedForever == [][Crossed => Crossed']_vars

\* And that is the only way an operation, a request or a packet fails to end.
EndsUnlessCrossed ==
  /\ \A h \in Handlers : proc[h] # Idle ~> (proc[h] = Idle \/ Crossed)
  /\ arp # "idle" ~> (arp = "idle" \/ Crossed)
  /\ reader # "idle" ~> (reader = "idle" \/ Crossed)
=============================================================================
