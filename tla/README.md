# Verification of virtual-vxlan

virtual-vxlan is a user-space VXLAN endpoint. A service process holds
*listeners* (UDP sockets) and, on each, *interfaces* (a tun device with a VNI).
Packets from the tun device get an Ethernet header, whose destination MAC the
service resolves by ARP over the overlay, and leave through the listener to the
UDP address its MAC table names; packets from the socket go to the interface of
their VNI. A command-line client edits all of it through gRPC, a YAML file
keeps the permanent part, and an updater replaces the binary.

This directory holds TLA+ models of that service, the TLC configurations that
check them on small instances, and proofs, checked by TLAPS, of what holds for
every instance. All definitions are translated from the source; the paths below
are relative to the repository. The repository has no tests.

## 1. Inventory

| Component | State | Operations | Works with | Hard behaviours |
|---|---|---|---|---|
| Listener (`listener.go`) | `l.net`: socket, `interfaces`, `maxMessageSize` and its channel, `stopping`, an RWMutex; `closed` | `NewListener`, `Close`, `packetReader`, `SetMaxMessageSize`, `WriteTo` | app.Net (its list), interfaces (calls `Close`, `HandleARP`, `HandleIPv4/6`) | two locks and a wait group; a reader that needs the lock its closer holds; two closers |
| Interface (`interface.go`) | `i.state` (mutex, state, wait group), `i.tun` (device, mtu, mac, addresses, RWMutex), `i.tables` (arp, arpEvent, route, mac, RWMutex) | `NewInterface`, `Close`, `changeState`, `eventReader`, `packetReader`, table edits | its listener's lock and list; the tun device | four locks; device failure closes the interface from its own reader |
| Address resolution (`interface.go`) | `i.tables.arp`, `i.tables.arpEvent` | `GetMacFor`, `updateARPFor`, `HandleARP`, `runARPExpiryJob`, static entries | tun reader, listener's reader, gRPC handlers, ticker | unbuffered channels sent to under a read lock; timeouts racing replies; expiry |
| Forwarding (`interface.go`) | `i.tables.mac`, `i.tables.route` | `AddMACEntry`, `RemoveMACEntry`, `GetDestinationFor`, `AddStaticRoute`, `RemoveStaticRoute`, `GetGateway`, `HandleIPv4/6`, `SendLayers` | resolution, listener's socket, tun device | choice of controller or direct match; slices handed out without a copy |
| Tun devices (`tun/`) | device handle, events channel, close-once | `Read`, `Write`, `SetMTU`, `AddRoute`, `Close`, netlink listeners | interface's event and packet readers | events after close; status lost or repeated |
| Configuration (`config.go`, `config_grpc.go`) | the YAML file; `app.ApplyingConfig` | `ReadConfig`, `ApplyConfig`, `SaveConfig` | everything above | reload while handlers run; errors half way; file written in place; restart |
| Updater (`updater.go`) | `UpdateConfig`, the new process | `RunUpdateLoop`, `Update`, `PreUpdate`, `AbortUpdate` | closes listeners and the gRPC server, relaunches | old and new process at once; abort after everything was closed |
| Server command (`server_cmd.go`, `service_cmd.go`) | `app` | start-up, signals, shutdown loop | all | reads the lists without the lock |
| gRPC service (`grpc.go`, `*_grpc.go`) | `app.grpcServer` | one handler per command | app.Net, listeners, interfaces | handlers run concurrently, on objects found before |
| Client (`*_cmd.go`), generated code (`vxlan/`), `masquerade.go`, `utils.go`, `promiscuous_*.go`, `wintun/`, `sysroot/` | none | wrappers | | |

What makes each correct:

* **Resolution.** A call is answered at most once, with a MAC asserted for the
  address asked (as long as the caller's slice is not overwritten), or gives up in
  bounded time. No wake-up is lost, nothing stays
  registered, the table has one entry per address, and live entries stay.
* **Lifecycle.** Names, addresses and VNIs are unique; concurrent additions and
  removals neither crash nor deadlock; what is closed is taken out of its list
  and what is listed can be used; a failed device's interface goes away; readers
  are quiet when their object goes.
* **Forwarding.** A packet goes to a destination the tables name, direct matches
  before controllers; routes in the table and in the device agree.
* **Interface locks.** `i.tables` and `i.tun` are taken in one order.
* **Tun devices, MTU.** The last size asked for is the size in use, the state
  follows the events, nothing sends to a reader that has gone.
* **Configuration.** What is saved is what is applied after a restart; an
  interrupted save or a failed apply leaves a usable configuration.
* **Updater.** One process holds the sockets at a time; the program is never lost;
  an update ends, with a process that serves.

`PROJECT.json` lists each hazard at its line with the properties that cover it.

## 2. Modules

| Module | Subject | Built on |
|---|---|---|
| `Arp`, `MCArp`, `ArpProofs` | address resolution of one interface, with its table, lock and event channels | |
| `Resolver` | what a resolver promises its callers | implemented by `Arp` |
| `Lifecycle`, `MCLifecycle`, `LifecycleProofs` | listeners, interfaces, packet readers, and the goroutines that open and close them | |
| `Registry` | what opening and closing promise | implemented by `Lifecycle` |
| `Config`, `MCConfig`, `ConfigProofs`, `ConfigApplyProofs` | the file, applied, saved and reloaded, with crash and restart | |
| `Tables`, `MCTables`, `TablesProofs` | routes beside the kernel's, addresses, the MAC, and the two locks `i.tables` and `i.tun` | |
| `MacTable`, `MCMacTable`, `MacTableProofs` | the MAC table as a Go slice, listed without a lock | |
| `TunDevice` | what the devices of both platforms have | |
| `TunLinux`, `TunWindows` | each platform's device: goroutines, channels, Read and Close | `TunDevice` |
| `Tun`, `MCTun`, `TunProofs` | an interface over its device: events, sizes, Close | `TunLinux`, `TunWindows` |
| `Updater`, `MCUpdater`, `UpdaterProofs` | the program's file, socket and address handed from process to process | |

The components meet at few points, and each module takes the others' side of
such a point as a choice: `Lifecycle` lets a device fail and a packet handler end
whenever they may, `Arp` lets operators and `ApplyConfig` edit its table, `Config`
opens and closes objects in one step where `Lifecycle` has the interleavings, `Tun`
closes an interface that anybody may ask to close, and `Updater` has one
`ApplyConfig` that takes the listener's address. Composed in full are the device
and its interface (`Tun` with both platforms), resolution with its abstract
specification (`Arp` with `Resolver`), and opening and closing with theirs
(`Lifecycle` with `Registry`).

No module uses recursive operators. Parameters are CONSTANTS whose assumptions are
named in the module and evaluated by every run.

## 3. Module Arp

One interface's address resolution.

**State.** `arp` is `i.tables.arp` (a set: `OneEntryPerAddress` is an invariant,
and the operators do not assume it - a lookup takes *an* entry of the address).
`arpEvent` maps an address to the owners of the channels registered for it.
`waiter` is the program counter, address and number of tries of each goroutine in
`GetMacFor` (only the tun reader calls it, `Reader`) or `updateARPFor`
(`Updaters`). `handler` is `HandleARP` on the listener's goroutine. `pending` is
the set of goroutines queued in `i.tables.Lock()`. `claimed` is a history variable.
`answer` is what the last `GetMacFor` has, as it reads now, and `bytes` says whose
memory that MAC is in: the table's ("own"), the packet buffer of the listener
("lent"), or that buffer after another packet was read into it ("reused").

**The slice that is sent.** `AddOrUpdateARP` copies the MAC of a packet
(`interface.go:583`), the send to the waiters does not (`interface.go:970`, `984`): it
hands over six bytes of the buffer of `listener.go:232`, and `GetMacFor` can return only
after `HandleARP` has released its read lock, when the listener goes on to its next
`conn.Read`. So the reader may put bytes of a later packet, of whatever kind, into
the Ethernet header. `ReadPacket` is that overwriting, a part of every action that
begins with a packet, and gives the answer any MAC. What is promised of an answer
is therefore no more than `Resolver` says: asserted for the address asked when it is
received, the same for ever if it came out of the table, and any MAC once a packet
has followed if it came from a reply.

**Locking.** A critical section that ends before its goroutine blocks is one
action guarded by `CanLock` or `CanRLock`. `HandleARP` alone keeps the read lock
while it blocks, in its sends; a `Lock()` called then queues (`QueueForLock`) and,
as `sync.RWMutex` documents, bars readers until it is granted.

**Actions.** `StartGetMacFor`, `LookupHit`, `Register`, `SendFirst`,
`NoDestination`, `Timeout`, `RemoveExpired` and `Unregister` are the stretches of
`GetMacFor` and `updateARPFor` between blocking points. `HandleRequest`,
`HandleReply`, `StartNotify` and `Deliver` are `HandleARP`; `Deliver` is one
rendezvous on an unbuffered channel. `OtherPacket` is any other packet, that only
overwrites the buffer. `RunARPExpiryJob` and `Operator` (static
entries, removal, flush, `ApplyConfig`'s flush of permanent entries) edit the
table. `Tick` advances the clock.

**Left out.** The multicast and broadcast answers, which touch no state;
`GetGateway`'s substitution (the addresses are those after it); the lock `i.tun`
that `HandleARP` reads the addresses under, which is `Tables`' subject.

**Runs.**

| Run | Instance | Shows |
|---|---|---|
| `arp_safety` | 2 addresses, 2 MACs, reader, 1 updater, 1 try, clock to 3 | types, one entry per address, channels registered exactly while their owner may receive, sends only to the registered, a reply wakes everyone resolving the address, a `HandleARP` that sends to someone who will not receive does so for ever, and that `Arp` implements `Resolver`: an answer was claimed for the address asked, and changes only if it is lent |
| `arp_liveness` | 1 address, 1 updater, fair | that wedge is the only way a call, a reply or a queued `Lock()` fails to end |
| `arp_expiry_job` | 1 updater | *violated*: the job removes entries that have not expired (`interface.go:880`) |

What the second run names is not harmless: `HandleARP` walks a copy of the event
list and sends on unbuffered channels with `i.tables` read-locked
(`interface.go:984`); a goroutine whose last try timed out while the handler was
on its way no longer receives, and waits for the write lock. From then on the
listener's reader, and every operation on the interface's tables, is stuck
(`WedgedForever`), though a comment promises "We give 3 ARP request tries,
otherwise we timeout" (`interface.go:840`).

**Bounds.** `Updaters` bounds the `updateARPFor` goroutines alive at once (a
`LookupHit` that needs one waits when all are busy), `MaxTime` the clock,
`MaxTries` is 3 in the code, 2 in `arp_liveness`, and 1 in `arp_safety`, which has
no room for more: another try goes back to the select with one less to go, and
`ArpProofs` has the same properties for any number. Two goroutines
besides the handler are enough for every pair of waiter states, an event list
with a first and a last, and a sender between them; two addresses tell
the event lists apart; with a lifetime and a grace of one tick a clock of 3
passes through fresh, expired (which starts the updater) and past grace. Addresses
and MACs are interchangeable, which `arp_safety` uses.

**Fairness.** A goroutine that can run does, timers fire, and a lock that is free
again and again is got (strong fairness: `sync.RWMutex` lets no reader or writer
starve). Packets, operators, the ticker and new calls owe nothing, except that a
`Lock()` once queued is served.

## 4. Module Lifecycle

Opening and closing of listeners and interfaces by concurrent goroutines.

**State.** `listeners` is `app.Net.Listeners`, `interfaces[l]` is
`l.net.interfaces`; both are sets, as no property depends on their order and
element 0 is any element. `lst` and `ifc` hold the fields of the objects and the
states of their packet readers. `proc` is the state of each goroutine: the gRPC
handlers, the shutdown loop (`Quit`) and, named by its interface, the
`go i.Close()` a packet reader starts when its device fails. `leaked` is the set
of listeners whose `l.net` was left locked by a `SaveConfig` that failed. `status`
tells a running process from one that has exited or panicked.

**Locks** are not variables: a goroutine holds `app.Net`, `l.net` or `i.state` in
certain states, and `HoldsApp`, `NetWriter`, `NetRFree`, `HoldsState` read the
holder off them. A critical section without a blocking point is one action.

**Actions.** `NewListener` (check, under `app.Net`) and `Bind` (the minutes of
looking for the address and opening the socket, same lock); `FindListener`
followed by `NewInterface`, `FindInterface` or `CloseConn`; `Scan` followed by
`ListInterfaces` or `SaveConfig`, one listener after the other; `Listener.Close` as
`CloseConn`, `StopReader`, `RemoveSelf`, then `MoreInterfaces` and
`FirstInterface` around each `Interface.Close`, which is `CloseDevice`,
`StopIfcReader`, `Detach`. `MoreListeners`, `FirstListener` are the shutdown loop. The
length test and the access to element 0 are two actions in both loops, since
neither is under the lock the other goroutines take. The readers are
`StartReader` ... `ReaderStops` and `StartIfcReader` ... `IfcReaderStops`; a reader
counts in the wait group from its own first statement on, so Close passes the
wait while it is in "start".

**Deadlock.** The three locks are taken in no order: `Listener.Close` goes from
`l.net` to `app.Net`, a scan from `app.Net` to `l.net`, and both closing paths go on to
`i.state` and from there back to `l.net`. `NoDeadlock` says that, apart from the named
ways to get stuck below, no set of goroutines waits in a circle. `WaitsFor` reads
who waits for whom off the states. Packet readers need not be members of these
sets: the only lock they want is `l.net`, and who holds it and waits for a reader is
`ReaderCycle`.

**What it implements.** `Registry` has the lives of listeners and interfaces in
single steps, with no locks, lists, readers or waits. `ImplementsRegistry` is
`Registry`'s specification over the state as others see it: a listener lives from
its `Bind` to `RemoveSelf` and is closing in between from `CloseConn`; an interface
lives from `NewInterface` to `Detach` and is closing from the first statement of its
`Close`. While a listener is closing nothing is attached to it or detached
from it. After it is gone both still happen: a handler that found the listener
before may add an interface to it, and `Registry` says so rather than
hide it.

**Left out.** All listeners and interfaces are taken as permanent (`SaveConfig`
visits each); the brief read lock of `MaxMessageSize` in `SaveConfig` is part of
its step; that a waiting writer bars readers of `l.net` is not modelled, which
allows more interleavings, not fewer; an object is made once (its identity is not
used again). `ApplyConfig`'s walks over the lists are in `Config`, `PreUpdate`'s in
`Updater`. `HandleARP` ends here; that it may not is the subject of `Arp` and
`Tables`.

**Runs.**

| Run | Instance | Shows |
|---|---|---|
| `lifecycle_one` | 1 listener, 2 interfaces, 2 VNIs, 2 handlers | types, closed objects in a list have a goroutine removing them, readers are quiet after the wait, lists and socket are stable while a packet is handled, a deadlock is for ever, goroutines wait in a circle in the named ways only, and the whole implements `Registry`, unique VNIs included |
| `lifecycle_two` | 2 listeners, 1 interface, 2 names, 2 addresses, 2 handlers | unique names and addresses across the check and the addition, with `SaveConfig` walking two listeners |
| `lifecycle_liveness` | 1 listener, 1 interface, 2 handlers, fair | every operation ends, and a failed interface is removed, unless one of the named ways to get stuck has happened |

The ways to get stuck that the liveness properties except are, by name: `Close`
holds `l.net` while it waits for a reader (`listener.go:178`) that needs it; two
`Close` calls close one channel twice, a panic (`listener.go:176`); and `SaveConfig`
returns from the middle with `l.net` locked. `StuckForever` says that none of them
is ever undone, so the exceptions are no larger than they look.

`ImplementsRegistry` on one listener does not exercise the guard of `Registry`'s `Open`
against another listener; that is `UniqueListeners` in `lifecycle_two`, and the
theorem of section 9 has it for any number.

**Bounds.** Two handlers, the shutdown loop and the closers started by failed
devices give up to four goroutines in the same object: two closers and a
scanner, an adder and a remover, a closer and two lookups. Two listeners are
needed for uniqueness and for SaveConfig's walk, two interfaces for VNIs and for
Close's loop. Handlers, interfaces, VNIs, and in `lifecycle_two` listeners, names
and addresses are interchangeable, which the symmetry sets use; the liveness run
uses none. Deadlock checking is off in every run: the service exits,
panics, or is wedged in the states the properties name.

**Fairness.** As for `Arp`: a goroutine's next step is strongly fair, because a
`Lock()` that finds the mutex free again and again succeeds (Go's mutexes hand
over to a waiter after 1 ms); packets, device failures, signals and calls owe
nothing.

## 5. Module Config

The configuration file, applied and saved while everything else goes on.

**State.** `file` is the configuration on disk, or `Torn` while it is being
written and after a crash in that moment. `listeners` and `ifcs` are the objects
that live, `lst` and `ifc` their fields; the rows of an interface's three tables
are one set of entries with their `Permanent` flags. `app[p]` is the program
counter and the local variables of `ApplyConfig` in the start-up goroutine, in the
signal loop and in each `ReloadConfig` handler; `saver` is the goroutine that holds
`app.Net` in `SaveConfig` or `ListInterfaces`. `locked` says that `l.net` or
`i.tables` was left locked for good. `quiet` is a history variable: the
`ApplyConfig` that runs started without temporary objects and nobody interfered.

**Actions.** `Scan`, `Remove`, `Find`, `Resize`, `Make`, `FindIfc`, `MakeIfc`, `Flush`,
`FlushRoutes`, `AddRow`, `Done` are the critical sections of `ApplyConfig` in its
order, `Fail` its early returns; loops over the file go in any order. `Save` collects
and truncates, `Write` writes, `SaveFails` returns from the middle with `l.net`
locked, `SaveBlocks` waits for such a lock with `app.Net`. `Reload` and `Start` begin
an `ApplyConfig`; `EditObjects`, `EditRows`, `Learn`, `EditFile` and `Stop` are
the handlers, the peers, the operator's editor and the end of the process.

**Left out.** Sizes, MAC and IP addresses, and the log and update sections: each is
one assignment. Spellings: an address, a device name and a row are the same in the
file and in the process. In the code a listener is matched by comparing
`PrettyName()` with the file's string (`config.go:209`), an interface by the name the
system gave its device, so that a file with another spelling of the address, or a
name the system changed, finds its own listener or interface stale, and closes and
makes it anew at every reload; and a route of metric 0 is listed and saved with 256
(`interface.go:413`). `AppliedAsConfigured` and `RemovesOnlyStale` are about files in the
program's own spelling, as `SaveConfig` writes them. Opening and closing are one step each (`Lifecycle` has theirs). A
torn file reads as the default, though a prefix of YAML might parse. A name the
machine uses for something else is one of the errors of `MakeIfc`.

**Runs.**

| Run | Instance | Shows |
|---|---|---|
| `config_apply` | 1 address, 2 names, 1 VNI, 2 device names, 2 objects of each kind, 4 rows, 3 files, 3 appliers, 3 interventions | types; a file that was saved to the end is well-formed; permanent objects are nested; what peers report is never permanent; the flag is set only while somebody applies; an undisturbed `ApplyConfig` that returns without error has made the permanent state equal to the file; none takes away what is temporary or in its file, whatever happens between its scan and its removals |
| `config_liveness` | same, 2 interventions, fair | a leaked lock is the only thing that keeps an `ApplyConfig` from ending |

The locks that `config_liveness` excepts are two: `ApplyConfig`'s flush of the
static routes holds `i.tables` and calls `RemoveStaticRoute`, which takes it
(`config.go:399-407`), so that applying over an interface with a permanent route never ends;
and `SaveConfig`'s return with `l.net` locked.

`FlagMeansApplying` is one direction: the flag is set only while somebody applies, so
that no client waits for nothing. The other one is what `server_cmd.go:45` ("So
that other services interacting can confirm the config is applied prior to
working") and `server_cmd.go:63` ("Other services may now work") are after, that the
configuration is applied once the flag is clear, and it does not hold, in the code
and in the model alike: the flag is one variable, cleared by the first of several
`ApplyConfig` to end (`End`; a `ReloadConfig` during the start-up's), and a reload by
SIGHUP never sets it. No run has it as a property.

Modelled, but not stated as a property since nothing in the repository promises
the contrary: two `ApplyConfig` that both found a listener stale close it twice, a
panic (`Remove`); a temporary listener or interface is adopted with its own name
where the file has another (the reason `quiet` asks for none).

A crash during a save leaves a file cut off, and the next start has nothing: the
configuration is written in place (`config.go:541`). The model has it (`Save`, `Stop`,
`ReadConfig`), and no property speaks of it: `FileWellFormed` and
`HeardStaysTemporary` are about a file that is not `Torn`, and `AppliedAsConfigured`
compares with what was read, the empty default for a torn file. That the
permanent configuration survives a crash is neither promised nor so.

**Bounds.** `Listener` and `Ifc` bound the objects one process makes, `MaxEvents` the
interventions, `Reloads` the handlers. Three interventions are enough to learn a
row, save, and crash before or after the write, or to edit the objects between the
scans of two reloads; the two objects of each kind to replace one by another. The
files differ in a listener's name, an interface's name and the rows, so that each
reload removes something at one of the levels. Deadlock checking is off: the
process may stop for good.

**Fairness.** Each `ApplyConfig` is strongly fair (its locks are Go mutexes), the
write of the file weakly; nothing else owes anything, not even a restart.

## 6. Modules Tables and MacTable

What the operators edit on one interface besides the ARP table.

**Tables.** `route` is `i.tables.route`, `kernel` the routes the device has in the
kernel; `address` and `mac` are `i.tun.addresses` and `i.tun.mac`, `device` the
addresses the device has. The locks are read off the goroutines, as in
`Lifecycle`: a handler in "route" holds `i.tables` and waits for `i.tun`, one in
"addresses" holds `i.tun` while it talks to the device, and `HandleARP` reads
`i.tun` from its first comparison to its reply.

`LockTables` with `AddStaticRoute` or `RemoveStaticRoute` are the route handlers;
`RouteAdd` and `RouteDel` are what netlink does with the message (a network and a
metric have one route; without a metric the least goes); `RemoveRow` takes the
first row of the network and gateway. `SetIPAddresses`, `NextAddress`,
`AddressesSet` and `SetMACAddress` are the address handlers. `HandleRequest`,
`FindRequester`, `LearnRequester`, `Reply` are `HandleARP` answering a request;
`GetGateway`, `FindAddress`, `Send` the TUN reader's three locks per packet.

**MacTable.** `cells` and `len` are the slice `i.tables.mac`: appending writes behind
the last row or takes a larger array, removal moves the rows down in the array
itself, flushing drops it. `GetMACEntries` returns the slice; `NextRow` is one turn
of the loop in `SaveConfig` or the gRPC handler, without the lock. `GetARPEntries`
and `GetStaticRoutes` hand out their slices in the same way.

The loop copies a row of several words (`interface.go:40-44`) with no lock, while a
removal moves rows down and an append writes over them: a data race, and the row
it reads may be torn. Each place of the walker's slice therefore has the rows it
has held since the call (`had`), of which `NextRow` reads any mixture (`Mixes`), word
by word: the MAC, the destination and the flag. The slice header of a MAC is
taken as one word, since the length beside the pointer is 6 for every MAC; a
destination's words are taken as one. So a listing, and the file that `SaveConfig`
makes of it, may have a row the table never had, the MAC of one entry with the
destination of another; `ListingExact` says that its words at least have been in
the table during the walk, and that rows in front of every removal are right.
`Config` has `SaveConfig` read rows whole.

| Run | Instance | Shows |
|---|---|---|
| `tables` | 2 handlers, 3 routes of one network (2 metrics, 2 gateways), 1 address, 2 MACs, table to 3, fair | types and exclusion of the locks; the table lists as many rows as the kernel has routes of a network and gateway; a request is answered with one address and one MAC; handler and `HandleARP` that wait for each other do so for ever, and this is the only way not to end |
| `mac_table` | 1 walker, 3 rows, table to 2 | a walk without the lock reads no word but of rows the table has had since, and in front of every removal the rows of the call |

**Left out.** Which of several destinations is drawn, and the bytes of a packet.
Each lookup is the lock it takes. `GetGateway` has no effect here beyond its lock;
it picks a route by network address and ignores the length of the prefix.

**What the model shows besides.** A walk that meets a removal may list a row
twice, miss one that stays (`interface.go:362`), or list a torn one. A removed row may have another metric than
the route the kernel dropped. After the link went down, the kernel has forgotten
its routes and the rows stay: `RemoveStaticRoute` asks the device first, whose
error keeps the row.

**Bounds.** Two handlers and `HandleARP` make the circle of two locks; a third
could only wait for one of them. Two routes that differ in the metric only make
the table and the kernel choose differently, and the third has the other gateway,
whose rows must stay. Two places are enough for a removal that moves a row under a
walk and for an append that then overwrites the place it left; any two of the
three rows differ in two words, so that a mixture is no row. Further walkers do
not interact.

**Fairness.** Strong, per goroutine in an operation, for the same reason as above.

## 7. Modules TunDevice, TunLinux, TunWindows and Tun

**Devices.** `TunDevice` has the events channel, the packet reader's call of `Read`
and the progress of `Close`, with `faults` for what Go or the system would punish:
a send on a closed channel, a slice of negative length, the use of an ended
session, a socket closed twice. `TunLinux` has `routineHackListener` (`HackProbe`,
`HackSend`, `HackShutdown`) and `routineNetlinkListener` (`NetlinkMessage` ...
`NetlinkUnwind`), the `errors` channel between the latter and `Read`, and a
`CreateTUNFromFile` that fails after it started them (`made`). `TunWindows` has the
`running` count as the states of those who are counted: `Read`, one `Write` or
`LUID` (`user`), and `SetMTU` (`setter`), which is not counted.

**Tun.** The event reader (`evr`), the packet reader's loop, `Interface.Close`, and
the sizes: `SetMaxMessageSize` and the MTU event store one and start a goroutine
that sends it. Those goroutines are bags (`sending`, `lsending`) since nothing
orders them. A size of 1 or less for the MTU means what the listener leaves; an
interface begins with that or with the MTU asked for.

| Run | Instance | Shows |
|---|---|---|
| `tun` | both platforms; sizes 1, 2, 6 with 4 bytes of overhead; events channel of 1; 2 changes of size or link; fair | types; each fault has its one cause; a buffer has the stored size once all senders are served, unless two were under way; `Close` ends, with every goroutine of the device |

**What the model shows besides.** Two sizes in quick succession may be served in
the opposite order and leave the older one in the buffer for good (`crossed`; this
is why `SizeInUse` excepts it). A sender whose reader has ended stays for ever. A
maximum message size between 2 and 49 makes an MTU below zero and a panic when the
next buffer is made (`small`). On Windows `SetMTU` may send on the channel `Close` has closed. A
failed `CreateTUNFromFile` closes the netlink socket twice. `changeState` falls
through from up to down, so an interface is never up (`interface.go:205`), and
netlink down events are never made, as the kernel puts one notification into a
datagram. A failed netlink listener reaches the interface only with the next
packet. The MTU of an interface is not made smaller when its listener's maximum
shrinks.

**Left out.** Names, indexes and GUIDs of devices, what packets carry, the lock
`l.net` around the maximum (`Lifecycle` has it), and the second call of `Close`,
which returns.

**Bounds.** An events channel of one place is full as soon as two goroutines have
something to send; the code has 5 and 10, and its goroutines block on a full channel
in the same way. Two changes are two senders at once, a link that goes up and down,
or a new size under a device that is lost, before or while `Close` waits. The three
sizes are one that is refused or means the default, one below the overhead and one
above it, which leaves the second as the default MTU. The run's `SmallInit`
begins with a maximum above the overhead, and on Linux with the default MTU: the
other beginnings are those after a `SetMaxMessageSize` or a `SetMTU`. The theorems are
about all of them.

**Fairness.** Weak for each goroutine, which is enough although they wait for room
in a channel; strong for `Close`, which waits for a count that `Write` and `LUID` may
raise again and again. `Read` owes a return only when the device is closed or gone.
Nothing is assumed of packets, notifications and operators.

## 8. Module Updater

**State.** `exe` and `old` are the versions in the program's file and its `.old` file;
`sock` the RPC socket's file, with the process that listens on it or "stale"; `udp`
the process that has the listeners' address. `main`, `ver`, `apply` are a server
process's main goroutine, version and `ApplyConfig`; `upd`, `target` and `child` its
updater, the release it has detected and the process it has started; the update
command is an updater without a server. `quiet` says that the configured log level
is above info. `client` is a client command
in `ApplyFilters`. `seen` records the four events that explain a loss.

**Actions.** `ServiceStart`, `ApplyFilters`, `RemoveSocket`, `Serve`, `FailToServe`,
`ApplyConfig`, `Reload`, `ReloadRemove`, `Quit`, `Exit`, `Kill` are the server's life.
`CheckForUpdate`, `PreUpdateListeners`, `PreUpdateGRPC`, `MoveOld`, `MoveNew`,
`UpdateToFails`, `Abort`, `Relaunch`, `ChildStarted`, `ChildTimeout`, `ChildFailed`,
`HandOver` are the update in its order, while the main goroutine runs on. What is
installed is the release that was detected (`updater.go:49`), not one that came out
since. `Hang` is a `Listener.Close` of `PreUpdate` (`updater.go:208-210`) that never
returns, in one of the ways of `Lifecycle` (`Stuck`) and `Arp` (`Wedged`), before or
after the address is free; the shutdown of `Quit` and `Exit` may hang in the same way. The two renames are
go-selfupdate's, modelled from its documented behaviour and marked external.

| Run | Instance | Shows |
|---|---|---|
| `updater` | 2 server processes and the command, 3 releases of which any later one may be broken or all of which may be quiet, 2 signals, kills or client commands, fair | types; the program or its `.old` file is always there and not older than what runs; the new process has the socket and the listeners; an update ends, but for the ways named below |

Each property names what it excepts, and each exception is a thing the code does:

* "two": a server's updater and the command work on the same files; each may take
  the other's `.old` file for its own, and the program may be lost.
* "left": a process that ends between the renames, or before it removed the `.old`
  file, leaves a file to which a later failed update rolls back.
* "late": `PreUpdate` closes the listeners there are, without `app.Net`
  (`updater.go:208`); an `ApplyConfig` still running, or a SIGHUP, opens one again,
  and the new process does not get the address.
* "snatched": `ApplyFilters` asks, dials and removes in three steps
  (`config.go:96-105`), and may remove a socket that has come alive in between.
* "hung": a `Close` that hangs keeps the update, and the old process, for ever.
* `quiet`: the parent waits for "Service started." in the child's log, a line of level
  info, which a configured level of warn or error suppresses (`config.go:548-557`).
  The timer then kills a child that serves, after five minutes
  (`updater.go:116-118`), and the next one is started, for ever.
* A new program that does not start: the `err` tested after `abortUpdate` is the
  outer one, which the failures inside the block do not set (`updater.go:97-171`),
  so that it is started again for ever, although the comment beside it reads "If
  stop due to error, abort."

`AbortUpdate` makes the gRPC server again, which fails because `app.grpcServer` is
never reset, and ends the process: an aborted update does not leave the old one
serving, contrary to what `updater.go:224` announces. The child's log goes to the parent's pipe;
once the parent has exited a line may end the child (SIGPIPE, part of `Kill`).

**Left out.** The download and its checksum are one step that may fail.

**Bounds.** Two processes are a parent and its child; a third cannot be started
before one has exited. Three releases allow an update on top of an update, with
the first version known to work. Two events are a kill and a client, or a quit and
the command. Processes are interchangeable; as a symmetry set cannot be used with
a liveness property, the run names the first process of those that may be started
when none runs (`SameName`, an action constraint: it takes away only steps of
`ServiceStart`, which nothing is assumed of, that differ in a name). And it begins
(`SmallInit`) with a quiet log level or with releases that do not start, not both,
since either keeps an update for ever on its own.

**Fairness.** A process that runs goes on, its main goroutine and its updater each
for itself; not so the shutdown (`Exit`), since its `Close` may hang, and nothing makes
a `Close` hang or not. Releases, signals, kills, commands and the
service manager owe nothing.

## 9. Proofs

All theorems hold for every value of the constants that satisfies the
`ASSUME` of the module: the names of goroutines and the null values are distinct,
tries, lifetimes and capacities are positive, bounds are natural. TLC evaluates
these assumptions in every run. Each theorem about a property of a run is
listed in `PROJECT.json`.

**ArpProofs.** The inductive invariant `AllInv` is the conjunction of types,
the channel invariant (busy goroutines have an address; registered exactly while
listening; no channel twice; while `HandleARP` holds the read lock every
goroutine resolving that address has been sent to or is in the list of those
still to be sent to, and is in a state that keeps it registered), the table
invariant (one entry per address, only claimed entries, in the table and in the
handler), that the answer is claimed until the packet it may be part of is
overwritten, and that the reader has no answer before it leaves its select. The
second is the heart:
`ChannelsMatchWaiters` alone says nothing of the copy of the event list that
`HandleARP` walks, and that nobody leaves that copy needs the read lock.
From `AllInv` follow `TypeCorrect`, `ChannelsCorrect`, `NotifiesCorrect`,
`OneEntryHolds`, `AnswersCorrect` (an answer not overwritten was asserted for its
address, which `ImplementsResolver` implies), the action properties `ReplyWakesAllHolds` and
`WedgedForeverHolds`, and `Implements`: every step of `Arp` is a step of
`Resolver` or leaves its variables alone.

**LifecycleProofs.** The inductive invariant `IInv` says, per lock, that it has
one holder (`Exclusive`), and what its holder knows: a listener being bound
differs from all in the list and is not in it (`Binding`); a listener whose lock
Close holds has a closed socket, a reader that is not handling a packet, and is
not among the leaked (`ClosingListener`); an interface whose state lock Close holds
is closed and has no device (`ClosingIfcs`); and that objects not yet made have
nothing running (`ListenersMade`, `IfcsMade`). Uniqueness needs `Binding`, since
the comparison is a step earlier than the addition; `StuckForeverHolds` needs
`ClosingListener` to know that no step of another goroutine unlocks the reader.
Proved from it: `TypeCorrect`, `UniqueListenersHolds`, `UniqueVNIsHolds`,
`ClosedHasCloserHolds`, `QuietAfterWaitHolds`, `StableWhileHandlingHolds` and
`StuckForeverHolds`.

`NoDeadlockHolds` adds to `IInv` that a listener has one goroutine past the closing of
its socket (`OneCloser`) and that the interfaces `Listener.Close` closes are the
listener's own (`OwnIfcs`). With them, and with nobody stuck, a chain of goroutines
each waiting for the next has at most four links: `Wait0` are those that wait for
nobody, `Wait1` those that wait for these only, and so on to `Wait4`, which is
everybody (`EveryChainEnds`). A set waiting in a circle would have no member of the
lowest class (`ChainsEnd`). This needs no induction, and so holds for any number
of goroutines.

`RegistryHolds` is the refinement. It adds `Listing`: open listeners and live
interfaces are in a list, and a listener not yet made has no interfaces. That a
closing listener's lock is taken by its closer (`ClosedHasCloserHolds`) is why
nothing attaches to it. Six actions are steps of `Registry`, each with a lemma
(`BindRefines` ... `DetachRefines`); the others leave what is seen as it was
(`OtherSteps`).

**ConfigProofs.** The inductive invariant `Inv` types what each `ApplyConfig` and the
saver carry about, and adds: an `ApplyConfig` works only on permanent listeners
and on interfaces of the listener it found (`PlacedIn`, without which adoption could
make an interface permanent on a temporary listener); no two objects clash
(`Distinct`); permanent rows are rows of operators (in `IfcOwn`); what is about to
be written is well formed (`Filed`). Proved from it: `TypeCorrect`,
`FileIsWellFormed`, `PermanentIsNested`, `HeardIsTemporary`, and with the life of the
flag `FlagIsApplying`. The steps are sorted by how they change the objects
(`ObjectSteps`), and each part of the invariant is shown for the eight kinds.

**ConfigApplyProofs.** The two action properties of `Config` follow one `ApplyConfig`
from its scan to its return. `OnlyStaleIsRemoved` needs `Removing`: what was collected
as stale is stale when its turn comes, since names, addresses and VNIs are
never changed, and what is permanent stays so. `AppliedIsConfigured` needs
`Undisturbed`: with nobody interfering, once the removals are done every permanent
object is one its file has (`Known`), and every listener, interface and table
that the loops have passed is as in the file (`ListenerAsIn`, `IfcAsIn`,
`TableAsIn`); and `Down`, that before start-up and after a stop nothing is left to be
known. That the file is well formed makes the object adopted for an entry the
entry's own and lets an added ARP row replace no other. At the return nothing of
the file is left, and the three parts give the equality.

**TablesProofs.** Types, with the exclusion of the two locks, are inductive together
with `Room`: who holds `i.tables` to add a row finds the room it saw.
`RoutesListed` counts the kernel's routes against the table's rows (`Counted`); its
cases are an addition to both and a removal of one from each, by the library's
facts on cardinalities. `AnswersWithOneAddress` and `CrossedIsForEver` follow from
the exclusion.

**MacTableProofs.** `ListingExact` speaks of the rows that were read, the inductive
`Good` of the places still to be read: each has held only rows the table has had
since the call, among them what a live array holds now, and in front of every
removal only the row of the call. That flushing drops the array rather than cutting
it is what `Good` needs of the code.

**TunProofs.** `Typed` adds to the types what the event reader and the netlink
listener carry. `Safe` says what keeps each cause of a fault from the other
goroutines: nobody uses the session once `Close` has ended it (`SessionLeft`),
nobody on Linux is left to send when the events are closed (`SendersLeft`), and a
stored size is negative only after a small maximum (`SizesKnown`). `SizeIsInUse` needs
that a lone sender has the stored size (`IfcSender`, `ListenerSender`).

`NobodyIsLeftWaiting` is the part of `CloseEnds` that needs no fairness. `CloseGoes`,
`ReaderGoes`, `EventReaderGoes`, `HackGoes`, `NetlinkGoes` and `UserGoes` say when each
goroutine has a step. Once `Close` is called, `Close` and the packet reader have ended,
or go on, or wait for each other or a user of the adapter that goes on; once `Close`
has released `i.state` the same is so of the event reader and the device's
goroutines. It needs the order in which things end (`EndsInOrder`): the device before
the wait, the events channel by the last sender or by the Windows `Close`, the event
reader after the channel; and that a full channel is not empty, so that the event
reader frees a sender (`EventReaderTakes`). TLC checked on the instance of run `tun`
that the theorem holds and that whoever is said to go on has a step enabled. No
run lists it, since `CloseEnds` would fail there without it.

**UpdaterProofs.** `ProgramIsKept` rests on what the two files hold at each place of
an update (`Kept`), on the order of versions (`Ordered`), on who may be updating
(`Busy`) and on the release an updater has detected being no older than what runs
(`TargetKept`, which needs `Placed`, that only who waits for a child has one, and
`OneServes`). `NewProcessHasAll` rests on there being one server at a time, but for a
parent and the child it waits for (`OneServes`), and on where socket and
address are at each place of the hand-over (`SocketKept`, `ListenerGiven`,
`ListenerTaken`).

**Only model-checked.** The liveness properties (`EndsUnlessWedged`,
`OperationEndsUnlessStuck`, `FailedIfcIsRemoved`, `ApplyEndsUnlessLockLeft`,
`EndsUnlessCrossed`, `CloseEnds`, `UpdateEnds`): TLAPS handles neither ENABLED nor
fairness. Of these, `OperationEndsUnlessStuck` and `CloseEnds` have their
deadlock freedom proved (`NoDeadlockHolds`, `NobodyIsLeftWaiting`).
`ExpiryJobKeepsUnexpired` is violated.

## 10. Not modelled

* The client's commands: each reads its flags, makes one RPC and prints; what they
  share with the server (`ApplyFilters` on the socket) is in `Updater`.
* The generated code, and the transport under the gRPC service. The service's
  handlers are actions of the module whose state they change; handlers that only
  read are left out where nothing depends on what they read.
* A packet's way through `HandleIPv4`, `HandleIPv6`, `SendLayers` and
  `masquerade.go`: it builds and parses bytes and keeps no state. Its locks are
  those of `Tables`, its end is `Lifecycle`'s.
* Sizes, MAC and IP addresses in `Config`, where each is one assignment.
* Service installation, logging, promiscuous mode (a capture handle on Windows,
  nothing elsewhere), the wintun driver and packaging: no state that these
  properties speak of.

## 11. Running

    tlc -config lifecycle_one.cfg MCLifecycle.tla
    tlapm LifecycleProofs.tla
