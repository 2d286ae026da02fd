------------------------------- MODULE Config -------------------------------
(***************************************************************************)
(* Reading, applying and saving the configuration file (config.go),        *)
(* while operators and peers change what the file describes.               *)
(*                                                                         *)
(* ApplyConfig runs in the goroutine the start-up leaves behind, in the    *)
(* handler of each ReloadConfig call and in the signal loop on SIGHUP.     *)
(* Its critical sections are the actions; between two of them anything may *)
(* happen.  Opening and closing a listener or an interface is one action   *)
(* here (module Lifecycle has the steps), as is any other handler.         *)
(*                                                                         *)
(* A configuration is a set of listeners, each with a set of interfaces,   *)
(* each with a set of table rows: the loops over them go in any order.     *)
(* What is assigned as one value (sizes, MAC, IP addresses) is left out.   *)
(***************************************************************************)
EXTENDS Naturals, FiniteSets

CONSTANTS
  Listener, Ifc,  \* the objects that one process may have made (a bound)
  Address, Name, VNI, Device,
  Row,            \* rows of the ARP, MAC and route tables that operators enter
  Heard,          \* rows of the ARP table that only peers report
  Files,          \* the configurations an operator may write by hand
  Reloads,        \* the ReloadConfig handlers that may run at one time (a bound)
  MaxEvents,      \* bound on the operators', peers' and machine's interventions
  None

Startup == "startup"
Hangup == "hangup"
Appliers == {Startup, Hangup} \cup Reloads

Kind == {"arp", "mac", "route"}

\* A file maps each address, each name, each VNI of a listener, each device and
\* each address of an ARP table once.
WellFormed(file) ==
  /\ \A c, d \in file : (c.addr = d.addr \/ c.name = d.name) => c = d
  /\ \A c, d \in file : \A x \in c.ifcs, y \in d.ifcs : x.name = y.name => c = d /\ x = y
  /\ \A c \in file : \A x, y \in c.ifcs : x.vni = y.vni => x = y
  /\ \A c \in file : \A x \in c.ifcs : \A r, s \in x.rows :
       r.kind = "arp" /\ s.kind = "arp" /\ r.key = s.key => r = s

ASSUME ConstAssumption ==
  /\ Reloads \cap {Startup, Hangup} = {}
  /\ \A r \in Row : r.kind \in Kind
  /\ \A r \in Heard : r.kind = "arp" /\ r \notin Row
  /\ \A file \in Files : WellFormed(file)
  /\ MaxEvents \in Nat

\* The content of a file that is being written, or was when the process died.
Torn == {None}

VARIABLES
  up,         \* the process runs
  file,       \* the configuration file: a configuration, or Torn
  listeners,  \* app.Net.Listeners
  lst,        \* the listeners' fields
  ifcs,       \* the interfaces that live
  ifc,        \* the interfaces' fields, with their tables
  applying,   \* app.ApplyingConfig
  app,        \* the goroutines inside ApplyConfig
  saver,      \* the goroutine inside SaveConfig or ListInterfaces, which holds app.Net
  events,     \* the number of interventions so far
  quiet       \* history: nothing interferes with the ApplyConfig that runs

objects == <<listeners, lst, ifcs, ifc>>
vars == <<up, file, listeners, lst, ifcs, ifc, applying, app, saver, events, quiet>>

-----------------------------------------------------------------------------
(* State.                                                                    *)

IfcConfig == [vni: VNI, name: Device, rows: SUBSET (Row \cup Heard)]
ListenerConfig == [addr: Address, name: Name, ifcs: SUBSET IfcConfig]

\* Operators enter no row that only peers report.
ASSUME FilesAssumption ==
  \A f \in Files :
    /\ f \subseteq ListenerConfig
    /\ \A c \in f : \A x \in c.ifcs : x.rows \subseteq Row

\* locked: l.net.Lock() or i.tables.Lock() was called and nobody is left to unlock.
ListenerState == [addr: Address, name: Name, perm: BOOLEAN, locked: BOOLEAN]
IfcState == [l: Listener, vni: VNI, name: Device, perm: BOOLEAN,
             rows: SUBSET [row: Row \cup Heard, perm: BOOLEAN], locked: BOOLEAN]

\* Where ApplyConfig is: cfg is the configuration, rmL and rmI what it is to
\* remove, todo the listeners ahead, c the one at hand and l its object, ics the
\* interfaces ahead, ic and i the one at hand, rows the rows ahead of one kind.
Idle == [pc |-> "idle", cfg |-> {}, rmL |-> {}, rmI |-> {}, todo |-> {}, c |-> None,
         l |-> None, ics |-> {}, ic |-> None, i |-> None, kind |-> "arp", rows |-> {}]
PC == {"idle", "scan", "remove", "find", "make", "resize", "ifc", "makeIfc", "flush", "rows",
       "stuck", "hung"}

\* Every variable has its type, and an ApplyConfig that works on a listener or an
\* interface has one.
TypeOK ==
  /\ up \in BOOLEAN /\ applying \in BOOLEAN /\ quiet \in BOOLEAN
  /\ file # Torn => file \subseteq ListenerConfig
  /\ listeners \subseteq DOMAIN lst /\ DOMAIN lst \subseteq Listener
  /\ \A l \in DOMAIN lst : lst[l] \in ListenerState
  /\ ifcs \subseteq DOMAIN ifc /\ DOMAIN ifc \subseteq Ifc
  /\ \A i \in DOMAIN ifc : ifc[i] \in IfcState /\ ifc[i].l \in DOMAIN lst
  /\ \A p \in Appliers :
       /\ app[p].pc \in PC
       /\ app[p].pc \in {"resize", "ifc", "makeIfc", "flush", "rows", "hung"} => app[p].l \in DOMAIN lst
       /\ app[p].pc \in {"flush", "rows", "hung"} => app[p].i \in DOMAIN ifc
  /\ saver.pc \in {"idle", "write", "blocked"}
  /\ events \in 0..MaxEvents

NoSave == [pc |-> "idle", cfg |-> {}, l |-> None]
EmptyMap == [x \in {} |-> None]
With(f, x, y) == [z \in DOMAIN f \cup {x} |-> IF z = x THEN y ELSE f[z]]

Init ==
  /\ file \in Files
  /\ up = FALSE /\ applying = FALSE /\ quiet = FALSE
  /\ listeners = {} /\ lst = EmptyMap
  /\ ifcs = {} /\ ifc = EmptyMap
  /\ app = [p \in Appliers |-> Idle]
  /\ saver = NoSave
  /\ events = 0

\* The process ends: all but the file is gone.
Exit ==
  /\ up' = FALSE /\ applying' = FALSE /\ quiet' = FALSE
  /\ listeners' = {} /\ lst' = EmptyMap
  /\ ifcs' = {} /\ ifc' = EmptyMap
  /\ app' = [p \in Appliers |-> Idle]
  /\ saver' = NoSave

\* app.Net is held by the saver and by an ApplyConfig that is stuck in its scan, l.net
\* by a saver that is blocked in it or gave up in it; every other holder is one action.
AppFree == up /\ saver.pc = "idle" /\ \A p \in Appliers : app[p].pc # "stuck"
NetFree(l) == up /\ saver.l # l /\ ~lst[l].locked
TablesFree(i) == up /\ ~ifc[i].locked

-----------------------------------------------------------------------------
(* The tables of an interface.                                               *)

\* Mutant: temporary rows are saved too.
SavedWithTemporary(i) == {e.row : e \in ifc[i].rows}

\* The rows SaveConfig writes are the permanent ones.
SavedRows(i) == {e.row : e \in {e \in ifc[i].rows : e.perm}}
Has(entries, r) == \E e \in entries : e.row = r

\* AddStaticARPEntry replaces what the address has, AddMACEntry and the device's
\* route table refuse what they have.
Put(entries, r, perm) ==
  IF r.kind = "arp"
  THEN {e \in entries : ~(e.row.kind = "arp" /\ e.row.key = r.key)} \cup {[row |-> r, perm |-> perm]}
  ELSE IF Has(entries, r) THEN entries ELSE entries \cup {[row |-> r, perm |-> perm]}

SetRows(i, entries) == ifc' = [ifc EXCEPT ![i].rows = entries]

-----------------------------------------------------------------------------
(* The objects.                                                              *)

\* The next object to make.
Fresh(x, all, made) == made # all /\ x = CHOOSE y \in all : y \notin made

Open(l, name, addr, perm) ==
  /\ Fresh(l, Listener, DOMAIN lst)
  /\ \A k \in listeners : lst[k].addr # addr /\ lst[k].name # name
  /\ listeners' = listeners \cup {l}
  /\ lst' = With(lst, l, [addr |-> addr, name |-> name, perm |-> perm, locked |-> FALSE])
  /\ UNCHANGED <<ifcs, ifc>>

IfcsOf(l) == {i \in ifcs : ifc[i].l = l}

CloseListener(l) ==
  /\ listeners' = listeners \ {l}
  /\ ifcs' = ifcs \ IfcsOf(l)
  /\ UNCHANGED <<lst, ifc>>

\* Mutant: permanent interfaces are made on any listener.
AnyMayHave(l, perm) == TRUE

\* A listener that is not permanent has no permanent interfaces.
MayHave(l, perm) == perm => lst[l].perm

\* Mutant: the VNIs of the listener are not looked at.
AnyVNI(l, vni) == TRUE

\* A listener has one interface with a VNI.
VNIFree(l, vni) == \A j \in IfcsOf(l) : ifc[j].vni # vni

\* A VNI is refused if the listener has it, a name if the machine has it.
OpenIfc(i, l, vni, name, perm) ==
  /\ NetFree(l)
  /\ Fresh(i, Ifc, DOMAIN ifc)
  /\ MayHave(l, perm)
  /\ VNIFree(l, vni)
  /\ \A j \in ifcs : ifc[j].name # name
  /\ ifcs' = ifcs \cup {i}
  /\ ifc' = With(ifc, i, [l |-> l, vni |-> vni, name |-> name, perm |-> perm, rows |-> {},
                          locked |-> FALSE])
  /\ UNCHANGED <<listeners, lst>>

\* To close an interface again does nothing.
CloseIfc(i) ==
  /\ i \in ifcs => NetFree(ifc[i].l)
  /\ ifcs' = ifcs \ {i}
  /\ UNCHANGED <<listeners, lst, ifc>>

\* What SaveConfig writes: the permanent listeners, their permanent interfaces
\* and the permanent rows of these.
Current ==
  {[addr |-> lst[l].addr, name |-> lst[l].name,
    ifcs |-> {[vni |-> ifc[i].vni, name |-> ifc[i].name, rows |-> SavedRows(i)] :
                i \in {i \in IfcsOf(l) : ifc[i].perm}}] :
     l \in {l \in listeners : lst[l].perm}}

NothingTemporary ==
  /\ \A l \in listeners : lst[l].perm
  /\ \A i \in ifcs : ifc[i].perm /\ ifc[i].l \in listeners /\ \A e \in ifc[i].rows : e.perm

-----------------------------------------------------------------------------
(* ApplyConfig.                                                              *)

Goto(p, state) == app' = [app EXCEPT ![p] = state]
At(p, pc) == up /\ app[p].pc = pc

\* ReadConfig returns the default, which has no listeners, for a file it cannot
\* read; ApplyConfig begins.
ReadConfig == IF file = Torn THEN {} ELSE file
Begun == [Idle EXCEPT !.pc = "scan", !.cfg = ReadConfig]
BeginApply(p) ==
  /\ Goto(p, Begun)
  /\ quiet' = (NothingTemporary /\ \A q \in Appliers \ {p} : app[q].pc = "idle")

\* Mutant: an error leaves the flag set.
EndErrorKeepsFlag(p) ==
  /\ Goto(p, Idle)
  /\ applying' = IF p = Hangup \/ app[p].pc # "find" THEN applying ELSE FALSE

\* ApplyConfig returns, with or without an error.  The reload by signal does not
\* touch the flag.
End(p) ==
  /\ Goto(p, Idle)
  /\ applying' = IF p = Hangup THEN applying ELSE FALSE

\* The listeners of a configuration that are l by address and name, and whether
\* one of them lacks i by name or VNI.  An address stands for the spelling that
\* PrettyName gives it, and a name for the one the system gave the device: a file
\* with others never matches.
Matches(cfg, l) == {c \in cfg : c.addr = lst[l].addr /\ c.name = lst[l].name}
Lacks(cfg, i) ==
  \E c \in Matches(cfg, ifc[i].l) : \A x \in c.ifcs : x.name # ifc[i].name \/ x.vni # ifc[i].vni

\* Mutant: every listener and interface the file lacks is to be removed.
StaleTemporaryToo(cfg) ==
  [ls |-> {l \in listeners : Matches(cfg, l) = {}},
   is |-> {i \in ifcs : ifc[i].l \in listeners /\ Lacks(cfg, i)}]

\* The permanent listeners the configuration lacks, and the permanent interfaces
\* that the others have and it lacks.
Stale(cfg) ==
  [ls |-> {l \in listeners : lst[l].perm /\ Matches(cfg, l) = {}},
   is |-> {i \in ifcs : /\ ifc[i].l \in listeners /\ lst[ifc[i].l].perm
                        /\ ifc[i].perm /\ Lacks(cfg, i)}]

\* They are collected under app.Net; a listener that stays is locked to look at
\* its interfaces.
Scan(p) ==
  LET stale == Stale(app[p].cfg) IN
  /\ At(p, "scan")
  /\ AppFree
  /\ \/ /\ \A l \in listeners : lst[l].perm /\ l \notin stale.ls => NetFree(l)
        /\ Goto(p, [app[p] EXCEPT !.pc = "remove", !.todo = app[p].cfg,
                                  !.rmL = stale.ls, !.rmI = stale.is])
     \/ /\ \E l \in listeners : lst[l].perm /\ l \notin stale.ls /\ ~NetFree(l)
        /\ Goto(p, [app[p] EXCEPT !.pc = "stuck"])
  /\ UNCHANGED <<up, file, objects, applying, saver, events, quiet>>

\* They are closed, listeners first.  To close a listener that somebody else has
\* closed since is a panic.
Remove(p) ==
  /\ At(p, "remove")
  /\ \/ \E l \in app[p].rmL :
          /\ AppFree
          /\ NetFree(l)
          /\ IF l \in listeners
             THEN /\ CloseListener(l)
                  /\ Goto(p, [app[p] EXCEPT !.rmL = @ \ {l}])
                  /\ UNCHANGED <<up, applying, saver, quiet>>
             ELSE Exit
     \/ /\ app[p].rmL = {}
        /\ \E i \in app[p].rmI :
             /\ CloseIfc(i)
             /\ Goto(p, [app[p] EXCEPT !.rmI = @ \ {i}])
        /\ UNCHANGED <<up, applying, saver, quiet>>
     \/ /\ app[p].rmL = {} /\ app[p].rmI = {}
        /\ Goto(p, [app[p] EXCEPT !.pc = "find"])
        /\ UNCHANGED <<up, objects, applying, saver, quiet>>
  /\ UNCHANGED <<file, events>>

\* A listener that is there already becomes permanent.
Adopt(l) == lst' = [lst EXCEPT ![l].perm = TRUE]

\* Mutant: ApplyConfig goes on with what could not be made.
NotMadeGoesOn(p) == Goto(p, [app[p] EXCEPT !.pc = "ifc"]) /\ UNCHANGED applying

\* A listener or an interface that cannot be made ends ApplyConfig.
NotMade(p) == End(p)

\* The next listener of the file is looked up by its address, and made permanent
\* if it is there ...
Find(p) ==
  /\ At(p, "find")
  /\ AppFree
  /\ \E c \in app[p].todo :
       LET s == [app[p] EXCEPT !.todo = @ \ {c}, !.c = c, !.ics = c.ifcs] IN
       \/ /\ \A l \in listeners : lst[l].addr # c.addr
          /\ Goto(p, [s EXCEPT !.pc = "make"])
          /\ UNCHANGED lst
       \/ \E l \in listeners :
            /\ lst[l].addr = c.addr
            /\ Adopt(l)
            /\ Goto(p, [s EXCEPT !.pc = "resize", !.l = l])
  /\ UNCHANGED <<up, file, listeners, ifcs, ifc, applying, saver, events, quiet>>

\* ... and its size set,
Resize(p) ==
  /\ At(p, "resize")
  /\ NetFree(app[p].l)
  /\ Goto(p, [app[p] EXCEPT !.pc = "ifc"])
  /\ UNCHANGED <<up, file, objects, applying, saver, events, quiet>>

\* or made, after app.Net was free.
Make(p) ==
  /\ At(p, "make")
  /\ AppFree
  /\ \/ NotMade(p) /\ UNCHANGED objects
     \/ \E l \in Listener :
          /\ Open(l, app[p].c.name, app[p].c.addr, TRUE)
          /\ Goto(p, [app[p] EXCEPT !.pc = "ifc", !.l = l])
          /\ UNCHANGED applying
  /\ UNCHANGED <<up, file, saver, events, quiet>>

\* The next interface is looked up by its VNI, in the same way.
FindIfc(p) ==
  LET l == app[p].l IN
  /\ At(p, "ifc")
  /\ NetFree(l)
  /\ \E x \in app[p].ics :
       LET s == [app[p] EXCEPT !.ics = @ \ {x}, !.ic = x] IN
       \/ /\ VNIFree(l, x.vni)
          /\ Goto(p, [s EXCEPT !.pc = "makeIfc"])
          /\ UNCHANGED ifc
       \/ \E i \in IfcsOf(l) :
            /\ ifc[i].vni = x.vni
            /\ ifc' = [ifc EXCEPT ![i].perm = TRUE]
            /\ Goto(p, [s EXCEPT !.pc = "flush", !.kind = "arp", !.i = i])
  /\ UNCHANGED <<up, file, listeners, lst, ifcs, applying, saver, events, quiet>>

LastIfc(p) ==
  /\ At(p, "ifc") /\ app[p].ics = {}
  /\ Goto(p, [Idle EXCEPT !.pc = "find", !.cfg = app[p].cfg, !.todo = app[p].todo])
  /\ UNCHANGED <<up, file, objects, applying, saver, events, quiet>>

MakeIfc(p) ==
  LET x == app[p].ic IN
  /\ At(p, "makeIfc")
  /\ NetFree(app[p].l)
  /\ \/ NotMade(p) /\ UNCHANGED objects
     \/ \E i \in Ifc :
          /\ OpenIfc(i, app[p].l, x.vni, x.name, TRUE)
          /\ Goto(p, [app[p] EXCEPT !.pc = "flush", !.kind = "arp", !.i = i])
          /\ UNCHANGED applying
  /\ UNCHANGED <<up, file, saver, events, quiet>>

\* Mutant: the flush loop goes on after its last entry.
ProceedSame(s) ==
  IF s.rows # {} THEN [s EXCEPT !.pc = "rows"]
  ELSE IF s.kind = "route" THEN [s EXCEPT !.pc = "ifc", !.ic = None, !.i = None]
  ELSE [s EXCEPT !.pc = "flush"]

\* After the last row of a table comes the next table, or the next interface.
Proceed(s) ==
  IF s.rows # {} THEN [s EXCEPT !.pc = "rows"]
  ELSE IF s.kind = "route" THEN [s EXCEPT !.pc = "ifc", !.ic = None, !.i = None]
  ELSE [s EXCEPT !.pc = "flush", !.kind = IF @ = "arp" THEN "mac" ELSE "route"]

Rest(p) == {r \in app[p].ic.rows : r.kind = app[p].kind}

\* Mutant: the permanent rows of the MAC table are not flushed.
FlushedNotMac(i, kind) == {e \in ifc[i].rows : e.perm /\ e.row.kind = kind /\ kind # "mac"}

\* The rows of one table that ApplyConfig flushes.
Flushed(i, kind) == {e \in ifc[i].rows : e.perm /\ e.row.kind = kind}

\* The permanent rows of one table are removed, under i.tables ...
Flush(p) ==
  LET i == app[p].i  kind == app[p].kind IN
  /\ At(p, "flush")
  /\ TablesFree(i)
  /\ kind = "route" => Flushed(i, kind) = {}
  /\ SetRows(i, ifc[i].rows \ Flushed(i, kind))
  /\ Goto(p, Proceed([app[p] EXCEPT !.rows = Rest(p)]))
  /\ UNCHANGED <<up, file, listeners, lst, ifcs, applying, saver, events, quiet>>

\* ... but a route is removed by RemoveStaticRoute, which calls i.tables.Lock()
\* while ApplyConfig has it.
FlushRoutes(p) ==
  LET i == app[p].i IN
  /\ At(p, "flush")
  /\ TablesFree(i)
  /\ app[p].kind = "route" /\ Flushed(i, "route") # {}
  /\ ifc' = [ifc EXCEPT ![i].locked = TRUE]
  /\ Goto(p, [app[p] EXCEPT !.pc = "hung"])
  /\ UNCHANGED <<up, file, listeners, lst, ifcs, applying, saver, events, quiet>>

\* The rows of the file are added one by one; what AddMACEntry and
\* AddStaticRoute return is ignored, and the device may refuse any route.
AddRow(p) ==
  LET i == app[p].i IN
  /\ At(p, "rows")
  /\ TablesFree(i)
  /\ \E r \in app[p].rows :
       /\ \/ SetRows(i, Put(ifc[i].rows, r, TRUE))
          \/ r.kind = "route" /\ UNCHANGED ifc
       /\ Goto(p, Proceed([app[p] EXCEPT !.rows = @ \ {r}]))
  /\ UNCHANGED <<up, file, listeners, lst, ifcs, applying, saver, events, quiet>>

\* A MAC, an IP address or a row that does not parse, or a device that takes no
\* addresses, ends ApplyConfig.
Fail(p) ==
  /\ At(p, "rows") \/ (At(p, "flush") /\ app[p].kind = "arp")
  /\ End(p)
  /\ UNCHANGED <<up, file, objects, saver, events, quiet>>

Done(p) ==
  /\ At(p, "find") /\ app[p].todo = {}
  /\ End(p)
  /\ UNCHANGED <<up, file, objects, saver, events, quiet>>

-----------------------------------------------------------------------------
(* SaveConfig.                                                               *)

Intervene == events < MaxEvents /\ events' = events + 1

\* Under app.Net, SaveConfig collects the configuration and truncates the file,
Save ==
  /\ AppFree
  /\ Intervene
  /\ \A l \in listeners : lst[l].perm =>
       NetFree(l) /\ \A i \in IfcsOf(l) : ifc[i].perm => TablesFree(i)
  /\ saver' = [pc |-> "write", cfg |-> Current, l |-> None]
  /\ file' = Torn
  /\ UNCHANGED <<up, objects, applying, app, quiet>>

\* or returns at an interface whose addresses the machine does not tell, and
\* leaves the lock of its listener,
SaveFails ==
  /\ AppFree
  /\ Intervene
  /\ \E l \in listeners :
       /\ lst[l].perm /\ NetFree(l)
       /\ \E i \in IfcsOf(l) : ifc[i].perm
       /\ lst' = [lst EXCEPT ![l].locked = TRUE]
  /\ UNCHANGED <<up, file, listeners, ifcs, ifc, applying, app, saver, quiet>>

\* or waits, with app.Net, for a listener's lock that was left, as ListInterfaces
\* does, or with both for tables that were.
SaveBlocks ==
  /\ AppFree
  /\ Intervene
  /\ \E l \in listeners :
       /\ \/ lst[l].locked
          \/ lst[l].perm /\ \E i \in IfcsOf(l) : ifc[i].perm /\ ifc[i].locked
       /\ saver' = [pc |-> "blocked", cfg |-> {}, l |-> l]
  /\ UNCHANGED <<up, file, objects, applying, app, quiet>>

\* The data is written.
Write ==
  /\ up /\ saver.pc = "write"
  /\ file' = saver.cfg
  /\ saver' = NoSave
  /\ UNCHANGED <<up, objects, applying, app, events, quiet>>

-----------------------------------------------------------------------------
(* Operators, peers and the machine.                                         *)

\* ReloadConfig sets the flag and reads the file; SIGHUP only reads it.
Reload(p) ==
  /\ up /\ app[p].pc = "idle" /\ p # Startup
  /\ Intervene
  /\ applying' = (applying \/ p # Hangup)
  /\ BeginApply(p)
  /\ UNCHANGED <<up, file, objects, saver>>

\* AddListener, RemoveListener, AddInterface and RemoveInterface.
EditObjects ==
  /\ AppFree
  /\ Intervene
  /\ \/ \E l \in Listener, name \in Name, addr \in Address, perm \in BOOLEAN :
          Open(l, name, addr, perm)
     \/ \E l \in listeners : NetFree(l) /\ CloseListener(l)
     \/ \E i \in Ifc, l \in listeners, vni \in VNI, name \in Device, perm \in BOOLEAN :
          OpenIfc(i, l, vni, name, perm)
     \/ \E i \in ifcs : ifc[i].l \in listeners /\ CloseIfc(i)
  /\ quiet' = FALSE
  /\ UNCHANGED <<up, file, applying, app, saver>>

\* The handlers that add, remove and flush rows, of interfaces that are found.
EditRows ==
  /\ AppFree
  /\ Intervene
  /\ \E i \in ifcs :
       /\ ifc[i].l \in listeners
       /\ NetFree(ifc[i].l)
       /\ TablesFree(i)
       /\ \/ \E r \in Row, perm \in BOOLEAN : SetRows(i, Put(ifc[i].rows, r, perm))
          \/ \E e \in ifc[i].rows : SetRows(i, ifc[i].rows \ {e})
          \/ \E kind \in {"arp", "mac"} : SetRows(i, {e \in ifc[i].rows : e.row.kind # kind})
  /\ quiet' = FALSE
  /\ UNCHANGED <<up, file, listeners, lst, ifcs, applying, app, saver>>

\* A peer's ARP packet: AddOrUpdateARP keeps the entry it confirms and replaces
\* any other of the address, a permanent one too.
Learn ==
  /\ Intervene
  /\ \E i \in ifcs, r \in Row \cup Heard :
       /\ ifc[i].l \in listeners /\ NetFree(ifc[i].l)
       /\ TablesFree(i)
       /\ r.kind = "arp" /\ ~Has(ifc[i].rows, r)
       /\ SetRows(i, Put(ifc[i].rows, r, FALSE))
  /\ quiet' = FALSE
  /\ UNCHANGED <<up, file, listeners, lst, ifcs, applying, app, saver>>

\* An operator writes the file by hand.
EditFile ==
  /\ Intervene
  /\ file' \in Files
  /\ UNCHANGED <<up, objects, applying, app, saver, quiet>>

\* The process ends, by a signal, a crash or with the machine.
Stop ==
  /\ up
  /\ Intervene
  /\ Exit
  /\ UNCHANGED file

\* The service manager starts it: the file is read, the flag set, and
\* ApplyConfig left to a goroutine.
Start ==
  /\ ~up
  /\ up' = TRUE
  /\ applying' = TRUE
  /\ Goto(Startup, Begun)
  /\ quiet' = TRUE
  /\ UNCHANGED <<file, objects, saver, events>>

-----------------------------------------------------------------------------

Step(p) ==
  \/ Scan(p)
  \/ Remove(p)
  \/ Find(p)
  \/ Resize(p)
  \/ Make(p)
  \/ FindIfc(p)
  \/ LastIfc(p)
  \/ MakeIfc(p)
  \/ Flush(p)
  \/ FlushRoutes(p)
  \/ AddRow(p)
  \/ Fail(p)
  \/ Done(p)

Next ==
  \/ \E p \in Appliers : Step(p) \/ Reload(p)
  \/ Save
  \/ SaveFails
  \/ SaveBlocks
  \/ Write
  \/ EditObjects
  \/ EditRows
  \/ Learn
  \/ EditFile
  \/ Stop
  \/ Start

Spec == Init /\ [][Next]_vars

\* ApplyConfig and SaveConfig run on, and get a lock that is free again and
\* again.  Whether the process is started again, and everything else, is open.
Fairness ==
  /\ \A p \in Appliers : SF_vars(Step(p))
  /\ WF_vars(Write)

FairSpec == Spec /\ Fairness

-----------------------------------------------------------------------------
(* Properties.                                                               *)

\* What is in the file can be applied: no two listeners share a name or an
\* address, no two interfaces a device name, no two of a listener a VNI, whoever
\* added, adopted and saved them in whatever order (config.go:447-541).
FileWellFormed == file # Torn => WellFormed(file)

\* A permanent interface of a listener the process knows is on a permanent one,
\* whether either was made so by an operator or by a file that adopted it: what
\* SaveConfig skips with a listener is never permanent (config.go:269-275,
\* 294-299, 449; interface.go:86).
PermanentNested ==
  \A i \in ifcs : ifc[i].l \in listeners /\ ifc[i].perm => lst[ifc[i].l].perm

\* What a peer claims stays out of the configuration: no row that only peers
\* report is ever permanent or in the file, through any sequence of learning,
\* applying, saving and starting again (config.go:487-518, interface.go:581-593).
HeardStaysTemporary ==
  /\ \A i \in DOMAIN ifc : \A e \in ifc[i].rows : e.row \in Heard => ~e.perm
  /\ file # Torn => \A c \in file : \A x \in c.ifcs : x.rows \cap Heard = {}

\* The flag is set only while some ApplyConfig that set it runs, also after one
\* that failed: a client that waits for it to clear is not kept waiting by nobody
\* (server_cmd.go:45-64, config_grpc.go:23-26).
FlagMeansApplying ==
  up /\ applying => \E p \in Appliers \ {Hangup} : app[p].pc # "idle"

\* The configuration without the routes, which the device may refuse.
Fixed(cfg) ==
  {[c EXCEPT !.ifcs = {[x EXCEPT !.rows = {r \in @ : r.kind # "route"}] : x \in @}] : c \in cfg}
RoutesOf(cfg) ==
  UNION {UNION {{<<c.addr, x.vni, r>> : r \in {r \in x.rows : r.kind = "route"}} : x \in c.ifcs} : c \in cfg}

\* An ApplyConfig that starts with permanent objects only, that nobody disturbs
\* and that returns without an error has made what is permanent equal to the file
\* it read, but for routes the device refused: nothing of an earlier configuration
\* is left, at no level (config.go:192-431).
AppliedAsConfigured ==
  [][\A p \in Appliers : quiet /\ Done(p) =>
       /\ Fixed(Current) = Fixed(app[p].cfg)
       /\ RoutesOf(Current) \subseteq RoutesOf(app[p].cfg)]_vars

\* A step takes a listener or an interface away.
Closes == listeners \ listeners' # {} \/ ifcs \ ifcs' # {}

\* Whatever others do meanwhile, an ApplyConfig takes away no listener and no
\* interface that is temporary or that its file has, but for the interfaces of a
\* listener it closes (config.go:200-260).
RemovesOnlyStale ==
  [][\A p \in Appliers : Closes /\ up' /\ Step(p) =>
       LET gone == listeners \ listeners' IN
       /\ \A l \in gone : lst[l].perm /\ Matches(app[p].cfg, l) = {}
       /\ \A i \in ifcs \ ifcs' :
            ifc[i].l \in gone \/ (ifc[i].perm /\ Lacks(app[p].cfg, i))]_vars

\* A lock that nobody is left to release.
LockLeft == (\E i \in DOMAIN ifc : ifc[i].locked) \/ (\E l \in DOMAIN lst : lst[l].locked)

\* Every ApplyConfig ends, however many run at once and whatever is changed under
\* it, unless the process ends or a lock was left (config.go:192-431).
ApplyEndsUnlessLockLeft ==
  \A p \in Appliers : app[p].pc # "idle" ~> (app[p].pc = "idle" \/ ~up \/ LockLeft)
=============================================================================
