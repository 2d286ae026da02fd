---------------------------- MODULE ConfigProofs ----------------------------
(***************************************************************************)
(* Proofs about module Config, for every set of listeners, interfaces,     *)
(* names, rows and files, and any number of reloads.                       *)
(*                                                                         *)
(* Inv types what ApplyConfig and SaveConfig carry about as well as the    *)
(* objects, and says what makes the properties inductive: an ApplyConfig   *)
(* is at work only on permanent listeners (PlacedIn), no two objects clash *)
(* (Distinct), permanent rows are rows of operators (in IfcOwn), and what  *)
(* is about to be written is well formed already (Filed).  The steps that  *)
(* change objects are sorted first (ObjectSteps), so that each part is     *)
(* shown for eight kinds of change and not for every action.               *)
(***************************************************************************)
EXTENDS Config, TLAPS

\* Configurations with rows that operators entered.
OwnIfc == [vni: VNI, name: Device, rows: SUBSET Row]
OwnListener == [addr: Address, name: Name, ifcs: SUBSET OwnIfc]

AppState ==
  [pc: PC, cfg: SUBSET OwnListener, rmL: SUBSET Listener, rmI: SUBSET Ifc,
   todo: SUBSET OwnListener, c: OwnListener \cup {None}, l: Listener \cup {None},
   ics: SUBSET OwnIfc, ic: OwnIfc \cup {None}, i: Ifc \cup {None}, kind: Kind, rows: SUBSET Row]

OnIfc == {"flush", "rows", "hung"}
OnListener == OnIfc \cup {"resize", "ifc", "makeIfc"}

\* What an ApplyConfig in state s works on is there.
PlacedIn(s, ls, is) ==
  /\ s.pc \in OnListener => s.l \in DOMAIN ls /\ ls[s.l].perm
  /\ s.pc \in OnIfc => s.i \in DOMAIN is
  /\ s.pc = "make" => s.c \in OwnListener
  /\ s.pc \in OnIfc \cup {"makeIfc"} => s.ic \in OwnIfc

Flags == up \in BOOLEAN /\ applying \in BOOLEAN /\ quiet \in BOOLEAN /\ events \in 0..MaxEvents
ListenersTyped ==
  /\ listeners \subseteq DOMAIN lst /\ DOMAIN lst \subseteq Listener
  /\ \A l \in DOMAIN lst : lst[l] \in ListenerState
IfcsTyped ==
  /\ ifcs \subseteq DOMAIN ifc /\ DOMAIN ifc \subseteq Ifc
  /\ \A i \in DOMAIN ifc : ifc[i] \in IfcState /\ ifc[i].l \in DOMAIN lst
IfcOwn == \A i \in DOMAIN ifc : \A e \in ifc[i].rows : e.perm => e.row \in Row
Applying == app \in [Appliers -> AppState] /\ \A p \in Appliers : PlacedIn(app[p], lst, ifc)
Distinct ==
  /\ \A k, l \in listeners : lst[k].addr = lst[l].addr \/ lst[k].name = lst[l].name => k = l
  /\ \A i, j \in ifcs : ifc[i].name = ifc[j].name => i = j
  /\ \A i, j \in ifcs : ifc[i].l = ifc[j].l /\ ifc[i].vni = ifc[j].vni => i = j
OneEntry(entries) ==
  \A e, f \in entries : e.row.kind = "arp" /\ f.row.kind = "arp" /\ e.row.key = f.row.key => e = f
OneEntryEach == \A i \in DOMAIN ifc : OneEntry(ifc[i].rows)
Filed ==
  /\ file = Torn \/ (file \subseteq OwnListener /\ WellFormed(file))
  /\ saver \in [pc: {"idle", "write", "blocked"}, cfg: SUBSET OwnListener, l: Listener \cup {None}]
  /\ WellFormed(saver.cfg)

Inv ==
  /\ Flags /\ ListenersTyped /\ IfcsTyped /\ IfcOwn /\ Applying /\ Distinct /\ OneEntryEach
  /\ Filed /\ PermanentNested /\ FlagMeansApplying

-----------------------------------------------------------------------------
(* Helpers.                                                                  *)

\* The next object to make has not been made.
LEMMA FreshIsNew ==
  ASSUME NEW all, NEW made, made \subseteq all, NEW x, Fresh(x, all, made)
  PROVE  x \in all /\ x \notin made
<1>1. \E y \in all : y \notin made
  BY DEF Fresh
<1> QED BY <1>1 DEF Fresh

\* The state of an ApplyConfig that is not at work.
LEMMA IdleState == Idle \in AppState /\ Idle.pc = "idle"
BY DEF Idle, AppState, PC, Kind

\* An operator's files hold only operators' rows, and are well formed.
LEMMA FilesOwn == \A f \in Files : f \subseteq OwnListener /\ WellFormed(f)
<1> SUFFICES ASSUME NEW f \in Files PROVE f \subseteq OwnListener /\ WellFormed(f)
  OBVIOUS
<1>1. WellFormed(f)
  BY ConstAssumption
<1>2. ASSUME NEW c \in f PROVE c \in OwnListener
  <2>1. c \in ListenerConfig /\ \A x \in c.ifcs : x.rows \subseteq Row
    BY FilesAssumption
  <2>2. \A x \in c.ifcs : x \in OwnIfc
    BY <2>1 DEF ListenerConfig, IfcConfig, OwnIfc
  <2> QED BY <2>1, <2>2 DEF ListenerConfig, OwnListener
<1> QED BY <1>1, <1>2

\* What an ApplyConfig begins with.
LEMMA BegunState ==
  ASSUME Filed
  PROVE  Begun \in AppState /\ Begun.pc = "scan" /\ \A ls, is : PlacedIn(Begun, ls, is)
<1>1. ReadConfig \subseteq OwnListener
  BY DEF Filed, ReadConfig
<1>2. Begun \in AppState /\ Begun.pc = "scan"
  BY <1>1 DEF Begun, Idle, AppState, PC, Kind
<1> QED BY <1>2 DEF PlacedIn, OnIfc, OnListener

\* What a new state does to the ApplyConfigs.
LEMMA GotoIs ==
  ASSUME Applying, NEW p \in Appliers, NEW s \in AppState, Goto(p, s)
  PROVE  app' \in [Appliers -> AppState] /\ app'[p] = s /\ \A q \in Appliers \ {p} : app'[q] = app[q]
BY DEF Applying, Goto

\* At first nothing is there but the file.
LEMMA InitInv == Init => Inv
<1> SUFFICES ASSUME Init PROVE Inv
  OBVIOUS
<1>1. DOMAIN lst = {} /\ DOMAIN ifc = {} /\ listeners = {} /\ ifcs = {}
  BY DEF Init, EmptyMap
<1>2. Flags
  <2>1. MaxEvents \in Nat
    BY ConstAssumption
  <2>2. 0 \in 0..MaxEvents
    BY <2>1
  <2> QED BY <2>2 DEF Init, Flags
<1>3. ListenersTyped /\ IfcsTyped /\ IfcOwn /\ Distinct /\ OneEntryEach /\ PermanentNested
  BY <1>1 DEF ListenersTyped, IfcsTyped, IfcOwn, Distinct, OneEntryEach, PermanentNested
<1>4. Applying
  BY IdleState DEF Init, Applying, PlacedIn, OnIfc, OnListener
<1>5. Filed
  BY FilesOwn DEF Init, Filed, NoSave, WellFormed
<1>6. FlagMeansApplying
  BY DEF Init, FlagMeansApplying
<1> QED BY <1>2, <1>3, <1>4, <1>5, <1>6 DEF Inv

-----------------------------------------------------------------------------
(* The steps, sorted by what they do to the objects.                         *)

Opens == \E l \in Listener, name \in Name, addr \in Address, perm \in BOOLEAN :
           Open(l, name, addr, perm)
Drops == listeners' \subseteq listeners /\ ifcs' \subseteq ifcs /\ UNCHANGED <<lst, ifc>>
MarksListener ==
  /\ \E l \in listeners : \/ lst' = [lst EXCEPT ![l].perm = TRUE]
                          \/ lst' = [lst EXCEPT ![l].locked = TRUE]
  /\ UNCHANGED <<listeners, ifcs, ifc>>
OpensIfc ==
  \E i \in Ifc, l \in DOMAIN lst, vni \in VNI, name \in Device, perm \in BOOLEAN :
    OpenIfc(i, l, vni, name, perm)
MarksIfc ==
  /\ \E i \in ifcs : ifc' = [ifc EXCEPT ![i].perm = TRUE] /\ lst[ifc[i].l].perm
  /\ UNCHANGED <<listeners, lst, ifcs>>
LocksIfc ==
  /\ \E i \in DOMAIN ifc : ifc' = [ifc EXCEPT ![i].locked = TRUE]
  /\ UNCHANGED <<listeners, lst, ifcs>>
Edits ==
  /\ \E i \in DOMAIN ifc :
       \/ \E entries \in SUBSET ifc[i].rows : SetRows(i, entries)
       \/ \E r \in Row \cup Heard, perm \in BOOLEAN :
            (r \in Row \/ ~perm) /\ SetRows(i, Put(ifc[i].rows, r, perm))
  /\ UNCHANGED <<listeners, lst, ifcs>>
Changes == Opens \/ Drops \/ MarksListener \/ OpensIfc \/ MarksIfc \/ LocksIfc \/ Edits

\* Closing a listener or an interface only drops objects.
LEMMA Closing ==
  /\ \A l : CloseListener(l) => Drops
  /\ \A i : CloseIfc(i) => Drops
BY DEF CloseListener, CloseIfc, Drops

\* What the states of an ApplyConfig are after AppState and PlacedIn.
LEMMA AtIs ==
  ASSUME Inv, NEW p \in Appliers
  PROVE  app[p] \in AppState /\ PlacedIn(app[p], lst, ifc)
BY DEF Inv, Applying

\* A step of an ApplyConfig changes objects in one of seven ways, or the process ends.
LEMMA StepObjects ==
  ASSUME Inv, NEW p \in Appliers, Step(p)
  PROVE  Changes \/ Exit
<1>1. app[p] \in AppState /\ PlacedIn(app[p], lst, ifc)
  BY AtIs
<1>2. UNCHANGED objects => Drops
  BY DEF objects, Drops
<1>3. CASE Scan(p) \/ Resize(p) \/ LastIfc(p) \/ Fail(p) \/ Done(p)
  BY <1>2, <1>3 DEF Scan, Resize, LastIfc, Fail, Done, Changes
<1>4. CASE Remove(p)
  BY <1>2, <1>4, Closing DEF Remove, Changes
<1>5. CASE Find(p)
  <2>1. UNCHANGED lst => Drops
    BY <1>5 DEF Find, Drops
  <2> QED BY <1>5, <2>1 DEF Find, Adopt, MarksListener, Changes
<1>6. CASE Make(p)
  <2>1. app[p].c \in OwnListener
    BY <1>1, <1>6 DEF Make, At, PlacedIn
  <2>2. app[p].c.name \in Name /\ app[p].c.addr \in Address
    BY <2>1 DEF OwnListener
  <2> QED BY <1>2, <1>6, <2>2 DEF Make, Opens, Changes
<1>7. CASE FindIfc(p)
  <2>1. lst[app[p].l].perm
    BY <1>1, <1>7 DEF FindIfc, At, PlacedIn, OnListener
  <2>2. UNCHANGED ifc => Drops
    BY <1>7 DEF FindIfc, Drops
  <2>3. ASSUME NEW i \in IfcsOf(app[p].l), ifc' = [ifc EXCEPT ![i].perm = TRUE] PROVE MarksIfc
    BY <1>7, <2>1, <2>3 DEF MarksIfc, IfcsOf, FindIfc
  <2> QED BY <1>7, <2>2, <2>3 DEF FindIfc, Changes
<1>8. CASE MakeIfc(p)
  <2>1. app[p].ic \in OwnIfc /\ app[p].l \in DOMAIN lst
    BY <1>1, <1>8 DEF MakeIfc, At, PlacedIn, OnListener
  <2>2. app[p].ic.name \in Device /\ app[p].ic.vni \in VNI
    BY <2>1 DEF OwnIfc
  <2> QED BY <1>2, <1>8, <2>1, <2>2 DEF MakeIfc, OpensIfc, Changes
<1>9. CASE Flush(p) \/ FlushRoutes(p) \/ AddRow(p)
  <2>1. app[p].i \in DOMAIN ifc
    BY <1>1, <1>9 DEF Flush, FlushRoutes, AddRow, At, PlacedIn, OnIfc
  <2>2. CASE Flush(p)
    BY <2>1, <2>2 DEF Flush, Edits, Changes
  <2>3. CASE FlushRoutes(p)
    BY <2>1, <2>3 DEF FlushRoutes, LocksIfc, Changes
  <2>4. CASE AddRow(p)
    <3>1. UNCHANGED ifc => Drops
      BY <2>4 DEF AddRow, Drops
    <3>2. app[p].rows \subseteq Row
      BY <1>1 DEF AppState
    <3>3. ASSUME NEW r \in app[p].rows, SetRows(app[p].i, Put(ifc[app[p].i].rows, r, TRUE))
          PROVE  Edits
      BY <2>1, <2>4, <3>2, <3>3 DEF AddRow, Edits
    <3> QED BY <2>4, <3>1, <3>3 DEF AddRow, Changes
  <2> QED BY <1>9, <2>2, <2>3, <2>4
<1> QED BY <1>3, <1>4, <1>5, <1>6, <1>7, <1>8, <1>9 DEF Step

\* So does every step.
LEMMA ObjectSteps ==
  ASSUME Inv, [Next]_vars
  PROVE  Changes \/ Exit
<1>1. UNCHANGED objects => Drops
  BY DEF objects, Drops
<1>2. CASE UNCHANGED vars
  BY <1>1, <1>2 DEF vars, objects, Changes
<1>3. ASSUME NEW p \in Appliers, Step(p) PROVE Changes \/ Exit
  BY <1>3, StepObjects
<1>4. ASSUME NEW p \in Appliers, Reload(p) PROVE Changes
  BY <1>1, <1>4 DEF Reload, Changes
<1>5. CASE Save \/ SaveBlocks \/ Write \/ EditFile \/ Start
  BY <1>1, <1>5 DEF Save, SaveBlocks, Write, EditFile, Start, Changes
<1>6. CASE SaveFails
  BY <1>6 DEF SaveFails, MarksListener, Changes
<1>7. CASE EditObjects
  <2>1. listeners \subseteq DOMAIN lst
    BY DEF Inv, ListenersTyped
  <2>2. (\E i \in Ifc, l \in listeners, vni \in VNI, name \in Device, perm \in BOOLEAN :
           OpenIfc(i, l, vni, name, perm)) => OpensIfc
    BY <2>1 DEF OpensIfc
  <2>3. \/ Opens
        \/ \E l \in listeners : CloseListener(l)
        \/ OpensIfc
        \/ \E i \in ifcs : CloseIfc(i)
    BY <1>7, <2>2 DEF EditObjects, Opens
  <2> QED BY <2>3, Closing DEF Changes
<1>8. ifcs \subseteq DOMAIN ifc
  BY DEF Inv, IfcsTyped
<1>9. CASE EditRows
  <2>1. PICK i \in ifcs :
          \/ \E r \in Row, perm \in BOOLEAN : SetRows(i, Put(ifc[i].rows, r, perm))
          \/ \E e \in ifc[i].rows : SetRows(i, ifc[i].rows \ {e})
          \/ \E kind \in {"arp", "mac"} : SetRows(i, {e \in ifc[i].rows : e.row.kind # kind})
    BY <1>9 DEF EditRows
  <2>2. Edits
    BY <1>8, <1>9, <2>1 DEF EditRows, Edits
  <2> QED BY <2>2 DEF Changes
<1>10. CASE Learn
  BY <1>8, <1>10 DEF Learn, Edits, Changes
<1>11. CASE Stop
  BY <1>11 DEF Stop
<1> QED BY <1>2, <1>3, <1>4, <1>5, <1>6, <1>7, <1>9, <1>10, <1>11 DEF Next

-----------------------------------------------------------------------------
(* The objects.                                                              *)

\* What a new listener is.
LEMMA OpenIs ==
  ASSUME ListenersTyped, NEW l \in Listener, NEW name \in Name, NEW addr \in Address,
         NEW perm \in BOOLEAN, Open(l, name, addr, perm)
  PROVE  /\ l \notin DOMAIN lst /\ DOMAIN lst' = DOMAIN lst \cup {l}
         /\ lst'[l] = [addr |-> addr, name |-> name, perm |-> perm, locked |-> FALSE]
         /\ lst'[l] \in ListenerState
         /\ \A k \in DOMAIN lst : lst'[k] = lst[k]
         /\ listeners' = listeners \cup {l} /\ UNCHANGED <<ifcs, ifc>>
<1>1. l \notin DOMAIN lst
  BY FreshIsNew DEF Open, ListenersTyped
<1> DEFINE new == [addr |-> addr, name |-> name, perm |-> perm, locked |-> FALSE]
<1>2. new \in ListenerState
  BY DEF ListenerState
<1> HIDE DEF new
<1>3. lst' = With(lst, l, new) /\ listeners' = listeners \cup {l} /\ UNCHANGED <<ifcs, ifc>>
  BY DEF Open, new
<1>4. DOMAIN lst' = DOMAIN lst \cup {l} /\ lst'[l] = new /\ \A k \in DOMAIN lst : lst'[k] = lst[k]
  BY <1>1, <1>3 DEF With
<1> QED BY <1>1, <1>2, <1>3, <1>4 DEF new

\* What a new interface is.
LEMMA OpenIfcIs ==
  ASSUME IfcsTyped, DOMAIN lst \subseteq Listener, NEW i \in Ifc, NEW l \in DOMAIN lst, NEW vni \in VNI,
         NEW name \in Device, NEW perm \in BOOLEAN, OpenIfc(i, l, vni, name, perm)
  PROVE  /\ i \notin DOMAIN ifc /\ DOMAIN ifc' = DOMAIN ifc \cup {i}
         /\ ifc'[i] = [l |-> l, vni |-> vni, name |-> name, perm |-> perm, rows |-> {}, locked |-> FALSE]
         /\ ifc'[i] \in IfcState
         /\ \A j \in DOMAIN ifc : ifc'[j] = ifc[j]
         /\ ifcs' = ifcs \cup {i} /\ UNCHANGED <<listeners, lst>>
<1>1. i \notin DOMAIN ifc
  BY FreshIsNew DEF OpenIfc, IfcsTyped
<1> DEFINE new == [l |-> l, vni |-> vni, name |-> name, perm |-> perm, rows |-> {}, locked |-> FALSE]
<1>2. new \in IfcState
  BY DEF IfcState
<1> HIDE DEF new
<1>3. ifc' = With(ifc, i, new) /\ ifcs' = ifcs \cup {i} /\ UNCHANGED <<listeners, lst>>
  BY DEF OpenIfc, new
<1>4. DOMAIN ifc' = DOMAIN ifc \cup {i} /\ ifc'[i] = new /\ \A j \in DOMAIN ifc : ifc'[j] = ifc[j]
  BY <1>1, <1>3 DEF With
<1> QED BY <1>1, <1>2, <1>3, <1>4 DEF new

\* What a mark on a listener changes.
LEMMA MarksListenerIs ==
  ASSUME ListenersTyped, MarksListener
  PROVE  /\ DOMAIN lst' = DOMAIN lst /\ UNCHANGED <<listeners, ifcs, ifc>>
         /\ \A k \in DOMAIN lst :
              /\ lst'[k] \in ListenerState
              /\ lst'[k].addr = lst[k].addr /\ lst'[k].name = lst[k].name
              /\ lst[k].perm => lst'[k].perm
<1>1. PICK l \in listeners : \/ lst' = [lst EXCEPT ![l].perm = TRUE]
                             \/ lst' = [lst EXCEPT ![l].locked = TRUE]
  BY DEF MarksListener
<1>2. l \in DOMAIN lst /\ \A k \in DOMAIN lst : lst[k] \in ListenerState
  BY DEF ListenersTyped
<1>3. CASE lst' = [lst EXCEPT ![l].perm = TRUE]
  BY <1>2, <1>3 DEF MarksListener, ListenerState
<1>4. CASE lst' = [lst EXCEPT ![l].locked = TRUE]
  BY <1>2, <1>4 DEF MarksListener, ListenerState
<1> QED BY <1>1, <1>3, <1>4

\* What a mark on an interface changes.
LEMMA MarksIfcIs ==
  ASSUME IfcsTyped, MarksIfc \/ LocksIfc
  PROVE  /\ DOMAIN ifc' = DOMAIN ifc /\ UNCHANGED <<listeners, lst, ifcs>>
         /\ \A j \in DOMAIN ifc :
              /\ ifc'[j] \in IfcState
              /\ ifc'[j].l = ifc[j].l /\ ifc'[j].vni = ifc[j].vni /\ ifc'[j].name = ifc[j].name
              /\ ifc'[j].rows = ifc[j].rows
              /\ ifc'[j].perm => ifc[j].perm \/ lst[ifc[j].l].perm
              /\ ifc[j].perm => ifc'[j].perm
<1>1. \A j \in DOMAIN ifc : ifc[j] \in IfcState
  BY DEF IfcsTyped
<1>2. CASE MarksIfc
  <2>1. PICK i \in ifcs : ifc' = [ifc EXCEPT ![i].perm = TRUE] /\ lst[ifc[i].l].perm
    BY <1>2 DEF MarksIfc
  <2> QED BY <1>1, <1>2, <2>1 DEF MarksIfc, IfcState
<1>3. CASE LocksIfc
  <2>1. PICK i \in DOMAIN ifc : ifc' = [ifc EXCEPT ![i].locked = TRUE]
    BY <1>3 DEF LocksIfc
  <2> QED BY <1>1, <1>3, <2>1 DEF LocksIfc, IfcState
<1> QED BY <1>2, <1>3

\* A row that is put among others is the only one of its kind and key, and it
\* is permanent only if it is an operator's.
LEMMA PutIs ==
  ASSUME NEW entries \in SUBSET [row: Row \cup Heard, perm: BOOLEAN],
         NEW r \in Row \cup Heard, NEW perm \in BOOLEAN, r \in Row \/ ~perm
  PROVE  /\ Put(entries, r, perm) \subseteq [row: Row \cup Heard, perm: BOOLEAN]
         /\ OneEntry(entries) => OneEntry(Put(entries, r, perm))
         /\ (\A e \in entries : e.perm => e.row \in Row)
              => \A e \in Put(entries, r, perm) : e.perm => e.row \in Row
<1> DEFINE n == [row |-> r, perm |-> perm]
<1>1. n \in [row: Row \cup Heard, perm: BOOLEAN] /\ n.row = r /\ (n.perm => n.row \in Row)
  OBVIOUS
<1>2. \A e \in Put(entries, r, perm) : e \in entries \/ e = n
  BY DEF Put
<1>3. ASSUME OneEntry(entries) PROVE OneEntry(Put(entries, r, perm))
  <2>1. CASE r.kind = "arp"
    <3>1. \A e \in Put(entries, r, perm) :
            e = n \/ (e \in entries /\ ~(e.row.kind = "arp" /\ e.row.key = r.key))
      BY <2>1 DEF Put
    <3> HIDE DEF n
    <3> QED BY <1>1, <1>3, <3>1 DEF OneEntry
  <2>2. CASE r.kind # "arp"
    <3> HIDE DEF n
    <3> QED BY <1>1, <1>2, <1>3, <2>2 DEF OneEntry
  <2> QED BY <2>1, <2>2
<1> HIDE DEF n
<1> QED BY <1>1, <1>2, <1>3

\* What an edit of a table changes.
LEMMA EditsIs ==
  ASSUME IfcsTyped, IfcOwn, OneEntryEach, Edits
  PROVE  /\ DOMAIN ifc' = DOMAIN ifc /\ UNCHANGED <<listeners, lst, ifcs>>
         /\ \A j \in DOMAIN ifc :
              /\ ifc'[j] \in IfcState
              /\ ifc'[j].l = ifc[j].l /\ ifc'[j].vni = ifc[j].vni /\ ifc'[j].name = ifc[j].name
              /\ ifc'[j].perm = ifc[j].perm
              /\ OneEntry(ifc'[j].rows)
              /\ \A e \in ifc'[j].rows : e.perm => e.row \in Row
<1>1. \A j \in DOMAIN ifc : ifc[j] \in IfcState
  BY DEF IfcsTyped
<1>2. PICK i \in DOMAIN ifc :
       \/ \E entries \in SUBSET ifc[i].rows : SetRows(i, entries)
       \/ \E r \in Row \cup Heard, perm \in BOOLEAN :
            (r \in Row \/ ~perm) /\ SetRows(i, Put(ifc[i].rows, r, perm))
  BY DEF Edits
<1>3. /\ ifc[i].rows \subseteq [row: Row \cup Heard, perm: BOOLEAN]
      /\ OneEntry(ifc[i].rows) /\ \A e \in ifc[i].rows : e.perm => e.row \in Row
  BY <1>1 DEF IfcState, IfcOwn, OneEntryEach
<1>4. PICK entries : /\ SetRows(i, entries)
                     /\ entries \subseteq [row: Row \cup Heard, perm: BOOLEAN]
                     /\ OneEntry(entries) /\ \A e \in entries : e.perm => e.row \in Row
  <2>1. CASE \E entries \in SUBSET ifc[i].rows : SetRows(i, entries)
    BY <1>3, <2>1 DEF OneEntry
  <2>2. CASE \E r \in Row \cup Heard, perm \in BOOLEAN :
               (r \in Row \/ ~perm) /\ SetRows(i, Put(ifc[i].rows, r, perm))
    BY <1>3, <2>2, PutIs
  <2> QED BY <1>2, <2>1, <2>2
<1>5. ifc' = [ifc EXCEPT ![i].rows = entries]
  BY <1>4 DEF SetRows
<1>6. DOMAIN ifc' = DOMAIN ifc /\ UNCHANGED <<listeners, lst, ifcs>>
  BY <1>5 DEF Edits
<1>7. /\ ifc'[i] = [ifc[i] EXCEPT !.rows = entries]
      /\ \A j \in DOMAIN ifc \ {i} : ifc'[j] = ifc[j]
  BY <1>5
<1>8. /\ ifc'[i] \in IfcState /\ ifc'[i].rows = entries
      /\ ifc'[i].l = ifc[i].l /\ ifc'[i].vni = ifc[i].vni /\ ifc'[i].name = ifc[i].name
      /\ ifc'[i].perm = ifc[i].perm
  BY <1>1, <1>4, <1>7 DEF IfcState
<1>9. \A j \in DOMAIN ifc \ {i} :
        OneEntry(ifc[j].rows) /\ \A e \in ifc[j].rows : e.perm => e.row \in Row
  BY DEF OneEntryEach, IfcOwn
<1> QED BY <1>1, <1>4, <1>6, <1>7, <1>8, <1>9

\* Unless the process ends, what was made stays made, and what is permanent
\* stays so.
LEMMA Grows ==
  ASSUME Inv, Changes
  PROVE  /\ \A l \in DOMAIN lst : l \in DOMAIN lst' /\ (lst[l].perm => lst'[l].perm)
         /\ DOMAIN ifc \subseteq DOMAIN ifc'
<1> USE DEF Inv, ListenersTyped, IfcsTyped
<1>1. CASE Opens
  BY <1>1, OpenIs DEF Opens
<1>2. CASE Drops
  BY <1>2 DEF Drops
<1>3. CASE MarksListener
  BY <1>3, MarksListenerIs
<1>4. CASE OpensIfc
  BY <1>4, OpenIfcIs DEF OpensIfc
<1>5. CASE MarksIfc \/ LocksIfc
  BY <1>5, MarksIfcIs
<1>6. CASE Edits
  BY <1>6, EditsIs
<1> QED BY <1>1, <1>2, <1>3, <1>4, <1>5, <1>6 DEF Changes

ObjectInv == ListenersTyped /\ IfcsTyped /\ IfcOwn /\ Distinct /\ OneEntryEach /\ PermanentNested

\* Every kind of change keeps what is true of the objects.
LEMMA ObjectStep ==
  ASSUME Inv, Changes \/ Exit
  PROVE  ObjectInv'
<1>1. ListenersTyped /\ IfcsTyped /\ IfcOwn /\ Distinct /\ OneEntryEach /\ PermanentNested
  BY DEF Inv
<1>2. CASE Exit
  <2>1. DOMAIN lst' = {} /\ DOMAIN ifc' = {} /\ listeners' = {} /\ ifcs' = {}
    BY <1>2 DEF Exit, EmptyMap
  <2> QED BY <2>1 DEF ObjectInv, ListenersTyped, IfcsTyped, IfcOwn, Distinct, OneEntryEach, PermanentNested
<1>3. CASE Drops
  BY <1>1, <1>3 DEF Drops, ObjectInv, ListenersTyped, IfcsTyped, IfcOwn, Distinct, OneEntryEach, PermanentNested
<1>4. CASE Opens
  <2>1. PICK l \in Listener, name \in Name, addr \in Address, perm \in BOOLEAN : Open(l, name, addr, perm)
    BY <1>4 DEF Opens
  <2>2. /\ l \notin DOMAIN lst /\ DOMAIN lst' = DOMAIN lst \cup {l}
        /\ lst'[l] = [addr |-> addr, name |-> name, perm |-> perm, locked |-> FALSE]
        /\ lst'[l] \in ListenerState
        /\ \A k \in DOMAIN lst : lst'[k] = lst[k]
        /\ listeners' = listeners \cup {l} /\ UNCHANGED <<ifcs, ifc>>
    BY <1>1, <2>1, OpenIs
  <2>3. ListenersTyped' /\ IfcsTyped' /\ IfcOwn' /\ OneEntryEach'
    BY <1>1, <2>2 DEF ListenersTyped, IfcsTyped, IfcOwn, OneEntryEach
  <2>4. lst'[l].addr = addr /\ lst'[l].name = name
    BY <2>2
  <2>5. \A k \in listeners : lst'[k] = lst[k] /\ lst[k].addr # addr /\ lst[k].name # name
    BY <1>1, <2>1, <2>2 DEF Open, ListenersTyped
  <2>6. Distinct'
    BY <1>1, <2>2, <2>4, <2>5 DEF Distinct
  <2>7. PermanentNested'
    BY <1>1, <2>2, <2>5 DEF PermanentNested, IfcsTyped
  <2> QED BY <2>3, <2>6, <2>7 DEF ObjectInv
<1>5. CASE MarksListener
  <2>1. /\ DOMAIN lst' = DOMAIN lst /\ UNCHANGED <<listeners, ifcs, ifc>>
        /\ \A k \in DOMAIN lst :
              /\ lst'[k] \in ListenerState
              /\ lst'[k].addr = lst[k].addr /\ lst'[k].name = lst[k].name
              /\ lst[k].perm => lst'[k].perm
    BY <1>1, <1>5, MarksListenerIs
  <2> QED BY <1>1, <2>1
       DEF ObjectInv, ListenersTyped, IfcsTyped, IfcOwn, Distinct, OneEntryEach, PermanentNested
<1>6. CASE OpensIfc
  <2>1. PICK i \in Ifc, l \in DOMAIN lst, vni \in VNI, name \in Device, perm \in BOOLEAN :
          OpenIfc(i, l, vni, name, perm)
    BY <1>6 DEF OpensIfc
  <2>2. /\ i \notin DOMAIN ifc /\ DOMAIN ifc' = DOMAIN ifc \cup {i}
        /\ ifc'[i] = [l |-> l, vni |-> vni, name |-> name, perm |-> perm, rows |-> {}, locked |-> FALSE]
        /\ ifc'[i] \in IfcState
        /\ \A j \in DOMAIN ifc : ifc'[j] = ifc[j]
        /\ ifcs' = ifcs \cup {i} /\ UNCHANGED <<listeners, lst>>
    BY <1>1, <2>1, OpenIfcIs DEF ListenersTyped
  <2>3. /\ ifc'[i].l = l /\ ifc'[i].vni = vni /\ ifc'[i].name = name /\ ifc'[i].perm = perm
        /\ ifc'[i].rows = {}
    BY <2>2
  <2>4. ListenersTyped' /\ IfcsTyped'
    BY <1>1, <2>2, <2>3 DEF ListenersTyped, IfcsTyped
  <2>5. IfcOwn' /\ OneEntryEach'
    BY <1>1, <2>2, <2>3 DEF IfcOwn, OneEntryEach, OneEntry
  <2>6. \A j \in ifcs : ifc'[j] = ifc[j] /\ ifc[j].name # name /\ (ifc[j].l = l => ifc[j].vni # vni)
    BY <1>1, <2>1, <2>2 DEF OpenIfc, VNIFree, IfcsOf, IfcsTyped
  <2>7. Distinct'
    BY <1>1, <2>2, <2>3, <2>6 DEF Distinct
  <2>8. perm => lst[l].perm
    BY <2>1 DEF OpenIfc, MayHave
  <2>9. PermanentNested'
    BY <1>1, <2>2, <2>3, <2>6, <2>8 DEF PermanentNested
  <2> QED BY <2>4, <2>5, <2>7, <2>9 DEF ObjectInv
<1>7. CASE MarksIfc \/ LocksIfc
  <2>1. /\ DOMAIN ifc' = DOMAIN ifc /\ UNCHANGED <<listeners, lst, ifcs>>
         /\ \A j \in DOMAIN ifc :
              /\ ifc'[j] \in IfcState
              /\ ifc'[j].l = ifc[j].l /\ ifc'[j].vni = ifc[j].vni /\ ifc'[j].name = ifc[j].name
              /\ ifc'[j].rows = ifc[j].rows
              /\ ifc'[j].perm => ifc[j].perm \/ lst[ifc[j].l].perm
    BY <1>1, <1>7, MarksIfcIs
  <2> QED BY <1>1, <2>1
       DEF ObjectInv, ListenersTyped, IfcsTyped, IfcOwn, Distinct, OneEntryEach, PermanentNested
<1>8. CASE Edits
  <2>1. /\ DOMAIN ifc' = DOMAIN ifc /\ UNCHANGED <<listeners, lst, ifcs>>
         /\ \A j \in DOMAIN ifc :
              /\ ifc'[j] \in IfcState
              /\ ifc'[j].l = ifc[j].l /\ ifc'[j].vni = ifc[j].vni /\ ifc'[j].name = ifc[j].name
              /\ ifc'[j].perm = ifc[j].perm
              /\ OneEntry(ifc'[j].rows)
              /\ \A e \in ifc'[j].rows : e.perm => e.row \in Row
    BY <1>1, <1>8, EditsIs
  <2> QED BY <1>1, <2>1
       DEF ObjectInv, ListenersTyped, IfcsTyped, IfcOwn, Distinct, OneEntryEach, PermanentNested
<1> QED BY <1>2, <1>3, <1>4, <1>5, <1>6, <1>7, <1>8 DEF Changes

-----------------------------------------------------------------------------
(* The ApplyConfigs.                                                         *)

\* After the last row of a table comes the next, with the objects it had.
LEMMA ProceedIs ==
  ASSUME NEW s \in AppState, NEW ls, NEW is, s.pc \in OnIfc, PlacedIn(s, ls, is)
  PROVE  Proceed(s) \in AppState /\ PlacedIn(Proceed(s), ls, is) /\ Proceed(s).pc # "idle"
BY DEF Proceed, AppState, PlacedIn, OnIfc, OnListener, PC, Kind

\* Objects that were there are there afterwards.
LEMMA PlacedStays ==
  ASSUME Inv, Changes, NEW s \in AppState, PlacedIn(s, lst, ifc)
  PROVE  PlacedIn(s, lst', ifc')
BY Grows DEF PlacedIn

\* To begin and to end: nothing is worked on.
LEMMA NothingPlaced ==
  ASSUME NEW s, s.pc \notin OnListener \cup {"make"}, NEW ls, NEW is
  PROVE  PlacedIn(s, ls, is)
BY DEF PlacedIn, OnIfc, OnListener

\* A step of an ApplyConfig.
LEMMA StepMoves ==
  ASSUME Inv, NEW p \in Appliers, Step(p)
  PROVE  \/ Exit
         \/ End(p)
         \/ /\ \E s \in AppState : Goto(p, s) /\ PlacedIn(s, lst', ifc') /\ s.pc # "idle"
            /\ applying' = applying
<1> DEFINE x == app[p]
           Good(s) == s \in AppState /\ Goto(p, s) /\ PlacedIn(s, lst', ifc') /\ s.pc # "idle"
           Some == \E s : Good(s)
<1>1. x \in AppState /\ PlacedIn(x, lst, ifc)
  BY AtIs
<1>2. CASE Scan(p)
  <2> DEFINE stale == Stale(x.cfg)
             s == [x EXCEPT !.pc = "remove", !.todo = x.cfg, !.rmL = stale.ls, !.rmI = stale.is]
             t == [x EXCEPT !.pc = "stuck"]
  <2>1. stale.ls \subseteq Listener /\ stale.is \subseteq Ifc
    BY DEF Stale, Inv, ListenersTyped, IfcsTyped
  <2>2. s \in AppState /\ s.pc = "remove" /\ t \in AppState /\ t.pc = "stuck"
    <3> HIDE DEF stale, x
    <3> QED BY <1>1, <2>1 DEF AppState, PC
  <2>3. (Goto(p, s) \/ Goto(p, t)) /\ applying' = applying
    BY <1>2 DEF Scan
  <2> HIDE DEF s, t
  <2>4. Some
    BY <2>2, <2>3, NothingPlaced DEF OnListener, OnIfc
  <2> QED BY <2>3, <2>4
<1>3. CASE Remove(p)
  <2>1. ASSUME NEW s, \/ \E l : s = [x EXCEPT !.rmL = @ \ {l}]
                      \/ \E i : s = [x EXCEPT !.rmI = @ \ {i}]
                      \/ s = [x EXCEPT !.pc = "find"],
               Goto(p, s)
        PROVE  Some
    <3>1. s \in AppState /\ s.pc \in {"remove", "find"}
      BY <1>1, <1>3, <2>1 DEF AppState, PC, Remove, At
    <3> QED BY <2>1, <3>1, NothingPlaced DEF OnListener, OnIfc
  <2> HIDE DEF Some
  <2>2. Exit \/ (Some /\ applying' = applying)
    BY <1>3, <2>1 DEF Remove
  <2> QED BY <2>2 DEF Some
<1>4. CASE Find(p)
  <2>1. PICK c \in x.todo :
          LET s == [x EXCEPT !.todo = @ \ {c}, !.c = c, !.ics = c.ifcs] IN
          \/ Goto(p, [s EXCEPT !.pc = "make"])
          \/ \E l \in listeners : Adopt(l) /\ Goto(p, [s EXCEPT !.pc = "resize", !.l = l])
    BY <1>4 DEF Find
  <2> DEFINE s == [x EXCEPT !.todo = @ \ {c}, !.c = c, !.ics = c.ifcs]
  <2>2. c \in OwnListener /\ c.ifcs \subseteq OwnIfc
    BY <1>1 DEF AppState, OwnListener
  <2>3. s \in AppState /\ s.c = c
    <3> HIDE DEF x
    <3> QED BY <1>1, <2>2 DEF AppState
  <2>4. CASE Goto(p, [s EXCEPT !.pc = "make"])
    <3> DEFINE t == [s EXCEPT !.pc = "make"]
    <3>1. t \in AppState /\ t.pc = "make" /\ t.c = c
      <4> HIDE DEF s
      <4> QED BY <2>3 DEF AppState, PC
    <3> HIDE DEF t
    <3>2. PlacedIn(t, lst', ifc')
      BY <2>2, <3>1 DEF PlacedIn, OnIfc, OnListener
    <3>3. Goto(p, t)
      BY <2>4 DEF t
    <3>4. Some
      BY <3>1, <3>2, <3>3
    <3> QED BY <1>4, <3>4 DEF Find
  <2>5. CASE \E l \in listeners : Adopt(l) /\ Goto(p, [s EXCEPT !.pc = "resize", !.l = l])
    <3>1. PICK l \in listeners : Adopt(l) /\ Goto(p, [s EXCEPT !.pc = "resize", !.l = l])
      BY <2>5
    <3> DEFINE t == [s EXCEPT !.pc = "resize", !.l = l]
    <3>2. l \in DOMAIN lst /\ l \in Listener /\ lst[l] \in ListenerState
      BY DEF Inv, ListenersTyped
    <3>3. t \in AppState /\ t.pc = "resize" /\ t.l = l
      <4> HIDE DEF s
      <4> QED BY <2>3, <3>2 DEF AppState, PC
    <3>4. l \in DOMAIN lst' /\ lst'[l].perm
      BY <3>1, <3>2 DEF Adopt, ListenerState
    <3>5. Goto(p, t)
      BY <3>1
    <3> HIDE DEF t
    <3>6. PlacedIn(t, lst', ifc')
      BY <3>3, <3>4 DEF PlacedIn, OnIfc, OnListener
    <3>7. Some
      BY <3>3, <3>5, <3>6
    <3> QED BY <1>4, <3>7 DEF Find
  <2> QED BY <2>1, <2>4, <2>5
<1>5. CASE Resize(p)
  <2> DEFINE t == [x EXCEPT !.pc = "ifc"]
  <2>1. t \in AppState /\ t.pc = "ifc" /\ t.l = x.l /\ x.pc = "resize"
    BY <1>1, <1>5 DEF AppState, PC, Resize, At
  <2>2. Goto(p, t) /\ UNCHANGED <<lst, ifc, applying>>
    BY <1>5 DEF Resize, objects
  <2> HIDE DEF t, x
  <2>3. PlacedIn(t, lst', ifc')
    BY <1>1, <2>1, <2>2 DEF PlacedIn, OnIfc, OnListener
  <2> QED BY <2>1, <2>2, <2>3
<1>6. CASE Make(p)
  <2>1. NotMade(p) => End(p)
    BY DEF NotMade
  <2>2. ASSUME NEW l \in Listener, Open(l, x.c.name, x.c.addr, TRUE),
               Goto(p, [x EXCEPT !.pc = "ifc", !.l = l])
        PROVE  Some
    <3> DEFINE t == [x EXCEPT !.pc = "ifc", !.l = l]
    <3>1. t \in AppState /\ t.pc = "ifc" /\ t.l = l
      BY <1>1 DEF AppState, PC
    <3>2. x.c \in OwnListener
      BY <1>1, <1>6 DEF PlacedIn, Make, At
    <3>3. x.c.name \in Name /\ x.c.addr \in Address
      BY <3>2 DEF OwnListener
    <3>4. l \in DOMAIN lst' /\ lst'[l].perm
      <4>1. ListenersTyped /\ TRUE \in BOOLEAN
        BY DEF Inv
      <4>2. /\ DOMAIN lst' = DOMAIN lst \cup {l}
            /\ lst'[l] = [addr |-> x.c.addr, name |-> x.c.name, perm |-> TRUE, locked |-> FALSE]
        BY <2>2, <3>3, <4>1, OpenIs
      <4> HIDE DEF x
      <4> QED BY <4>2
    <3>5. Goto(p, t)
      BY <2>2
    <3> HIDE DEF t
    <3>6. PlacedIn(t, lst', ifc')
      BY <3>1, <3>4 DEF PlacedIn, OnIfc, OnListener
    <3> QED BY <3>1, <3>5, <3>6
  <2> HIDE DEF Some
  <2>3. End(p) \/ (Some /\ applying' = applying)
    BY <1>6, <2>1, <2>2 DEF Make
  <2> QED BY <2>3 DEF Some
<1>7. CASE FindIfc(p)
  <2>1. x.pc = "ifc" /\ x.l \in DOMAIN lst /\ lst[x.l].perm /\ applying' = applying /\ UNCHANGED lst
    BY <1>1, <1>7 DEF FindIfc, At, PlacedIn, OnListener
  <2>2. PICK y \in x.ics :
          LET s == [x EXCEPT !.ics = @ \ {y}, !.ic = y] IN
          \/ Goto(p, [s EXCEPT !.pc = "makeIfc"])
          \/ \E i \in IfcsOf(x.l) : /\ ifc' = [ifc EXCEPT ![i].perm = TRUE]
                                    /\ Goto(p, [s EXCEPT !.pc = "flush", !.kind = "arp", !.i = i])
    BY <1>7 DEF FindIfc
  <2> DEFINE s == [x EXCEPT !.ics = @ \ {y}, !.ic = y]
  <2>3. y \in OwnIfc
    BY <1>1 DEF AppState
  <2>4. s \in AppState /\ s.ic = y /\ s.l = x.l
    <3> HIDE DEF x
    <3> QED BY <1>1, <2>3 DEF AppState
  <2>5. CASE Goto(p, [s EXCEPT !.pc = "makeIfc"])
    <3> DEFINE t == [s EXCEPT !.pc = "makeIfc"]
    <3>1. t \in AppState /\ t.pc = "makeIfc" /\ t.ic = y /\ t.l = x.l
      <4> HIDE DEF s
      <4> QED BY <2>4 DEF AppState, PC
    <3>2. Goto(p, t)
      BY <2>5
    <3> HIDE DEF t, x
    <3>3. PlacedIn(t, lst', ifc')
      BY <2>1, <2>3, <3>1 DEF PlacedIn, OnIfc, OnListener
    <3> QED BY <2>1, <3>1, <3>2, <3>3
  <2>6. CASE \E i \in IfcsOf(x.l) : /\ ifc' = [ifc EXCEPT ![i].perm = TRUE]
                                    /\ Goto(p, [s EXCEPT !.pc = "flush", !.kind = "arp", !.i = i])
    <3>1. PICK i \in IfcsOf(x.l) : /\ ifc' = [ifc EXCEPT ![i].perm = TRUE]
                                   /\ Goto(p, [s EXCEPT !.pc = "flush", !.kind = "arp", !.i = i])
      BY <2>6
    <3> DEFINE t == [s EXCEPT !.pc = "flush", !.kind = "arp", !.i = i]
    <3>2. i \in DOMAIN ifc /\ i \in Ifc /\ DOMAIN ifc' = DOMAIN ifc
      BY <3>1 DEF IfcsOf, Inv, IfcsTyped
    <3>3. t \in AppState /\ t.pc = "flush" /\ t.ic = y /\ t.l = x.l /\ t.i = i
      <4> HIDE DEF s
      <4> QED BY <2>4, <3>2 DEF AppState, PC, Kind
    <3>4. Goto(p, t)
      BY <3>1
    <3> HIDE DEF t, x
    <3>5. PlacedIn(t, lst', ifc')
      BY <2>1, <2>3, <3>2, <3>3 DEF PlacedIn, OnIfc, OnListener
    <3> QED BY <2>1, <3>3, <3>4, <3>5
  <2> QED BY <2>2, <2>5, <2>6
<1>8. CASE LastIfc(p)
  <2> DEFINE t == [Idle EXCEPT !.pc = "find", !.cfg = x.cfg, !.todo = x.todo]
  <2>1. t \in AppState /\ t.pc = "find"
    BY <1>1, IdleState DEF AppState, PC
  <2>2. Goto(p, t) /\ applying' = applying
    BY <1>8 DEF LastIfc
  <2> HIDE DEF t
  <2> QED BY <2>1, <2>2, NothingPlaced DEF OnListener, OnIfc
<1>9. CASE MakeIfc(p)
  <2>1. NotMade(p) => End(p)
    BY DEF NotMade
  <2>2. x.l \in DOMAIN lst /\ lst[x.l].perm /\ x.ic \in OwnIfc
    BY <1>1, <1>9 DEF PlacedIn, MakeIfc, At, OnListener
  <2>3. x.ic.vni \in VNI /\ x.ic.name \in Device
    BY <2>2 DEF OwnIfc
  <2>4. ASSUME NEW i \in Ifc, OpenIfc(i, x.l, x.ic.vni, x.ic.name, TRUE),
               Goto(p, [x EXCEPT !.pc = "flush", !.kind = "arp", !.i = i])
        PROVE  Some
    <3> DEFINE t == [x EXCEPT !.pc = "flush", !.kind = "arp", !.i = i]
    <3>1. t \in AppState /\ t.pc = "flush" /\ t.l = x.l /\ t.ic = x.ic /\ t.i = i
      BY <1>1 DEF AppState, PC, Kind
    <3>2. i \in DOMAIN ifc' /\ UNCHANGED lst
      BY <2>2, <2>3, <2>4, OpenIfcIs DEF Inv, ListenersTyped
    <3>3. Goto(p, t)
      BY <2>4
    <3> HIDE DEF t, x
    <3>4. PlacedIn(t, lst', ifc')
      BY <2>2, <3>1, <3>2 DEF PlacedIn, OnIfc, OnListener
    <3> QED BY <3>1, <3>3, <3>4
  <2> HIDE DEF Some
  <2>5. End(p) \/ (Some /\ applying' = applying)
    BY <1>9, <2>1, <2>4 DEF MakeIfc
  <2> QED BY <2>5 DEF Some
<1>10. CASE Flush(p) \/ AddRow(p) \/ FlushRoutes(p)
  <2>1. x.pc \in {"flush", "rows"} /\ UNCHANGED <<listeners, lst, ifcs, applying>>
    BY <1>10 DEF Flush, AddRow, FlushRoutes, At
  <2>2. Changes \/ Exit
    BY <1>10, StepObjects DEF Step
  <2>3. /\ x.l \in DOMAIN lst' /\ lst'[x.l].perm /\ x.i \in DOMAIN ifc' /\ x.ic \in OwnIfc
    <3>1. x.l \in DOMAIN lst /\ lst[x.l].perm /\ x.i \in DOMAIN ifc /\ x.ic \in OwnIfc
      BY <1>1, <2>1 DEF PlacedIn, OnIfc, OnListener
    <3>2. DOMAIN ifc' = DOMAIN ifc
      BY <1>10 DEF Flush, AddRow, FlushRoutes, SetRows
    <3> QED BY <2>1, <3>1, <3>2
  <2>4. ASSUME NEW s \in AppState, s.pc \in OnIfc, s.l = x.l, s.i = x.i, s.ic = x.ic
        PROVE  PlacedIn(s, lst', ifc')
    BY <2>3, <2>4 DEF PlacedIn, OnIfc, OnListener
  <2>5. ASSUME NEW rows \in SUBSET Row, Goto(p, Proceed([x EXCEPT !.rows = rows])) PROVE Some
    <3> DEFINE s == [x EXCEPT !.rows = rows]
    <3>1. s \in AppState /\ s.pc = x.pc /\ s.l = x.l /\ s.i = x.i /\ s.ic = x.ic
      BY <1>1 DEF AppState
    <3> HIDE DEF s
    <3>2. Proceed(s) \in AppState /\ PlacedIn(Proceed(s), lst', ifc') /\ Proceed(s).pc # "idle"
      BY <2>1, <2>4, <3>1, ProceedIs DEF OnIfc
    <3> QED BY <2>5, <3>2 DEF s
  <2>6. CASE Flush(p)
    <3>1. Rest(p) \subseteq Row
      BY <2>3 DEF Rest, OwnIfc
    <3>2. Goto(p, Proceed([x EXCEPT !.rows = Rest(p)]))
      BY <2>6 DEF Flush
    <3> QED BY <2>1, <2>5, <3>1, <3>2
  <2>7. CASE AddRow(p)
    <3>1. PICK r \in x.rows : Goto(p, Proceed([x EXCEPT !.rows = @ \ {r}]))
      BY <2>7 DEF AddRow
    <3>2. x.rows \ {r} \in SUBSET Row
      BY <1>1 DEF AppState
    <3>3. [x EXCEPT !.rows = @ \ {r}] = [x EXCEPT !.rows = x.rows \ {r}]
      OBVIOUS
    <3> QED BY <2>1, <2>5, <3>1, <3>2, <3>3
  <2>8. CASE FlushRoutes(p)
    <3> DEFINE t == [x EXCEPT !.pc = "hung"]
    <3>1. t \in AppState /\ t.pc = "hung" /\ t.l = x.l /\ t.i = x.i /\ t.ic = x.ic
      BY <1>1 DEF AppState, PC
    <3>2. Goto(p, t)
      BY <2>8 DEF FlushRoutes
    <3> HIDE DEF t
    <3>3. PlacedIn(t, lst', ifc')
      BY <2>4, <3>1 DEF OnIfc
    <3> QED BY <2>1, <3>1, <3>2, <3>3
  <2> QED BY <1>10, <2>6, <2>7, <2>8
<1>11. CASE Fail(p) \/ Done(p)
  BY <1>11 DEF Fail, Done
<1> QED BY <1>2, <1>3, <1>4, <1>5, <1>6, <1>7, <1>8, <1>9, <1>10, <1>11 DEF Step

\* What ends with the process and what does not.
LEMMA ExitIs ==
  ASSUME Exit
  PROVE  /\ Applying'
         /\ up' = FALSE /\ applying' = FALSE /\ quiet' = FALSE /\ saver' = NoSave
BY IdleState, NothingPlaced DEF Exit, Applying, OnListener, OnIfc

\* One ApplyConfig goes to a state whose objects are there, the others stay.
LEMMA OneMoves ==
  ASSUME Inv, Changes, NEW p \in Appliers, NEW s \in AppState, Goto(p, s), PlacedIn(s, lst', ifc')
  PROVE  Applying'
<1>1. app' \in [Appliers -> AppState] /\ app'[p] = s /\ \A q \in Appliers \ {p} : app'[q] = app[q]
  BY GotoIs DEF Inv
<1>2. ASSUME NEW q \in Appliers PROVE PlacedIn(app'[q], lst', ifc')
  <2>1. CASE q = p
    BY <1>1, <2>1
  <2>2. CASE q # p
    <3>1. app[q] \in AppState /\ PlacedIn(app[q], lst, ifc)
      BY AtIs
    <3>2. PlacedIn(app[q], lst', ifc')
      BY <3>1, PlacedStays
    <3> QED BY <1>1, <2>2, <3>2
  <2> QED BY <2>1, <2>2
<1> QED BY <1>1, <1>2 DEF Applying

\* Startup and Hangup are not the same.
LEMMA Who == Startup \in Appliers /\ Hangup \in Appliers /\ Startup # Hangup
BY DEF Appliers, Startup, Hangup

\* No step leaves an ApplyConfig with objects that are not there.
LEMMA ApplyingStep == Inv /\ [Next]_vars => Applying'
<1> SUFFICES ASSUME Inv, [Next]_vars PROVE Applying'
  OBVIOUS
<1>1. CASE Exit
  BY <1>1, ExitIs
<1>2. CASE Changes /\ ~Exit
  <2>1. ASSUME NEW p \in Appliers, Step(p) PROVE Applying'
    <3>1. CASE End(p)
      <4>1. Goto(p, Idle) /\ PlacedIn(Idle, lst', ifc')
        BY <3>1, IdleState, NothingPlaced DEF End, OnListener, OnIfc
      <4> QED BY <1>2, <4>1, IdleState, OneMoves
    <3>2. CASE \E s \in AppState : Goto(p, s) /\ PlacedIn(s, lst', ifc')
      BY <1>2, <3>2, OneMoves
    <3> QED BY <1>2, <2>1, <3>1, <3>2, StepMoves
  <2>2. ASSUME NEW p \in Appliers, Goto(p, Begun) PROVE Applying'
    BY <1>2, <2>2, BegunState, OneMoves DEF Inv
  <2>3. ASSUME NEW p \in Appliers, Reload(p) PROVE Applying'
    BY <2>2, <2>3 DEF Reload, BeginApply
  <2>4. CASE Start
    BY <2>2, <2>4, Who DEF Start
  <2>5. ASSUME app' = app PROVE Applying'
    <3>1. \A q \in Appliers : PlacedIn(app[q], lst', ifc')
      BY <1>2, AtIs, PlacedStays
    <3> QED BY <2>5, <3>1 DEF Inv, Applying
  <2>6. CASE Save \/ SaveFails \/ SaveBlocks \/ Write \/ EditObjects \/ EditRows \/ Learn \/ EditFile
               \/ UNCHANGED vars
    BY <2>5, <2>6 DEF Save, SaveFails, SaveBlocks, Write, EditObjects, EditRows, Learn, EditFile, vars
  <2> QED BY <1>2, <2>1, <2>3, <2>4, <2>6 DEF Next, Stop
<1> QED BY <1>1, <1>2, ObjectSteps

-----------------------------------------------------------------------------
(* The flag.                                                                 *)

\* The flags have their types.
LEMMA FlagsStep == Inv /\ [Next]_vars => Flags'
<1> SUFFICES ASSUME Inv, [Next]_vars PROVE Flags'
  OBVIOUS
<1>1. Flags /\ MaxEvents \in Nat
  BY ConstAssumption DEF Inv
<1>2. events' \in 0..MaxEvents
  <2>1. ASSUME NEW p \in Appliers, Step(p) PROVE events' = events
    BY <2>1 DEF Step, Scan, Remove, Find, Resize, Make, FindIfc, LastIfc, MakeIfc, Flush, FlushRoutes,
         AddRow, Fail, Done
  <2>2. Intervene => events' \in 0..MaxEvents
    BY <1>1 DEF Intervene, Flags
  <2>3. Write \/ Start \/ UNCHANGED vars => events' = events
    BY DEF Write, Start, vars
  <2>4. events \in 0..MaxEvents
    BY <1>1 DEF Flags
  <2> QED BY <2>1, <2>2, <2>3, <2>4
       DEF Next, Reload, Save, SaveFails, SaveBlocks, EditObjects, EditRows, Learn, EditFile, Stop
<1>3. ASSUME NEW p \in Appliers, Step(p) PROVE up' \in BOOLEAN /\ applying' \in BOOLEAN /\ quiet' \in BOOLEAN
  <2>1. Exit \/ (UNCHANGED <<up, quiet>> /\ (applying' = applying \/ End(p)))
    BY <1>3 DEF Step, Scan, Remove, Find, Resize, Make, NotMade, FindIfc, LastIfc, MakeIfc, Flush,
         FlushRoutes, AddRow, Fail, Done
  <2> QED BY <1>1, <2>1 DEF Exit, End, Flags
<1>4. ASSUME NEW p \in Appliers, Reload(p) PROVE up' \in BOOLEAN /\ applying' \in BOOLEAN /\ quiet' \in BOOLEAN
  BY <1>1, <1>4 DEF Reload, BeginApply, Flags
<1>5. CASE Save \/ SaveFails \/ SaveBlocks \/ Write \/ EditObjects \/ EditRows \/ Learn \/ EditFile
             \/ Stop \/ Start \/ UNCHANGED vars
  <2>1. up' \in BOOLEAN /\ applying' \in BOOLEAN /\ quiet' \in BOOLEAN
    BY <1>1, <1>5 DEF Save, SaveFails, SaveBlocks, Write, EditObjects, EditRows, Learn, EditFile,
         Stop, Exit, Start, vars, Flags
  <2> QED BY <1>2, <2>1 DEF Flags
<1> QED BY <1>2, <1>3, <1>4, <1>5 DEF Next, Flags

\* Whoever sets the flag is at work, and clears it when he is not.
LEMMA FlagStep == Inv /\ [Next]_vars => FlagMeansApplying'
<1> SUFFICES ASSUME Inv, [Next]_vars, up', applying'
             PROVE  \E q \in Appliers \ {Hangup} : app'[q].pc # "idle"
  BY DEF FlagMeansApplying
<1>1. up /\ applying => \E q \in Appliers \ {Hangup} : app[q].pc # "idle"
  BY DEF Inv, FlagMeansApplying
<1>2. ASSUME NEW p \in Appliers, Step(p)
      PROVE  \E q \in Appliers \ {Hangup} : app'[q].pc # "idle"
  <2>1. ~Exit
    BY DEF Exit
  <2>2. up
    BY <1>2 DEF Step, Scan, Remove, Find, Resize, Make, FindIfc, LastIfc, MakeIfc, Flush,
         FlushRoutes, AddRow, Fail, Done, At
  <2>3. CASE End(p)
    <3>1. p = Hangup /\ applying' = applying /\ Goto(p, Idle)
      BY <2>3 DEF End
    <3>2. \A q \in Appliers \ {p} : app'[q] = app[q]
      BY <3>1, GotoIs, IdleState DEF Inv
    <3> QED BY <1>1, <2>2, <3>1, <3>2
  <2>4. CASE (\E s \in AppState : Goto(p, s) /\ s.pc # "idle") /\ applying' = applying
    <3>1. PICK s \in AppState : Goto(p, s) /\ s.pc # "idle"
      BY <2>4
    <3>2. app'[p] = s /\ \A q \in Appliers \ {p} : app'[q] = app[q]
      BY <3>1, GotoIs DEF Inv
    <3> QED BY <1>1, <2>2, <2>4, <3>1, <3>2
  <2> QED BY <1>2, <2>1, <2>3, <2>4, StepMoves
<1>3. ASSUME NEW p \in Appliers, Goto(p, Begun)
      PROVE  app'[p].pc # "idle" /\ \A q \in Appliers \ {p} : app'[q] = app[q]
  BY <1>3, BegunState, GotoIs DEF Inv
<1>4. ASSUME NEW p \in Appliers, Reload(p)
      PROVE  \E q \in Appliers \ {Hangup} : app'[q].pc # "idle"
  <2>1. app'[p].pc # "idle" /\ \A q \in Appliers \ {p} : app'[q] = app[q]
    BY <1>3, <1>4 DEF Reload, BeginApply
  <2>2. up /\ (p # Hangup \/ applying)
    BY <1>4 DEF Reload, Inv, Flags
  <2> QED BY <1>1, <2>1, <2>2
<1>5. CASE Start
  BY <1>3, <1>5, Who DEF Start
<1>6. CASE Save \/ SaveFails \/ SaveBlocks \/ Write \/ EditObjects \/ EditRows \/ Learn \/ EditFile
             \/ UNCHANGED vars
  <2>1. app' = app /\ up' = up /\ applying' = applying
    BY <1>6 DEF Save, SaveFails, SaveBlocks, Write, EditObjects, EditRows, Learn, EditFile, vars
  <2> QED BY <1>1, <2>1
<1>7. ~Stop
  BY DEF Stop, Exit
<1> QED BY <1>2, <1>4, <1>5, <1>6, <1>7 DEF Next

-----------------------------------------------------------------------------
(* The file.                                                                 *)

\* What SaveConfig collects is well formed, and has operators' rows only.
LEMMA CurrentFiled ==
  ASSUME Inv
  PROVE  Current \subseteq OwnListener /\ WellFormed(Current)
<1> DEFINE ic(i) == [vni |-> ifc[i].vni, name |-> ifc[i].name, rows |-> SavedRows(i)]
           kept(l) == {i \in IfcsOf(l) : ifc[i].perm}
           lc(l) == [addr |-> lst[l].addr, name |-> lst[l].name, ifcs |-> {ic(i) : i \in kept(l)}]
<1>1. Current = {lc(l) : l \in {l \in listeners : lst[l].perm}}
  BY DEF Current
<1>2. ASSUME NEW i \in ifcs PROVE ic(i) \in OwnIfc
  <2>1. ifc[i] \in IfcState /\ \A e \in ifc[i].rows : e.perm => e.row \in Row
    BY DEF Inv, IfcsTyped, IfcOwn
  <2>2. SavedRows(i) \subseteq Row
    BY <2>1 DEF SavedRows
  <2>3. ifc[i].vni \in VNI /\ ifc[i].name \in Device
    BY <2>1 DEF IfcState
  <2> QED BY <2>2, <2>3 DEF OwnIfc
<1>3. \A l : kept(l) \subseteq ifcs /\ \A i \in kept(l) : ifc[i].l = l
  BY DEF IfcsOf
<1>4. ASSUME NEW l \in listeners PROVE lc(l) \in OwnListener
  <2>1. lst[l].addr \in Address /\ lst[l].name \in Name
    BY DEF Inv, ListenersTyped, ListenerState
  <2>2. {ic(i) : i \in kept(l)} \subseteq OwnIfc
    BY <1>2, <1>3
  <2> QED BY <2>1, <2>2 DEF OwnListener
<1>5. ASSUME NEW i \in ifcs, NEW r \in ic(i).rows, NEW s \in ic(i).rows,
             r.kind = "arp", s.kind = "arp", r.key = s.key
      PROVE  r = s
  <2>1. OneEntry(ifc[i].rows)
    BY DEF Inv, OneEntryEach, IfcsTyped
  <2>2. ic(i).rows = SavedRows(i)
    OBVIOUS
  <2>3. PICK e \in ifc[i].rows, f \in ifc[i].rows : e.row = r /\ f.row = s
    BY <2>2 DEF SavedRows
  <2> QED BY <1>5, <2>1, <2>3 DEF OneEntry
<1>6. \A i, j \in ifcs : ic(i).name = ic(j).name => i = j
  BY DEF Inv, Distinct
<1>7. \A i, j \in ifcs : ifc[i].l = ifc[j].l /\ ic(i).vni = ic(j).vni => i = j
  BY DEF Inv, Distinct
<1>8. \A k, l \in listeners : lc(k).addr = lc(l).addr \/ lc(k).name = lc(l).name => k = l
  BY DEF Inv, Distinct
<1>9. \A l : lc(l).ifcs = {ic(i) : i \in kept(l)}
  OBVIOUS
<1> HIDE DEF ic, kept, lc
<1>10. ASSUME NEW c \in Current, NEW d \in Current
       PROVE  /\ c.addr = d.addr \/ c.name = d.name => c = d
              /\ \A x \in c.ifcs, y \in d.ifcs : x.name = y.name => c = d /\ x = y
  <2>1. PICK k \in listeners : c = lc(k)
    BY <1>1
  <2>2. PICK l \in listeners : d = lc(l)
    BY <1>1
  <2>3. ASSUME NEW x \in c.ifcs, NEW y \in d.ifcs, x.name = y.name PROVE c = d /\ x = y
    <3>1. PICK i \in kept(k) : x = ic(i)
      BY <1>9, <2>1
    <3>2. PICK j \in kept(l) : y = ic(j)
      BY <1>9, <2>2
    <3>3. i = j
      BY <1>3, <1>6, <2>3, <3>1, <3>2
    <3> QED BY <1>3, <2>1, <2>2, <3>1, <3>2, <3>3
  <2> QED BY <1>8, <2>1, <2>2, <2>3
<1>11. ASSUME NEW c \in Current
       PROVE  /\ \A x, y \in c.ifcs : x.vni = y.vni => x = y
              /\ \A x \in c.ifcs : \A r, s \in x.rows :
                   r.kind = "arp" /\ s.kind = "arp" /\ r.key = s.key => r = s
  <2>1. PICK k \in listeners : c = lc(k)
    BY <1>1
  <2>2. \A x \in c.ifcs : \E i \in kept(k) : x = ic(i)
    BY <1>9, <2>1
  <2>3. \A x, y \in c.ifcs : x.vni = y.vni => x = y
    BY <1>3, <1>7, <2>2
  <2>4. ASSUME NEW x \in c.ifcs, NEW r \in x.rows, NEW s \in x.rows,
               r.kind = "arp", s.kind = "arp", r.key = s.key
        PROVE  r = s
    <3>1. PICK i \in ifcs : x = ic(i)
      BY <1>3, <2>2
    <3> QED BY <1>5, <2>4, <3>1
  <2> QED BY <2>3, <2>4
<1>12. WellFormed(Current)
  BY <1>10, <1>11 DEF WellFormed
<1> QED BY <1>1, <1>4, <1>12

\* No step puts into the file, or into what is to be written, anything else.
LEMMA FiledStep == Inv /\ [Next]_vars => Filed'
<1> SUFFICES ASSUME Inv, [Next]_vars PROVE Filed'
  OBVIOUS
<1>1. Filed
  BY DEF Inv
<1>2. WellFormed({})
  BY DEF WellFormed
<1>3. NoSave \in [pc: {"idle", "write", "blocked"}, cfg: SUBSET OwnListener, l: Listener \cup {None}]
      /\ NoSave.cfg = {}
  BY DEF NoSave
<1>4. ASSUME file' = file, saver' = saver \/ saver' = NoSave PROVE Filed'
  BY <1>1, <1>2, <1>3, <1>4 DEF Filed
<1>5. ASSUME NEW p \in Appliers, Step(p) PROVE Filed'
  BY <1>4, <1>5 DEF Step, Scan, Remove, Exit, Find, Resize, Make, FindIfc, LastIfc, MakeIfc, Flush,
       FlushRoutes, AddRow, Fail, Done
<1>6. ASSUME NEW p \in Appliers, Reload(p) PROVE Filed'
  BY <1>4, <1>6 DEF Reload
<1>7. CASE SaveFails \/ EditObjects \/ EditRows \/ Learn \/ Stop \/ Start \/ UNCHANGED vars
  BY <1>4, <1>7 DEF SaveFails, EditObjects, EditRows, Learn, Stop, Exit, Start, vars
<1>8. CASE Save
  <2> DEFINE s == [pc |-> "write", cfg |-> Current, l |-> None]
  <2>1. /\ s \in [pc: {"idle", "write", "blocked"}, cfg: SUBSET OwnListener, l: Listener \cup {None}]
        /\ WellFormed(s.cfg)
    BY CurrentFiled
  <2>2. saver' = s /\ file' = Torn
    BY <1>8 DEF Save
  <2> HIDE DEF s
  <2> QED BY <2>1, <2>2 DEF Filed, Torn
<1>9. CASE SaveBlocks
  <2>1. PICK l \in listeners : saver' = [pc |-> "blocked", cfg |-> {}, l |-> l]
    BY <1>9 DEF SaveBlocks
  <2>2. l \in Listener /\ file' = file
    BY <1>9 DEF Inv, ListenersTyped, SaveBlocks
  <2>3. /\ saver' \in [pc: {"idle", "write", "blocked"}, cfg: SUBSET OwnListener, l: Listener \cup {None}]
        /\ saver'.cfg = {}
    BY <2>1, <2>2
  <2> QED BY <1>1, <1>2, <2>2, <2>3 DEF Filed
<1>10. CASE Write
  <2>1. file' = saver.cfg /\ saver' = NoSave
    BY <1>10 DEF Write
  <2> QED BY <1>1, <1>2, <1>3, <2>1 DEF Filed
<1>11. CASE EditFile
  <2>1. file' \in Files /\ saver' = saver
    BY <1>11 DEF EditFile
  <2> QED BY <1>1, <2>1, FilesOwn DEF Filed
<1> QED BY <1>5, <1>6, <1>7, <1>8, <1>9, <1>10, <1>11 DEF Next

-----------------------------------------------------------------------------
(* The theorems.                                                             *)

\* Inv is inductive.
LEMMA NextInv == Inv /\ [Next]_vars => Inv'
<1> SUFFICES ASSUME Inv, [Next]_vars PROVE Inv'
  OBVIOUS
<1>1. ObjectInv'
  BY ObjectSteps, ObjectStep
<1> QED BY <1>1, ApplyingStep, FlagsStep, FlagStep, FiledStep DEF Inv, ObjectInv

\* And holds of every behaviour.
LEMMA InvHolds == Spec => []Inv
BY InitInv, NextInv, PTL DEF Spec

\* Every variable has its type, and an ApplyConfig at work has its objects.
THEOREM TypeCorrect == Spec => []TypeOK
<1>1. Inv => TypeOK
  <2> SUFFICES ASSUME Inv PROVE TypeOK
    OBVIOUS
  <2>1. file # Torn => file \subseteq ListenerConfig
    BY DEF Inv, Filed, OwnListener, ListenerConfig, OwnIfc, IfcConfig
  <2>2. ASSUME NEW p \in Appliers
        PROVE  /\ app[p].pc \in PC
               /\ app[p].pc \in {"resize", "ifc", "makeIfc", "flush", "rows", "hung"} => app[p].l \in DOMAIN lst
               /\ app[p].pc \in {"flush", "rows", "hung"} => app[p].i \in DOMAIN ifc
    BY AtIs DEF AppState, PlacedIn, OnListener, OnIfc
  <2>3. saver.pc \in {"idle", "write", "blocked"}
    BY DEF Inv, Filed
  <2> QED BY <2>1, <2>2, <2>3 DEF TypeOK, Inv, Flags, ListenersTyped, IfcsTyped
<1> QED BY <1>1, InvHolds, PTL

\* Whatever was added, adopted and saved in whatever order, what is in the file
\* can be applied again.
THEOREM FileIsWellFormed == Spec => []FileWellFormed
<1>1. Inv => FileWellFormed
  BY DEF Inv, Filed, FileWellFormed
<1> QED BY <1>1, InvHolds, PTL

\* A permanent interface is on a permanent listener, so that SaveConfig keeps it.
THEOREM PermanentIsNested == Spec => []PermanentNested
<1>1. Inv => PermanentNested
  BY DEF Inv
<1> QED BY <1>1, InvHolds, PTL

\* What a peer claims never becomes permanent, nor part of the file.
THEOREM HeardIsTemporary == Spec => []HeardStaysTemporary
<1>1. Inv => HeardStaysTemporary
  <2> SUFFICES ASSUME Inv PROVE HeardStaysTemporary
    OBVIOUS
  <2>1. Row \cap Heard = {}
    BY ConstAssumption
  <2>2. \A i \in DOMAIN ifc : \A e \in ifc[i].rows : e.row \in Heard => ~e.perm
    BY <2>1 DEF Inv, IfcOwn
  <2>3. file # Torn => \A c \in file : \A x \in c.ifcs : x.rows \cap Heard = {}
    <3> SUFFICES ASSUME file # Torn, NEW c \in file, NEW x \in c.ifcs PROVE x.rows \cap Heard = {}
      OBVIOUS
    <3>1. c \in OwnListener
      BY DEF Inv, Filed
    <3>2. x \in OwnIfc
      BY <3>1 DEF OwnListener
    <3>3. x.rows \subseteq Row
      BY <3>2 DEF OwnIfc
    <3> QED BY <2>1, <3>3
  <2> QED BY <2>2, <2>3 DEF HeardStaysTemporary
<1> QED BY <1>1, InvHolds, PTL

\* A client that waits for the flag to clear waits for an ApplyConfig that runs.
THEOREM FlagIsApplying == Spec => []FlagMeansApplying
<1>1. Inv => FlagMeansApplying
  BY DEF Inv
<1> QED BY <1>1, InvHolds, PTL
=============================================================================
