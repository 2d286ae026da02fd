------------------------- MODULE ConfigApplyProofs -------------------------
(***************************************************************************)
(* Proofs about what one ApplyConfig does: it removes what its file lacks  *)
(* and nothing else, and when nobody disturbs it, what it leaves behind is *)
(* what its file says.                                                     *)
(*                                                                         *)
(* Removing says that what an ApplyConfig has collected to remove stays    *)
(* stale whatever others do, because no object changes its name, address   *)
(* or VNI or stops being permanent.  Undisturbed follows an ApplyConfig    *)
(* that is alone from its scan to its end: what is left after the removal  *)
(* is in the file (Known), and the listeners, interfaces and tables that   *)
(* are behind it are as the file has them (Progress).                      *)
(***************************************************************************)
EXTENDS ConfigProofs

\* What an ApplyConfig in state s is to remove is permanent, and its file lacks it.
StaleIn(s) ==
  s.pc = "remove" =>
    /\ \A l \in s.rmL : l \in DOMAIN lst /\ lst[l].perm /\ Matches(s.cfg, l) = {}
    /\ \A i \in s.rmI : i \in DOMAIN ifc /\ ifc[i].perm /\ Lacks(s.cfg, i)
States == {app[p] : p \in Appliers}
Removing == \A s \in States : StaleIn(s)

\* A process that does not run has no objects and no ApplyConfig.
Down == ~up => listeners = {} /\ ifcs = {} /\ ~quiet /\ \A p \in Appliers : app[p].pc = "idle"

\* The permanent rows of one table of i are those of x, but for the rows ahead and
\* the routes that the device refused.
TableAsIn(i, x, kind, ahead) ==
  /\ \A r \in SavedRows(i) : r.kind = kind => r \in x.rows \ ahead
  /\ kind # "route" => \A r \in x.rows \ ahead : r.kind = kind => r \in SavedRows(i)

SameIfc(i, x) == ifc[i].vni = x.vni /\ ifc[i].name = x.name
SameListener(l, c) == lst[l].addr = c.addr /\ lst[l].name = c.name

IfcAsIn(i, x) == SameIfc(i, x) /\ \A kind \in Kind : TableAsIn(i, x, kind, {})
IfcsAsIn(l, xs) == \A x \in xs : \E i \in IfcsOf(l) : IfcAsIn(i, x)
ListenerAsIn(c) == \E l \in listeners : SameListener(l, c) /\ IfcsAsIn(l, c.ifcs)

\* What is there is in the configuration.
KnownListener(cfg, l) == \E c \in cfg : SameListener(l, c)
KnownIfc(cfg, i) == \E c \in cfg : SameListener(ifc[i].l, c) /\ \E x \in c.ifcs : SameIfc(i, x)
Known(cfg) == (\A l \in listeners : KnownListener(cfg, l)) /\ (\A i \in ifcs : KnownIfc(cfg, i))

\* The same of what an ApplyConfig in state s will not remove.
Remaining(s) ==
  /\ \A l \in listeners \ s.rmL : KnownListener(s.cfg, l)
  /\ \A i \in ifcs \ s.rmI : ifc[i].l \in s.rmL \/ KnownIfc(s.cfg, i)

\* The listeners of the configuration, and the interfaces of one, that are behind.
Past(s) == s.cfg \ (s.todo \cup (IF s.pc = "find" THEN {} ELSE {s.c}))
PastIfcs(s) == s.c.ifcs \ (s.ics \cup (IF s.pc \in {"resize", "ifc"} THEN {} ELSE {s.ic}))
PastKinds(kind) == {"arp", "mac"} \ (IF kind = "arp" THEN {"arp", "mac"} ELSE IF kind = "mac" THEN {"mac"} ELSE {})

InTables == {"flush", "rows"}
InListener == InTables \cup {"resize", "ifc", "makeIfc"}
InFile == InListener \cup {"find", "make"}

\* How far an ApplyConfig in state s has come.
ListenersDone(s) == s.todo \subseteq s.cfg /\ Known(s.cfg) /\ \A c \in Past(s) : ListenerAsIn(c)
AtOne(s) ==
  /\ s.c \in s.cfg \ s.todo /\ s.ics \subseteq s.c.ifcs
  /\ s.pc \in {"make", "resize"} => s.ics = s.c.ifcs
IfcsDone(s) == s.l \in listeners /\ SameListener(s.l, s.c) /\ IfcsAsIn(s.l, PastIfcs(s))
TablesDone(s) ==
  /\ s.i \in IfcsOf(s.l) /\ SameIfc(s.i, s.ic)
  /\ \A kind \in PastKinds(s.kind) : TableAsIn(s.i, s.ic, kind, {})
RowsDone(s) ==
  /\ s.rows \subseteq s.ic.rows /\ \A r \in s.rows : r.kind = s.kind
  /\ TableAsIn(s.i, s.ic, s.kind, s.rows)

Progress(s) ==
  /\ WellFormed(s.cfg)
  /\ s.pc = "remove" => s.todo = s.cfg /\ Remaining(s)
  /\ s.pc \in InFile => ListenersDone(s)
  /\ s.pc \in InListener \cup {"make"} => AtOne(s)
  /\ s.pc \in InListener => IfcsDone(s)
  /\ s.pc \in InTables \cup {"makeIfc"} => s.ic \in s.c.ifcs \ s.ics
  /\ s.pc \in InTables => TablesDone(s)
  /\ s.pc = "rows" => RowsDone(s)

\* An ApplyConfig that nobody disturbs is alone, among permanent objects only.
Undisturbed ==
  quiet =>
    /\ NothingTemporary
    /\ \A p, q \in Appliers : app[p].pc # "idle" /\ app[q].pc # "idle" => p = q
    /\ \A s \in States : s.pc # "idle" => Progress(s)

-----------------------------------------------------------------------------
(* What is removed.                                                          *)

\* Unless the process ends, an object keeps what it is known by, and stays permanent.
LEMMA Stays ==
  ASSUME Inv, Changes
  PROVE  /\ \A l \in DOMAIN lst :
              /\ l \in DOMAIN lst' /\ lst'[l].addr = lst[l].addr /\ lst'[l].name = lst[l].name
              /\ lst[l].perm => lst'[l].perm
         /\ \A i \in DOMAIN ifc :
              /\ i \in DOMAIN ifc' /\ ifc'[i].l = ifc[i].l /\ ifc'[i].vni = ifc[i].vni
              /\ ifc'[i].name = ifc[i].name /\ (ifc[i].perm => ifc'[i].perm)
<1> USE DEF Inv, ListenersTyped, IfcsTyped
<1>1. CASE Opens
  BY <1>1, OpenIs DEF Opens
<1>2. CASE Drops
  BY <1>2 DEF Drops
<1>3. CASE MarksListener
  BY <1>3, MarksListenerIs
<1>4. CASE OpensIfc
  BY <1>4, OpenIfcIs DEF OpensIfc
<1>5. CASE MarksIfc \/ LocksIfc
  BY <1>5, MarksIfcIs
<1>6. CASE Edits
  BY <1>6, EditsIs
<1> QED BY <1>1, <1>2, <1>3, <1>4, <1>5, <1>6 DEF Changes

\* What is stale in a configuration stays stale, whoever changes the objects.
LEMMA StaleStays ==
  ASSUME Inv, Changes, NEW s, StaleIn(s)
  PROVE  StaleIn(s)'
<1> SUFFICES ASSUME s.pc = "remove"
             PROVE  /\ \A l \in s.rmL : l \in DOMAIN lst' /\ lst'[l].perm /\ Matches(s.cfg, l)' = {}
                    /\ \A i \in s.rmI : i \in DOMAIN ifc' /\ ifc'[i].perm /\ Lacks(s.cfg, i)'
  BY DEF StaleIn
<1>1. ASSUME NEW l \in DOMAIN lst PROVE Matches(s.cfg, l)' = Matches(s.cfg, l)
  BY Stays DEF Matches
<1>2. ASSUME NEW i \in DOMAIN ifc, Lacks(s.cfg, i) PROVE Lacks(s.cfg, i)'
  <2>1. ifc[i].l \in DOMAIN lst
    BY DEF Inv, IfcsTyped
  <2>2. ifc'[i].l = ifc[i].l /\ ifc'[i].vni = ifc[i].vni /\ ifc'[i].name = ifc[i].name
    BY Stays
  <2>3. PICK c \in Matches(s.cfg, ifc[i].l) : \A x \in c.ifcs : x.name # ifc[i].name \/ x.vni # ifc[i].vni
    BY <1>2 DEF Lacks
  <2>4. c \in Matches(s.cfg, ifc[i].l)'
    BY <2>1, <2>2, <2>3, Stays DEF Matches
  <2> QED BY <2>2, <2>3, <2>4 DEF Lacks
<1> QED BY <1>1, <1>2, Stays DEF StaleIn

\* A step of an ApplyConfig that is about to remove something comes from the scan
\* or has removed something else.
LEMMA StepStale ==
  ASSUME Inv, NEW p \in Appliers, NEW s, app[p] = s, StaleIn(s), Step(p), ~Exit,
         NEW t, app'[p] = t
  PROVE  StaleIn(t)'
<1>1. s \in AppState /\ app \in [Appliers -> AppState]
  BY AtIs DEF Inv, Applying
<1>2. \A x : Goto(p, x) => t = x
  BY <1>1 DEF Goto
<1>3. Changes
  BY StepObjects
<1>4. CASE Scan(p)
  <2> DEFINE x == [s EXCEPT !.pc = "remove", !.todo = s.cfg, !.rmL = Stale(s.cfg).ls, !.rmI = Stale(s.cfg).is]
  <2>1. \/ t = x
        \/ t = [s EXCEPT !.pc = "stuck"]
    BY <1>2, <1>4 DEF Scan
  <2>2. CASE t = [s EXCEPT !.pc = "stuck"]
    <3>1. t.pc = "stuck"
      BY <1>1, <2>2 DEF AppState
    <3> QED BY <3>1 DEF StaleIn
  <2>3. CASE t = x
    <3>1. t.pc = "remove" /\ t.cfg = s.cfg /\ t.rmL = Stale(s.cfg).ls /\ t.rmI = Stale(s.cfg).is
      BY <1>1, <2>3 DEF AppState
    <3>2. \A l \in t.rmL : l \in DOMAIN lst /\ lst[l].perm /\ Matches(t.cfg, l) = {}
      BY <3>1 DEF Stale, Inv, ListenersTyped
    <3>3. \A i \in t.rmI : i \in DOMAIN ifc /\ ifc[i].perm /\ Lacks(t.cfg, i)
      BY <3>1 DEF Stale, Inv, IfcsTyped
    <3>4. StaleIn(t)
      BY <3>2, <3>3 DEF StaleIn
    <3> QED BY <1>3, <3>4, StaleStays
  <2> QED BY <2>1, <2>2, <2>3
<1>5. CASE Remove(p)
  <2>1. s.pc = "remove"
    BY <1>5 DEF Remove, At
  <2>2. t.pc = "find" \/ (t.cfg = s.cfg /\ t.rmL \subseteq s.rmL /\ t.rmI \subseteq s.rmI)
    <3>1. \/ \E l : t = [s EXCEPT !.rmL = @ \ {l}]
          \/ \E i : t = [s EXCEPT !.rmI = @ \ {i}]
          \/ t = [s EXCEPT !.pc = "find"]
      BY <1>2, <1>5 DEF Remove
    <3> QED BY <1>1, <3>1 DEF AppState
  <2>3. StaleIn(t)
    BY <2>1, <2>2 DEF StaleIn
  <2> QED BY <1>3, <2>3, StaleStays
<1>6. ASSUME t.pc # "remove" PROVE StaleIn(t)'
  BY <1>6 DEF StaleIn
<1>7. CASE End(p)
  BY <1>2, <1>6, <1>7, IdleState DEF End
<1>8. CASE Find(p) \/ Resize(p) \/ Make(p) \/ FindIfc(p) \/ LastIfc(p) \/ MakeIfc(p)
  <2>1. CASE Find(p)
    <3>1. PICK c : LET y == [s EXCEPT !.todo = @ \ {c}, !.c = c, !.ics = c.ifcs] IN
                   t = [y EXCEPT !.pc = "make"] \/ \E l : t = [y EXCEPT !.pc = "resize", !.l = l]
      BY <1>2, <2>1 DEF Find
    <3>2. t.pc \in {"make", "resize"}
      BY <1>1, <3>1 DEF AppState
    <3> QED BY <1>6, <3>2
  <2>2. CASE Resize(p)
    <3>1. t.pc = "ifc"
      BY <1>1, <1>2, <2>2 DEF Resize, AppState
    <3> QED BY <1>6, <3>1
  <2>3. CASE Make(p)
    <3>1. End(p) \/ \E l : t = [s EXCEPT !.pc = "ifc", !.l = l]
      BY <1>2, <2>3 DEF Make, NotMade
    <3>2. End(p) \/ t.pc = "ifc"
      BY <1>1, <3>1 DEF AppState
    <3> QED BY <1>6, <1>7, <3>2
  <2>4. CASE FindIfc(p)
    <3>1. PICK x \in app[p].ics :
            LET y == [app[p] EXCEPT !.ics = @ \ {x}, !.ic = x] IN
            \/ Goto(p, [y EXCEPT !.pc = "makeIfc"])
            \/ \E i \in IfcsOf(app[p].l) : Goto(p, [y EXCEPT !.pc = "flush", !.kind = "arp", !.i = i])
      BY <2>4 DEF FindIfc
    <3>2. t.pc \in {"makeIfc", "flush"}
      BY <1>1, <1>2, <3>1 DEF AppState
    <3> QED BY <1>6, <3>2
  <2>5. CASE LastIfc(p)
    <3>1. t.pc = "find"
      BY <1>2, <2>5 DEF LastIfc, Idle
    <3> QED BY <1>6, <3>1
  <2>6. CASE MakeIfc(p)
    <3>1. End(p) \/ \E i : t = [s EXCEPT !.pc = "flush", !.kind = "arp", !.i = i]
      BY <1>2, <2>6 DEF MakeIfc, NotMade
    <3>2. End(p) \/ t.pc = "flush"
      BY <1>1, <3>1 DEF AppState
    <3> QED BY <1>6, <1>7, <3>2
  <2> QED BY <1>8, <2>1, <2>2, <2>3, <2>4, <2>5, <2>6
<1>9. CASE Flush(p) \/ FlushRoutes(p) \/ AddRow(p)
  <2>1. \/ \E rows : t = Proceed([s EXCEPT !.rows = rows])
        \/ t = [s EXCEPT !.pc = "hung"]
    BY <1>2, <1>9 DEF Flush, FlushRoutes, AddRow
  <2>2. t.pc \in {"rows", "ifc", "flush", "hung"}
    <3>1. CASE t = [s EXCEPT !.pc = "hung"]
      BY <1>1, <3>1 DEF AppState
    <3>2. ASSUME NEW rows, t = Proceed([s EXCEPT !.rows = rows]) PROVE t.pc \in {"rows", "ifc", "flush"}
      BY <1>1, <3>2 DEF Proceed, AppState
    <3> QED BY <2>1, <3>1, <3>2
  <2> QED BY <1>6, <2>2
<1>10. CASE Fail(p) \/ Done(p)
  BY <1>7, <1>10 DEF Fail, Done
<1> QED BY <1>4, <1>5, <1>8, <1>9, <1>10 DEF Step

\* The state an ApplyConfig is in after a step is one that some was in before, that of
\* one that begins, or that of the one whose step it was.
LEMMA WhoMoves ==
  ASSUME Inv, [Next]_vars, ~Exit, NEW t \in States'
  PROVE  \/ t \in States
         \/ t.pc = "scan"
         \/ \E p \in Appliers : Step(p) /\ app'[p] = t
<1>1. PICK q \in Appliers : t = app'[q]
  BY DEF States
<1>2. app'[q] = app[q] => t \in States
  BY <1>1 DEF States
<1>3. ASSUME NEW p \in Appliers, Goto(p, Begun) PROVE t \in States \/ t.pc = "scan"
  BY <1>1, <1>2, <1>3, BegunState, GotoIs DEF Inv
<1>4. ASSUME NEW p \in Appliers, Step(p) PROVE t \in States \/ app'[p] = t
  <2>1. \E s \in AppState : Goto(p, s)
    BY <1>4, StepMoves, IdleState DEF End
  <2> QED BY <1>1, <1>2, <2>1, GotoIs DEF Inv
<1>5. ASSUME NEW p \in Appliers, Reload(p) PROVE t \in States \/ t.pc = "scan"
  BY <1>3, <1>5 DEF Reload, BeginApply
<1>6. CASE Start
  BY <1>3, <1>6, Who DEF Start
<1>7. CASE Save \/ SaveFails \/ SaveBlocks \/ Write \/ EditObjects \/ EditRows \/ Learn \/ EditFile
             \/ UNCHANGED vars
  BY <1>2, <1>7 DEF Save, SaveFails, SaveBlocks, Write, EditObjects, EditRows, Learn, EditFile, vars
<1> QED BY <1>4, <1>5, <1>6, <1>7 DEF Next, Stop

\* When the process ends, no ApplyConfig is left.
LEMMA ExitIdle ==
  ASSUME Exit
  PROVE  /\ \A p \in Appliers : app'[p] = Idle
         /\ \A t \in States' : t = Idle
<1>1. \A p \in Appliers : app'[p] = Idle
  BY DEF Exit
<1> QED BY <1>1 DEF States

\* Removing is inductive, given Inv.
LEMMA RemovingStep == Inv /\ Removing /\ [Next]_vars => Removing'
<1> SUFFICES ASSUME Inv, Removing, [Next]_vars, NEW t \in States' PROVE StaleIn(t)'
  BY DEF Removing
<1>1. CASE Exit
  <2>1. t.pc # "remove"
    BY <1>1, ExitIdle, IdleState
  <2> QED BY <2>1 DEF StaleIn
<1>2. CASE ~Exit
  <2>1. Changes
    BY <1>2, ObjectSteps
  <2>2. CASE t \in States
    BY <2>1, <2>2, StaleStays DEF Removing
  <2>3. CASE t.pc = "scan"
    BY <2>3 DEF StaleIn
  <2>4. ASSUME NEW p \in Appliers, Step(p), app'[p] = t PROVE StaleIn(t)'
    <3>1. StaleIn(app[p])
      BY DEF Removing, States
    <3> QED BY <1>2, <2>4, <3>1, StepStale
  <2> QED BY <1>2, <2>2, <2>3, <2>4, WhoMoves
<1> QED BY <1>1, <1>2

\* So it holds of every behaviour.
LEMMA RemovingHolds == Spec => [](Inv /\ Removing)
<1>1. Init => Removing
  BY IdleState DEF Init, Removing, States, StaleIn
<1> QED BY <1>1, InitInv, NextInv, RemovingStep, PTL DEF Spec

\* What a step of ApplyConfig takes away is stale, but for the interfaces of a listener.
LEMMA StepRemoves ==
  ASSUME Inv, Removing, NEW p \in Appliers, Step(p), up'
  PROVE  LET gone == listeners \ listeners' IN
         /\ \A l \in gone : lst[l].perm /\ Matches(app[p].cfg, l) = {}
         /\ \A i \in ifcs \ ifcs' :
              ifc[i].l \in gone \/ (ifc[i].perm /\ Lacks(app[p].cfg, i))
<1>1. ~Exit
  BY DEF Exit
<1>2. CASE Remove(p)
  <2>1. StaleIn(app[p]) /\ app[p].pc = "remove"
    BY <1>2 DEF Removing, States, Remove, At
  <2>2. ASSUME NEW l \in app[p].rmL, l \in listeners, CloseListener(l)
        PROVE  listeners \ listeners' = {l} /\ \A i \in ifcs \ ifcs' : ifc[i].l = l
    BY <2>2 DEF CloseListener, IfcsOf
  <2>3. ASSUME NEW i \in app[p].rmI, CloseIfc(i)
        PROVE  listeners' = listeners /\ ifcs \ ifcs' \subseteq {i}
    BY <2>3 DEF CloseIfc
  <2>4. \/ \E l \in app[p].rmL : l \in listeners /\ CloseListener(l)
        \/ \E i \in app[p].rmI : CloseIfc(i)
        \/ listeners' = listeners /\ ifcs' = ifcs
    BY <1>1, <1>2 DEF Remove, objects
  <2> QED BY <2>1, <2>2, <2>3, <2>4 DEF StaleIn
<1>3. CASE ~Remove(p)
  <2>1. listeners \subseteq listeners' /\ ifcs \subseteq ifcs'
    BY <1>3 DEF Step, Scan, Find, Resize, Make, Open, FindIfc, LastIfc, MakeIfc, OpenIfc, Flush,
         FlushRoutes, AddRow, Fail, Done, objects
  <2> QED BY <2>1
<1> QED BY <1>2, <1>3

\* Whatever others do meanwhile, an ApplyConfig takes away only what is permanent and
\* what its file lacks, and the interfaces of a listener it closes.
THEOREM OnlyStaleIsRemoved == Spec => RemovesOnlyStale
<1>1. Inv /\ Removing /\ [Next]_vars =>
        [\A p \in Appliers : Closes /\ up' /\ Step(p) =>
           LET gone == listeners \ listeners' IN
           /\ \A l \in gone : lst[l].perm /\ Matches(app[p].cfg, l) = {}
           /\ \A i \in ifcs \ ifcs' :
                ifc[i].l \in gone \/ (ifc[i].perm /\ Lacks(app[p].cfg, i))]_vars
  BY StepRemoves
<1> QED BY <1>1, RemovingHolds, PTL DEF Spec, RemovesOnlyStale

-----------------------------------------------------------------------------
(* What stays as it is.                                                      *)

\* No listener and no interface goes, none changes what it is known by, and only
\* those of touched change their rows.
Keeps(touched) ==
  /\ listeners \subseteq listeners' /\ ifcs \subseteq ifcs'
  /\ \A l \in listeners :
       lst'[l].addr = lst[l].addr /\ lst'[l].name = lst[l].name /\ (lst[l].perm => lst'[l].perm)
  /\ \A i \in ifcs :
       /\ ifc'[i].l = ifc[i].l /\ ifc'[i].vni = ifc[i].vni /\ ifc'[i].name = ifc[i].name
       /\ ifc[i].perm => ifc'[i].perm
       /\ i \in touched \/ ifc'[i].rows = ifc[i].rows

\* Nor does any come.
Same == Keeps({}) /\ listeners' = listeners /\ ifcs' = ifcs

\* A mark changes nothing else, and opening an object nothing of the others.
LEMMA KeepsAll ==
  ASSUME Inv
  PROVE  /\ MarksListener \/ MarksIfc \/ LocksIfc \/ UNCHANGED objects => Same
         /\ Opens \/ OpensIfc => Keeps({})
<1>1. listeners \subseteq DOMAIN lst /\ ifcs \subseteq DOMAIN ifc /\ DOMAIN lst \subseteq Listener
  BY DEF Inv, ListenersTyped, IfcsTyped
<1>2. ASSUME UNCHANGED objects PROVE Same
  BY <1>2 DEF objects, Same, Keeps
<1>3. ASSUME MarksListener PROVE Same
  BY <1>1, <1>3, MarksListenerIs DEF Inv, Same, Keeps
<1>4. ASSUME MarksIfc \/ LocksIfc PROVE Same
  BY <1>1, <1>4, MarksIfcIs DEF Inv, Same, Keeps
<1>5. ASSUME Opens PROVE Keeps({})
  BY <1>1, <1>5, OpenIs DEF Inv, Opens, Keeps
<1>6. ASSUME OpensIfc PROVE Keeps({})
  BY <1>1, <1>6, OpenIfcIs DEF Inv, OpensIfc, Keeps
<1> QED BY <1>2, <1>3, <1>4, <1>5, <1>6

\* An interface whose rows stay is what it was.
LEMMA IfcStays ==
  ASSUME NEW touched, Keeps(touched), NEW i \in ifcs
  PROVE  /\ \A l : i \in IfcsOf(l) => i \in IfcsOf(l)'
         /\ \A x : SameIfc(i, x)' <=> SameIfc(i, x)
         /\ i \notin touched =>
              /\ SavedRows(i)' = SavedRows(i)
              /\ \A x, kind, ahead : TableAsIn(i, x, kind, ahead) => TableAsIn(i, x, kind, ahead)'
              /\ \A x : IfcAsIn(i, x) => IfcAsIn(i, x)'
<1>1. /\ ifc'[i].l = ifc[i].l /\ ifc'[i].vni = ifc[i].vni /\ ifc'[i].name = ifc[i].name
      /\ i \in ifcs' /\ (i \in touched \/ ifc'[i].rows = ifc[i].rows)
  BY DEF Keeps
<1>2. \A l : i \in IfcsOf(l) => i \in IfcsOf(l)'
  BY <1>1 DEF IfcsOf
<1>3. \A x : SameIfc(i, x)' <=> SameIfc(i, x)
  BY <1>1 DEF SameIfc
<1>4. i \notin touched => SavedRows(i)' = SavedRows(i)
  BY <1>1 DEF SavedRows
<1>5. i \notin touched => \A x, kind, ahead : TableAsIn(i, x, kind, ahead) => TableAsIn(i, x, kind, ahead)'
  BY <1>4 DEF TableAsIn
<1>6. i \notin touched => \A x : IfcAsIn(i, x) => IfcAsIn(i, x)'
  BY <1>3, <1>5 DEF IfcAsIn
<1> QED BY <1>2, <1>3, <1>4, <1>5, <1>6

\* A listener is known by what it was.
LEMMA ListenerStays ==
  ASSUME NEW touched, Keeps(touched), NEW l \in listeners
  PROVE  \A c : SameListener(l, c)' <=> SameListener(l, c)
BY DEF Keeps, SameListener

\* The interfaces that are as the file has them stay so, unless one is touched.
LEMMA IfcsStay ==
  ASSUME NEW touched, Keeps(touched), NEW l \in listeners, NEW xs, IfcsAsIn(l, xs),
         \A i \in touched : i \in IfcsOf(l) => \A x \in xs : ~SameIfc(i, x)
  PROVE  IfcsAsIn(l, xs)'
<1> SUFFICES ASSUME NEW x \in xs PROVE \E i \in IfcsOf(l)' : IfcAsIn(i, x)'
  BY DEF IfcsAsIn
<1>1. PICK i \in IfcsOf(l) : IfcAsIn(i, x)
  BY DEF IfcsAsIn
<1>2. i \in ifcs /\ i \notin touched
  BY <1>1 DEF IfcsOf, IfcAsIn
<1> QED BY <1>1, <1>2, IfcStays

\* So do the listeners.
LEMMA ListenersStay ==
  ASSUME NEW touched, Keeps(touched), NEW c, ListenerAsIn(c),
         \A i \in touched : ~SameListener(ifc[i].l, c)
  PROVE  ListenerAsIn(c)'
<1>1. PICK l \in listeners : SameListener(l, c) /\ IfcsAsIn(l, c.ifcs)
  BY DEF ListenerAsIn
<1>2. \A i \in touched : i \notin IfcsOf(l)
  BY <1>1 DEF IfcsOf
<1>3. IfcsAsIn(l, c.ifcs)'
  BY <1>1, <1>2, IfcsStay
<1>4. l \in listeners' /\ SameListener(l, c)'
  BY <1>1, ListenerStays DEF Keeps
<1> QED BY <1>3, <1>4 DEF ListenerAsIn

\* What was known is known.
LEMMA KnownStays ==
  ASSUME NEW touched, Keeps(touched), NothingTemporary, NEW cfg
  PROVE  /\ \A l \in listeners : KnownListener(cfg, l) => KnownListener(cfg, l)'
         /\ \A i \in ifcs : KnownIfc(cfg, i) => KnownIfc(cfg, i)'
<1>1. ASSUME NEW l \in listeners, KnownListener(cfg, l) PROVE KnownListener(cfg, l)'
  BY <1>1, ListenerStays DEF KnownListener
<1>2. ASSUME NEW i \in ifcs, KnownIfc(cfg, i) PROVE KnownIfc(cfg, i)'
  <2>1. ifc[i].l \in listeners /\ ifc'[i].l = ifc[i].l
    BY DEF NothingTemporary, Keeps
  <2>2. PICK c \in cfg : SameListener(ifc[i].l, c) /\ \E x \in c.ifcs : SameIfc(i, x)
    BY <1>2 DEF KnownIfc
  <2>3. (SameListener(ifc[i].l, c))'
    BY <2>1, <2>2 DEF SameListener, Keeps
  <2>4. \E x \in c.ifcs : SameIfc(i, x)'
    BY <2>2, IfcStays
  <2> QED BY <2>3, <2>4 DEF KnownIfc
<1> QED BY <1>1, <1>2

\* Where nothing comes or goes, an ApplyConfig is as far as it was.
LEMMA ProgressStays ==
  ASSUME Same, NothingTemporary, NEW s, Progress(s)
  PROVE  NothingTemporary' /\ Progress(s)'
<1>1. Keeps({}) /\ listeners' = listeners /\ ifcs' = ifcs
  BY DEF Same
<1>2. NothingTemporary'
  BY <1>1 DEF NothingTemporary, Keeps
<1>3. Remaining(s) => Remaining(s)'
  <2> SUFFICES ASSUME Remaining(s)
               PROVE  /\ \A l \in listeners \ s.rmL : KnownListener(s.cfg, l)'
                      /\ \A i \in ifcs \ s.rmI : ifc'[i].l \in s.rmL \/ KnownIfc(s.cfg, i)'
    BY <1>1 DEF Remaining
  <2> QED BY <1>1, KnownStays DEF Remaining, Keeps
<1>4. ListenersDone(s) => ListenersDone(s)'
  <2>1. Known(s.cfg) => Known(s.cfg)'
    BY <1>1, KnownStays DEF Known
  <2>2. \A c : ListenerAsIn(c) => ListenerAsIn(c)'
    BY <1>1, ListenersStay
  <2> QED BY <2>1, <2>2 DEF ListenersDone
<1>5. IfcsDone(s) => IfcsDone(s)'
  <2> SUFFICES ASSUME IfcsDone(s) PROVE IfcsDone(s)'
    OBVIOUS
  <2>1. s.l \in listeners /\ SameListener(s.l, s.c) /\ IfcsAsIn(s.l, PastIfcs(s))
    BY DEF IfcsDone
  <2>2. IfcsAsIn(s.l, PastIfcs(s))'
    BY <1>1, <2>1, IfcsStay
  <2>3. SameListener(s.l, s.c)'
    BY <1>1, <2>1, ListenerStays
  <2> QED BY <1>1, <2>1, <2>2, <2>3 DEF IfcsDone
<1>6. TablesDone(s) => TablesDone(s)' /\ (RowsDone(s) => RowsDone(s)')
  <2> SUFFICES ASSUME TablesDone(s) PROVE TablesDone(s)' /\ (RowsDone(s) => RowsDone(s)')
    OBVIOUS
  <2>1. s.i \in ifcs
    BY DEF TablesDone, IfcsOf
  <2> QED BY <1>1, <2>1, IfcStays DEF TablesDone, RowsDone
<1>7. InTables \subseteq InListener /\ (s.pc = "rows" => s.pc \in InTables)
  BY DEF InTables, InListener
<1> QED BY <1>2, <1>3, <1>4, <1>5, <1>6, <1>7 DEF Progress, AtOne

-----------------------------------------------------------------------------
(* The steps of an ApplyConfig that is alone.                                *)

\* The state it goes to is the one it has then.
LEMMA Goes ==
  ASSUME Inv, NEW p \in Appliers, NEW s, Goto(p, s)
  PROVE  app'[p] = s
BY DEF Inv, Applying, Goto

\* An ApplyConfig that has ended, or will go no further, has nothing to show.
LEMMA NothingToShow ==
  ASSUME NEW s, WellFormed(s.cfg), s.pc \notin InFile \cup {"remove"}
  PROVE  Progress(s)
BY DEF Progress, InFile, InListener, InTables

LEMMA IdleProgress == Progress(Idle) /\ Progress(Idle)'
<1>1. Idle.cfg = {} /\ Idle.pc = "idle"
  BY DEF Idle
<1>2. WellFormed(Idle.cfg)
  BY <1>1 DEF WellFormed
<1> QED BY <1>1, <1>2 DEF Progress, InFile, InListener, InTables

\* To end changes no object.
LEMMA EndProgress ==
  ASSUME Inv, NothingTemporary, NEW p \in Appliers, NEW t, app'[p] = t, End(p), UNCHANGED objects
  PROVE  NothingTemporary' /\ Progress(t)'
<1>1. t = Idle
  BY Goes DEF End
<1>2. Same
  BY KeepsAll
<1> QED BY <1>1, <1>2, IdleProgress, ProgressStays

\* What the scan does not collect is in the file.
LEMMA ScanProgress ==
  ASSUME Inv, NothingTemporary, NEW p \in Appliers, NEW s, app[p] = s, Progress(s),
         NEW t, app'[p] = t, Scan(p)
  PROVE  NothingTemporary' /\ Progress(t)'
<1>1. s \in AppState /\ WellFormed(s.cfg)
  BY AtIs DEF Progress
<1>2. Same
  BY KeepsAll DEF Scan
<1>3. SUFFICES Progress(t)
  BY <1>2, ProgressStays
<1>4. \/ Goto(p, [s EXCEPT !.pc = "remove", !.todo = s.cfg,
                           !.rmL = Stale(s.cfg).ls, !.rmI = Stale(s.cfg).is])
      \/ Goto(p, [s EXCEPT !.pc = "stuck"])
  BY DEF Scan
<1>5. CASE t = [s EXCEPT !.pc = "stuck"]
  <2>1. t.pc = "stuck" /\ t.cfg = s.cfg
    BY <1>1, <1>5 DEF AppState
  <2> QED BY <1>1, <2>1, NothingToShow DEF InFile, InListener, InTables
<1>6. CASE t = [s EXCEPT !.pc = "remove", !.todo = s.cfg,
                         !.rmL = Stale(s.cfg).ls, !.rmI = Stale(s.cfg).is]
  <2>1. /\ t.pc = "remove" /\ t.cfg = s.cfg /\ t.todo = s.cfg
        /\ t.rmL = Stale(s.cfg).ls /\ t.rmI = Stale(s.cfg).is
    BY <1>1, <1>6 DEF AppState
  <2>2. \A l \in listeners : lst[l].perm
    BY DEF NothingTemporary
  <2>3. \A l \in listeners \ t.rmL : Matches(t.cfg, l) # {}
    BY <2>1, <2>2 DEF Stale
  <2>4. \A l \in listeners \ t.rmL : KnownListener(t.cfg, l)
    BY <2>3 DEF Matches, KnownListener, SameListener
  <2>5. ASSUME NEW i \in ifcs \ t.rmI, ifc[i].l \notin t.rmL PROVE KnownIfc(t.cfg, i)
    <3>1. ifc[i].l \in listeners /\ ifc[i].perm
      BY DEF NothingTemporary
    <3>2. ~Lacks(t.cfg, i)
      BY <2>1, <2>2, <3>1 DEF Stale
    <3>3. PICK c \in Matches(t.cfg, ifc[i].l) : TRUE
      BY <2>3, <2>5, <3>1
    <3>4. \E x \in c.ifcs : x.name = ifc[i].name /\ x.vni = ifc[i].vni
      BY <3>2 DEF Lacks
    <3> QED BY <3>3, <3>4 DEF Matches, KnownIfc, SameListener, SameIfc
  <2>6. Remaining(t)
    BY <2>4, <2>5 DEF Remaining
  <2> QED BY <1>1, <2>1, <2>6 DEF Progress, InFile, InListener, InTables
<1> QED BY <1>4, <1>5, <1>6, Goes

\* What is left when all is removed is in the file.
LEMMA RemoveProgress ==
  ASSUME Inv, NothingTemporary, NEW p \in Appliers, NEW s, app[p] = s, Progress(s),
         NEW t, app'[p] = t, Remove(p), ~Exit
  PROVE  NothingTemporary' /\ Progress(t)'
<1>1. s \in AppState /\ WellFormed(s.cfg) /\ s.pc = "remove" /\ s.todo = s.cfg /\ Remaining(s)
  BY AtIs DEF Progress, Remove, At
<1>2. ASSUME NEW l \in s.rmL, l \in listeners, CloseListener(l), t = [s EXCEPT !.rmL = @ \ {l}]
      PROVE  NothingTemporary' /\ Progress(t)'
  <2>1. /\ listeners' = listeners \ {l} /\ UNCHANGED <<lst, ifc>>
        /\ ifcs' = {i \in ifcs : ifc[i].l # l}
    BY <1>2 DEF CloseListener, IfcsOf
  <2>2. /\ t.pc = "remove" /\ t.cfg = s.cfg /\ t.todo = s.cfg
        /\ t.rmL = s.rmL \ {l} /\ t.rmI = s.rmI
    BY <1>1, <1>2 DEF AppState
  <2>3. NothingTemporary'
    BY <2>1 DEF NothingTemporary
  <2>4. \A k \in listeners' \ t.rmL : KnownListener(t.cfg, k)
    BY <1>1, <2>1, <2>2 DEF Remaining
  <2>5. \A i \in ifcs' \ t.rmI : ifc[i].l \in t.rmL \/ KnownIfc(t.cfg, i)
    BY <1>1, <2>1, <2>2 DEF Remaining
  <2>6. Remaining(t)'
    BY <2>1, <2>4, <2>5 DEF Remaining, KnownListener, KnownIfc, SameListener, SameIfc
  <2> QED BY <1>1, <2>2, <2>3, <2>6 DEF Progress, InFile, InListener, InTables
<1>3. ASSUME NEW i \in s.rmI, CloseIfc(i), s.rmL = {}, t = [s EXCEPT !.rmI = @ \ {i}]
      PROVE  NothingTemporary' /\ Progress(t)'
  <2>1. UNCHANGED <<listeners, lst, ifc>> /\ ifcs' = ifcs \ {i}
    BY <1>3 DEF CloseIfc
  <2>2. /\ t.pc = "remove" /\ t.cfg = s.cfg /\ t.todo = s.cfg
        /\ t.rmL = s.rmL /\ t.rmI = s.rmI \ {i}
    BY <1>1, <1>3 DEF AppState
  <2>3. NothingTemporary'
    BY <2>1 DEF NothingTemporary
  <2>4. \A k \in listeners \ t.rmL : KnownListener(t.cfg, k)
    BY <1>1, <2>2 DEF Remaining
  <2>5. \A j \in ifcs' \ t.rmI : ifc[j].l \in t.rmL \/ KnownIfc(t.cfg, j)
    BY <1>1, <2>1, <2>2 DEF Remaining
  <2>6. Remaining(t)'
    BY <2>1, <2>4, <2>5 DEF Remaining, KnownListener, KnownIfc, SameListener, SameIfc
  <2> QED BY <1>1, <2>2, <2>3, <2>6 DEF Progress, InFile, InListener, InTables
<1>4. ASSUME s.rmL = {}, s.rmI = {}, UNCHANGED objects, t = [s EXCEPT !.pc = "find"]
      PROVE  NothingTemporary' /\ Progress(t)'
  <2>1. t.pc = "find" /\ t.cfg = s.cfg /\ t.todo = s.cfg
    BY <1>1, <1>4 DEF AppState
  <2>2. Known(t.cfg)
    BY <1>1, <1>4, <2>1 DEF Remaining, Known
  <2>3. ListenersDone(t)
    BY <2>1, <2>2 DEF ListenersDone, Past
  <2>4. Progress(t)
    BY <1>1, <2>1, <2>3 DEF Progress, InFile, InListener, InTables
  <2> QED BY <1>4, <2>4, KeepsAll, ProgressStays
<1>5. \/ \E l \in s.rmL : l \in listeners /\ CloseListener(l) /\ Goto(p, [s EXCEPT !.rmL = @ \ {l}])
      \/ \E i \in s.rmI : s.rmL = {} /\ CloseIfc(i) /\ Goto(p, [s EXCEPT !.rmI = @ \ {i}])
      \/ s.rmL = {} /\ s.rmI = {} /\ UNCHANGED objects /\ Goto(p, [s EXCEPT !.pc = "find"])
  BY DEF Remove
<1> QED BY <1>2, <1>3, <1>4, <1>5, Goes

\* A listener that is adopted has the name the file gives it.
LEMMA FindProgress ==
  ASSUME Inv, NothingTemporary, NEW p \in Appliers, NEW s, app[p] = s, Progress(s),
         NEW t, app'[p] = t, Find(p)
  PROVE  NothingTemporary' /\ Progress(t)'
<1>1. s \in AppState /\ WellFormed(s.cfg) /\ s.pc = "find" /\ ListenersDone(s)
  BY AtIs DEF Progress, Find, At, InFile
<1>2. PICK c \in s.todo :
        LET y == [s EXCEPT !.todo = @ \ {c}, !.c = c, !.ics = c.ifcs] IN
        \/ UNCHANGED lst /\ Goto(p, [y EXCEPT !.pc = "make"])
        \/ \E l \in listeners :
             lst[l].addr = c.addr /\ Adopt(l) /\ Goto(p, [y EXCEPT !.pc = "resize", !.l = l])
  BY DEF Find
<1>3. c \in s.cfg /\ \A d \in Past(s) : ListenerAsIn(d)
  BY <1>1 DEF ListenersDone
<1>4. ASSUME t.cfg = s.cfg, t.todo = s.todo \ {c}, t.c = c, t.ics = c.ifcs, t.pc \in {"make", "resize"}
      PROVE  ListenersDone(t) /\ AtOne(t)
  <2>1. Past(t) \subseteq Past(s)
    BY <1>1, <1>4 DEF Past
  <2> QED BY <1>1, <1>3, <1>4, <2>1 DEF ListenersDone, AtOne
<1>5. CASE UNCHANGED lst /\ t = [s EXCEPT !.todo = @ \ {c}, !.c = c, !.ics = c.ifcs, !.pc = "make"]
  <2>1. t.cfg = s.cfg /\ t.todo = s.todo \ {c} /\ t.c = c /\ t.ics = c.ifcs /\ t.pc = "make"
    BY <1>1, <1>5 DEF AppState
  <2>2. Progress(t)
    BY <1>1, <1>4, <2>1 DEF Progress, InFile, InListener, InTables
  <2>3. UNCHANGED objects
    BY <1>5 DEF Find, objects
  <2> QED BY <2>2, <2>3, KeepsAll, ProgressStays
<1>6. ASSUME NEW l \in listeners, lst[l].addr = c.addr, Adopt(l),
             t = [s EXCEPT !.todo = @ \ {c}, !.c = c, !.ics = c.ifcs, !.pc = "resize", !.l = l]
      PROVE  NothingTemporary' /\ Progress(t)'
  <2>1. /\ t.cfg = s.cfg /\ t.todo = s.todo \ {c} /\ t.c = c /\ t.ics = c.ifcs /\ t.pc = "resize"
        /\ t.l = l
    BY <1>1, <1>6 DEF AppState
  <2>2. PICK d \in s.cfg : SameListener(l, d)
    BY <1>1 DEF ListenersDone, Known, KnownListener
  <2>3. d = c
    BY <1>1, <1>3, <1>6, <2>2 DEF WellFormed, SameListener
  <2>4. IfcsDone(t)
    BY <2>1, <2>2, <2>3 DEF IfcsDone, IfcsAsIn, PastIfcs
  <2>5. Progress(t)
    BY <1>1, <1>4, <2>1, <2>4 DEF Progress, InFile, InListener, InTables
  <2>6. MarksListener
    BY <1>6 DEF Find, Adopt, MarksListener
  <2> QED BY <2>5, <2>6, KeepsAll, ProgressStays
<1> QED BY <1>2, <1>5, <1>6, Goes

LEMMA ResizeProgress ==
  ASSUME Inv, NothingTemporary, NEW p \in Appliers, NEW s, app[p] = s, Progress(s),
         NEW t, app'[p] = t, Resize(p)
  PROVE  NothingTemporary' /\ Progress(t)'
<1>1. s \in AppState /\ s.pc = "resize"
  BY AtIs DEF Resize, At
<1>2. t = [s EXCEPT !.pc = "ifc"]
  BY Goes DEF Resize
<1>3. /\ t.pc = "ifc" /\ t.cfg = s.cfg /\ t.todo = s.todo /\ t.c = s.c /\ t.l = s.l /\ t.ics = s.ics
  BY <1>1, <1>2 DEF AppState
<1>4. Past(t) = Past(s) /\ PastIfcs(t) = PastIfcs(s)
  BY <1>1, <1>3 DEF Past, PastIfcs
<1>5. Progress(t)
  BY <1>1, <1>3, <1>4 DEF Progress, InFile, InListener, InTables, ListenersDone, AtOne, IfcsDone
<1> QED BY <1>5, KeepsAll, ProgressStays DEF Resize

\* A listener that is made is the one the file has.
LEMMA MakeProgress ==
  ASSUME Inv, NothingTemporary, NEW p \in Appliers, NEW s, app[p] = s, Progress(s),
         NEW t, app'[p] = t, Make(p)
  PROVE  NothingTemporary' /\ Progress(t)'
<1>1. s \in AppState /\ WellFormed(s.cfg) /\ s.pc = "make" /\ ListenersDone(s) /\ AtOne(s)
  BY AtIs DEF Progress, Make, At, InFile
<1>2. CASE NotMade(p) /\ UNCHANGED objects
  BY <1>2, EndProgress DEF NotMade
<1>3. ASSUME NEW l \in Listener, Open(l, s.c.name, s.c.addr, TRUE), t = [s EXCEPT !.pc = "ifc", !.l = l]
      PROVE  NothingTemporary' /\ Progress(t)'
  <2>1. /\ t.pc = "ifc" /\ t.cfg = s.cfg /\ t.todo = s.todo /\ t.c = s.c /\ t.l = l /\ t.ics = s.ics
    BY <1>1, <1>3 DEF AppState
  <2>2. s.c.name \in Name /\ s.c.addr \in Address
    <3>1. s.c \in OwnListener
      BY <1>1, AtIs DEF PlacedIn
    <3> QED BY <3>1 DEF OwnListener
  <2>3. /\ lst'[l] = [addr |-> s.c.addr, name |-> s.c.name, perm |-> TRUE, locked |-> FALSE]
        /\ listeners' = listeners \cup {l} /\ UNCHANGED <<ifcs, ifc>>
    <3>1. ListenersTyped /\ TRUE \in BOOLEAN
      BY DEF Inv
    <3> QED BY <1>3, <2>2, <3>1, OpenIs
  <2>4. lst'[l].addr = s.c.addr /\ lst'[l].name = s.c.name /\ lst'[l].perm
    BY <2>3
  <2>5. Keeps({})
    <3>1. Opens
      BY <1>3, <2>2 DEF Opens
    <3> QED BY <3>1, KeepsAll
  <2>6. NothingTemporary'
    BY <2>3, <2>4, <2>5 DEF NothingTemporary, Keeps
  <2>7. Known(t.cfg)'
    <3>1. KnownListener(t.cfg, l)'
      BY <1>1, <2>1, <2>4 DEF KnownListener, SameListener, AtOne
    <3> QED BY <1>1, <2>1, <2>3, <2>5, <3>1, KnownStays DEF ListenersDone, Known
  <2>8. ListenersDone(t)'
    <3>1. Past(t) = Past(s)
      BY <1>1, <2>1 DEF Past
    <3>2. \A c \in Past(t) : ListenerAsIn(c)'
      BY <1>1, <2>5, <3>1, ListenersStay DEF ListenersDone
    <3> QED BY <1>1, <2>1, <2>7, <3>2 DEF ListenersDone
  <2>9. IfcsDone(t)'
    <3>1. PastIfcs(t) = {}
      BY <1>1, <2>1 DEF PastIfcs, AtOne
    <3> QED BY <2>1, <2>3, <2>4, <3>1 DEF IfcsDone, IfcsAsIn, SameListener
  <2> QED BY <1>1, <2>1, <2>6, <2>8, <2>9 DEF Progress, InFile, InListener, InTables, AtOne
<1> QED BY <1>2, <1>3, Goes DEF Make

\* An interface that is adopted has the name the file gives it.
LEMMA FindIfcProgress ==
  ASSUME Inv, NothingTemporary, NEW p \in Appliers, NEW s, app[p] = s, Progress(s),
         NEW t, app'[p] = t, FindIfc(p)
  PROVE  NothingTemporary' /\ Progress(t)'
<1>1. /\ s \in AppState /\ WellFormed(s.cfg) /\ s.pc = "ifc"
      /\ ListenersDone(s) /\ AtOne(s) /\ IfcsDone(s)
  BY AtIs DEF Progress, FindIfc, At, InFile, InListener
<1>2. PICK x \in s.ics :
        LET y == [s EXCEPT !.ics = @ \ {x}, !.ic = x] IN
        \/ UNCHANGED ifc /\ Goto(p, [y EXCEPT !.pc = "makeIfc"])
        \/ \E i \in IfcsOf(s.l) :
             /\ ifc[i].vni = x.vni /\ ifc' = [ifc EXCEPT ![i].perm = TRUE]
             /\ Goto(p, [y EXCEPT !.pc = "flush", !.kind = "arp", !.i = i])
  BY DEF FindIfc
<1>3. ASSUME t.cfg = s.cfg, t.todo = s.todo, t.c = s.c, t.l = s.l, t.ics = s.ics \ {x}, t.ic = x,
             t.pc \in {"makeIfc", "flush"}
      PROVE  ListenersDone(t) /\ AtOne(t) /\ IfcsDone(t) /\ t.ic \in t.c.ifcs \ t.ics
  <2>1. Past(t) = Past(s) /\ PastIfcs(t) \subseteq PastIfcs(s)
    BY <1>1, <1>3 DEF Past, PastIfcs
  <2> QED BY <1>1, <1>3, <2>1 DEF ListenersDone, AtOne, IfcsDone, IfcsAsIn
<1>4. CASE UNCHANGED ifc /\ t = [s EXCEPT !.ics = @ \ {x}, !.ic = x, !.pc = "makeIfc"]
  <2>1. /\ t.cfg = s.cfg /\ t.todo = s.todo /\ t.c = s.c /\ t.l = s.l /\ t.ics = s.ics \ {x} /\ t.ic = x
        /\ t.pc = "makeIfc"
    BY <1>1, <1>4 DEF AppState
  <2>2. Progress(t)
    BY <1>1, <1>3, <2>1 DEF Progress, InFile, InListener, InTables
  <2>3. UNCHANGED objects
    BY <1>4 DEF FindIfc, objects
  <2> QED BY <2>2, <2>3, KeepsAll, ProgressStays
<1>5. ASSUME NEW i \in IfcsOf(s.l), ifc[i].vni = x.vni, ifc' = [ifc EXCEPT ![i].perm = TRUE],
             t = [s EXCEPT !.ics = @ \ {x}, !.ic = x, !.pc = "flush", !.kind = "arp", !.i = i]
      PROVE  NothingTemporary' /\ Progress(t)'
  <2>1. /\ t.cfg = s.cfg /\ t.todo = s.todo /\ t.c = s.c /\ t.l = s.l /\ t.ics = s.ics \ {x} /\ t.ic = x
        /\ t.pc = "flush" /\ t.kind = "arp" /\ t.i = i
    BY <1>1, <1>5 DEF AppState
  <2>2. i \in ifcs /\ ifc[i].l = s.l /\ lst[s.l].perm
    BY <1>5 DEF IfcsOf, NothingTemporary
  <2>3. PICK d \in s.cfg : SameListener(s.l, d) /\ \E y \in d.ifcs : SameIfc(i, y)
    BY <1>1, <2>2 DEF ListenersDone, Known, KnownIfc
  <2>4. d = s.c
    <3>1. s.c \in s.cfg /\ SameListener(s.l, s.c)
      BY <1>1 DEF AtOne, IfcsDone
    <3>2. \A z, w \in s.cfg : z.addr = w.addr => z = w
      BY <1>1 DEF WellFormed
    <3>3. d.addr = s.c.addr
      BY <2>3, <3>1 DEF SameListener
    <3> QED BY <2>3, <3>1, <3>2, <3>3
  <2>5. PICK y \in s.c.ifcs : SameIfc(i, y)
    BY <2>3, <2>4
  <2>6. x = y
    <3>1. s.c \in s.cfg /\ x \in s.c.ifcs
      BY <1>1 DEF AtOne
    <3>2. \A z, w \in s.c.ifcs : z.vni = w.vni => z = w
      BY <1>1, <3>1 DEF WellFormed
    <3>3. y.vni = x.vni
      BY <1>5, <2>5 DEF SameIfc
    <3> QED BY <2>5, <3>1, <3>2, <3>3
  <2>7. TablesDone(t)
    BY <1>5, <2>1, <2>5, <2>6 DEF TablesDone, PastKinds
  <2>8. Progress(t)
    BY <1>1, <1>3, <2>1, <2>7 DEF Progress, InFile, InListener, InTables
  <2>9. MarksIfc
    BY <1>5, <2>2 DEF FindIfc, MarksIfc
  <2> QED BY <2>8, <2>9, KeepsAll, ProgressStays
<1> QED BY <1>2, <1>4, <1>5, Goes

LEMMA LastIfcProgress ==
  ASSUME Inv, NothingTemporary, NEW p \in Appliers, NEW s, app[p] = s, Progress(s),
         NEW t, app'[p] = t, LastIfc(p)
  PROVE  NothingTemporary' /\ Progress(t)'
<1>1. /\ s \in AppState /\ WellFormed(s.cfg) /\ s.pc = "ifc" /\ s.ics = {}
      /\ ListenersDone(s) /\ AtOne(s) /\ IfcsDone(s)
  BY AtIs DEF Progress, LastIfc, At, InFile, InListener
<1>2. t = [Idle EXCEPT !.pc = "find", !.cfg = s.cfg, !.todo = s.todo]
  BY Goes DEF LastIfc
<1>3. t.pc = "find" /\ t.cfg = s.cfg /\ t.todo = s.todo
  BY <1>2, IdleState DEF AppState
<1>4. ListenerAsIn(s.c)
  <2>1. PastIfcs(s) = s.c.ifcs
    BY <1>1 DEF PastIfcs
  <2> QED BY <1>1, <2>1 DEF IfcsDone, ListenerAsIn
<1>5. \A c \in Past(t) : c \in Past(s) \/ c = s.c
  BY <1>1, <1>3 DEF Past
<1>6. ListenersDone(t)
  BY <1>1, <1>3, <1>4, <1>5 DEF ListenersDone
<1>7. Progress(t)
  BY <1>1, <1>3, <1>6 DEF Progress, InFile, InListener, InTables
<1> QED BY <1>7, KeepsAll, ProgressStays DEF LastIfc

\* An interface that is made is the one the file has.
LEMMA MakeIfcProgress ==
  ASSUME Inv, NothingTemporary, NEW p \in Appliers, NEW s, app[p] = s, Progress(s),
         NEW t, app'[p] = t, MakeIfc(p)
  PROVE  NothingTemporary' /\ Progress(t)'
<1>1. /\ s \in AppState /\ WellFormed(s.cfg) /\ s.pc = "makeIfc" /\ s.ic \in s.c.ifcs \ s.ics
      /\ ListenersDone(s) /\ AtOne(s) /\ IfcsDone(s)
  BY AtIs DEF Progress, MakeIfc, At, InFile, InListener
<1>2. CASE NotMade(p) /\ UNCHANGED objects
  BY <1>2, EndProgress DEF NotMade
<1>3. ASSUME NEW i \in Ifc, OpenIfc(i, s.l, s.ic.vni, s.ic.name, TRUE),
             t = [s EXCEPT !.pc = "flush", !.kind = "arp", !.i = i]
      PROVE  NothingTemporary' /\ Progress(t)'
  <2>1. /\ t.pc = "flush" /\ t.cfg = s.cfg /\ t.todo = s.todo /\ t.c = s.c /\ t.l = s.l /\ t.ics = s.ics
        /\ t.ic = s.ic /\ t.i = i /\ t.kind = "arp"
    BY <1>1, <1>3 DEF AppState
  <2>2. s.ic.vni \in VNI /\ s.ic.name \in Device /\ s.l \in DOMAIN lst
    <3>1. s.ic \in OwnIfc /\ s.l \in DOMAIN lst
      BY <1>1, AtIs DEF PlacedIn, OnListener
    <3> QED BY <3>1 DEF OwnIfc
  <2>3. /\ ifc'[i] = [l |-> s.l, vni |-> s.ic.vni, name |-> s.ic.name, perm |-> TRUE, rows |-> {},
                      locked |-> FALSE]
        /\ ifcs' = ifcs \cup {i} /\ UNCHANGED <<listeners, lst>>
    <3>1. IfcsTyped /\ DOMAIN lst \subseteq Listener /\ TRUE \in BOOLEAN
      BY DEF Inv, ListenersTyped
    <3>2. \A l \in DOMAIN lst, vni \in VNI, name \in Device : OpenIfc(i, l, vni, name, TRUE) =>
            /\ ifc'[i] = [l |-> l, vni |-> vni, name |-> name, perm |-> TRUE, rows |-> {}, locked |-> FALSE]
            /\ ifcs' = ifcs \cup {i} /\ UNCHANGED <<listeners, lst>>
      BY <3>1, OpenIfcIs
    <3> QED BY <1>3, <2>2, <3>2
  <2>4. /\ ifc'[i].l = s.l /\ ifc'[i].vni = s.ic.vni /\ ifc'[i].name = s.ic.name
        /\ ifc'[i].perm /\ ifc'[i].rows = {}
    BY <2>3
  <2>5. Keeps({})
    <3>1. OpensIfc
      BY <1>3, <2>2 DEF OpensIfc
    <3> QED BY <3>1, KeepsAll
  <2>6. s.l \in listeners /\ SameListener(s.l, s.c) /\ IfcsAsIn(s.l, PastIfcs(s))
    BY <1>1 DEF IfcsDone
  <2>7. NothingTemporary'
    BY <2>3, <2>4, <2>5, <2>6 DEF NothingTemporary, Keeps
  <2>8. SameIfc(i, s.ic)'
    BY <2>4 DEF SameIfc
  <2>9. SameListener(s.l, s.c)'
    BY <2>5, <2>6, ListenerStays
  <2>10. Known(t.cfg)'
    <3>1. (SameListener(ifc[i].l, s.c))'
      BY <2>4, <2>9 DEF SameListener
    <3>2. KnownIfc(t.cfg, i)'
      BY <1>1, <2>1, <2>8, <3>1 DEF KnownIfc, AtOne
    <3> QED BY <1>1, <2>1, <2>3, <2>5, <3>2, KnownStays DEF ListenersDone, Known
  <2>11. ListenersDone(t)'
    <3>1. Past(t) = Past(s)
      BY <1>1, <2>1 DEF Past
    <3>2. \A c \in Past(t) : ListenerAsIn(c)'
      BY <1>1, <2>5, <3>1, ListenersStay DEF ListenersDone
    <3> QED BY <1>1, <2>1, <2>10, <3>2 DEF ListenersDone
  <2>12. IfcsDone(t)'
    <3>1. PastIfcs(t) = PastIfcs(s)
      BY <1>1, <2>1 DEF PastIfcs
    <3>2. IfcsAsIn(s.l, PastIfcs(s))'
      BY <2>5, <2>6, IfcsStay
    <3> QED BY <2>1, <2>3, <2>6, <2>9, <3>1, <3>2 DEF IfcsDone
  <2>13. TablesDone(t)'
    <3>1. i \in IfcsOf(s.l)'
      BY <2>3, <2>4 DEF IfcsOf
    <3> QED BY <2>1, <2>8, <3>1 DEF TablesDone, PastKinds
  <2> QED BY <1>1, <2>1, <2>7, <2>11, <2>12, <2>13 DEF Progress, InFile, InListener, InTables, AtOne
<1> QED BY <1>2, <1>3, Goes DEF MakeIfc

\* What an ApplyConfig at work in the tables of an interface has done already.
Behind(s) ==
  /\ s \in AppState /\ WellFormed(s.cfg) /\ s.pc \in InTables
  /\ AtOne(s) /\ s.ic \in s.c.ifcs \ s.ics

\* After the last row of a table all of the table is done, and after the last table
\* all of the interface.
LEMMA ProceedProgress ==
  ASSUME NEW u, Behind(u), ListenersDone(u)', IfcsDone(u)', TablesDone(u)', RowsDone(u)',
         NEW t, t = Proceed(u)
  PROVE  Progress(t)'
<1>1. u \in AppState /\ u.pc \in InTables /\ u.kind \in Kind
  BY DEF Behind, AppState
<1>2. /\ t.cfg = u.cfg /\ t.todo = u.todo /\ t.c = u.c /\ t.l = u.l /\ t.ics = u.ics
      /\ t.pc \in {"rows", "flush", "ifc"}
  BY <1>1 DEF Proceed, AppState
<1>3. Past(t) = Past(u)
  BY <1>1, <1>2 DEF Past, InTables
<1>4. ListenersDone(t)' /\ AtOne(t)
  BY <1>2, <1>3 DEF ListenersDone, AtOne, Behind
<1>5. WellFormed(t.cfg)
  BY <1>2 DEF Behind
<1>6. CASE u.rows # {}
  <2>1. t.pc = "rows" /\ t.ic = u.ic /\ t.i = u.i /\ t.kind = u.kind /\ t.rows = u.rows
    BY <1>1, <1>6 DEF Proceed, AppState
  <2>2. PastIfcs(t) = PastIfcs(u)
    BY <1>1, <1>2, <2>1 DEF PastIfcs, InTables
  <2>3. IfcsDone(t)' /\ TablesDone(t)' /\ RowsDone(t)' /\ t.ic \in t.c.ifcs \ t.ics
    BY <1>2, <2>1, <2>2 DEF IfcsDone, TablesDone, RowsDone, Behind
  <2> QED BY <1>4, <1>5, <2>1, <2>3 DEF Progress, InFile, InListener, InTables
<1>7. ASSUME u.rows = {} PROVE TableAsIn(u.i, u.ic, u.kind, {})'
  BY <1>7 DEF RowsDone
<1>8. CASE u.rows = {} /\ u.kind = "route"
  <2>1. t.pc = "ifc"
    BY <1>1, <1>8 DEF Proceed, AppState
  <2>2. \A x \in PastIfcs(t) : x \in PastIfcs(u) \/ x = u.ic
    BY <1>1, <1>2, <2>1 DEF PastIfcs, InTables
  <2>3. \A kind \in Kind : TableAsIn(u.i, u.ic, kind, {})'
    BY <1>7, <1>8 DEF TablesDone, PastKinds, Kind
  <2>4. u.i \in IfcsOf(u.l)' /\ IfcAsIn(u.i, u.ic)'
    BY <2>3 DEF TablesDone, IfcAsIn
  <2>5. \A x \in PastIfcs(t) : \E i \in IfcsOf(u.l)' : IfcAsIn(i, x)'
    BY <2>2, <2>4 DEF IfcsDone, IfcsAsIn
  <2>6. IfcsDone(t)'
    BY <1>2, <2>5 DEF IfcsDone, IfcsAsIn
  <2> QED BY <1>4, <1>5, <2>1, <2>6 DEF Progress, InFile, InListener, InTables
<1>9. CASE u.rows = {} /\ u.kind # "route"
  <2>1. /\ t.pc = "flush" /\ t.ic = u.ic /\ t.i = u.i
        /\ t.kind = IF u.kind = "arp" THEN "mac" ELSE "route"
    BY <1>1, <1>9 DEF Proceed, AppState
  <2>2. PastIfcs(t) = PastIfcs(u)
    BY <1>1, <1>2, <2>1 DEF PastIfcs, InTables
  <2>3. \A kind \in PastKinds(t.kind) : kind \in PastKinds(u.kind) \/ kind = u.kind
    BY <1>1, <1>9, <2>1 DEF PastKinds, Kind
  <2>4. TablesDone(t)'
    BY <1>2, <1>7, <1>9, <2>1, <2>3 DEF TablesDone
  <2>5. IfcsDone(t)' /\ t.ic \in t.c.ifcs \ t.ics
    BY <1>2, <2>1, <2>2 DEF IfcsDone, Behind
  <2> QED BY <1>4, <1>5, <2>1, <2>4, <2>5 DEF Progress, InFile, InListener, InTables
<1> QED BY <1>6, <1>8, <1>9

\* The same ApplyConfig with other rows ahead.
Ahead(s, rows) == [s EXCEPT !.rows = rows]

LEMMA AheadIs ==
  ASSUME NEW s \in AppState, NEW rows
  PROVE  /\ Ahead(s, rows).pc = s.pc /\ Ahead(s, rows).cfg = s.cfg /\ Ahead(s, rows).todo = s.todo
         /\ Ahead(s, rows).c = s.c /\ Ahead(s, rows).l = s.l /\ Ahead(s, rows).ics = s.ics
         /\ Ahead(s, rows).ic = s.ic /\ Ahead(s, rows).i = s.i /\ Ahead(s, rows).kind = s.kind
         /\ Ahead(s, rows).rows = rows
         /\ rows \subseteq Row => Ahead(s, rows) \in AppState
BY DEF AppState, Ahead

\* The rows of i are set, or are so already.
Sets(i, entries) == SetRows(i, entries) \/ (UNCHANGED ifc /\ ifc[i].rows = entries)

LEMMA SetsIs ==
  ASSUME Inv, NEW i \in ifcs, NEW entries, Sets(i, entries)
  PROVE  /\ ifc'[i].rows = entries /\ ifc'[i].l = ifc[i].l /\ ifc'[i].vni = ifc[i].vni
         /\ ifc'[i].name = ifc[i].name /\ ifc'[i].perm = ifc[i].perm
         /\ \A j \in ifcs \ {i} : ifc'[j] = ifc[j]
<1>1. i \in DOMAIN ifc /\ ifc[i] \in IfcState /\ ifcs \subseteq DOMAIN ifc
  BY DEF Inv, IfcsTyped
<1> QED BY <1>1 DEF Sets, SetRows, IfcState

\* What is saved after the rows are set to permanent ones.
LEMMA SavedAfter ==
  ASSUME Inv, NEW i \in ifcs, NEW entries, Sets(i, entries), \A e \in entries : e.perm
  PROVE  \A r : r \in SavedRows(i)' <=> \E e \in entries : e.row = r
<1>1. ifc'[i].rows = entries
  BY SetsIs
<1> QED BY <1>1 DEF SavedRows

\* To change the rows of the interface at hand disturbs nothing that is behind.
LEMMA TouchOne ==
  ASSUME Inv, NothingTemporary, NEW p \in Appliers, NEW s, app[p] = s, Progress(s), s.pc \in InTables,
         NEW entries, Sets(s.i, entries), UNCHANGED <<listeners, lst, ifcs>>, \A e \in entries : e.perm,
         NEW rows \in SUBSET s.ic.rows, NEW u, u = Ahead(s, rows)
  PROVE  /\ NothingTemporary' /\ Behind(u) /\ ListenersDone(u)' /\ IfcsDone(u)'
         /\ (u.i \in IfcsOf(u.l))' /\ SameIfc(u.i, u.ic)'
<1>1. /\ s \in AppState /\ WellFormed(s.cfg) /\ ListenersDone(s) /\ AtOne(s) /\ IfcsDone(s)
      /\ s.ic \in s.c.ifcs \ s.ics /\ s.i \in IfcsOf(s.l) /\ SameIfc(s.i, s.ic)
  BY AtIs DEF Progress, InFile, InListener, InTables, TablesDone
<1>2. s.ic \in OwnIfc
  BY AtIs DEF PlacedIn, InTables, OnIfc
<1>3. /\ u \in AppState /\ u.pc = s.pc /\ u.cfg = s.cfg /\ u.todo = s.todo /\ u.c = s.c /\ u.l = s.l
      /\ u.ics = s.ics /\ u.i = s.i /\ u.ic = s.ic /\ u.kind = s.kind /\ u.rows = rows
  <2>1. rows \subseteq Row
    BY <1>2 DEF OwnIfc
  <2> QED BY <1>1, <2>1, AheadIs
<1>4. Behind(u)
  BY <1>1, <1>3 DEF Behind, AtOne
<1>5. s.i \in ifcs /\ ifc[s.i].l = s.l
  BY <1>1 DEF IfcsOf
<1>6. /\ ifc'[s.i].rows = entries /\ ifc'[s.i].l = ifc[s.i].l /\ ifc'[s.i].vni = ifc[s.i].vni
      /\ ifc'[s.i].name = ifc[s.i].name /\ ifc'[s.i].perm = ifc[s.i].perm
      /\ \A i \in ifcs \ {s.i} : ifc'[i] = ifc[i]
  BY <1>5, SetsIs
<1>7. Keeps({s.i})
  BY <1>6 DEF Keeps
<1>8. NothingTemporary'
  <2>1. ASSUME NEW i \in ifcs
        PROVE  ifc'[i].perm /\ ifc'[i].l \in listeners /\ \A e \in ifc'[i].rows : e.perm
    <3>1. CASE i = s.i
      BY <1>6, <3>1 DEF NothingTemporary
    <3>2. CASE i # s.i
      BY <1>7, <3>2 DEF NothingTemporary, Keeps
    <3> QED BY <3>1, <3>2
  <2> QED BY <2>1 DEF NothingTemporary
<1>9. (u.i \in IfcsOf(u.l))' /\ SameIfc(u.i, u.ic)'
  BY <1>1, <1>3, <1>5, <1>7, IfcStays
<1>10. ListenersDone(u)'
  <2>1. Known(u.cfg)'
    BY <1>1, <1>3, <1>7, KnownStays DEF Known, ListenersDone
  <2>2. ASSUME NEW c \in Past(u) PROVE ListenerAsIn(c)'
    <3>1. c \in Past(s) /\ c \in s.cfg /\ c # s.c
      BY <1>3 DEF Past, InTables
    <3>2. ~SameListener(ifc[s.i].l, c)
      BY <1>1, <1>5, <3>1 DEF SameListener, IfcsDone, AtOne, WellFormed
    <3> QED BY <1>1, <1>7, <3>1, <3>2, ListenersStay DEF ListenersDone
  <2> QED BY <1>1, <1>3, <2>1, <2>2 DEF ListenersDone
<1>11. IfcsDone(u)'
  <2>1. PastIfcs(u) = PastIfcs(s) /\ \A x \in PastIfcs(s) : x \in s.c.ifcs /\ x # s.ic
    BY <1>3 DEF PastIfcs, InTables
  <2>2. \A x \in PastIfcs(s) : ~SameIfc(s.i, x)
    <3>1. s.c \in s.cfg
      BY <1>1 DEF AtOne
    <3>2. \A x, y \in s.c.ifcs : x.vni = y.vni => x = y
      BY <1>1, <3>1 DEF WellFormed
    <3> QED BY <1>1, <2>1, <3>2 DEF SameIfc
  <2>3. s.l \in listeners /\ SameListener(s.l, s.c) /\ IfcsAsIn(s.l, PastIfcs(s))
    BY <1>1 DEF IfcsDone
  <2>4. IfcsAsIn(s.l, PastIfcs(s))'
    BY <1>7, <2>2, <2>3, IfcsStay
  <2>5. SameListener(s.l, s.c)'
    BY <1>7, <2>3, ListenerStays
  <2> QED BY <1>3, <2>1, <2>3, <2>4, <2>5 DEF IfcsDone
<1> QED BY <1>3, <1>4, <1>8, <1>9, <1>10, <1>11

\* Among permanent objects, every row is saved.
LEMMA AllSaved ==
  ASSUME NothingTemporary, NEW i \in ifcs
  PROVE  SavedRows(i) = {e.row : e \in ifc[i].rows} /\ \A e \in ifc[i].rows : e.perm
BY DEF NothingTemporary, SavedRows

\* Rows that leave the tables behind as they were, and are as the file has them in the
\* table at hand but for the rows ahead, are a step forward.
LEMMA RowsProgress ==
  ASSUME Inv, NothingTemporary, NEW p \in Appliers, NEW s, app[p] = s, Progress(s), s.pc \in InTables,
         NEW entries, Sets(s.i, entries), UNCHANGED <<listeners, lst, ifcs>>, \A e \in entries : e.perm,
         \A r : r.kind # s.kind => ((\E e \in entries : e.row = r) <=> r \in SavedRows(s.i)),
         NEW rows \in SUBSET s.ic.rows, \A r \in rows : r.kind = s.kind,
         \A e \in entries : e.row.kind = s.kind => e.row \in s.ic.rows \ rows,
         s.kind # "route" =>
           \A r \in s.ic.rows \ rows : r.kind = s.kind => \E e \in entries : e.row = r,
         NEW t, app'[p] = t, Goto(p, Proceed(Ahead(s, rows)))
  PROVE  NothingTemporary' /\ Progress(t)'
<1>1. s \in AppState /\ TablesDone(s) /\ s.i \in ifcs
  BY AtIs DEF Progress, InTables, TablesDone, IfcsOf
<1>2. PICK u : u = Ahead(s, rows)
  OBVIOUS
<1>3. /\ NothingTemporary' /\ Behind(u) /\ ListenersDone(u)' /\ IfcsDone(u)'
      /\ (u.i \in IfcsOf(u.l))' /\ SameIfc(u.i, u.ic)'
  BY <1>2, TouchOne
<1>4. u.i = s.i /\ u.ic = s.ic /\ u.kind = s.kind /\ u.rows = rows
  BY <1>1, <1>2, AheadIs
<1>5. \A r : r \in SavedRows(s.i)' <=> \E e \in entries : e.row = r
  BY <1>1, SavedAfter
<1>6. RowsDone(u)'
  <2>1. TableAsIn(s.i, s.ic, s.kind, rows)'
    BY <1>5 DEF TableAsIn
  <2> QED BY <1>4, <2>1 DEF RowsDone
<1>7. TablesDone(u)'
  <2>1. \A kind \in PastKinds(s.kind) : kind # s.kind
    BY <1>1 DEF PastKinds, AppState, Kind
  <2>2. \A r : r.kind # s.kind => (r \in SavedRows(s.i)' <=> r \in SavedRows(s.i))
    BY <1>5
  <2>3. \A kind \in PastKinds(s.kind) : TableAsIn(s.i, s.ic, kind, {})'
    BY <1>1, <2>1, <2>2 DEF TableAsIn, TablesDone
  <2> QED BY <1>3, <1>4, <2>3 DEF TablesDone
<1>8. t = Proceed(u)
  BY <1>2, Goes
<1> QED BY <1>3, <1>6, <1>7, <1>8, ProceedProgress

\* A table that is flushed is empty, the others are as they were.
LEMMA FlushProgress ==
  ASSUME Inv, NothingTemporary, NEW p \in Appliers, NEW s, app[p] = s, Progress(s),
         NEW t, app'[p] = t, Flush(p)
  PROVE  NothingTemporary' /\ Progress(t)'
<1>1. s \in AppState /\ s.pc \in InTables /\ s.i \in ifcs
  BY AtIs DEF Progress, Flush, At, InTables, TablesDone, IfcsOf
<1>2. PICK entries, rows : entries = ifc[s.i].rows \ Flushed(s.i, s.kind) /\ rows = Rest(p)
  OBVIOUS
<1>3. SavedRows(s.i) = {e.row : e \in ifc[s.i].rows} /\ \A e \in ifc[s.i].rows : e.perm
  BY <1>1, AllSaved
<1>4. Sets(s.i, entries) /\ UNCHANGED <<listeners, lst, ifcs>>
  BY <1>2 DEF Flush, Sets
<1>5. Goto(p, Proceed(Ahead(s, rows)))
  BY <1>2 DEF Flush, Ahead
<1>6. \A e : e \in entries <=> e \in ifc[s.i].rows /\ e.row.kind # s.kind
  BY <1>2, <1>3 DEF Flushed
<1>7. rows \in SUBSET s.ic.rows /\ \A r \in s.ic.rows : r \in rows <=> r.kind = s.kind
  BY <1>2 DEF Rest
<1>8. \A e \in entries : e.perm
  BY <1>3, <1>6
<1>9. \A r : r.kind # s.kind => ((\E e \in entries : e.row = r) <=> r \in SavedRows(s.i))
  BY <1>3, <1>6
<1>10. \A r \in rows : r.kind = s.kind
  BY <1>7
<1>11. \A e \in entries : e.row.kind = s.kind => e.row \in s.ic.rows \ rows
  BY <1>6
<1>12. s.kind # "route" => \A r \in s.ic.rows \ rows : r.kind = s.kind => \E e \in entries : e.row = r
  BY <1>7
<1>13. rows \in SUBSET s.ic.rows /\ s.pc \in InTables
  BY <1>1, <1>7
<1> QED BY <1>4, <1>5, <1>8, <1>9, <1>10, <1>11, <1>12, <1>13, RowsProgress

\* A row that is added does not replace another of the file.
LEMMA AddRowProgress ==
  ASSUME Inv, NothingTemporary, NEW p \in Appliers, NEW s, app[p] = s, Progress(s),
         NEW t, app'[p] = t, AddRow(p)
  PROVE  NothingTemporary' /\ Progress(t)'
<1>1. /\ s \in AppState /\ s.pc \in InTables /\ TablesDone(s) /\ RowsDone(s) /\ s.i \in ifcs
      /\ WellFormed(s.cfg) /\ AtOne(s) /\ s.ic \in s.c.ifcs
  BY AtIs DEF Progress, AddRow, At, InTables, InListener, TablesDone, IfcsOf
<1>2. PICK r \in s.rows :
        /\ SetRows(s.i, Put(ifc[s.i].rows, r, TRUE)) \/ (r.kind = "route" /\ UNCHANGED ifc)
        /\ Goto(p, Proceed([s EXCEPT !.rows = @ \ {r}]))
  BY DEF AddRow
<1>3. PICK entries, rows :
        /\ rows = s.rows \ {r} /\ Sets(s.i, entries)
        /\ \/ entries = Put(ifc[s.i].rows, r, TRUE)
           \/ r.kind = "route" /\ entries = ifc[s.i].rows
  BY <1>2 DEF Sets
<1>4. Goto(p, Proceed(Ahead(s, rows)))
  <2>1. [s EXCEPT !.rows = @ \ {r}] = [s EXCEPT !.rows = s.rows \ {r}]
    OBVIOUS
  <2> QED BY <1>2, <1>3, <2>1 DEF Ahead
<1>5. SavedRows(s.i) = {e.row : e \in ifc[s.i].rows} /\ \A e \in ifc[s.i].rows : e.perm
  BY <1>1, AllSaved
<1>6. r \in s.ic.rows /\ r.kind = s.kind /\ s.rows \subseteq s.ic.rows /\ \A q \in s.rows : q.kind = s.kind
  BY <1>1 DEF RowsDone
<1>7. \A q \in SavedRows(s.i) : q.kind = s.kind => q \in s.ic.rows \ s.rows
  BY <1>1 DEF RowsDone, TableAsIn
<1>8. s.kind # "route" => \A q \in s.ic.rows \ s.rows : q.kind = s.kind => q \in SavedRows(s.i)
  BY <1>1 DEF RowsDone, TableAsIn
<1>9. \A q, o \in s.ic.rows : q.kind = "arp" /\ o.kind = "arp" /\ q.key = o.key => q = o
  BY <1>1 DEF WellFormed, AtOne
<1>10. \A e \in ifc[s.i].rows : ~(e.row.kind = "arp" /\ r.kind = "arp" /\ e.row.key = r.key)
  BY <1>2, <1>5, <1>6, <1>7, <1>9
<1>11. \A e \in ifc[s.i].rows : e.row # r
  BY <1>2, <1>5, <1>6, <1>7
<1> DEFINE new == [row |-> r, perm |-> TRUE]
<1>12. entries = ifc[s.i].rows \cup {new} \/ (r.kind = "route" /\ entries = ifc[s.i].rows)
  <2>1. ASSUME r.kind = "arp" PROVE Put(ifc[s.i].rows, r, TRUE) = ifc[s.i].rows \cup {new}
    BY <1>10, <2>1 DEF Put
  <2>2. ASSUME r.kind # "arp" PROVE Put(ifc[s.i].rows, r, TRUE) = ifc[s.i].rows \cup {new}
    BY <1>11, <2>2 DEF Put, Has
  <2> QED BY <1>3, <2>1, <2>2
<1>13. new.row = r /\ new.perm
  OBVIOUS
<1> HIDE DEF new
<1>14. \A e \in entries : e.perm
  BY <1>5, <1>12, <1>13
<1>15. \A q : q.kind # s.kind => ((\E e \in entries : e.row = q) <=> q \in SavedRows(s.i))
  BY <1>5, <1>6, <1>12, <1>13
<1>16. \A e \in entries : e.row.kind = s.kind => e.row \in s.ic.rows \ rows
  <2>1. \A e \in ifc[s.i].rows : e.row.kind = s.kind => e.row \in s.ic.rows \ rows
    BY <1>3, <1>5, <1>7
  <2>2. new.row \in s.ic.rows \ rows
    BY <1>3, <1>6, <1>13
  <2> QED BY <1>12, <2>1, <2>2
<1>17. s.kind # "route" => \A q \in s.ic.rows \ rows : q.kind = s.kind => \E e \in entries : e.row = q
  <2> SUFFICES ASSUME s.kind # "route", NEW q \in s.ic.rows \ rows, q.kind = s.kind
               PROVE  \E e \in entries : e.row = q
    OBVIOUS
  <2>1. entries = ifc[s.i].rows \cup {new}
    BY <1>6, <1>12
  <2>2. q = r \/ q \in s.ic.rows \ s.rows
    BY <1>3
  <2> QED BY <1>5, <1>8, <1>13, <2>1, <2>2
<1>18. rows \in SUBSET s.ic.rows /\ (\A q \in rows : q.kind = s.kind) /\ s.pc \in InTables
  BY <1>1, <1>3, <1>6
<1>19. Sets(s.i, entries) /\ UNCHANGED <<listeners, lst, ifcs>>
  BY <1>3 DEF AddRow
<1> QED BY <1>4, <1>14, <1>15, <1>16, <1>17, <1>18, <1>19, RowsProgress

\* Every step of an ApplyConfig among permanent objects is a step forward.
LEMMA StepProgress ==
  ASSUME Inv, NothingTemporary, NEW p \in Appliers, NEW s, app[p] = s, Progress(s),
         NEW t, app'[p] = t, Step(p), ~Exit
  PROVE  NothingTemporary' /\ Progress(t)'
<1>1. CASE FlushRoutes(p)
  <2>1. s \in AppState /\ WellFormed(s.cfg) /\ s.i \in DOMAIN ifc
    BY <1>1, AtIs DEF Progress, FlushRoutes, At, PlacedIn, OnIfc
  <2>2. t = [s EXCEPT !.pc = "hung"]
    BY <1>1, Goes DEF FlushRoutes
  <2>3. t.pc = "hung" /\ t.cfg = s.cfg
    BY <2>1, <2>2 DEF AppState
  <2>4. Progress(t)
    BY <2>1, <2>3, NothingToShow DEF InFile, InListener, InTables
  <2>5. LocksIfc
    BY <1>1, <2>1 DEF FlushRoutes, LocksIfc
  <2> QED BY <2>4, <2>5, KeepsAll, ProgressStays
<1>2. CASE Fail(p) \/ Done(p)
  BY <1>2, EndProgress DEF Fail, Done
<1> QED BY <1>1, <1>2, ScanProgress, RemoveProgress, FindProgress, ResizeProgress, MakeProgress,
         FindIfcProgress, LastIfcProgress, MakeIfcProgress, FlushProgress, AddRowProgress DEF Step

-----------------------------------------------------------------------------
(* An ApplyConfig that nobody disturbs.                                      *)

\* A process that does not run makes and keeps nothing.
LEMMA DownStep == Inv /\ Down /\ [Next]_vars => Down'
<1> SUFFICES ASSUME Inv, Down, [Next]_vars, ~up'
             PROVE  listeners' = {} /\ ifcs' = {} /\ ~quiet' /\ \A p \in Appliers : app'[p].pc = "idle"
  BY DEF Down
<1>1. CASE Exit
  BY <1>1, ExitIdle, IdleState DEF Exit
<1>2. CASE ~Exit
  <2>1. up \in BOOLEAN
    BY DEF Inv, Flags
  <2>2. ASSUME NEW p \in Appliers, Step(p) PROVE up'
    BY <1>2, <2>1, <2>2 DEF Step, Scan, Remove, Find, Resize, Make, FindIfc, LastIfc, MakeIfc, Flush,
         FlushRoutes, AddRow, Fail, Done, At
  <2>3. ASSUME NEW p \in Appliers, Reload(p) PROVE up'
    BY <2>3 DEF Reload
  <2>4. ~(Save \/ SaveFails \/ SaveBlocks \/ Write \/ EditObjects \/ EditRows \/ Stop \/ Start)
    BY <1>2 DEF Save, SaveFails, SaveBlocks, Write, EditObjects, EditRows, Stop, Start, AppFree
  <2>5. ~Learn
    <3>1. Learn => ~up /\ ifcs # {}
      BY <2>1 DEF Learn
    <3> QED BY <3>1 DEF Down
  <2>6. EditFile \/ UNCHANGED vars
    BY <2>2, <2>3, <2>4, <2>5 DEF Next
  <2> QED BY <2>6 DEF EditFile, vars, objects, Down
<1> QED BY <1>1, <1>2

\* One goes on and all others are idle.
LEMMA AloneStays ==
  ASSUME Inv, NEW p \in Appliers, NEW s \in AppState, Goto(p, s),
         \A q \in Appliers \ {p} : app[q].pc = "idle",
         NothingTemporary', Progress(s)'
  PROVE  Undisturbed'
<1>1. app'[p] = s /\ \A q \in Appliers \ {p} : app'[q].pc = "idle"
  BY GotoIs DEF Inv
<1>2. \A t \in States' : t.pc # "idle" => t = s
  BY <1>1 DEF States
<1> QED BY <1>1, <1>2 DEF Undisturbed

\* What begins is alone if it is not disturbed, whatever is there.
LEMMA UndisturbedStep == Inv /\ Down /\ Undisturbed /\ [Next]_vars => Undisturbed'
<1> SUFFICES ASSUME Inv, Down, Undisturbed, [Next]_vars, quiet' PROVE Undisturbed'
  BY DEF Undisturbed
<1>1. ~Exit
  BY DEF Exit
<1>2. PICK b : b = Begun
  OBVIOUS
<1>3. b \in AppState /\ Progress(b)'
  <2>1. WellFormed(ReadConfig)
    BY DEF Inv, Filed, ReadConfig, WellFormed
  <2>2. b.cfg = ReadConfig /\ b.pc = "scan"
    BY <1>2 DEF Begun, Idle
  <2>3. Progress(b)
    BY <2>1, <2>2, NothingToShow DEF InFile, InListener, InTables
  <2>4. WellFormed(b.cfg) /\ b.pc \notin InFile \cup {"remove"}
    BY <2>1, <2>2 DEF InFile, InListener, InTables
  <2>5. Progress(b)'
    BY <2>4 DEF Progress, InFile, InListener, InTables
  <2> QED BY <1>2, <2>5, BegunState DEF Inv
<1>4. ASSUME NEW p \in Appliers, Step(p) PROVE Undisturbed'
  <2>1. quiet /\ app[p].pc # "idle"
    BY <1>1, <1>4 DEF Step, Scan, Remove, Find, Resize, Make, FindIfc, LastIfc, MakeIfc, Flush,
         FlushRoutes, AddRow, Fail, Done, At
  <2>2. NothingTemporary /\ Progress(app[p]) /\ \A q \in Appliers \ {p} : app[q].pc = "idle"
    BY <2>1 DEF Undisturbed, States
  <2>3. PICK t \in AppState : Goto(p, t)
    BY <1>1, <1>4, StepMoves, IdleState DEF End
  <2>4. app'[p] = t
    BY <2>3, Goes
  <2>5. NothingTemporary' /\ Progress(t)'
    BY <1>1, <1>4, <2>2, <2>4, StepProgress
  <2> QED BY <2>2, <2>3, <2>5, AloneStays
<1>5. ASSUME NEW p \in Appliers, Reload(p) PROVE Undisturbed'
  <2>1. NothingTemporary /\ \A q \in Appliers \ {p} : app[q].pc = "idle"
    BY <1>5 DEF Reload, BeginApply
  <2>2. NothingTemporary'
    BY <1>5, <2>1 DEF Reload, NothingTemporary, objects
  <2>3. Goto(p, b)
    BY <1>2, <1>5 DEF Reload, BeginApply
  <2> QED BY <1>3, <2>1, <2>2, <2>3, AloneStays
<1>6. CASE Start
  <2>1. \A q \in Appliers : app[q].pc = "idle"
    BY <1>6 DEF Start, Down
  <2>2. NothingTemporary'
    BY <1>6 DEF Start, Down, objects, NothingTemporary
  <2>3. Goto(Startup, b)
    BY <1>2, <1>6 DEF Start
  <2> QED BY <1>3, <2>1, <2>2, <2>3, AloneStays, Who
<1>7. CASE Save \/ SaveFails \/ SaveBlocks \/ Write \/ EditFile \/ UNCHANGED vars
  <2>1. quiet /\ app' = app
    BY <1>7 DEF Save, SaveFails, SaveBlocks, Write, EditFile, vars
  <2>2. Same
    <3>1. CASE SaveFails
      BY <3>1, KeepsAll DEF SaveFails, MarksListener
    <3>2. CASE ~SaveFails
      BY <1>7, <3>2, KeepsAll DEF Save, SaveBlocks, Write, EditFile, vars, objects
    <3> QED BY <3>1, <3>2
  <2>3. \A s : Progress(s) => NothingTemporary' /\ Progress(s)'
    BY <2>1, <2>2, ProgressStays DEF Undisturbed
  <2>4. NothingTemporary'
    BY <2>3, IdleProgress
  <2>5. States' = States
    BY <2>1 DEF States
  <2> QED BY <2>1, <2>3, <2>4, <2>5 DEF Undisturbed
<1>8. ~(EditObjects \/ EditRows \/ Learn \/ Stop)
  BY DEF EditObjects, EditRows, Learn, Stop, Exit
<1> QED BY <1>4, <1>5, <1>6, <1>7, <1>8 DEF Next

\* So it holds of every behaviour.
LEMMA UndisturbedHolds == Spec => [](Inv /\ Down /\ Undisturbed)
<1>1. Init => Down /\ Undisturbed
  BY IdleState DEF Init, Down, Undisturbed
<1> QED BY <1>1, InitInv, NextInv, DownStep, UndisturbedStep, PTL DEF Spec

-----------------------------------------------------------------------------
(* What it leaves behind.                                                    *)

\* The configuration of a listener and of an interface without the routes.
FixedIfc(x) == [x EXCEPT !.rows = {r \in @ : r.kind # "route"}]
FixedListener(c) == [c EXCEPT !.ifcs = {FixedIfc(x) : x \in @}]

\* What SaveConfig would write of them.
SavedIfc(i) == [vni |-> ifc[i].vni, name |-> ifc[i].name, rows |-> SavedRows(i)]
SavedListener(l) == [addr |-> lst[l].addr, name |-> lst[l].name, ifcs |-> {SavedIfc(i) : i \in IfcsOf(l)}]

\* Among permanent objects, it would write all of them.
LEMMA AllWritten ==
  ASSUME NothingTemporary
  PROVE  Current = {SavedListener(l) : l \in listeners}
<1>1. \A l : {i \in IfcsOf(l) : ifc[i].perm} = IfcsOf(l)
  BY DEF NothingTemporary, IfcsOf
<1>2. {l \in listeners : lst[l].perm} = listeners
  BY DEF NothingTemporary
<1> QED BY <1>1, <1>2 DEF Current, SavedListener, SavedIfc

\* An interface that is as the file has it is saved so, routes apart.
LEMMA IfcSaved ==
  ASSUME NEW i, NEW x \in OwnIfc, IfcAsIn(i, x), SavedRows(i) \subseteq Row
  PROVE  /\ FixedIfc(SavedIfc(i)) = FixedIfc(x)
         /\ \A r \in SavedRows(i) : r \in x.rows
<1>1. \A r \in SavedRows(i) \cup x.rows : r.kind \in Kind
  BY ConstAssumption DEF OwnIfc
<1>2. \A kind \in Kind : TableAsIn(i, x, kind, {})
  BY DEF IfcAsIn
<1>3. \A r \in SavedRows(i) : r \in x.rows
  BY <1>1, <1>2 DEF TableAsIn
<1>4. \A r \in x.rows : r.kind # "route" => r \in SavedRows(i)
  BY <1>1, <1>2 DEF TableAsIn
<1>5. {r \in SavedRows(i) : r.kind # "route"} = {r \in x.rows : r.kind # "route"}
  BY <1>3, <1>4
<1>6. FixedIfc(SavedIfc(i)) = [vni |-> ifc[i].vni, name |-> ifc[i].name,
                               rows |-> {r \in SavedRows(i) : r.kind # "route"}]
  <2>1. PICK y : y = SavedIfc(i)
    OBVIOUS
  <2>2. /\ y \in [vni: {ifc[i].vni}, name: {ifc[i].name}, rows: {SavedRows(i)}]
        /\ y.vni = ifc[i].vni /\ y.name = ifc[i].name /\ y.rows = SavedRows(i)
    BY <2>1 DEF SavedIfc
  <2>3. FixedIfc(y) = [vni |-> y.vni, name |-> y.name, rows |-> {r \in y.rows : r.kind # "route"}]
    BY <2>2 DEF FixedIfc
  <2> QED BY <2>1, <2>2, <2>3
<1>7. FixedIfc(x) = [vni |-> x.vni, name |-> x.name, rows |-> {r \in x.rows : r.kind # "route"}]
  BY DEF FixedIfc, OwnIfc
<1> QED BY <1>3, <1>5, <1>6, <1>7 DEF IfcAsIn, SameIfc

\* When all listeners of the file are done, each that is there has the interfaces the
\* file gives it and no others.
LEMMA IfcsCovered ==
  ASSUME Inv, NothingTemporary, NEW cfg, WellFormed(cfg), Known(cfg), \A c \in cfg : ListenerAsIn(c),
         NEW l \in listeners, NEW c \in cfg, SameListener(l, c)
  PROVE  /\ \A x \in c.ifcs : \E i \in IfcsOf(l) : IfcAsIn(i, x)
         /\ \A i \in IfcsOf(l) : \E x \in c.ifcs : IfcAsIn(i, x)
<1>1. ASSUME NEW x \in c.ifcs PROVE \E i \in IfcsOf(l) : IfcAsIn(i, x)
  <2>1. PICK k \in listeners : SameListener(k, c) /\ IfcsAsIn(k, c.ifcs)
    BY DEF ListenerAsIn
  <2>2. k = l
    BY <2>1 DEF SameListener, Inv, Distinct
  <2> QED BY <2>1, <2>2 DEF IfcsAsIn
<1>2. ASSUME NEW i \in IfcsOf(l) PROVE \E x \in c.ifcs : IfcAsIn(i, x)
  <2>1. i \in ifcs /\ ifc[i].l = l
    BY DEF IfcsOf
  <2>2. PICK d \in cfg : SameListener(l, d) /\ \E x \in d.ifcs : SameIfc(i, x)
    BY <2>1 DEF Known, KnownIfc
  <2>3. d = c
    BY <2>2 DEF SameListener, WellFormed
  <2>4. PICK x \in c.ifcs : SameIfc(i, x)
    BY <2>2, <2>3
  <2>5. PICK j \in IfcsOf(l) : IfcAsIn(j, x)
    BY <1>1
  <2>6. j \in ifcs /\ ifc[j].l = l /\ ifc[j].name = ifc[i].name
    BY <2>4, <2>5 DEF IfcsOf, IfcAsIn, SameIfc
  <2>7. i = j
    BY <2>1, <2>6 DEF Inv, Distinct
  <2> QED BY <2>5, <2>7
<1> QED BY <1>1, <1>2

\* So SaveConfig would write of it what the file has, but for routes.
LEMMA ListenerSaved ==
  ASSUME Inv, NothingTemporary, NEW cfg \in SUBSET OwnListener, WellFormed(cfg), Known(cfg),
         \A c \in cfg : ListenerAsIn(c), NEW l \in listeners, NEW c \in cfg, SameListener(l, c)
  PROVE  /\ FixedListener(SavedListener(l)) = FixedListener(c)
         /\ \A i \in IfcsOf(l) : \E x \in c.ifcs : x.vni = ifc[i].vni /\ \A r \in SavedRows(i) : r \in x.rows
<1>1. c.ifcs \subseteq OwnIfc
  BY DEF OwnListener
<1>2. \A i \in IfcsOf(l) : SavedRows(i) \subseteq Row
  BY DEF Inv, IfcOwn, IfcsTyped, IfcsOf, SavedRows
<1>3. \A i \in IfcsOf(l), x \in c.ifcs : IfcAsIn(i, x) =>
        /\ FixedIfc(SavedIfc(i)) = FixedIfc(x) /\ x.vni = ifc[i].vni
        /\ \A r \in SavedRows(i) : r \in x.rows
  BY <1>1, <1>2, IfcSaved DEF IfcAsIn, SameIfc
<1>4. \A x \in c.ifcs : \E i \in IfcsOf(l) : IfcAsIn(i, x)
  BY IfcsCovered
<1>5. \A i \in IfcsOf(l) : \E x \in c.ifcs : IfcAsIn(i, x)
  BY IfcsCovered
<1>6. {FixedIfc(y) : y \in {SavedIfc(i) : i \in IfcsOf(l)}} = {FixedIfc(x) : x \in c.ifcs}
  BY <1>3, <1>4, <1>5
<1>7. FixedListener(SavedListener(l)) =
        [addr |-> lst[l].addr, name |-> lst[l].name,
         ifcs |-> {FixedIfc(y) : y \in {SavedIfc(i) : i \in IfcsOf(l)}}]
  <2>1. PICK k : k = SavedListener(l)
    OBVIOUS
  <2>2. PICK ys : ys = {SavedIfc(i) : i \in IfcsOf(l)}
    OBVIOUS
  <2>3. k = [addr |-> lst[l].addr, name |-> lst[l].name, ifcs |-> ys]
    BY <2>1, <2>2 DEF SavedListener
  <2>4. FixedListener(k) = [addr |-> k.addr, name |-> k.name, ifcs |-> {FixedIfc(y) : y \in k.ifcs}]
    <3>1. PICK as, ns, xs : k \in [addr: as, name: ns, ifcs: xs]
      <4>1. k \in [addr: {lst[l].addr}, name: {lst[l].name}, ifcs: {ys}]
        BY <2>3
      <4> QED BY <4>1
    <3> QED BY <3>1 DEF FixedListener
  <2> QED BY <2>1, <2>2, <2>3, <2>4
<1>8. FixedListener(c) = [addr |-> c.addr, name |-> c.name, ifcs |-> {FixedIfc(x) : x \in c.ifcs}]
  BY DEF FixedListener, OwnListener
<1>9. FixedListener(SavedListener(l)) = FixedListener(c)
  BY <1>6, <1>7, <1>8 DEF SameListener
<1> QED BY <1>3, <1>5, <1>9

\* The routes of a configuration.
LEMMA RoutesAre ==
  ASSUME NEW cfg, NEW z
  PROVE  z \in RoutesOf(cfg) <=>
           \E c \in cfg : \E x \in c.ifcs : \E r \in x.rows : r.kind = "route" /\ z = <<c.addr, x.vni, r>>
BY DEF RoutesOf

\* What an ApplyConfig that was alone leaves behind is what its file says.
LEMMA DoneConfigured ==
  ASSUME Inv, NothingTemporary, NEW p \in Appliers, Progress(app[p]), Done(p)
  PROVE  /\ Fixed(Current) = Fixed(app[p].cfg)
         /\ RoutesOf(Current) \subseteq RoutesOf(app[p].cfg)
<1>1. PICK s : s = app[p]
  OBVIOUS
<1>2. s \in AppState /\ WellFormed(s.cfg) /\ s.pc = "find" /\ s.todo = {} /\ ListenersDone(s)
  BY <1>1, AtIs DEF Progress, Done, At, InFile
<1>3. PICK cfg \in SUBSET OwnListener : cfg = s.cfg
  BY <1>2 DEF AppState
<1>4. WellFormed(cfg) /\ Known(cfg) /\ \A c \in cfg : ListenerAsIn(c)
  BY <1>2, <1>3 DEF ListenersDone, Past
<1>5. Current = {SavedListener(l) : l \in listeners}
  BY AllWritten
<1>6. \A l \in listeners : \E c \in cfg : SameListener(l, c)
  BY <1>4 DEF Known, KnownListener
<1>7. \A c \in cfg : \E l \in listeners : SameListener(l, c)
  BY <1>4 DEF ListenerAsIn
<1>8. \A l \in listeners, c \in cfg : SameListener(l, c) =>
        /\ FixedListener(SavedListener(l)) = FixedListener(c)
        /\ \A i \in IfcsOf(l) : \E x \in c.ifcs : x.vni = ifc[i].vni /\ \A r \in SavedRows(i) : r \in x.rows
  BY <1>4, ListenerSaved
<1>9. {FixedListener(d) : d \in Current} = {FixedListener(c) : c \in cfg}
  BY <1>5, <1>6, <1>7, <1>8
<1>10. Fixed(Current) = Fixed(cfg)
  BY <1>9 DEF Fixed, FixedListener, FixedIfc
<1>11. ASSUME NEW z \in RoutesOf(Current) PROVE z \in RoutesOf(cfg)
  <2>1. PICK d \in Current :
          \E y \in d.ifcs : \E r \in y.rows : r.kind = "route" /\ z = <<d.addr, y.vni, r>>
    BY <1>11, RoutesAre
  <2>2. PICK l \in listeners : d = SavedListener(l)
    BY <1>5
  <2>3. d.addr = lst[l].addr /\ d.ifcs = {SavedIfc(i) : i \in IfcsOf(l)}
    BY <2>2 DEF SavedListener
  <2>4. PICK i \in IfcsOf(l) :
          \E r \in SavedIfc(i).rows : r.kind = "route" /\ z = <<d.addr, SavedIfc(i).vni, r>>
    BY <2>1, <2>3
  <2>5. PICK r \in SavedRows(i) : r.kind = "route" /\ z = <<d.addr, ifc[i].vni, r>>
    BY <2>4 DEF SavedIfc
  <2>6. PICK c \in cfg : SameListener(l, c)
    BY <1>6
  <2>7. PICK x \in c.ifcs : x.vni = ifc[i].vni /\ \A q \in SavedRows(i) : q \in x.rows
    BY <1>8, <2>6
  <2>8. r \in x.rows /\ z = <<c.addr, x.vni, r>>
    BY <2>3, <2>5, <2>6, <2>7 DEF SameListener
  <2> QED BY <2>5, <2>8, RoutesAre
<1> QED BY <1>1, <1>3, <1>10, <1>11

\* An ApplyConfig that finds permanent objects only, that nobody disturbs and that ends
\* without an error leaves behind what its file says, but for routes.
THEOREM AppliedIsConfigured == Spec => AppliedAsConfigured
<1>1. Inv /\ Undisturbed /\ [Next]_vars =>
        [\A p \in Appliers : quiet /\ Done(p) =>
           /\ Fixed(Current) = Fixed(app[p].cfg)
           /\ RoutesOf(Current) \subseteq RoutesOf(app[p].cfg)]_vars
  <2> SUFFICES ASSUME Inv, Undisturbed, NEW p \in Appliers, Done(p), quiet
               PROVE  /\ Fixed(Current) = Fixed(app[p].cfg)
                      /\ RoutesOf(Current) \subseteq RoutesOf(app[p].cfg)
    OBVIOUS
  <2>1. app[p].pc # "idle"
    BY DEF Done, At
  <2>2. NothingTemporary /\ Progress(app[p])
    BY <2>1 DEF Undisturbed, States
  <2> QED BY <2>2, DoneConfigured
<1> QED BY <1>1, UndisturbedHolds, PTL DEF Spec, AppliedAsConfigured
=============================================================================
