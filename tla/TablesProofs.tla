---------------------------- MODULE TablesProofs ----------------------------
(***************************************************************************)
(* Proofs about module Tables, for every set of handlers, routes, addresses *)
(* and MACs.                                                               *)
(*                                                                         *)
(* TypeOK, with the exclusion of the two locks, is inductive together with  *)
(* Room: who is to add a row still has the room it found.  The kernel's    *)
(* routes are counted against the rows of the table, for which the         *)
(* kernel's set of routes has to be finite (Counted).                      *)
(***************************************************************************)
EXTENDS Tables, FiniteSetTheorems, SequenceTheorems, TLAPS

Proc == {Idle} \cup Routing \cup Addressing

-----------------------------------------------------------------------------
(* Rows and routes, counted.                                                 *)

\* The rows of a table, and the routes of a set, of r's network and gateway.
Rows(table, r) == {k \in 1..Len(table) : SameRoute(table[k], r)}
Routes(set, r) == {s \in set : SameRoute(s, r)}

\* The rows of a table are finitely many.
LEMMA RowsFinite ==
  ASSUME NEW t \in Seq(Route), NEW r
  PROVE  IsFiniteSet(Rows(t, r))
<1>1. IsFiniteSet(1..Len(t))
  BY FS_Interval
<1> QED BY <1>1, FS_Subset DEF Rows

\* Appending a row of r's network and gateway adds one, any other row none.
LEMMA AppendRow ==
  ASSUME NEW t \in Seq(Route), NEW s \in Route, NEW r
  PROVE  Cardinality(Rows(Append(t, s), r))
           = Cardinality(Rows(t, r)) + (IF SameRoute(s, r) THEN 1 ELSE 0)
<1> DEFINE u == Append(t, s)
<1>1. /\ Len(u) = Len(t) + 1 /\ u[Len(t) + 1] = s
      /\ \A k \in 1..Len(t) : u[k] = t[k]
  OBVIOUS
<1>2. Len(t) \in Nat
  OBVIOUS
<1> HIDE DEF u
<1>3. CASE SameRoute(s, r)
  <2>1. Rows(u, r) = Rows(t, r) \cup {Len(t) + 1} /\ Len(t) + 1 \notin Rows(t, r)
    BY <1>1, <1>2, <1>3 DEF Rows
  <2> QED BY <1>3, <2>1, RowsFinite, FS_AddElement DEF u
<1>4. CASE ~SameRoute(s, r)
  <2>1. Rows(u, r) = Rows(t, r)
    BY <1>1, <1>2, <1>4 DEF Rows
  <2>2. Cardinality(Rows(t, r)) \in Nat
    BY RowsFinite, FS_CardinalityType
  <2> QED BY <1>4, <2>1, <2>2 DEF u
<1> QED BY <1>3, <1>4

\* What RemoveAt makes of a sequence.
LEMMA RemoveAtIs ==
  ASSUME NEW t \in Seq(Route), NEW p \in 1..Len(t)
  PROVE  LET u == RemoveAt(t, p) IN
         /\ u \in Seq(Route)
         /\ Len(u) = Len(t) - 1
         /\ \A k \in 1..Len(u) : u[k] = IF k < p THEN t[k] ELSE t[k + 1]
<1> DEFINE u == RemoveAt(t, p)
           a == SubSeq(t, 1, p - 1)
           b == SubSeq(t, p + 1, Len(t))
<1>1. a \in Seq(Route) /\ Len(a) = p - 1 /\ \A k \in 1..(p - 1) : a[k] = t[k]
  BY SubSeqProperties
<1>2. b \in Seq(Route) /\ Len(b) = Len(t) - p /\ \A k \in 1..(Len(t) - p) : b[k] = t[p + k]
  BY SubSeqProperties
<1>3. u = a \o b
  BY DEF RemoveAt
<1> HIDE DEF a, b, u
<1>4. /\ u \in Seq(Route)
      /\ Len(u) = Len(a) + Len(b)
      /\ \A k \in 1..Len(a) + Len(b) : u[k] = IF k <= Len(a) THEN a[k] ELSE b[k - Len(a)]
  BY <1>1, <1>2, <1>3, ConcatProperties
<1>5. Len(u) = Len(t) - 1
  BY <1>1, <1>2, <1>4
<1>6. ASSUME NEW k \in 1..Len(u) PROVE u[k] = IF k < p THEN t[k] ELSE t[k + 1]
  <2>1. CASE k < p
    <3>1. k \in 1..(p - 1) /\ k <= Len(a) /\ k \in 1..Len(a) + Len(b)
      BY <1>1, <1>4, <1>5, <2>1
    <3> QED BY <1>1, <1>4, <2>1, <3>1
  <2>2. CASE ~(k < p)
    <3>1. /\ k - Len(a) \in 1..(Len(t) - p) /\ ~(k <= Len(a)) /\ k \in 1..Len(a) + Len(b)
          /\ p + (k - Len(a)) = k + 1
      BY <1>1, <1>4, <1>5, <2>2
    <3>2. u[k] = b[k - Len(a)] /\ b[k - Len(a)] = t[p + (k - Len(a))]
      BY <1>2, <1>4, <3>1
    <3> QED BY <2>2, <3>1, <3>2
  <2> QED BY <2>1, <2>2
<1> QED BY <1>4, <1>5, <1>6 DEF u

\* Removing a row takes one from those it is like, and none from the others.
LEMMA RemoveOne ==
  ASSUME NEW t \in Seq(Route), NEW p \in 1..Len(t), NEW r
  PROVE  Cardinality(Rows(RemoveAt(t, p), r))
           >= Cardinality(Rows(t, r)) - (IF SameRoute(t[p], r) THEN 1 ELSE 0)
<1> DEFINE u == RemoveAt(t, p)
           old == Rows(t, r) \ {p}
           new == Rows(u, r)
           f == [k \in old |-> IF k < p THEN k ELSE k - 1]
<1>1. u \in Seq(Route) /\ Len(u) = Len(t) - 1
      /\ \A k \in 1..Len(u) : u[k] = IF k < p THEN t[k] ELSE t[k + 1]
  BY RemoveAtIs
<1>2. Len(t) \in Nat
  OBVIOUS
<1> HIDE DEF u
<1>3. IsFiniteSet(old) /\ IsFiniteSet(new) /\ IsFiniteSet(Rows(t, r))
  BY <1>1, RowsFinite, FS_RemoveElement
<1>4. ASSUME NEW k \in old PROVE f[k] \in new
  <2>1. k \in 1..Len(t) /\ k # p /\ SameRoute(t[k], r)
    BY DEF Rows
  <2>2. CASE k < p
    <3>1. k \in 1..Len(u) /\ u[k] = t[k]
      BY <1>1, <1>2, <2>1, <2>2
    <3> QED BY <2>1, <2>2, <3>1 DEF Rows
  <2>3. CASE ~(k < p)
    <3>1. k - 1 \in 1..Len(u) /\ ~(k - 1 < p) /\ (k - 1) + 1 = k
      BY <1>1, <1>2, <2>1, <2>3
    <3>2. u[k - 1] = t[k]
      BY <1>1, <3>1
    <3> QED BY <2>1, <2>3, <3>1, <3>2 DEF Rows
  <2> QED BY <2>2, <2>3
<1>5. ASSUME NEW j \in old, NEW k \in old, f[j] = f[k] PROVE j = k
  <2>1. j \in 1..Len(t) /\ k \in 1..Len(t) /\ j # p /\ k # p
    BY DEF Rows
  <2> QED BY <1>2, <1>5, <2>1
<1>6. f \in Injection(old, new)
  BY <1>4, <1>5 DEF Injection, IsInjective
<1>7. Cardinality(old) <= Cardinality(new)
  BY <1>3, <1>6, FS_Injection DEF ExistsInjection
<1>8. Cardinality(old) = IF p \in Rows(t, r) THEN Cardinality(Rows(t, r)) - 1 ELSE Cardinality(Rows(t, r))
  BY <1>3, FS_RemoveElement
<1>9. p \in Rows(t, r) <=> SameRoute(t[p], r)
  BY DEF Rows
<1>10. Cardinality(Rows(t, r)) \in Nat /\ Cardinality(new) \in Nat
  BY <1>3, FS_CardinalityType
<1> HIDE DEF old, new, f
<1>11. Cardinality(new) >= Cardinality(Rows(t, r)) - (IF SameRoute(t[p], r) THEN 1 ELSE 0)
  BY <1>7, <1>8, <1>9, <1>10
<1> QED BY <1>11 DEF new, u

-----------------------------------------------------------------------------
(* Types and locks.                                                          *)

\* What each kind of handler state is.
LEMMA ProcKinds ==
  ASSUME NEW x \in Proc
  PROVE  /\ x.pc \in {"idle", "route", "addresses"}
         /\ x.pc = "idle" <=> x = Idle
         /\ x.pc = "route" => x.op \in {"add", "remove"} /\ x.r \in Route
         /\ x.pc = "addresses" => x.want \in SUBSET Address
BY DEF Proc, Idle, Routing, Addressing

\* Two handlers are never in the same kind of operation.
OneInEach ==
  \A g, h \in Handlers : proc[g].pc # "idle" /\ proc[g].pc = proc[h].pc => g = h

\* The types and the exclusion of the locks hold at first.
LEMMA TypeInit == Init => TypeOK
<1> SUFFICES ASSUME Init PROVE TypeOK
  OBVIOUS
<1>1. \A h \in Handlers : proc[h] = Idle /\ proc[h].pc = "idle"
  BY DEF Init, Idle
<1>2. route \in Seq(Route) /\ Len(route) = 0 /\ MaxRoutes \in Nat
  BY TablesAssumption DEF Init
<1>3. proc \in [Handlers -> {Idle} \cup Routing \cup Addressing]
  BY DEF Init
<1> QED BY <1>1, <1>2, <1>3 DEF Init, TypeOK, TunWritten, TunRead

\* A handler's step keeps the exclusion of the locks when it leaves its
\* operation or enters one whose lock nobody has.
LEMMA ProcStep ==
  ASSUME TypeOK, NEW h \in Handlers, NEW x \in Proc, proc' = [proc EXCEPT ![h] = x],
         \/ x.pc = "idle"
         \/ x.pc = "route" /\ TablesFree
         \/ x.pc = "addresses" /\ CanLockTun,
         arp' = arp
  PROVE  proc' \in [Handlers -> Proc] /\ OneInEach' /\ ~(TunWritten /\ TunRead)'
<1>1. proc \in [Handlers -> Proc] /\ OneInEach /\ ~(TunWritten /\ TunRead)
  BY DEF TypeOK, OneInEach, Proc
<1>2. proc' \in [Handlers -> Proc] /\ proc'[h] = x /\ \A g \in Handlers \ {h} : proc'[g] = proc[g]
  BY <1>1
<1>3. OneInEach'
  BY <1>1, <1>2 DEF OneInEach, TablesFree, CanLockTun, TunWritten
<1>4. ~(TunWritten /\ TunRead)'
  BY <1>1, <1>2 DEF TunWritten, TunRead, CanLockTun
<1> QED BY <1>2, <1>3, <1>4

\* What RemoveRow leaves: the table, or the table with one row of the network
\* and the gateway taken out.
LEMMA RemoveRowIs ==
  ASSUME NEW r, route \in Seq(Route), RemoveRow(r)
  PROVE  \/ Rows(route, r) = {} /\ route' = route
         \/ \E k \in 1..Len(route) : SameRoute(route[k], r) /\ route' = RemoveAt(route, k)
BY DEF RemoveRow, Rows

\* Who is to add a row has i.tables, so that the room it has found is still there.
Room ==
  \A h \in Handlers : proc[h].pc = "route" /\ proc[h].op = "add" => Len(route) < MaxRoutes

\* No step takes the room from who is to add a row.
LEMMA RoomStep == TypeOK /\ Room /\ [Next]_vars => Room'
<1> SUFFICES ASSUME TypeOK, Room, [Next]_vars PROVE Room'
  OBVIOUS
<1>1. /\ proc \in [Handlers -> Proc] /\ OneInEach
      /\ route \in Seq(Route) /\ MaxRoutes \in Nat
  BY TablesAssumption DEF TypeOK, Proc, OneInEach
<1>2. Idle.pc = "idle"
  BY DEF Idle
<1>3. ASSUME NEW h \in Handlers, AddStaticRoute(h) \/ RemoveStaticRoute(h) PROVE Room'
  <2>1. \A g \in Handlers : proc'[g].pc # "route"
    BY <1>1, <1>2, <1>3 DEF AddStaticRoute, RemoveStaticRoute, OneInEach
  <2> QED BY <2>1 DEF Room
<1>4. ASSUME NEW h \in Handlers, NEW op \in {"add", "remove"}, NEW r \in Route, LockTables(h, op, r)
      PROVE  Room'
  <2>1. proc'[h].op = op /\ route' = route /\ \A g \in Handlers \ {h} : proc'[g] = proc[g]
    BY <1>1, <1>4 DEF LockTables
  <2> QED BY <1>4, <2>1 DEF LockTables, Room
<1>5. ASSUME NEW h \in Handlers,
             (\E want \in SUBSET Address : SetIPAddresses(h, want)) \/ AddressesSet(h)
      PROVE  Room'
  <2>1. /\ proc'[h].pc # "route" /\ route' = route
        /\ \A g \in Handlers \ {h} : proc'[g] = proc[g]
    BY <1>1, <1>2, <1>5 DEF SetIPAddresses, AddressesSet
  <2> QED BY <2>1 DEF Room
<1>6. ASSUME UNCHANGED <<proc, route>> PROVE Room'
  BY <1>6 DEF Room
<1>7. ASSUME NEW h \in Handlers, NextAddress(h) \/ \E m \in Mac : SetMACAddress(h, m) PROVE Room'
  BY <1>6, <1>7 DEF NextAddress, SetMACAddress
<1>8. CASE LinkDown \/ HandleRequest \/ FindRequester \/ LearnRequester \/ Reply
  BY <1>6, <1>8 DEF LinkDown, HandleRequest, FindRequester, LearnRequester, Reply
<1>9. CASE GetGateway \/ FindAddress \/ Send \/ UNCHANGED vars
  BY <1>6, <1>9 DEF GetGateway, FindAddress, Send, vars
<1> QED BY <1>3, <1>4, <1>5, <1>7, <1>8, <1>9 DEF Next

\* No step breaks the types or lets two goroutines in at once.
LEMMA TypeStep == TypeOK /\ Room /\ [Next]_vars => TypeOK'
<1> SUFFICES ASSUME TypeOK, Room, [Next]_vars PROVE TypeOK'
  OBVIOUS
<1>1. /\ proc \in [Handlers -> Proc] /\ OneInEach /\ ~(TunWritten /\ TunRead)
      /\ route \in Seq(Route) /\ Len(route) <= MaxRoutes /\ MaxRoutes \in Nat
  BY TablesAssumption DEF TypeOK, Proc, OneInEach
<1>2. ASSUME route' \in Seq(Route), Len(route') <= MaxRoutes,
             kernel' \subseteq Route, address' \subseteq Address, device' \subseteq Address,
             mac' \in Mac, arp' \in {"idle", "find", "learn", "reply"},
             reader' \in {"idle", "address", "send"},
             proc' \in [Handlers -> Proc], OneInEach', ~(TunWritten /\ TunRead)'
      PROVE  TypeOK'
  BY <1>2 DEF TypeOK, Proc, OneInEach
<1>3. ASSUME NEW h \in Handlers, NEW op \in {"add", "remove"}, NEW r \in Route, LockTables(h, op, r)
      PROVE  TypeOK'
  <2>1. [pc |-> "route", op |-> op, r |-> r] \in Proc
    BY DEF Proc, Routing
  <2>2. proc' \in [Handlers -> Proc] /\ OneInEach' /\ ~(TunWritten /\ TunRead)'
    BY <1>3, <2>1, ProcStep DEF LockTables
  <2> QED BY <1>2, <1>3, <2>2 DEF LockTables, TypeOK
<1>4. ASSUME NEW h \in Handlers, proc' = [proc EXCEPT ![h] = Idle], arp' = arp
      PROVE  proc' \in [Handlers -> Proc] /\ OneInEach' /\ ~(TunWritten /\ TunRead)'
  <2>1. Idle \in Proc /\ Idle.pc = "idle"
    BY DEF Proc, Idle
  <2> QED BY <1>4, <2>1, ProcStep
<1>5. ASSUME NEW h \in Handlers, AddStaticRoute(h) PROVE TypeOK'
  <2>1. proc[h].r \in Route /\ proc[h].op = "add"
    BY <1>1, <1>5, ProcKinds DEF AddStaticRoute
  <2>2. kernel' \subseteq Route
    BY <1>5, <2>1 DEF AddStaticRoute, RouteAdd, TypeOK
  <2>3. route' \in Seq(Route) /\ Len(route') <= MaxRoutes
    <3>1. CASE route' = Append(route, proc[h].r)
      <4>1. Len(route) < MaxRoutes /\ Len(route) \in Nat
        BY <1>1, <1>5 DEF AddStaticRoute, Room
      <4>2. Len(route') = Len(route) + 1 /\ route' \in Seq(Route)
        BY <1>1, <2>1, <3>1
      <4> QED BY <1>1, <4>1, <4>2
    <3>2. CASE UNCHANGED route
      BY <1>1, <3>2
    <3> QED BY <1>5, <3>1, <3>2 DEF AddStaticRoute
  <2> QED BY <1>2, <1>4, <1>5, <2>2, <2>3 DEF AddStaticRoute, TypeOK
<1>6. ASSUME NEW h \in Handlers, RemoveStaticRoute(h) PROVE TypeOK'
  <2>1. kernel' \subseteq Route
    BY <1>6 DEF RemoveStaticRoute, RouteDel, TypeOK
  <2>2. route' \in Seq(Route) /\ Len(route') <= Len(route) /\ Len(route') \in Nat /\ Len(route) \in Nat
    <3>1. CASE route' = route
      BY <1>1, <3>1
    <3>2. CASE \E k \in 1..Len(route) : route' = RemoveAt(route, k)
      BY <1>1, <3>2, RemoveAtIs
    <3> QED BY <1>1, <1>6, <3>1, <3>2, RemoveRowIs DEF RemoveStaticRoute
  <2>3. Len(route') <= MaxRoutes
    BY <1>1, <2>2
  <2> QED BY <1>2, <1>4, <1>6, <2>1, <2>2, <2>3 DEF RemoveStaticRoute, TypeOK
<1>7. ASSUME NEW h \in Handlers, NEW want \in SUBSET Address, SetIPAddresses(h, want)
      PROVE  TypeOK'
  <2>1. [pc |-> "addresses", want |-> want] \in Proc
    BY DEF Proc, Addressing
  <2>2. proc' \in [Handlers -> Proc] /\ OneInEach' /\ ~(TunWritten /\ TunRead)'
    BY <1>7, <2>1, ProcStep DEF SetIPAddresses
  <2> QED BY <1>2, <1>7, <2>2 DEF SetIPAddresses, TypeOK
<1>8. ASSUME NEW h \in Handlers, NextAddress(h) PROVE TypeOK'
  <2>1. proc[h].want \in SUBSET Address
    BY <1>1, <1>8, ProcKinds DEF NextAddress
  <2>2. device' \subseteq Address
    BY <1>8, <2>1 DEF NextAddress, TypeOK
  <2> QED BY <1>8, <2>2 DEF NextAddress, TypeOK, TunWritten, TunRead
<1>9. ASSUME NEW h \in Handlers, AddressesSet(h) PROVE TypeOK'
  BY <1>1, <1>2, <1>4, <1>9 DEF AddressesSet, TypeOK
<1>10. ASSUME NEW h \in Handlers, NEW m \in Mac, SetMACAddress(h, m) PROVE TypeOK'
  BY <1>10 DEF SetMACAddress, TypeOK, TunWritten, TunRead
<1>11. CASE LinkDown
  BY <1>11 DEF LinkDown, TypeOK, TunWritten, TunRead
<1>12. CASE HandleRequest
  BY <1>12 DEF HandleRequest, TypeOK, TunWritten, TunRead
<1>13. CASE FindRequester \/ LearnRequester \/ Reply
  BY <1>13 DEF FindRequester, LearnRequester, Reply, TypeOK, TunWritten, TunRead
<1>14. CASE GetGateway \/ FindAddress \/ Send
  BY <1>14 DEF GetGateway, FindAddress, Send, TypeOK, TunWritten, TunRead
<1>15. CASE UNCHANGED vars
  BY <1>15 DEF vars, TypeOK, TunWritten, TunRead
<1> QED BY <1>3, <1>5, <1>6, <1>7, <1>8, <1>9, <1>10, <1>11, <1>12, <1>13, <1>14, <1>15 DEF Next

\* i.tables and i.tun exclude as locks do and every variable keeps its type,
\* whatever the handlers, HandleARP and the TUN reader do.
THEOREM TypeCorrect == Spec => []TypeOK
<1>1. Init => Room
  BY DEF Init, Room, Idle
<1> QED BY <1>1, TypeInit, TypeStep, RoomStep, PTL DEF Spec

-----------------------------------------------------------------------------
(* Routes of the kernel and rows of the table.                               *)

\* KernelRoutesListed, with what is needed to count.
Counted == IsFiniteSet(kernel) /\ KernelRoutesListed

\* A route put into the kernel and into the table leaves both counts in step.
LEMMA AddCounted ==
  ASSUME NEW s \in Route, route \in Seq(Route), Counted,
         RouteAdd(s), route' = Append(route, s)
  PROVE  Counted'
<1>1. IsFiniteSet(kernel) /\ s \notin kernel /\ kernel' = kernel \cup {s}
  BY DEF Counted, RouteAdd
<1>2. IsFiniteSet(kernel')
  BY <1>1, FS_AddElement
<1>3. ASSUME NEW r \in Route
      PROVE  Cardinality(Routes(kernel', r)) <= Cardinality(Rows(route', r))
  <2>1. IsFiniteSet(Routes(kernel, r))
    BY <1>1, FS_Subset DEF Routes
  <2>2. Cardinality(Routes(kernel, r)) <= Cardinality(Rows(route, r))
    BY DEF Counted, KernelRoutesListed, Routes, Rows
  <2>3. Cardinality(Routes(kernel, r)) \in Nat /\ Cardinality(Rows(route, r)) \in Nat
    BY <2>1, RowsFinite, FS_CardinalityType
  <2>4. Cardinality(Rows(route', r))
          = Cardinality(Rows(route, r)) + (IF SameRoute(s, r) THEN 1 ELSE 0)
    BY AppendRow
  <2>5. CASE SameRoute(s, r)
    <3>1. Routes(kernel', r) = Routes(kernel, r) \cup {s} /\ s \notin Routes(kernel, r)
      BY <1>1, <2>5 DEF Routes
    <3>2. Cardinality(Routes(kernel', r)) = Cardinality(Routes(kernel, r)) + 1
      BY <2>1, <3>1, FS_AddElement
    <3> QED BY <2>2, <2>3, <2>4, <2>5, <3>2
  <2>6. CASE ~SameRoute(s, r)
    <3>1. Routes(kernel', r) = Routes(kernel, r)
      BY <1>1, <2>6 DEF Routes
    <3> QED BY <2>2, <2>3, <2>4, <2>6, <3>1
  <2> QED BY <2>5, <2>6
<1> QED BY <1>2, <1>3 DEF Counted, KernelRoutesListed, Routes, Rows

\* A route taken out of the kernel and one row of its network and gateway taken
\* out of the table leave both counts in step, though the metrics may differ.
LEMMA RemoveCounted ==
  ASSUME NEW q \in Route, route \in Seq(Route), Counted, RouteDel(q), RemoveRow(q)
  PROVE  Counted'
<1>1. PICK s \in kernel : SameRoute(s, q) /\ kernel' = kernel \ {s}
  BY DEF RouteDel
<1>2. IsFiniteSet(kernel) /\ IsFiniteSet(kernel')
  BY <1>1, FS_RemoveElement DEF Counted
<1>3. ASSUME NEW r \in Route
      PROVE  Cardinality(Routes(kernel', r)) <= Cardinality(Rows(route', r))
  <2>1. IsFiniteSet(Routes(kernel, r))
    BY <1>2, FS_Subset DEF Routes
  <2>2. Cardinality(Routes(kernel, r)) <= Cardinality(Rows(route, r))
    BY DEF Counted, KernelRoutesListed, Routes, Rows
  <2>3. Cardinality(Routes(kernel, r)) \in Nat /\ Cardinality(Rows(route, r)) \in Nat
    BY <2>1, RowsFinite, FS_CardinalityType
  <2>4. Routes(kernel', r) = Routes(kernel, r) \ {s}
    BY <1>1 DEF Routes
  <2>5. s \in Routes(kernel, r) <=> SameRoute(q, r)
    BY <1>1 DEF Routes, SameRoute
  <2> DEFINE c == Cardinality(Routes(kernel, r))
             d == Cardinality(Routes(kernel', r))
  <2>9. d = IF s \in Routes(kernel, r) THEN c - 1 ELSE c
    BY <2>1, <2>4, FS_RemoveElement
  <2>6. d = c - (IF SameRoute(q, r) THEN 1 ELSE 0)
    <3> HIDE DEF c, d
    <3>1. c \in Nat
      BY <2>3 DEF c
    <3> QED BY <2>5, <2>9, <3>1
  <2>7. CASE route' = route /\ Rows(route, q) = {}
    <3>1. SameRoute(q, r) => Rows(route, r) = {}
      BY <2>7 DEF Rows, SameRoute
    <3>2. SameRoute(q, r) => Cardinality(Rows(route, r)) = 0
      BY <3>1, FS_EmptySet
    <3> QED BY <2>2, <2>3, <2>6, <2>7, <3>2
  <2>8. CASE \E k \in 1..Len(route) : SameRoute(route[k], q) /\ route' = RemoveAt(route, k)
    <3>1. PICK k \in 1..Len(route) : SameRoute(route[k], q) /\ route' = RemoveAt(route, k)
      BY <2>8
    <3>2. SameRoute(route[k], r) <=> SameRoute(q, r)
      BY <3>1 DEF SameRoute
    <3>3. Cardinality(Rows(route', r))
            >= Cardinality(Rows(route, r)) - (IF SameRoute(q, r) THEN 1 ELSE 0)
      BY <3>1, <3>2, RemoveOne
    <3>4. route' \in Seq(Route)
      BY <3>1, RemoveAtIs
    <3>5. Cardinality(Rows(route', r)) \in Nat
      BY <3>4, RowsFinite, FS_CardinalityType
    <3> QED BY <2>2, <2>3, <2>6, <3>3, <3>5
  <2> QED BY <2>7, <2>8, RemoveRowIs
<1> QED BY <1>2, <1>3 DEF Counted, KernelRoutesListed, Routes, Rows

\* Nothing is counted at first.
LEMMA CountedInit == Init => Counted
<1> SUFFICES ASSUME Init PROVE Counted
  OBVIOUS
<1>1. kernel = {} /\ route = <<>> /\ Len(route) = 0 /\ route \in Seq(Route)
  BY DEF Init
<1>2. ASSUME NEW r \in Route
      PROVE  Cardinality(Routes(kernel, r)) <= Cardinality(Rows(route, r))
  <2>1. Routes(kernel, r) = {}
    BY <1>1 DEF Routes
  <2>2. Cardinality(Rows(route, r)) \in Nat
    BY <1>1, RowsFinite, FS_CardinalityType
  <2> QED BY <2>1, <2>2, FS_EmptySet
<1> QED BY <1>1, <1>2, FS_EmptySet DEF Counted, KernelRoutesListed, Routes, Rows

\* A step that leaves the routes alone leaves the counts.
LEMMA CountedStep == TypeOK /\ Counted /\ [Next]_vars => Counted'
<1> SUFFICES ASSUME TypeOK, Counted, [Next]_vars PROVE Counted'
  OBVIOUS
<1>1. route \in Seq(Route) /\ proc \in [Handlers -> Proc]
  BY DEF TypeOK, Proc
<1>2. ASSUME UNCHANGED <<route, kernel>> PROVE Counted'
  BY <1>2 DEF Counted, KernelRoutesListed
<1>3. ASSUME NEW h \in Handlers, AddStaticRoute(h) PROVE Counted'
  <2>1. proc[h].r \in Route
    BY <1>1, <1>3, ProcKinds DEF AddStaticRoute
  <2> QED BY <1>1, <1>2, <1>3, <2>1, AddCounted DEF AddStaticRoute
<1>4. ASSUME NEW h \in Handlers, RemoveStaticRoute(h) PROVE Counted'
  <2>1. proc[h].r \in Route
    BY <1>1, <1>4, ProcKinds DEF RemoveStaticRoute
  <2> QED BY <1>1, <1>2, <1>4, <2>1, RemoveCounted DEF RemoveStaticRoute
<1>5. CASE LinkDown
  <2>1. kernel' = {} /\ route' = route
    BY <1>5 DEF LinkDown
  <2>2. ASSUME NEW r \in Route
        PROVE  Cardinality(Routes(kernel', r)) <= Cardinality(Rows(route', r))
    <3>1. Routes(kernel', r) = {}
      BY <2>1 DEF Routes
    <3>2. Cardinality(Rows(route', r)) \in Nat
      BY <1>1, <2>1, RowsFinite, FS_CardinalityType
    <3> QED BY <3>1, <3>2, FS_EmptySet
  <2> QED BY <2>1, <2>2, FS_EmptySet DEF Counted, KernelRoutesListed, Routes, Rows
<1>6. ASSUME NEW h \in Handlers,
             \/ \E op \in {"add", "remove"}, r \in Route : LockTables(h, op, r)
             \/ \E want \in SUBSET Address : SetIPAddresses(h, want)
             \/ NextAddress(h)
             \/ AddressesSet(h)
             \/ \E m \in Mac : SetMACAddress(h, m)
      PROVE  Counted'
  BY <1>2, <1>6 DEF LockTables, SetIPAddresses, NextAddress, AddressesSet, SetMACAddress
<1>7. CASE HandleRequest \/ FindRequester \/ LearnRequester \/ Reply \/ GetGateway \/ FindAddress \/ Send
  BY <1>2, <1>7 DEF HandleRequest, FindRequester, LearnRequester, Reply, GetGateway, FindAddress, Send
<1>8. CASE UNCHANGED vars
  BY <1>2, <1>8 DEF vars
<1> QED BY <1>3, <1>4, <1>5, <1>6, <1>7, <1>8 DEF Next

\* Every route AddStaticRoute has put into the kernel has a row in the table by
\* which RemoveStaticRoute can take it out again.
THEOREM RoutesListed == Spec => []KernelRoutesListed
<1>1. Counted => KernelRoutesListed
  BY DEF Counted
<1> QED BY <1>1, CountedInit, CountedStep, TypeCorrect, PTL DEF Spec

-----------------------------------------------------------------------------
(* HandleARP.                                                                *)

\* While HandleARP has i.tun read-locked, neither SetIPAddresses nor
\* SetMACAddress changes what it answers with.
THEOREM AnswersWithOneAddress == Spec => StableWhileAnswering
<1>1. TypeOK /\ [Next]_vars => [TunRead /\ TunRead' => UNCHANGED <<address, mac>>]_vars
  <2> SUFFICES ASSUME TypeOK, Next, TunRead PROVE UNCHANGED <<address, mac>>
    OBVIOUS
  <2>1. ~TunWritten
    BY DEF TypeOK
  <2>2. ASSUME NEW h \in Handlers PROVE ~AddressesSet(h)
    BY <2>1 DEF AddressesSet, TunWritten
  <2>3. ASSUME NEW h \in Handlers, NEW m \in Mac PROVE ~SetMACAddress(h, m)
    BY DEF SetMACAddress, CanLockTun
  <2>4. ASSUME NEW h \in Handlers,
               \/ \E op \in {"add", "remove"}, r \in Route : LockTables(h, op, r)
               \/ AddStaticRoute(h)
               \/ RemoveStaticRoute(h)
               \/ \E want \in SUBSET Address : SetIPAddresses(h, want)
               \/ NextAddress(h)
        PROVE  UNCHANGED <<address, mac>>
    BY <2>4 DEF LockTables, AddStaticRoute, RemoveStaticRoute, SetIPAddresses, NextAddress
  <2>5. LinkDown \/ HandleRequest \/ FindRequester \/ LearnRequester \/ Reply
          \/ GetGateway \/ FindAddress \/ Send => UNCHANGED <<address, mac>>
    BY DEF LinkDown, HandleRequest, FindRequester, LearnRequester, Reply, GetGateway, FindAddress, Send
  <2> QED BY <2>2, <2>3, <2>4, <2>5 DEF Next
<1> QED BY <1>1, TypeCorrect, PTL DEF Spec, StableWhileAnswering

\* Once HandleARP waits for i.tables and a route handler for i.tun, no step of
\* anyone ends it: the interface needs a restart of the service.
THEOREM CrossedIsForEver == Spec => CrossedForever
<1>1. TypeOK /\ [Next]_vars => [Crossed => Crossed']_vars
  <2> SUFFICES ASSUME TypeOK, Next, Crossed PROVE Crossed'
    OBVIOUS
  <2>1. arp \in {"find", "learn"} /\ ~TablesFree /\ TunRead /\ ~CanLockTun /\ ~TunWritten
    BY DEF Crossed, TunRead, CanLockTun, TypeOK
  <2>2. ASSUME NEW h \in Handlers
        PROVE  /\ ~AddStaticRoute(h) /\ ~RemoveStaticRoute(h) /\ ~AddressesSet(h) /\ ~NextAddress(h)
               /\ \A op \in {"add", "remove"}, r \in Route : ~LockTables(h, op, r)
               /\ \A want \in SUBSET Address : ~SetIPAddresses(h, want)
               /\ \A m \in Mac : ~SetMACAddress(h, m)
    BY <2>1 DEF AddStaticRoute, RemoveStaticRoute, AddressesSet, NextAddress, TunWritten,
                LockTables, SetIPAddresses, SetMACAddress
  <2>3. ~HandleRequest /\ ~FindRequester /\ ~LearnRequester /\ ~Reply /\ ~GetGateway /\ ~Send
    BY <2>1 DEF HandleRequest, FindRequester, LearnRequester, Reply, GetGateway, Send
  <2>4. CASE LinkDown \/ FindAddress
    BY <2>1, <2>4 DEF LinkDown, FindAddress, Crossed, TablesFree
  <2> QED BY <2>2, <2>3, <2>4 DEF Next
<1> QED BY <1>1, TypeCorrect, PTL DEF Spec, CrossedForever
=============================================================================
