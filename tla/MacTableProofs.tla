--------------------------- MODULE MacTableProofs ---------------------------
(***************************************************************************)
(* Proofs about module MacTable, for every set of walkers and rows and     *)
(* every bound on the length of the table.                                 *)
(*                                                                         *)
(* ListingExact speaks of the rows read so far; what is inductive speaks   *)
(* of the places still to be read (Good): they have held only rows the     *)
(* table has had since the call, among them what a live array holds now,   *)
(* and those no removal has touched have held one row only.                *)
(***************************************************************************)
EXTENDS MacTable, SequenceTheorems, TLAPS

\* What is true of a walk x while the table is the first n rows of array c.
Good(x, c, n) ==
  /\ Len(x.had) = Len(x.was)
  /\ Len(x.seen) <= Len(x.was)
  /\ \A k \in 1..Len(x.seen) : /\ x.seen[k] \in Mixes(x.during)
                               /\ k <= x.intact => x.seen[k] = x.was[k]
  /\ \A k \in 1..Len(x.was) : /\ x.had[k] \subseteq x.during
                              /\ k <= x.intact => x.had[k] = {x.was[k]}
  /\ x.live => /\ Len(x.was) <= Len(c)
               /\ x.intact <= n
               /\ \A k \in 1..n : c[k] \in x.during
               /\ \A k \in 1..Len(x.was) : c[k] \in x.had[k]

Types ==
  /\ cells \in Seq(Row)
  /\ len \in 0..MaxRows /\ len <= Len(cells)
  /\ walk \in [Walkers -> {Idle} \cup Walk]

AllGood == \A w \in Walkers : walk[w].pc = "walk" => Good(walk[w], cells, len)

IInv == Types /\ AllGood

-----------------------------------------------------------------------------

\* A state of a walker is idle or a walk.
LEMMA WalkKinds ==
  ASSUME NEW x \in {Idle} \cup Walk
  PROVE  \/ x = Idle /\ x.pc = "idle"
         \/ x \in Walk /\ x.pc = "walk"
BY DEF Idle, Walk

\* The fields of a walk.
LEMMA WalkFields ==
  ASSUME NEW x \in Walk
  PROVE  /\ x.pc = "walk" /\ x.live \in BOOLEAN /\ x.intact \in Nat /\ x.intact <= MaxRows
         /\ x.had \in Seq(SUBSET Row) /\ x.seen \in Seq(Mixes(Row))
         /\ x.was \in Seq(Row) /\ x.during \subseteq Row
         /\ Len(x.had) \in Nat /\ Len(x.seen) \in Nat /\ Len(x.was) \in Nat
BY MacTableAssumption DEF Walk

\* More rows mix into more.
LEMMA MixesGrow ==
  ASSUME NEW S, NEW T, S \subseteq T
  PROVE  Mixes(S) \subseteq Mixes(T)
BY DEF Mixes

\* What a new row, a new array, a write and a removal do to one walk.
LEMMA AppearingWalk ==
  ASSUME NEW x \in Walk, NEW r \in Row
  PROVE  LET y == Appearing(x, r) IN
         /\ y \in Walk
         /\ y.during = x.during \cup {r} /\ y.live = x.live /\ y.had = x.had
         /\ y.seen = x.seen /\ y.was = x.was /\ y.intact = x.intact
BY DEF Walk, Appearing

LEMMA LeavingWalk ==
  ASSUME NEW x \in Walk
  PROVE  LET y == Leaving(x) IN
         /\ y \in Walk /\ ~y.live
         /\ y.during = x.during /\ y.had = x.had
         /\ y.seen = x.seen /\ y.was = x.was /\ y.intact = x.intact
BY DEF Walk, Leaving

LEMMA WrittenWalk ==
  ASSUME NEW x \in Walk, NEW c \in Seq(Row), x.live => Len(x.had) <= Len(c)
  PROVE  LET y == Written(x, c) IN
         /\ y \in Walk
         /\ y.during = x.during /\ y.live = x.live
         /\ y.seen = x.seen /\ y.was = x.was /\ y.intact = x.intact
         /\ Len(y.had) = Len(x.had)
         /\ ~x.live => y.had = x.had
         /\ x.live => \A k \in 1..Len(x.had) : y.had[k] = x.had[k] \cup {c[k]}
<1> DEFINE y == Written(x, c)
           h == [k \in DOMAIN x.had |-> x.had[k] \cup {c[k]}]
<1>0. x.pc = "walk" /\ x.live \in BOOLEAN /\ x.had \in Seq(SUBSET Row)
  BY WalkFields
<1>1. CASE ~x.live
  BY <1>0, <1>1 DEF Written
<1>2. CASE x.live
  <2>1. \A k \in 1..Len(x.had) : x.had[k] \subseteq Row /\ c[k] \in Row
    BY <1>0, <1>2
  <2>2. DOMAIN x.had = 1..Len(x.had) /\ Len(x.had) \in Nat
    BY <1>0
  <2>3. h \in [1..Len(x.had) -> SUBSET Row]
    BY <2>1, <2>2
  <2>4. /\ h \in Seq(SUBSET Row) /\ Len(h) = Len(x.had)
        /\ \A k \in 1..Len(x.had) : h[k] = x.had[k] \cup {c[k]}
    BY <2>2, <2>3
  <2>5. y = [x EXCEPT !.had = h]
    BY <1>0, <1>2 DEF Written
  <2> HIDE DEF y, h
  <2>6. /\ y \in Walk /\ y.had = h
        /\ y.during = x.during /\ y.live = x.live
        /\ y.seen = x.seen /\ y.was = x.was /\ y.intact = x.intact
    BY <2>4, <2>5 DEF Walk
  <2> QED BY <1>2, <2>4, <2>6 DEF y
<1> QED BY <1>0, <1>1, <1>2

LEMMA CutWalk ==
  ASSUME NEW x \in Walk, NEW p \in Nat \ {0}
  PROVE  LET y == Cut(x, p) IN
         /\ y \in Walk
         /\ y.during = x.during /\ y.live = x.live /\ y.had = x.had
         /\ y.seen = x.seen /\ y.was = x.was
         /\ y.intact = IF x.live /\ p <= x.intact THEN p - 1 ELSE x.intact
<1>1. x.pc = "walk" /\ x.intact \in 0..MaxRows
  BY DEF Walk
<1>2. p <= x.intact => p - 1 \in 0..MaxRows
  BY <1>1, MacTableAssumption
<1> QED BY <1>1, <1>2 DEF Walk, Cut

\* None of them begins a walk.
LEMMA IdleStays ==
  ASSUME NEW r, NEW c, NEW p
  PROVE  /\ Appearing(Idle, r) = Idle /\ Leaving(Idle) = Idle
         /\ Written(Idle, c) = Idle /\ Cut(Idle, p) = Idle
BY DEF Idle, Appearing, Leaving, Written, Cut

-----------------------------------------------------------------------------

\* At first the table is empty and nobody walks.
LEMMA InitInv == Init => IInv
<1> SUFFICES ASSUME Init PROVE IInv
  OBVIOUS
<1>1. Types
  BY MacTableAssumption DEF Init, Types
<1>2. AllGood
  BY DEF Init, AllGood, Idle
<1> QED BY <1>1, <1>2 DEF IInv

\* A walk whose array is given up has the places it has, whatever becomes of the
\* table.
LEMMA LeavingGood ==
  ASSUME NEW x \in Walk, NEW c, NEW n, Good(x, c, n), NEW d, NEW m
  PROVE  Leaving(x) \in Walk /\ ~Leaving(x).live /\ Good(Leaving(x), d, m)
<1> DEFINE y == Leaving(x)
<1>1. /\ y \in Walk /\ ~y.live /\ y.during = x.during /\ y.had = x.had
      /\ y.seen = x.seen /\ y.was = x.was /\ y.intact = x.intact
  BY LeavingWalk
<1> HIDE DEF y
<1>2. Good(y, d, m)
  BY <1>1 DEF Good
<1> QED BY <1>1, <1>2 DEF y

\* A row appended in place, behind everything a walk still counts on.
LEMMA AppendGood ==
  ASSUME NEW x \in Walk, NEW c \in Seq(Row), NEW n \in Nat, n <= Len(c), Good(x, c, n),
         NEW r \in Row, NEW d \in Seq(Row), Len(d) >= Len(c), n + 1 <= Len(d), d[n + 1] = r,
         \A k \in 1..Len(c) : k # n + 1 => d[k] = c[k]
  PROVE  LET y == Appearing(Written(x, d), r) IN y \in Walk /\ Good(y, d, n + 1)
<1> DEFINE z == Written(x, d)
           y == Appearing(z, r)
<1>0. /\ x.live \in BOOLEAN /\ x.intact \in Nat /\ x.during \subseteq Row
      /\ Len(x.had) \in Nat /\ Len(x.seen) \in Nat /\ Len(x.was) \in Nat
      /\ Len(x.had) = Len(x.was) /\ Len(c) \in Nat /\ Len(d) \in Nat
      /\ x.live => Len(x.was) <= Len(c) /\ x.intact <= n
  BY WalkFields DEF Good
<1>1. /\ z \in Walk /\ z.during = x.during /\ z.live = x.live
      /\ z.seen = x.seen /\ z.was = x.was /\ z.intact = x.intact
      /\ Len(z.had) = Len(x.had)
      /\ ~x.live => z.had = x.had
      /\ x.live => \A k \in 1..Len(x.had) : z.had[k] = x.had[k] \cup {d[k]}
  <2>1. x.live => Len(x.had) <= Len(d)
    BY <1>0
  <2> QED BY <2>1, WrittenWalk
<1> HIDE DEF z
<1>2. /\ y \in Walk /\ y.during = x.during \cup {r} /\ y.live = x.live /\ y.had = z.had
      /\ y.seen = x.seen /\ y.was = x.was /\ y.intact = x.intact
  <2>1. /\ y \in Walk /\ y.during = z.during \cup {r} /\ y.live = z.live /\ y.had = z.had
        /\ y.seen = z.seen /\ y.was = z.was /\ y.intact = z.intact
    BY <1>1, AppearingWalk
  <2> HIDE DEF y
  <2> QED BY <1>1, <2>1
<1> HIDE DEF y
<1>3. Mixes(x.during) \subseteq Mixes(y.during)
  BY <1>2, MixesGrow
<1>4. /\ Len(y.had) = Len(y.was) /\ Len(y.seen) <= Len(y.was)
      /\ \A k \in 1..Len(y.seen) : /\ y.seen[k] \in Mixes(y.during)
                                   /\ k <= y.intact => y.seen[k] = y.was[k]
  <2>1. /\ Len(x.seen) <= Len(x.was)
        /\ \A k \in 1..Len(x.seen) : /\ x.seen[k] \in Mixes(x.during)
                                     /\ k <= x.intact => x.seen[k] = x.was[k]
    BY DEF Good
  <2> QED BY <1>0, <1>1, <1>2, <1>3, <2>1
<1>5. \A k \in 1..Len(x.was) : /\ x.had[k] \subseteq x.during
                               /\ k <= x.intact => x.had[k] = {x.was[k]}
  BY DEF Good
<1>6. ASSUME ~x.live PROVE Good(y, d, n + 1)
  <2>1. \A k \in 1..Len(y.was) : /\ y.had[k] \subseteq y.during
                                 /\ k <= y.intact => y.had[k] = {y.was[k]}
    BY <1>1, <1>2, <1>5, <1>6
  <2> QED BY <1>2, <1>4, <1>6, <2>1 DEF Good
<1>7. ASSUME x.live PROVE Good(y, d, n + 1)
  <2>1. \A k \in 1..Len(x.was) : d[k] \in {r, c[k]} /\ (k <= x.intact => d[k] = c[k])
    BY <1>0, <1>7
  <2>2. /\ \A k \in 1..Len(x.was) : c[k] \in x.had[k]
        /\ \A k \in 1..n : c[k] \in x.during
    BY <1>7 DEF Good
  <2>3. \A k \in 1..Len(x.was) : y.had[k] = x.had[k] \cup {d[k]}
    BY <1>0, <1>1, <1>2, <1>7
  <2>4. \A k \in 1..Len(x.was) : c[k] \in x.during
    BY <1>5, <2>2
  <2>5. \A k \in 1..Len(y.was) : /\ y.had[k] \subseteq y.during
                                 /\ k <= y.intact => y.had[k] = {y.was[k]}
                                 /\ d[k] \in y.had[k]
    <3> SUFFICES ASSUME NEW k \in 1..Len(x.was)
                 PROVE  /\ y.had[k] \subseteq y.during
                        /\ k <= y.intact => y.had[k] = {y.was[k]}
                        /\ d[k] \in y.had[k]
      BY <1>2
    <3>1. y.had[k] = x.had[k] \cup {d[k]} /\ x.had[k] \subseteq x.during
      BY <1>5, <2>3
    <3>2. d[k] \in x.during \cup {r}
      BY <2>1, <2>4
    <3>3. k <= x.intact => x.had[k] = {x.was[k]} /\ d[k] \in x.had[k]
      BY <1>5, <2>1, <2>2
    <3>4. k <= x.intact => y.had[k] = {x.was[k]}
      BY <3>1, <3>3
    <3> QED BY <1>2, <3>1, <3>2, <3>4
  <2>6. \A k \in 1..(n + 1) : d[k] \in y.during
    <3> SUFFICES ASSUME NEW k \in 1..(n + 1) PROVE d[k] \in y.during
      OBVIOUS
    <3>1. CASE k = n + 1
      BY <1>2, <3>1
    <3>2. CASE k # n + 1
      <4>1. k \in 1..n /\ k \in 1..Len(c)
        BY <1>0, <3>2
      <4> QED BY <1>2, <2>2, <3>2, <4>1
    <3> QED BY <3>1, <3>2
  <2>7. Len(y.was) <= Len(d) /\ y.intact <= n + 1
    BY <1>0, <1>2, <1>7
  <2> QED BY <1>4, <2>5, <2>6, <2>7 DEF Good
<1>8. Good(y, d, n + 1)
  BY <1>0, <1>6, <1>7
<1> QED BY <1>2, <1>8 DEF y, z

\* A row is appended behind the last, in place or in a new array.
LEMMA AddStep ==
  ASSUME IInv, NEW r \in Row, AddMACEntry(r)
  PROVE  IInv'
<1>1. /\ cells \in Seq(Row) /\ len \in Nat /\ len <= Len(cells) /\ Len(cells) \in Nat
      /\ walk \in [Walkers -> {Idle} \cup Walk] /\ MaxRows \in Nat
  BY MacTableAssumption DEF IInv, Types
<1>2. len' = len + 1 /\ len' \in 0..MaxRows
  BY <1>1 DEF AddMACEntry
<1>3. /\ cells' \in Seq(Row) /\ len' <= Len(cells') /\ Len(cells') >= Len(cells)
      /\ cells'[len + 1] = r
      /\ \A k \in 1..Len(cells) : k # len + 1 => cells'[k] = cells[k]
  <2>1. CASE len < Len(cells) /\ cells' = [cells EXCEPT ![len + 1] = r]
    BY <1>1, <1>2, <2>1
  <2>2. CASE len = Len(cells) /\ cells' = Append(cells, r)
    BY <1>1, <1>2, <2>2
  <2>3. len = Len(cells) \/ len < Len(cells)
    BY <1>1
  <2> QED BY <2>1, <2>2, <2>3 DEF AddMACEntry
<1>4. ASSUME NEW x \in Walk, Good(x, cells, len)
      PROVE  LET y == Appearing(Written(x, cells'), r) IN y \in Walk /\ Good(y, cells', len')
  <2>1. len + 1 <= Len(cells')
    BY <1>2, <1>3
  <2> QED BY <1>1, <1>2, <1>3, <1>4, <2>1, AppendGood
<1>5. ASSUME NEW x \in Walk, Good(x, cells, len)
      PROVE  LET y == Appearing(Leaving(x), r) IN y \in Walk /\ Good(y, cells', len')
  <2> DEFINE z == Leaving(x)
             y == Appearing(z, r)
  <2>1. z \in Walk /\ ~z.live /\ Good(z, cells', len')
    BY <1>5, LeavingGood
  <2> HIDE DEF z
  <2>2. /\ y \in Walk /\ y.during = z.during \cup {r} /\ y.live = z.live /\ y.had = z.had
        /\ y.seen = z.seen /\ y.was = z.was /\ y.intact = z.intact
    BY <2>1, AppearingWalk
  <2> HIDE DEF y
  <2>3. Mixes(z.during) \subseteq Mixes(y.during)
    BY <2>2, MixesGrow
  <2>4. Good(y, cells', len')
    BY <2>1, <2>2, <2>3 DEF Good
  <2> QED BY <2>2, <2>4 DEF y, z
<1>6. ASSUME NEW w \in Walkers
      PROVE  /\ walk'[w] \in {Idle} \cup Walk
             /\ walk'[w].pc = "walk" => Good(walk'[w], cells', len')
  <2>1. \/ walk'[w] = Appearing(Written(walk[w], cells'), r)
        \/ walk'[w] = Appearing(Leaving(walk[w]), r)
    BY DEF AddMACEntry
  <2>2. CASE walk[w] = Idle
    BY <2>1, <2>2, IdleStays DEF Idle
  <2>3. CASE walk[w] \in Walk
    <3>1. Good(walk[w], cells, len)
      BY <2>3, WalkKinds DEF IInv, AllGood, Walk
    <3> QED BY <1>4, <1>5, <2>1, <2>3, <3>1
  <2> QED BY <1>1, <2>2, <2>3
<1>7. walk' = [w \in Walkers |-> walk'[w]]
  BY DEF AddMACEntry
<1>8. walk' \in [Walkers -> {Idle} \cup Walk]
  BY <1>6, <1>7
<1> QED BY <1>2, <1>3, <1>6, <1>8 DEF IInv, Types, AllGood

\* The rows from place p on move down, and nothing from there on is counted on.
LEMMA ShiftGood ==
  ASSUME NEW x \in Walk, NEW c \in Seq(Row), NEW n \in Nat, n <= Len(c), Good(x, c, n),
         NEW p \in 1..n, NEW d \in Seq(Row), Len(d) = Len(c),
         \A k \in 1..Len(c) : d[k] = IF k \in p..(n - 1) THEN c[k + 1] ELSE c[k]
  PROVE  LET y == Cut(Written(x, d), p) IN y \in Walk /\ Good(y, d, n - 1)
<1> DEFINE z == Written(x, d)
           y == Cut(z, p)
<1>0. /\ x.live \in BOOLEAN /\ x.intact \in Nat
      /\ Len(x.had) \in Nat /\ Len(x.seen) \in Nat /\ Len(x.was) \in Nat
      /\ Len(x.had) = Len(x.was) /\ Len(c) \in Nat /\ p \in Nat \ {0}
      /\ x.live => Len(x.was) <= Len(c) /\ x.intact <= n
  BY WalkFields DEF Good
<1>1. /\ z \in Walk /\ z.during = x.during /\ z.live = x.live
      /\ z.seen = x.seen /\ z.was = x.was /\ z.intact = x.intact
      /\ Len(z.had) = Len(x.had)
      /\ ~x.live => z.had = x.had
      /\ x.live => \A k \in 1..Len(x.had) : z.had[k] = x.had[k] \cup {d[k]}
  <2>1. x.live => Len(x.had) <= Len(d)
    BY <1>0
  <2> QED BY <2>1, WrittenWalk
<1> HIDE DEF z
<1>2. /\ y \in Walk /\ y.during = x.during /\ y.live = x.live /\ y.had = z.had
      /\ y.seen = x.seen /\ y.was = x.was
      /\ y.intact = IF x.live /\ p <= x.intact THEN p - 1 ELSE x.intact
  <2>1. /\ y \in Walk
        /\ y.during = z.during /\ y.live = z.live /\ y.had = z.had
        /\ y.seen = z.seen /\ y.was = z.was
        /\ y.intact = IF z.live /\ p <= z.intact THEN p - 1 ELSE z.intact
    BY <1>0, <1>1, CutWalk
  <2> HIDE DEF y
  <2> QED BY <1>1, <2>1
<1> HIDE DEF y
<1>3. y.intact \in Nat /\ y.intact <= x.intact /\ (x.live => y.intact < p)
  BY <1>0, <1>2
<1>4. \A k \in 1..Len(y.seen) : /\ y.seen[k] \in Mixes(y.during)
                                /\ k <= y.intact => y.seen[k] = y.was[k]
  BY <1>0, <1>2, <1>3 DEF Good
<1>5. \A k \in 1..Len(x.was) : /\ x.had[k] \subseteq x.during
                               /\ k <= x.intact => x.had[k] = {x.was[k]}
  BY DEF Good
<1>6. Len(y.had) = Len(y.was) /\ Len(y.seen) <= Len(y.was)
  BY <1>0, <1>1, <1>2 DEF Good
<1>7. ASSUME ~x.live PROVE Good(y, d, n - 1)
  <2>1. \A k \in 1..Len(y.was) : /\ y.had[k] \subseteq y.during
                                 /\ k <= y.intact => y.had[k] = {y.was[k]}
    BY <1>1, <1>2, <1>5, <1>7
  <2> QED BY <1>2, <1>4, <1>6, <1>7, <2>1 DEF Good
<1>8. ASSUME x.live PROVE Good(y, d, n - 1)
  <2>1. /\ \A k \in 1..Len(x.was) : c[k] \in x.had[k]
        /\ \A k \in 1..n : c[k] \in x.during
    BY <1>8 DEF Good
  <2>2. \A k \in 1..Len(x.was) : y.had[k] = x.had[k] \cup {d[k]}
    BY <1>0, <1>1, <1>2, <1>8
  <2>3. \A k \in 1..Len(y.was) : /\ y.had[k] \subseteq y.during
                                 /\ k <= y.intact => y.had[k] = {y.was[k]}
                                 /\ d[k] \in y.had[k]
    <3> SUFFICES ASSUME NEW k \in 1..Len(x.was)
                 PROVE  /\ y.had[k] \subseteq y.during
                        /\ k <= y.intact => y.had[k] = {y.was[k]}
                        /\ d[k] \in y.had[k]
      BY <1>2
    <3>1. /\ y.had[k] = x.had[k] \cup {d[k]} /\ x.had[k] \subseteq x.during
          /\ c[k] \in x.had[k] /\ k \in 1..Len(c)
      BY <1>0, <1>5, <1>8, <2>1, <2>2
    <3>2. d[k] \in x.during
      <4>1. CASE k \in p..(n - 1)
        <5>1. k + 1 \in 1..n /\ d[k] = c[k + 1]
          BY <1>0, <3>1, <4>1
        <5> QED BY <2>1, <5>1
      <4>2. CASE ~(k \in p..(n - 1))
        BY <3>1, <4>2
      <4> QED BY <4>1, <4>2
    <3>3. k <= y.intact => x.had[k] = {x.was[k]} /\ d[k] = c[k]
      <4>1. k <= y.intact => k <= x.intact /\ k < p
        BY <1>0, <1>3, <1>8
      <4> QED BY <1>5, <3>1, <4>1
    <3>4. k <= y.intact => y.had[k] = {x.was[k]}
      BY <3>1, <3>3
    <3> QED BY <1>2, <3>1, <3>2, <3>4
  <2>4. \A k \in 1..(n - 1) : d[k] \in y.during
    <3> SUFFICES ASSUME NEW k \in 1..(n - 1) PROVE d[k] \in y.during
      OBVIOUS
    <3>1. k \in 1..Len(c) /\ k \in 1..n /\ k + 1 \in 1..n
      BY <1>0
    <3>2. d[k] = c[k + 1] \/ d[k] = c[k]
      BY <3>1
    <3> QED BY <1>2, <2>1, <3>1, <3>2
  <2>5. Len(y.was) <= Len(d) /\ y.intact <= n - 1
    BY <1>0, <1>2, <1>3, <1>8
  <2> QED BY <1>4, <1>6, <2>3, <2>4, <2>5 DEF Good
<1>9. Good(y, d, n - 1)
  BY <1>0, <1>7, <1>8
<1> QED BY <1>2, <1>9 DEF y, z

\* A row is removed: those behind it move down in the array.
LEMMA RemoveStep ==
  ASSUME IInv, NEW r \in Row, RemoveMACEntry(r)
  PROVE  IInv'
<1>1. /\ cells \in Seq(Row) /\ len \in Nat /\ len <= Len(cells) /\ Len(cells) \in Nat
      /\ len \in 0..MaxRows /\ MaxRows \in Nat
      /\ walk \in [Walkers -> {Idle} \cup Walk]
  BY MacTableAssumption DEF IInv, Types
<1>2. PICK p \in 1..len :
        /\ cells' = [j \in DOMAIN cells |-> IF j \in p..(len - 1) THEN cells[j + 1] ELSE cells[j]]
        /\ walk' = [w \in Walkers |-> Cut(Written(walk[w], cells'), p)]
  BY DEF RemoveMACEntry
<1>3. len' = len - 1 /\ len' \in 0..MaxRows
  BY <1>1, <1>2 DEF RemoveMACEntry
<1>4. \A j \in 1..Len(cells) : j \in p..(len - 1) => j + 1 \in 1..Len(cells)
  BY <1>1, <1>2
<1>5. /\ cells' \in Seq(Row) /\ Len(cells') = Len(cells)
      /\ \A j \in 1..Len(cells) : cells'[j] = IF j \in p..(len - 1) THEN cells[j + 1] ELSE cells[j]
  <2>1. DOMAIN cells = 1..Len(cells) /\ \A j \in 1..Len(cells) : cells[j] \in Row
    BY <1>1
  <2>2. cells' \in [1..Len(cells) -> Row]
    BY <1>2, <1>4, <2>1
  <2> QED BY <1>1, <1>2, <2>1, <2>2
<1>6. ASSUME NEW w \in Walkers
      PROVE  /\ walk'[w] \in {Idle} \cup Walk
             /\ walk'[w].pc = "walk" => Good(walk'[w], cells', len')
  <2>1. walk'[w] = Cut(Written(walk[w], cells'), p)
    BY <1>2
  <2>2. CASE walk[w] = Idle
    BY <2>1, <2>2, IdleStays DEF Idle
  <2>3. CASE walk[w] \in Walk
    <3>1. Good(walk[w], cells, len)
      BY <2>3, WalkKinds DEF IInv, AllGood, Walk
    <3> QED BY <1>1, <1>3, <1>5, <2>1, <2>3, <3>1, ShiftGood
  <2> QED BY <1>1, <2>2, <2>3
<1>7. walk' = [w \in Walkers |-> walk'[w]]
  BY <1>2
<1>8. walk' \in [Walkers -> {Idle} \cup Walk]
  BY <1>6, <1>7
<1>9. len' <= Len(cells')
  BY <1>1, <1>3, <1>5
<1> QED BY <1>3, <1>5, <1>6, <1>8, <1>9 DEF IInv, Types, AllGood

\* The table is dropped, and every walk keeps the array it has.
LEMMA FlushStep ==
  ASSUME IInv, FlushMACTable
  PROVE  IInv'
<1>1. MaxRows \in Nat /\ walk \in [Walkers -> {Idle} \cup Walk]
  BY MacTableAssumption DEF IInv, Types
<1>2. cells' = <<>> /\ cells' \in Seq(Row) /\ len' = 0 /\ Len(cells') = 0
  BY DEF FlushMACTable
<1>3. ASSUME NEW w \in Walkers
      PROVE  /\ walk'[w] \in {Idle} \cup Walk
             /\ walk'[w].pc = "walk" => Good(walk'[w], cells', len')
  <2>1. walk'[w] = Leaving(walk[w])
    BY DEF FlushMACTable
  <2>2. CASE walk[w] = Idle
    BY <2>1, <2>2 DEF Idle, Leaving
  <2>3. CASE walk[w] \in Walk
    <3>1. Good(walk[w], cells, len)
      BY <2>3, WalkKinds DEF IInv, AllGood, Walk
    <3> QED BY <2>1, <2>3, <3>1, LeavingGood
  <2> QED BY <1>1, <2>2, <2>3
<1>4. walk' = [w \in Walkers |-> walk'[w]]
  BY DEF FlushMACTable
<1>5. walk' \in [Walkers -> {Idle} \cup Walk]
  BY <1>3, <1>4
<1> QED BY <1>1, <1>2, <1>3, <1>5 DEF IInv, Types, AllGood

\* A walk begins with the table as it is.
LEMMA GetStep ==
  ASSUME IInv, NEW w \in Walkers, GetMACEntries(w)
  PROVE  IInv'
<1>1. /\ cells \in Seq(Row) /\ len \in Nat /\ len <= Len(cells) /\ Len(cells) \in Nat
      /\ len \in 0..MaxRows /\ walk \in [Walkers -> {Idle} \cup Walk]
  BY MacTableAssumption DEF IInv, Types
<1> DEFINE h == [k \in 1..len |-> {cells[k]}]
           x == [pc |-> "walk", live |-> TRUE, had |-> h, seen |-> <<>>,
                 was |-> Table, during |-> RowsOf(Table), intact |-> len]
<1>2. /\ Table \in Seq(Row) /\ Len(Table) = len
      /\ \A k \in 1..len : Table[k] = cells[k]
  BY <1>1, SubSeqProperties DEF Table
<1>3. \A k \in 1..len : Table[k] \in Row /\ Table[k] \in RowsOf(Table) /\ cells[k] \in Row
  BY <1>1, <1>2 DEF RowsOf
<1>4. RowsOf(Table) \subseteq Row
  BY <1>2 DEF RowsOf
<1>5. h \in Seq(SUBSET Row) /\ Len(h) = len /\ \A k \in 1..len : h[k] = {cells[k]}
  <2>1. h \in [1..len -> SUBSET Row]
    BY <1>3
  <2> QED BY <1>1, <2>1
<1>6. walk' = [walk EXCEPT ![w] = x] /\ UNCHANGED <<cells, len>>
  BY DEF GetMACEntries
<1> HIDE DEF h
<1>7. x \in Walk
  BY <1>1, <1>2, <1>4, <1>5 DEF Walk
<1>8. Good(x, cells, len)
  <2>1. /\ x.live /\ x.was = Table /\ x.during = RowsOf(Table) /\ x.had = h /\ x.intact = len
        /\ x.seen = <<>> /\ Len(x.seen) = 0
    OBVIOUS
  <2> HIDE DEF x
  <2> QED BY <1>1, <1>2, <1>3, <1>5, <2>1 DEF Good
<1> HIDE DEF x
<1> QED BY <1>1, <1>6, <1>7, <1>8 DEF IInv, Types, AllGood

\* A row is read, or the walk is over.
LEMMA NextRowStep ==
  ASSUME IInv, NEW w \in Walkers, NextRow(w)
  PROVE  IInv'
<1>1. /\ walk \in [Walkers -> {Idle} \cup Walk] /\ UNCHANGED <<cells, len>>
  BY DEF IInv, Types, NextRow
<1> DEFINE x == walk[w]
           k == Len(x.seen) + 1
<1>2. x \in Walk /\ Good(x, cells, len)
  BY <1>1, WalkKinds DEF NextRow, IInv, AllGood
<1>3. ASSUME k <= Len(x.had), NEW row \in Mixes(x.had[k]),
             walk' = [walk EXCEPT ![w].seen = Append(@, row)]
      PROVE  IInv'
  <2> DEFINE y == [x EXCEPT !.seen = Append(@, row)]
  <2>1. /\ x.seen \in Seq(Mixes(Row)) /\ x.had \in Seq(SUBSET Row) /\ x.was \in Seq(Row)
        /\ Len(x.seen) \in Nat /\ Len(x.had) = Len(x.was) /\ Len(x.was) \in Nat
        /\ x.during \subseteq Row /\ x.intact \in Nat
    BY <1>2, WalkFields DEF Good
  <2>2. k \in 1..Len(x.was)
    BY <1>3, <2>1
  <2>3. row \in Mixes(x.during) /\ row \in Mixes(Row)
    BY <1>2, <2>1, <2>2, MixesGrow DEF Good
  <2>4. k <= x.intact => row = x.was[k]
    <3> SUFFICES ASSUME k <= x.intact PROVE row = x.was[k]
      OBVIOUS
    <3>1. row \in Mixes({x.was[k]}) /\ x.was[k] \in Row
      BY <1>2, <1>3, <2>1, <2>2 DEF Good
    <3>2. row = [MAC |-> x.was[k].MAC, Dst |-> x.was[k].Dst, Permanent |-> x.was[k].Permanent]
      BY <3>1 DEF Mixes
    <3> QED BY <3>1, <3>2, MacTableAssumption
  <2>5. walk' = [walk EXCEPT ![w] = y]
    BY <1>3
  <2>6. /\ y \in Walk /\ y.seen = Append(x.seen, row)
        /\ y.live = x.live /\ y.had = x.had
        /\ y.was = x.was /\ y.during = x.during /\ y.intact = x.intact
    <3>1. Append(x.seen, row) \in Seq(Mixes(Row))
      BY <2>1, <2>3
    <3> HIDE DEF x, k
    <3> QED BY <1>2, <3>1 DEF Walk
  <2>7. /\ Len(y.seen) = k /\ y.seen[k] = row
        /\ \A j \in 1..Len(x.seen) : y.seen[j] = x.seen[j]
    BY <2>1, <2>3, <2>6
  <2>8. \A j \in 1..k : j = k \/ j \in 1..Len(x.seen)
    BY <2>1
  <2> HIDE DEF k, y
  <2>9. \A j \in 1..k : /\ y.seen[j] \in Mixes(y.during)
                        /\ j <= y.intact => y.seen[j] = y.was[j]
    BY <1>2, <2>3, <2>4, <2>6, <2>7, <2>8 DEF Good
  <2>10. Good(y, cells, len)
    BY <1>2, <2>2, <2>6, <2>7, <2>9 DEF Good
  <2>11. walk'[w] = y /\ \A v \in Walkers \ {w} : walk'[v] = walk[v]
    BY <1>1, <2>5
  <2>12. walk' \in [Walkers -> {Idle} \cup Walk]
    BY <1>1, <2>5, <2>6
  <2> QED BY <1>1, <2>10, <2>11, <2>12 DEF IInv, Types, AllGood
<1>4. CASE walk' = [walk EXCEPT ![w] = Idle]
  <2>1. walk'[w] = Idle /\ \A v \in Walkers \ {w} : walk'[v] = walk[v]
    BY <1>1, <1>4
  <2>2. walk' \in [Walkers -> {Idle} \cup Walk]
    BY <1>1, <1>4
  <2>3. Idle.pc # "walk"
    BY DEF Idle
  <2> QED BY <1>1, <2>1, <2>2, <2>3 DEF IInv, Types, AllGood
<1> QED BY <1>3, <1>4 DEF NextRow

\* The invariant is inductive.
LEMMA NextInv == IInv /\ [Next]_vars => IInv'
<1>1. IInv /\ UNCHANGED vars => IInv'
  BY DEF IInv, Types, AllGood, vars
<1> QED BY <1>1, AddStep, RemoveStep, FlushStep, GetStep, NextRowStep DEF Next

\* Every variable keeps its type, and no walker's slice is longer than its array.
THEOREM TypeCorrect == Spec => []TypeOK
<1>1. IInv => TypeOK
  <2> SUFFICES ASSUME IInv PROVE TypeOK
    OBVIOUS
  <2>1. ASSUME NEW w \in Walkers, walk[w].pc = "walk", walk[w].live
        PROVE  Len(walk[w].had) <= Len(cells)
    BY <2>1 DEF IInv, AllGood, Good
  <2> QED BY <2>1 DEF IInv, Types, TypeOK
<1> QED BY <1>1, InitInv, NextInv, PTL DEF Spec

\* A walk without the lock reads only words of rows the table has had since the
\* call, never beyond its slice, and the rows before the first that was removed
\* as they were.
THEOREM ListingIsExact == Spec => []ListingExact
<1>1. IInv => ListingExact
  BY DEF IInv, AllGood, Good, ListingExact
<1> QED BY <1>1, InitInv, NextInv, PTL DEF Spec
=============================================================================
