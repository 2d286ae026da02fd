------------------------------ MODULE MacTable ------------------------------
(***************************************************************************)
(* The MAC table of one vxlan interface as the Go slice it is: an array and *)
(* a length (interface.go).                                                *)
(*                                                                         *)
(* GetMACEntries takes i.tables for as long as it takes to return the      *)
(* slice itself.  SaveConfig and the gRPC handler then walk it with no     *)
(* lock, while other handlers append to the same array, move its rows down *)
(* or drop it.  The tables of routes and of ARP entries are handed out in  *)
(* the same way.                                                           *)
(*                                                                         *)
(* A row is several words and nothing orders the walk after the writes: by *)
(* the Go memory model each word read may be any that its place in the     *)
(* array has held since the slice was taken, so a row may be torn.  The    *)
(* walker therefore keeps, for each place, the rows it has held (had), and *)
(* reads any mixture of them.  The header of the slice MAC counts as one   *)
(* word: its length is the same for all addresses of six bytes.            *)
(***************************************************************************)
EXTENDS Integers, Sequences

CONSTANTS
  Walkers,  \* the goroutines that list the table
  Row,      \* the rows operators add
  MaxRows   \* bound on the length of the table

ASSUME MacTableAssumption ==
  /\ MaxRows \in Nat
  /\ \A r \in Row : r = [MAC |-> r.MAC, Dst |-> r.Dst, Permanent |-> r.Permanent]

VARIABLES
  cells,  \* the array behind i.tables.mac, as far as it has been written
  len,    \* the length of i.tables.mac
  walk    \* each walker's slice and how far it has come

vars == <<cells, len, walk>>

\* The rows whose every word is that word of one of the rows given.
Mixes(rows) == [MAC: {r.MAC : r \in rows}, Dst: {r.Dst : r \in rows},
                Permanent: {r.Permanent : r \in rows}]

Idle == [pc |-> "idle"]
\* live: its array is still the table's.  had: what each place of the slice has
\* held since the call.  seen: the rows read so far.
\* History: was is the table at the call, during the rows the table has had
\* since; no removal has touched the first intact rows of the array.
Walk == [pc: {"walk"}, live: BOOLEAN, had: Seq(SUBSET Row), seen: Seq(Mixes(Row)),
         was: Seq(Row), during: SUBSET Row, intact: 0..MaxRows]

TypeOK ==
  /\ cells \in Seq(Row)
  /\ len \in 0..MaxRows /\ len <= Len(cells)
  /\ walk \in [Walkers -> {Idle} \cup Walk]
  /\ \A w \in Walkers : walk[w].pc = "walk" /\ walk[w].live => Len(walk[w].had) <= Len(cells)

Table == SubSeq(cells, 1, len)
RowsOf(table) == {table[k] : k \in 1..Len(table)}

Init ==
  /\ cells = <<>>
  /\ len = 0
  /\ walk = [w \in Walkers |-> Idle]

-----------------------------------------------------------------------------

Same(r, s) == r.MAC = s.MAC /\ r.Dst = s.Dst

\* A row appears in the table.
Appearing(x, r) ==
  IF x.pc = "walk" THEN [x EXCEPT !.during = @ \cup {r}] ELSE x

\* The table's array is given up for another.
Leaving(x) ==
  IF x.pc = "walk" THEN [x EXCEPT !.live = FALSE] ELSE x

\* The array is written to and now holds the rows of c.
Written(x, c) ==
  IF x.pc = "walk" /\ x.live
  THEN [x EXCEPT !.had = [k \in DOMAIN @ |-> @[k] \cup {c[k]}]] ELSE x

\* The rows of the array from p on are no longer what they were.
Cut(x, p) ==
  IF x.pc = "walk" /\ x.live /\ p <= x.intact THEN [x EXCEPT !.intact = p - 1] ELSE x

\* append writes behind the last row of the array while that has room, which
\* it certainly has where a removal left some; else it may take a larger one.
AddMACEntry(r) ==
  /\ \A s \in RowsOf(Table) : ~Same(r, s)
  /\ len < MaxRows
  /\ len' = len + 1
  /\ \/ /\ cells' = IF len < Len(cells) THEN [cells EXCEPT ![len + 1] = r] ELSE Append(cells, r)
        /\ walk' = [w \in Walkers |-> Appearing(Written(walk[w], cells'), r)]
     \/ /\ len = Len(cells)
        /\ cells' = Append(cells, r)
        /\ walk' = [w \in Walkers |-> Appearing(Leaving(walk[w]), r)]

\* The rows behind the first that matches move down in the array itself.
RemoveMACEntry(r) ==
  /\ \E p \in 1..len :
       /\ Same(cells[p], r)
       /\ \A j \in 1..(p - 1) : ~Same(cells[j], r)
       /\ cells' = [j \in DOMAIN cells |-> IF j \in p..(len - 1) THEN cells[j + 1] ELSE cells[j]]
       /\ walk' = [w \in Walkers |-> Cut(Written(walk[w], cells'), p)]
  /\ len' = len - 1

\* Mutant: the table is cut to length zero, and its array used again.
FlushKeepsArray ==
  /\ len' = 0
  /\ UNCHANGED <<cells, walk>>

FlushMACTable ==
  /\ cells' = <<>>
  /\ len' = 0
  /\ walk' = [w \in Walkers |-> Leaving(walk[w])]

GetMACEntries(w) ==
  /\ walk[w] = Idle
  /\ walk' = [walk EXCEPT ![w] =
                [pc |-> "walk", live |-> TRUE, had |-> [k \in 1..len |-> {cells[k]}], seen |-> <<>>,
                 was |-> Table, during |-> RowsOf(Table), intact |-> len]]
  /\ UNCHANGED <<cells, len>>

\* The loops of SaveConfig and InterfaceGetMACEntries, without the lock.
NextRow(w) ==
  /\ walk[w].pc = "walk"
  /\ LET k == Len(walk[w].seen) + 1 IN
     IF k <= Len(walk[w].had)
     THEN \E row \in Mixes(walk[w].had[k]) : walk' = [walk EXCEPT ![w].seen = Append(@, row)]
     ELSE walk' = [walk EXCEPT ![w] = Idle]
  /\ UNCHANGED <<cells, len>>

Next ==
  \/ \E r \in Row : AddMACEntry(r) \/ RemoveMACEntry(r)
  \/ FlushMACTable
  \/ \E w \in Walkers : GetMACEntries(w) \/ NextRow(w)

Spec == Init /\ [][Next]_vars

-----------------------------------------------------------------------------
(* Properties.                                                               *)

\* A walk without the lock (SaveConfig, InterfaceGetMACEntries) never reads past
\* the slice it was given, and no word of a row that the table has not had at
\* some moment of the walk; the rows before the first that was removed from that
\* very array it reads as they were at the call, whatever is added, removed or
\* flushed meanwhile.  Of the others it may miss one that stays, read one twice,
\* or read one the table never had: the MAC of one, the destination of another.
ListingExact ==
  \A w \in Walkers : walk[w].pc = "walk" =>
    LET x == walk[w] IN
    /\ Len(x.seen) <= Len(x.was)
    /\ \A k \in 1..Len(x.seen) : /\ x.seen[k] \in Mixes(x.during)
                                 /\ k <= x.intact => x.seen[k] = x.was[k]
=============================================================================
