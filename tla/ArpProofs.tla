----------------------------- MODULE ArpProofs -----------------------------
(***************************************************************************)
(* Proofs about module Arp, for every set of addresses, MACs and updaters, *)
(* every lifetime, number of tries and clock bound.                        *)
(*                                                                         *)
(* The inductive invariant is AllInv.  Beyond the properties of Arp it says*)
(* that a busy goroutine has an address (WellFormed), that while HandleARP *)
(* holds the read lock everyone registered has either received or is still *)
(* to be sent to (StillToNotify), that table and handler hold only what    *)
(* was claimed, that so does the answer while the packet it may be part of *)
(* is not overwritten (AnswerIsClaimed), and that the reader has no answer *)
(* until it leaves its select (NotYetAnswered).                            *)
(***************************************************************************)
EXTENDS Arp, SequenceTheorems, TLAPS

-----------------------------------------------------------------------------
(* Event lists.                                                              *)

\* Taking e's channel out of an event list keeps every other channel and, when
\* the list has no duplicates, leaves no channel of e.
LEMMA WithoutChannel ==
  ASSUME NEW S, NEW s \in Seq(S), NEW e
  PROVE  LET r == Without(s, e) IN
         /\ r \in Seq(S)
         /\ \A x : x # e => (Contains(r, x) <=> Contains(s, x))
         /\ IsInjective(s) => ~Contains(r, e) /\ IsInjective(r)
<1> DEFINE r == Without(s, e)
<1>1. CASE ~Contains(s, e)
  BY <1>1 DEF Contains, Without
<1>2. CASE Contains(s, e)
  <2>1. PICK p \in 1..Len(s) : s[p] = e /\ r = RemoveAt(s, p)
    BY <1>2 DEF Without, Contains
  <2>2. /\ r \in Seq(S)
        /\ Len(r) = Len(s) - 1
        /\ \A k \in 1..Len(r) : r[k] = IF k < p THEN s[k] ELSE s[k+1]
    <3> DEFINE u == SubSeq(s, 1, p - 1)
               v == SubSeq(s, p + 1, Len(s))
    <3>1. u \in Seq(S) /\ Len(u) = p - 1 /\ \A k \in 1..(p - 1) : u[k] = s[k]
      BY SubSeqProperties
    <3>2. /\ v \in Seq(S) /\ Len(v) = Len(s) - p
          /\ \A k \in 1..(Len(s) - p) : v[k] = s[p + k]
      BY SubSeqProperties
    <3>3. r = u \o v
      BY <2>1 DEF RemoveAt
    <3> HIDE DEF u, v, r
    <3>4. /\ r \in Seq(S)
          /\ Len(r) = Len(u) + Len(v)
          /\ \A k \in 1..Len(u) + Len(v) : r[k] = IF k <= Len(u) THEN u[k] ELSE v[k - Len(u)]
      <4>1. u \in Seq(S) /\ v \in Seq(S)
        BY <3>1, <3>2
      <4>2. QED BY <3>3, <4>1, ConcatProperties
    <3>5. Len(r) = Len(s) - 1 /\ Len(u) = p - 1 /\ Len(v) = Len(s) - p
      BY <3>1, <3>2, <3>4
    <3>6. ASSUME NEW k \in 1..Len(r)
          PROVE  r[k] = IF k < p THEN s[k] ELSE s[k + 1]
      <4>1. k \in 1..Len(u) + Len(v) /\ k \in 1..(Len(s) - 1)
        BY <3>4, <3>5
      <4>2. CASE k < p
        <5>1. k \in 1..(p - 1) /\ k <= Len(u)
          BY <3>5, <4>1, <4>2
        <5>2. r[k] = u[k] /\ u[k] = s[k]
          BY <3>1, <3>4, <4>1, <5>1
        <5> QED BY <4>2, <5>2
      <4>3. CASE ~(k < p)
        <5>1. /\ k - Len(u) \in 1..(Len(s) - p) /\ ~(k <= Len(u))
              /\ p + (k - Len(u)) = k + 1
          BY <3>5, <4>1, <4>3
        <5>2. r[k] = v[k - Len(u)] /\ v[k - Len(u)] = s[p + (k - Len(u))]
          BY <3>2, <3>4, <4>1, <5>1
        <5> QED BY <4>3, <5>1, <5>2
      <4> QED BY <4>2, <4>3
    <3> QED BY <3>4, <3>5, <3>6
  <2> HIDE DEF r
  <2>3. \A x : x # e => (Contains(r, x) <=> Contains(s, x))
    <3> SUFFICES ASSUME NEW x, x # e PROVE Contains(r, x) <=> Contains(s, x)
      OBVIOUS
    <3>1. Contains(r, x) => Contains(s, x)
      <4> SUFFICES ASSUME NEW k \in 1..Len(r), r[k] = x PROVE Contains(s, x)
        BY DEF Contains
      <4>1. k \in 1..Len(s) /\ k + 1 \in 1..Len(s) /\ (s[k] = x \/ s[k + 1] = x)
        BY <2>2
      <4> QED BY <4>1 DEF Contains
    <3>2. ASSUME NEW k \in 1..Len(s), s[k] = x PROVE Contains(r, x)
      <4>1. CASE k < p
        BY <2>1, <2>2, <3>2, <4>1 DEF Contains
      <4>2. CASE k > p
        <5>1. k-1 \in 1..Len(r) /\ r[k-1] = x
          BY <2>1, <2>2, <3>2, <4>2
        <5>2. QED BY <5>1 DEF Contains
      <4>3. QED BY <2>1, <3>2, <4>1, <4>2
    <3>3. QED BY <3>1, <3>2 DEF Contains
  <2>4. ASSUME IsInjective(s) PROVE ~Contains(r, e) /\ IsInjective(r)
    <3>1. \A j, k \in 1..Len(s) : s[j] = s[k] => j = k
      BY <2>4 DEF IsInjective
    <3>2. DOMAIN r = 1..Len(r)
      BY <2>2
    <3>3. ~Contains(r, e)
      BY <2>1, <2>2, <3>1 DEF Contains
    <3>4. IsInjective(r)
      BY <2>1, <2>2, <3>1, <3>2 DEF IsInjective
    <3> QED BY <3>3, <3>4
  <2>5. QED BY <2>2, <2>3, <2>4 DEF r
<1> QED BY <1>1, <1>2

\* A channel appended to an event list is in it, and is new if it was not there.
LEMMA AppendChannel ==
  ASSUME NEW S, NEW s \in Seq(S), NEW e \in S
  PROVE  LET r == Append(s, e) IN
         /\ r \in Seq(S)
         /\ \A x : Contains(r, x) <=> Contains(s, x) \/ x = e
         /\ IsInjective(s) /\ ~Contains(s, e) => IsInjective(r)
  BY DEF Contains, IsInjective

\* After the first channel of a list has been sent to, the others are left.
LEMMA TailChannels ==
  ASSUME NEW S, NEW s \in Seq(S), s # <<>>
  PROVE  /\ Head(s) \in S
         /\ Contains(s, Head(s))
         /\ Tail(s) \in Seq(S)
         /\ \A x : Contains(s, x) <=> x = Head(s) \/ Contains(Tail(s), x)
         /\ Len(s) = 1 => \A x : ~Contains(Tail(s), x)
         /\ Len(s) # 1 => Tail(s) # <<>>
<1>1. /\ Head(s) = s[1] /\ Head(s) \in S /\ Tail(s) \in Seq(S)
      /\ Len(s) \in Nat \ {0} /\ Len(Tail(s)) = Len(s) - 1
      /\ \A k \in 1..Len(Tail(s)) : Tail(s)[k] = s[k + 1]
  BY HeadTailProperties
<1>2. Contains(s, Head(s))
  BY <1>1 DEF Contains
<1>3. ASSUME NEW x, Contains(s, x), x # Head(s) PROVE Contains(Tail(s), x)
  <2>1. PICK k \in 1..Len(s) : s[k] = x
    BY <1>3 DEF Contains
  <2>2. k - 1 \in 1..Len(Tail(s)) /\ Tail(s)[k - 1] = x
    BY <1>1, <1>3, <2>1
  <2> QED BY <2>2 DEF Contains
<1>4. ASSUME NEW x, Contains(Tail(s), x) PROVE Contains(s, x)
  <2>1. PICK k \in 1..Len(Tail(s)) : Tail(s)[k] = x
    BY <1>4 DEF Contains
  <2>2. k + 1 \in 1..Len(s) /\ s[k + 1] = x
    BY <1>1, <2>1
  <2> QED BY <2>2 DEF Contains
<1>5. Len(s) = 1 => \A x : ~Contains(Tail(s), x)
  BY <1>1 DEF Contains
<1> QED BY <1>1, <1>2, <1>3, <1>4, <1>5

-----------------------------------------------------------------------------
(* Types, with what keeps them.                                              *)

WaitersWellFormed ==
  /\ waiter \in [Waiters -> WaiterState]
  /\ \A w \in Waiters : waiter[w].pc # "idle" => waiter[w].addr \in Addr

WellFormed ==
  /\ WaitersWellFormed
  /\ handler.pc # "idle" => handler.addr \in Addr /\ handler.mac \in Mac
  /\ ReadHeld => handler.chs # <<>>
  /\ bytes # "own" => answer \in Addr \X Mac

TypeInv == TypeOK /\ WellFormed

\* What an entry found in the table is.
LEMMA FoundEntry ==
  ASSUME TypeOK, NEW a, HasEntry(a)
  PROVE  EntryOf(a) \in arp /\ EntryOf(a).addr = a /\ EntryOf(a) \in ArpEntry /\ a \in Addr
BY DEF HasEntry, EntryOf, TypeOK, ArpEntry

\* The entry AddOrUpdateARP stores, the only one it adds.
Learned(a, m) ==
  [addr |-> a, mac |-> m, expires |-> now + TTL, updating |-> FALSE,
   permanent |-> Knows(a, m) /\ EntryOf(a).permanent]

LEMMA AddOrUpdateTypes ==
  ASSUME TypeOK, NEW a \in Addr, NEW m \in Mac, AddOrUpdateARP(a, m)
  PROVE  arp' \subseteq ArpEntry
<1>1. now + TTL \in Nat
  BY ConstAssumption DEF TypeOK
<1>2. (Knows(a, m) /\ EntryOf(a).permanent) \in BOOLEAN
  OBVIOUS
<1>3. Learned(a, m) \in ArpEntry
  BY <1>1, <1>2 DEF Learned, ArpEntry
<1>4. arp' = (arp \ Found(a)) \cup {Learned(a, m)}
  BY DEF AddOrUpdateARP, Learned
<1> QED BY <1>3, <1>4 DEF TypeOK

\* What the next state of one goroutine makes of all of them.
LEMMA SetEffect ==
  ASSUME waiter \in [Waiters -> WaiterState],
         NEW w \in Waiters, NEW r \in WaiterState, Set(w, r)
  PROVE  /\ waiter' \in [Waiters -> WaiterState]
         /\ \A v \in Waiters : waiter'[v] = IF v = w THEN r ELSE waiter[v]
BY DEF Set

LEMMA GotoEffect ==
  ASSUME waiter \in [Waiters -> WaiterState],
         NEW w \in Waiters, NEW l \in WaiterPC, Goto(w, l)
  PROVE  /\ waiter' \in [Waiters -> WaiterState]
         /\ \A v \in Waiters :
              /\ waiter'[v].pc = IF v = w THEN l ELSE waiter[v].pc
              /\ waiter'[v].addr = waiter[v].addr
<1> DEFINE r == [waiter[w] EXCEPT !.pc = l]
<1>1. waiter[w] \in WaiterState
  OBVIOUS
<1>2. r \in WaiterState /\ r.pc = l /\ r.addr = waiter[w].addr
  BY <1>1 DEF WaiterState
<1>3. Set(w, r)
  BY DEF Goto
<1> QED BY <1>2, <1>3, SetEffect

\* One more request is counted.
LEMMA SendState ==
  ASSUME NEW s \in WaiterState, NEW n \in 0..MaxTries
  PROVE  LET r == [s EXCEPT !.pc = "wait", !.tries = n] IN
         r \in WaiterState /\ r.pc = "wait" /\ r.addr = s.addr
BY DEF WaiterState, WaiterPC

LEMMA IdleState == Idle \in WaiterState /\ Idle.pc = "idle" /\ Idle.addr = NoAddr
BY ConstAssumption DEF Idle, WaiterState, WaiterPC

LEMMA SetWellFormed ==
  ASSUME WaitersWellFormed, NEW w \in Waiters, NEW r \in WaiterState,
         r.pc # "idle" => r.addr \in Addr, Set(w, r)
  PROVE  WaitersWellFormed'
BY SetEffect DEF WaitersWellFormed

LEMMA GotoWellFormed ==
  ASSUME WaitersWellFormed, NEW w \in Waiters, NEW l \in WaiterPC,
         waiter[w].pc # "idle", Goto(w, l)
  PROVE  WaitersWellFormed'
BY GotoEffect DEF WaitersWellFormed

\* Reading a packet changes an answer only if it is lent, and only its MAC.
LEMMA PacketRead ==
  ASSUME TypeInv, ReadPacket
  PROVE  /\ answer' \in {<<>>} \cup (Addr \X Mac) /\ bytes' \in Bytes
         /\ bytes' # "own" => answer' \in Addr \X Mac
         /\ \/ UNCHANGED <<answer, bytes>>
            \/ /\ bytes # "own" /\ bytes' = "reused"
               /\ answer # <<>> /\ answer' # <<>>
               /\ \E m \in Mac : answer' = <<answer[1], m>>
<1>1. CASE bytes = "own"
  BY <1>1 DEF ReadPacket, TypeInv, TypeOK, WellFormed
<1>2. CASE bytes # "own"
  <2>1. answer \in Addr \X Mac /\ bytes' = "reused"
    BY <1>2 DEF ReadPacket, TypeInv, WellFormed
  <2>2. PICK m \in Mac : answer' = <<answer[1], m>>
    BY <1>2 DEF ReadPacket
  <2>3. answer' \in Addr \X Mac
    BY <2>1, <2>2
  <2> QED BY <1>2, <2>1, <2>2, <2>3 DEF Bytes
<1> QED BY <1>1, <1>2

LEMMA InitTypes == Init => TypeInv
BY ConstAssumption, IdleState
   DEF Init, TypeInv, TypeOK, WellFormed, WaitersWellFormed, HandlerIdle, ReadHeld, Bytes

\* No step breaks the types.
LEMMA NextTypes == TypeInv /\ [Next]_vars => TypeInv'
<1> SUFFICES ASSUME TypeInv, [Next]_vars PROVE TypeInv'
  OBVIOUS
<1>0. WaitersWellFormed
  BY DEF TypeInv, WellFormed
<1>00. TypeOK
  BY DEF TypeInv
<1>01. /\ waiter \in [Waiters -> WaiterState]
       /\ \A w \in Waiters : waiter[w].pc # "idle" => waiter[w].addr \in Addr
       /\ WaitersWellFormed' => waiter' \in [Waiters -> WaiterState]
  BY <1>0 DEF WaitersWellFormed
<1>02. UNCHANGED waiter => WaitersWellFormed'
  BY <1>0 DEF WaitersWellFormed
<1> USE DEF TypeInv, TypeOK, WellFormed, ReadHeld
<1>1. CASE \E p \in Lockers : QueueForLock(p)
  BY <1>02, <1>1 DEF QueueForLock
<1>2. ASSUME NEW a \in Addr, StartGetMacFor(a) PROVE TypeInv'
  <2> DEFINE r == [pc |-> "lookup", addr |-> a, tries |-> 0]
  <2>1. r \in WaiterState /\ r.addr \in Addr
    BY ConstAssumption DEF WaiterState, WaiterPC
  <2>2. Set(Reader, r) /\ Reader \in Waiters
    BY <1>2 DEF StartGetMacFor, Waiters
  <2> HIDE DEF r
  <2>3. WaitersWellFormed'
    BY <1>0, <2>1, <2>2, SetWellFormed
  <2> QED BY <1>01, <1>2, <2>3 DEF StartGetMacFor, Bytes
<1>3. CASE LookupHit
  <2> DEFINE a == waiter[Reader].addr
  <2>1. EntryOf(a) \in ArpEntry /\ a \in Addr /\ Reader \in Waiters
    BY <1>00, <1>3, FoundEntry DEF LookupHit, Waiters
  <2>2. WaitersWellFormed'
    <3>1. CASE Set(Reader, Idle)
      BY <1>0, <2>1, <3>1, IdleState, SetWellFormed
    <3>2. ASSUME NEW u \in Updaters,
                 waiter' = [waiter EXCEPT ![Reader] = Idle,
                                          ![u] = [pc |-> "start", addr |-> a, tries |-> 0]]
          PROVE  WaitersWellFormed'
      <4> DEFINE r == [pc |-> "start", addr |-> a, tries |-> 0]
      <4>1. r \in WaiterState /\ r.addr \in Addr /\ u \in Waiters
        BY <2>1, ConstAssumption DEF WaiterState, WaiterPC, Waiters
      <4>2. waiter' = [waiter EXCEPT ![Reader] = Idle, ![u] = r]
        BY <3>2
      <4> HIDE DEF r
      <4>3. Idle \in WaiterState /\ Idle.pc = "idle"
        BY IdleState
      <4> QED BY <1>01, <2>1, <4>1, <4>2, <4>3 DEF WaitersWellFormed
    <3> QED BY <1>3, <3>1, <3>2 DEF LookupHit
  <2>3. answer' \in {<<>>} \cup (Addr \X Mac)
    BY <1>3, <2>1 DEF LookupHit, ArpEntry
  <2> QED BY <1>01, <1>3, <2>2, <2>3 DEF LookupHit, Bytes
<1>4. ASSUME NEW w \in Waiters, Register(w) PROVE TypeInv'
  <2>1. waiter[w].addr \in Addr /\ waiter[w].pc # "idle"
    BY <1>01, <1>4 DEF Register
  <2>2. arpEvent' \in [Addr -> Seq(Waiters)]
    BY <1>4, <2>1, AppendChannel DEF Register
  <2>3. Goto(w, "registered")
    BY <1>4 DEF Register
  <2>4. WaitersWellFormed'
    BY <1>0, <2>1, <2>3, GotoWellFormed DEF WaiterPC
  <2> QED BY <1>01, <1>4, <2>2, <2>4 DEF Register
<1>5. ASSUME NEW w \in Waiters, SendFirst(w) PROVE TypeInv'
  <2> DEFINE r == [waiter[w] EXCEPT !.pc = "wait", !.tries = 1]
  <2>1. waiter[w] \in WaiterState /\ waiter[w].addr \in Addr
    BY <1>01, <1>5 DEF SendFirst
  <2>2. r \in WaiterState /\ r.addr \in Addr
    <3>1. 1 \in 0..MaxTries
      BY ConstAssumption
    <3> QED BY <2>1, <3>1, SendState
  <2>3. Set(w, r)
    BY <1>5 DEF SendFirst
  <2> HIDE DEF r
  <2>4. WaitersWellFormed'
    BY <1>0, <2>2, <2>3, SetWellFormed
  <2> QED BY <1>01, <1>5, <2>4 DEF SendFirst
<1>6. ASSUME NEW w \in Waiters, NoDestination(w) PROVE TypeInv'
  <2>1. waiter[w].pc # "idle" /\ Goto(w, "cleanup")
    BY <1>6 DEF NoDestination
  <2>2. WaitersWellFormed'
    BY <1>0, <2>1, GotoWellFormed DEF WaiterPC
  <2> QED BY <1>01, <1>6, <2>2 DEF NoDestination
<1>7. ASSUME NEW w \in Waiters, Timeout(w) PROVE TypeInv'
  <2>1. waiter[w] \in WaiterState /\ waiter[w].addr \in Addr /\ waiter[w].pc # "idle"
    BY <1>01, <1>7 DEF Timeout
  <2>2. WaitersWellFormed'
    <3>1. CASE waiter[w].tries < MaxTries /\ Set(w, [waiter[w] EXCEPT !.tries = @ + 1])
      <4> DEFINE r == [waiter[w] EXCEPT !.tries = @ + 1]
      <4>0. waiter[w].tries + 1 \in 0..MaxTries
        BY <2>1, <3>1, ConstAssumption DEF WaiterState
      <4>1. r \in WaiterState /\ r.addr \in Addr
        BY <2>1, <4>0 DEF WaiterState
      <4>2. Set(w, r)
        BY <3>1
      <4> HIDE DEF r
      <4> QED BY <1>0, <4>1, <4>2, SetWellFormed
    <3>2. ASSUME NEW l \in {"cleanup", "expire"}, Goto(w, l)
          PROVE  WaitersWellFormed'
      BY <1>0, <2>1, <3>2, GotoWellFormed DEF WaiterPC
    <3> QED BY <1>7, <3>1, <3>2 DEF Timeout
  <2> QED BY <1>01, <1>7, <2>2 DEF Timeout
<1>8. ASSUME NEW w \in Waiters, Unregister(w) PROVE TypeInv'
  <2>1. waiter[w].addr \in Addr /\ Set(w, Idle)
    BY <1>01, <1>8 DEF Unregister
  <2>2. arpEvent' \in [Addr -> Seq(Waiters)]
    BY <1>8, <2>1, WithoutChannel DEF Unregister
  <2>3. WaitersWellFormed'
    BY <1>0, <2>1, IdleState, SetWellFormed
  <2> QED BY <1>01, <1>8, <2>2, <2>3 DEF Unregister
<1>9. ASSUME NEW u \in Updaters, RemoveExpired(u) PROVE TypeInv'
  <2>1. u \in Waiters /\ waiter[u].pc # "idle" /\ Goto(u, "cleanup")
    BY <1>9 DEF RemoveExpired, Waiters
  <2>2. WaitersWellFormed'
    BY <1>0, <2>1, GotoWellFormed DEF WaiterPC
  <2> QED BY <1>01, <1>9, <2>2 DEF RemoveExpired
<1>10. ASSUME NEW a \in Addr, NEW m \in Mac, HandleRequest(a, m) PROVE TypeInv'
  <2>1. /\ answer' \in {<<>>} \cup (Addr \X Mac) /\ bytes' \in Bytes
        /\ bytes' # "own" => answer' \in Addr \X Mac
    BY <1>10, PacketRead DEF HandleRequest
  <2> QED BY <1>02, <1>10, <2>1, AddOrUpdateTypes DEF HandleRequest
<1>11. ASSUME NEW a \in Addr, NEW m \in Mac, HandleReply(a, m) PROVE TypeInv'
  <2>1. /\ answer' \in {<<>>} \cup (Addr \X Mac) /\ bytes' \in Bytes
        /\ bytes' # "own" => answer' \in Addr \X Mac
    BY <1>11, PacketRead DEF HandleReply
  <2> QED BY <1>02, <1>11, <2>1, AddOrUpdateTypes DEF HandleReply
<1>12. CASE StartNotify
  BY <1>02, <1>12 DEF StartNotify, HandlerIdle
<1>13. CASE Deliver
  <2> DEFINE w == Head(handler.chs)
  <2>1. w \in Waiters /\ Tail(handler.chs) \in Seq(Waiters)
        /\ (Len(handler.chs) # 1 => Tail(handler.chs) # <<>>)
    BY <1>13, TailChannels DEF Deliver
  <2>2. waiter[w].addr \in Addr /\ waiter[w].pc # "idle" /\ handler.addr \in Addr /\ handler.mac \in Mac
    BY <1>01, <1>13, <2>1 DEF Deliver
  <2>3. /\ Goto(w, "cleanup")
        /\ \/ answer' = <<waiter[w].addr, handler.mac>> /\ bytes' = "lent"
           \/ UNCHANGED <<answer, bytes>>
        /\ handler' = IF Len(handler.chs) = 1 THEN HandlerIdle
                      ELSE [handler EXCEPT !.chs = Tail(@)]
        /\ handler.pc = "sending"
        /\ UNCHANGED <<arp, arpEvent, pending, now, claimed>>
    BY <1>13 DEF Deliver
  <2> HIDE DEF w
  <2>4. handler' \in [pc: {"idle", "notify", "sending"}, addr: Addr \cup {NoAddr},
                      mac: Mac \cup {NoAddr}, chs: Seq(Waiters)]
        /\ (handler'.pc # "idle" => handler'.addr \in Addr /\ handler'.mac \in Mac)
        /\ (handler'.pc = "sending" => handler'.chs # <<>>)
    <3>1. CASE Len(handler.chs) = 1
      BY <2>3, <3>1 DEF HandlerIdle
    <3>2. CASE Len(handler.chs) # 1
      <4>1. handler' = [handler EXCEPT !.chs = Tail(@)]
        BY <2>3, <3>2
      <4>2. handler'.chs = Tail(handler.chs) /\ handler'.pc = handler.pc
            /\ handler'.addr = handler.addr /\ handler'.mac = handler.mac
        BY <4>1
      <4> QED BY <2>1, <2>2, <3>2, <4>1, <4>2
    <3> QED BY <3>1, <3>2
  <2>5. /\ answer' \in {<<>>} \cup (Addr \X Mac) /\ bytes' \in Bytes
        /\ bytes' # "own" => answer' \in Addr \X Mac
    BY <2>2, <2>3 DEF Bytes
  <2>6. WaitersWellFormed'
    BY <1>0, <2>1, <2>2, <2>3, GotoWellFormed DEF WaiterPC
  <2> QED BY <1>01, <2>1, <2>3, <2>4, <2>5, <2>6
<1>14. CASE RunARPExpiryJob
  BY <1>02, <1>14 DEF RunARPExpiryJob
<1>15. CASE Operator
  <2>1. arp' \subseteq ArpEntry /\ claimed' \subseteq Addr \X Mac
    <3>1. ASSUME NEW a \in Addr, NEW m \in Mac, NEW perm \in BOOLEAN, AddStaticARPEntry(a, m, perm)
          PROVE  arp' \subseteq ArpEntry /\ claimed' \subseteq Addr \X Mac
      <4> DEFINE e == [addr |-> a, mac |-> m, expires |-> 0, updating |-> FALSE, permanent |-> perm]
      <4>1. e \in ArpEntry
        BY <3>1 DEF ArpEntry
      <4>2. arp' = (arp \ Found(a)) \cup {e} /\ claimed' = claimed \cup {<<a, m>>}
        BY <3>1 DEF AddStaticARPEntry
      <4> HIDE DEF e
      <4> QED BY <4>1, <4>2
    <3>2. CASE (\E a \in Addr : RemoveARPEntry(a)) \/ FlushARPTable \/ FlushPermanentARP
      BY <3>2 DEF RemoveARPEntry, FlushARPTable, FlushPermanentARP
    <3> QED BY <1>15, <3>1, <3>2 DEF Operator
  <2> QED BY <1>02, <1>15, <2>1 DEF Operator
<1>16. CASE Tick
  BY <1>02, <1>16 DEF Tick
<1>17. CASE UNCHANGED vars
  BY <1>02, <1>17 DEF vars
<1>18. CASE OtherPacket
  <2>1. /\ answer' \in {<<>>} \cup (Addr \X Mac) /\ bytes' \in Bytes
        /\ bytes' # "own" => answer' \in Addr \X Mac
    BY <1>18, PacketRead DEF OtherPacket
  <2> QED BY <1>02, <1>18, <2>1 DEF OtherPacket
<1> QED BY <1>1, <1>2, <1>3, <1>4, <1>5, <1>6, <1>7, <1>8, <1>9, <1>10, <1>11, <1>12,
           <1>13, <1>14, <1>15, <1>16, <1>17, <1>18 DEF Next

\* Every variable has its type in every reachable state.
THEOREM TypeCorrect == Spec => []TypeOK
<1>1. Spec => []TypeInv
  BY InitTypes, NextTypes, PTL DEF Spec
<1>2. TypeInv => TypeOK
  BY DEF TypeInv
<1> QED BY <1>1, <1>2, PTL

-----------------------------------------------------------------------------
(* Event lists, and whom HandleARP is sending to.                            *)

\* The channel of w is registered for a and w may still receive from it.
Resolves(w, a) == waiter[w].pc \in Listening /\ waiter[w].addr = a

\* Whoever resolves the address HandleARP is answering has received the reply or
\* is still to be sent to.
StillToNotify ==
  ReadHeld => \A w \in Waiters :
    Resolves(w, handler.addr) => Contains(handler.chs, w) \/ waiter[w].pc = "cleanup"

ChannelInv ==
  /\ ChannelsListed
  /\ ChannelsDistinct
  /\ NotifiesOnlyListeners
  /\ StillToNotify

\* A step that leaves event lists and handler alone, and no goroutine starts or
\* stops listening.
Quiet ==
  /\ UNCHANGED <<arpEvent, handler>>
  /\ \A w \in Waiters : \A a \in Addr : Resolves(w, a)' <=> Resolves(w, a)
  /\ \A w \in Waiters : waiter[w].pc = "cleanup" => waiter'[w].pc = "cleanup"

QuietNext ==
  \/ \E p \in Lockers : QueueForLock(p)
  \/ \E a \in Addr : StartGetMacFor(a)
  \/ LookupHit
  \/ \E w \in Waiters : SendFirst(w) \/ NoDestination(w) \/ Timeout(w)
  \/ \E u \in Updaters : RemoveExpired(u)
  \/ \E a \in Addr, m \in Mac : HandleRequest(a, m)
  \/ OtherPacket
  \/ RunARPExpiryJob
  \/ Operator
  \/ Tick
  \/ UNCHANGED vars

LEMMA GotoQuiet ==
  ASSUME TypeInv, NEW w \in Waiters, NEW l \in Listening, waiter[w].pc \in Listening,
         waiter[w].pc = "cleanup" => l = "cleanup", Goto(w, l), UNCHANGED <<arpEvent, handler>>
  PROVE  Quiet
<1>1. waiter \in [Waiters -> WaiterState] /\ l \in WaiterPC
  BY DEF TypeInv, TypeOK, Listening, WaiterPC
<1>2. \A v \in Waiters : /\ waiter'[v].pc = IF v = w THEN l ELSE waiter[v].pc
                         /\ waiter'[v].addr = waiter[v].addr
  BY <1>1, GotoEffect
<1> QED BY <1>2 DEF Quiet, Resolves

LEMMA SetQuiet ==
  ASSUME TypeInv, NEW w \in Waiters, NEW r \in WaiterState,
         waiter[w].pc # "cleanup",
         r.pc \in Listening <=> waiter[w].pc \in Listening,
         r.pc \in Listening => r.addr = waiter[w].addr,
         Set(w, r), UNCHANGED <<arpEvent, handler>>
  PROVE  Quiet
<1>1. \A v \in Waiters : waiter'[v] = IF v = w THEN r ELSE waiter[v]
  BY SetEffect DEF TypeInv, TypeOK
<1> QED BY <1>1 DEF Quiet, Resolves

LEMMA QuietSteps == TypeInv /\ QuietNext => Quiet
<1> SUFFICES ASSUME TypeInv, QuietNext PROVE Quiet
  OBVIOUS
<1>0. waiter \in [Waiters -> WaiterState]
  BY DEF TypeInv, TypeOK
<1>1. CASE UNCHANGED <<arpEvent, handler, waiter>>
  BY <1>1 DEF Quiet, Resolves
<1>2. ASSUME NEW a \in Addr, StartGetMacFor(a) PROVE Quiet
  <2> DEFINE r == [pc |-> "lookup", addr |-> a, tries |-> 0]
  <2>1. r \in WaiterState /\ r.pc = "lookup" /\ Reader \in Waiters
    BY ConstAssumption DEF WaiterState, WaiterPC, Waiters
  <2>2. Set(Reader, r) /\ waiter[Reader].pc = "idle" /\ UNCHANGED <<arpEvent, handler>>
    BY <1>2 DEF StartGetMacFor
  <2> HIDE DEF r
  <2> QED BY <2>1, <2>2, SetQuiet DEF Listening
<1>3. CASE LookupHit
  <2>1. Reader \in Waiters /\ waiter[Reader].pc = "lookup" /\ UNCHANGED <<arpEvent, handler>>
    BY <1>3 DEF LookupHit, Waiters
  <2>2. CASE Set(Reader, Idle)
    BY <2>1, <2>2, IdleState, SetQuiet DEF Listening
  <2>3. ASSUME NEW u \in Updaters, NEW r, r.pc = "start", waiter[u].pc = "idle",
               waiter' = [waiter EXCEPT ![Reader] = Idle, ![u] = r]
        PROVE  Quiet
    <3>1. \A v \in Waiters : waiter'[v] = IF v = u THEN r
                                          ELSE IF v = Reader THEN Idle ELSE waiter[v]
      BY <1>0, <2>1, <2>3 DEF Waiters
    <3> QED BY <2>1, <2>3, <3>1, IdleState DEF Quiet, Resolves, Listening
  <2>4. ASSUME NEW u \in Updaters, waiter[u].pc = "idle",
               waiter' = [waiter EXCEPT ![Reader] = Idle,
                  ![u] = [pc |-> "start", addr |-> waiter[Reader].addr, tries |-> 0]]
        PROVE  Quiet
    <3> DEFINE r == [pc |-> "start", addr |-> waiter[Reader].addr, tries |-> 0]
    <3>1. r.pc = "start" /\ waiter' = [waiter EXCEPT ![Reader] = Idle, ![u] = r]
      BY <2>4
    <3> HIDE DEF r
    <3> QED BY <2>3, <2>4, <3>1
  <2> QED BY <1>3, <2>2, <2>4 DEF LookupHit
<1>4. ASSUME NEW w \in Waiters, SendFirst(w) PROVE Quiet
  <2> DEFINE r == [waiter[w] EXCEPT !.pc = "wait", !.tries = 1]
  <2>1. 1 \in 0..MaxTries /\ waiter[w] \in WaiterState
    BY <1>0, ConstAssumption
  <2>2. r \in WaiterState /\ r.pc = "wait" /\ r.addr = waiter[w].addr
    BY <2>1, SendState
  <2>3. Set(w, r) /\ waiter[w].pc = "registered" /\ UNCHANGED <<arpEvent, handler>>
    BY <1>4 DEF SendFirst
  <2> HIDE DEF r
  <2> QED BY <2>2, <2>3, SetQuiet DEF Listening
<1>5. ASSUME NEW w \in Waiters, NoDestination(w) PROVE Quiet
  BY <1>5, GotoQuiet DEF NoDestination, Listening
<1>6. ASSUME NEW w \in Waiters, Timeout(w) PROVE Quiet
  <2>1. waiter[w] \in WaiterState /\ waiter[w].pc = "wait" /\ UNCHANGED <<arpEvent, handler>>
    BY <1>0, <1>6 DEF Timeout
  <2>2. CASE waiter[w].tries < MaxTries /\ Set(w, [waiter[w] EXCEPT !.tries = @ + 1])
    <3> DEFINE r == [waiter[w] EXCEPT !.tries = @ + 1]
    <3>1. waiter[w].tries + 1 \in 0..MaxTries
      BY <2>1, <2>2, ConstAssumption DEF WaiterState
    <3>2. r \in WaiterState /\ r.pc = "wait" /\ r.addr = waiter[w].addr
      BY <2>1, <3>1 DEF WaiterState
    <3>3. Set(w, r)
      BY <2>2
    <3> HIDE DEF r
    <3> QED BY <2>1, <3>2, <3>3, SetQuiet DEF Listening
  <2>3. ASSUME NEW l \in {"cleanup", "expire"}, Goto(w, l) PROVE Quiet
    BY <2>1, <2>3, GotoQuiet DEF Listening
  <2> QED BY <1>6, <2>2, <2>3 DEF Timeout
<1>7. ASSUME NEW u \in Updaters, RemoveExpired(u) PROVE Quiet
  <2>1. u \in Waiters
    BY DEF Waiters
  <2> QED BY <1>7, <2>1, GotoQuiet DEF RemoveExpired, Listening
<1>8. ASSUME NEW a \in Addr, NEW m \in Mac, HandleRequest(a, m) PROVE Quiet
  BY <1>1, <1>8 DEF HandleRequest
<1>9. ASSUME \/ \E p \in Lockers : QueueForLock(p)
             \/ RunARPExpiryJob \/ Operator \/ OtherPacket \/ Tick \/ UNCHANGED vars
      PROVE  UNCHANGED <<arpEvent, handler, waiter>>
  BY <1>9 DEF QueueForLock, RunARPExpiryJob, Operator, OtherPacket, Tick, vars
<1> QED BY <1>1, <1>2, <1>3, <1>4, <1>5, <1>6, <1>7, <1>8, <1>9 DEF QuietNext

LEMMA InitChannels == Init => ChannelInv
BY DEF Init, ChannelInv, ChannelsListed, ChannelsDistinct, NotifiesOnlyListeners,
   StillToNotify, ReadHeld, HandlerIdle, Idle, Listening, Contains, IsInjective

LEMMA NextChannels == TypeInv /\ ChannelInv /\ [Next]_vars => ChannelInv'
<1> SUFFICES ASSUME TypeInv, ChannelInv, [Next]_vars PROVE ChannelInv'
  OBVIOUS
<1>0. /\ waiter \in [Waiters -> WaiterState]
      /\ arpEvent \in [Addr -> Seq(Waiters)]
      /\ handler.chs \in Seq(Waiters)
      /\ \A w \in Waiters : waiter[w].pc # "idle" => waiter[w].addr \in Addr
      /\ handler.pc # "idle" => handler.addr \in Addr
      /\ ReadHeld => handler.chs # <<>>
  BY DEF TypeInv, TypeOK, WellFormed, WaitersWellFormed
<1>1. CASE QuietNext
  <2>1. Quiet
    BY <1>1, QuietSteps
  <2> QED BY <1>0, <2>1 DEF Quiet, Resolves, ChannelInv, ChannelsListed, ChannelsDistinct,
             NotifiesOnlyListeners, StillToNotify, ReadHeld, Contains
<1>2. ASSUME NEW w \in Waiters, Register(w) PROVE ChannelInv'
  <2> DEFINE b == waiter[w].addr
  <2>1. /\ waiter[w].pc \in {"lookup", "start"} /\ b \in Addr
        /\ ~ReadHeld /\ ~ReadHeld'
        /\ arpEvent' = [arpEvent EXCEPT ![b] = Append(@, w)]
        /\ Goto(w, "registered")
    BY <1>0, <1>2 DEF Register, CanLock, ReadHeld
  <2>2. \A v \in Waiters : /\ waiter'[v].pc = IF v = w THEN "registered" ELSE waiter[v].pc
                           /\ waiter'[v].addr = waiter[v].addr
    BY <1>0, <2>1, GotoEffect DEF WaiterPC
  <2>3. ~Contains(arpEvent[b], w) /\ IsInjective(arpEvent[b]) /\ arpEvent[b] \in Seq(Waiters)
    BY <1>0, <2>1 DEF ChannelInv, ChannelsListed, ChannelsDistinct, Listening
  <2>4. /\ \A x : Contains(arpEvent'[b], x) <=> Contains(arpEvent[b], x) \/ x = w
        /\ IsInjective(arpEvent'[b])
        /\ \A a \in Addr : a # b => arpEvent'[a] = arpEvent[a]
    BY <1>0, <2>1, <2>3, AppendChannel
  <2> HIDE DEF b
  <2>5. ChannelsDistinct'
    BY <2>4 DEF ChannelInv, ChannelsDistinct
  <2>6. ChannelsListed'
    <3> SUFFICES ASSUME NEW v \in Waiters, NEW a \in Addr
                 PROVE  Contains(arpEvent'[a], v) <=> waiter'[v].pc \in Listening /\ waiter'[v].addr = a
      BY DEF ChannelsListed
    <3>1. Contains(arpEvent[a], v) <=> waiter[v].pc \in Listening /\ waiter[v].addr = a
      BY DEF ChannelInv, ChannelsListed
    <3>2. waiter[w].addr = b
      BY DEF b
    <3> QED BY <2>1, <2>2, <2>4, <3>1, <3>2 DEF Listening
  <2> QED BY <2>1, <2>5, <2>6 DEF ChannelInv, NotifiesOnlyListeners, StillToNotify
<1>3. ASSUME NEW w \in Waiters, Unregister(w) PROVE ChannelInv'
  <2> DEFINE b == waiter[w].addr
  <2>1. /\ waiter[w].pc = "cleanup" /\ b \in Addr
        /\ ~ReadHeld /\ ~ReadHeld'
        /\ arpEvent' = [arpEvent EXCEPT ![b] = Without(@, w)]
        /\ Set(w, Idle)
    BY <1>0, <1>3 DEF Unregister, CanLock, ReadHeld
  <2>2. \A v \in Waiters : waiter'[v] = IF v = w THEN Idle ELSE waiter[v]
    BY <1>0, <2>1, SetEffect, IdleState
  <2>3. IsInjective(arpEvent[b]) /\ arpEvent[b] \in Seq(Waiters)
    BY <1>0, <2>1 DEF ChannelInv, ChannelsDistinct
  <2>4. /\ \A x : x # w => (Contains(arpEvent'[b], x) <=> Contains(arpEvent[b], x))
        /\ ~Contains(arpEvent'[b], w)
        /\ IsInjective(arpEvent'[b])
        /\ \A a \in Addr : a # b => arpEvent'[a] = arpEvent[a]
    BY <1>0, <2>1, <2>3, WithoutChannel
  <2> HIDE DEF b
  <2>5. ChannelsDistinct'
    BY <2>4 DEF ChannelInv, ChannelsDistinct
  <2>6. ChannelsListed'
    <3> SUFFICES ASSUME NEW v \in Waiters, NEW a \in Addr
                 PROVE  Contains(arpEvent'[a], v) <=> waiter'[v].pc \in Listening /\ waiter'[v].addr = a
      BY DEF ChannelsListed
    <3>1. Contains(arpEvent[a], v) <=> waiter[v].pc \in Listening /\ waiter[v].addr = a
      BY DEF ChannelInv, ChannelsListed
    <3>2. waiter[w].addr = b
      BY DEF b
    <3> QED BY <2>2, <2>4, <3>1, <3>2, IdleState DEF Listening
  <2> QED BY <2>1, <2>5, <2>6 DEF ChannelInv, NotifiesOnlyListeners, StillToNotify
<1>4. ASSUME NEW a \in Addr, NEW m \in Mac, HandleReply(a, m) PROVE ChannelInv'
  <2>1. ~ReadHeld' /\ UNCHANGED <<arpEvent, waiter>>
    BY <1>4 DEF HandleReply, ReadHeld
  <2> QED BY <2>1 DEF ChannelInv, ChannelsListed, ChannelsDistinct, NotifiesOnlyListeners, StillToNotify
<1>5. CASE StartNotify
  <2>1. UNCHANGED <<arpEvent, waiter>>
    BY <1>5 DEF StartNotify
  <2>2. CASE arpEvent[handler.addr] = <<>>
    <3>1. ~ReadHeld'
      BY <1>5, <2>2 DEF StartNotify, ReadHeld, HandlerIdle
    <3> QED BY <2>1, <3>1 DEF ChannelInv, ChannelsListed, ChannelsDistinct, NotifiesOnlyListeners, StillToNotify
  <2>3. CASE arpEvent[handler.addr] # <<>>
    <3>1. handler'.chs = arpEvent[handler.addr] /\ handler'.addr = handler.addr /\ handler.addr \in Addr
      BY <1>0, <1>5, <2>3 DEF StartNotify, TypeInv, TypeOK
    <3>2. \A w \in Waiters : Contains(handler'.chs, w) <=> Resolves(w, handler.addr)
      BY <3>1 DEF ChannelInv, ChannelsListed, Resolves
    <3>3. \A k \in 1..Len(handler'.chs) : handler'.chs[k] \in Waiters /\ Contains(handler'.chs, handler'.chs[k])
      BY <1>0, <3>1 DEF Contains
    <3> QED BY <2>1, <3>1, <3>2, <3>3 DEF ChannelInv, ChannelsListed, ChannelsDistinct,
               NotifiesOnlyListeners, StillToNotify, Resolves
  <2> QED BY <2>2, <2>3
<1>6. CASE Deliver
  <2> DEFINE w == Head(handler.chs)
  <2>1. /\ ReadHeld /\ waiter[w].pc = "wait" /\ Goto(w, "cleanup") /\ UNCHANGED arpEvent
        /\ handler' = IF Len(handler.chs) = 1 THEN HandlerIdle ELSE [handler EXCEPT !.chs = Tail(@)]
    BY <1>6 DEF Deliver, ReadHeld
  <2>2. /\ w \in Waiters /\ Tail(handler.chs) \in Seq(Waiters)
        /\ \A x : Contains(handler.chs, x) <=> x = w \/ Contains(Tail(handler.chs), x)
    BY <1>0, <2>1, TailChannels
  <2> HIDE DEF w
  <2>3. \A v \in Waiters : /\ waiter'[v].pc = IF v = w THEN "cleanup" ELSE waiter[v].pc
                           /\ waiter'[v].addr = waiter[v].addr
    BY <1>0, <2>1, <2>2, GotoEffect DEF WaiterPC
  <2>4. \A v \in Waiters : \A a \in Addr : Resolves(v, a)' <=> Resolves(v, a)
    BY <2>1, <2>3 DEF Resolves, Listening
  <2>5. ChannelsListed' /\ ChannelsDistinct'
    BY <2>1, <2>4 DEF ChannelInv, ChannelsListed, ChannelsDistinct, Resolves
  <2>6. CASE Len(handler.chs) = 1
    <3>1. ~ReadHeld'
      BY <2>1, <2>6 DEF ReadHeld, HandlerIdle
    <3> QED BY <2>5, <3>1 DEF ChannelInv, NotifiesOnlyListeners, StillToNotify
  <2>7. CASE Len(handler.chs) # 1
    <3>1. handler'.chs = Tail(handler.chs) /\ handler'.addr = handler.addr /\ handler.addr \in Addr
      BY <1>0, <2>1, <2>7 DEF TypeInv, TypeOK, ReadHeld
    <3>2. \A v \in Waiters : Contains(handler.chs, v) => Resolves(v, handler.addr)
      BY <2>1 DEF ChannelInv, NotifiesOnlyListeners, Contains, Resolves
    <3>3. \A k \in 1..Len(handler'.chs) : handler'.chs[k] \in Waiters /\ Contains(handler'.chs, handler'.chs[k])
      BY <2>2, <3>1 DEF Contains
    <3>4. NotifiesOnlyListeners'
      BY <2>2, <2>4, <3>1, <3>2, <3>3 DEF NotifiesOnlyListeners, Resolves
    <3>5. StillToNotify'
      BY <2>1, <2>2, <2>3, <2>4, <3>1 DEF ChannelInv, StillToNotify
    <3> QED BY <2>5, <3>4, <3>5 DEF ChannelInv
  <2> QED BY <2>6, <2>7
<1> QED BY <1>1, <1>2, <1>3, <1>4, <1>5, <1>6 DEF Next, QuietNext

LEMMA ChannelsHold == Spec => [](TypeInv /\ ChannelInv)
BY InitTypes, NextTypes, InitChannels, NextChannels, PTL DEF Spec

\* The event lists hold exactly the goroutines that may still receive.
THEOREM ChannelsCorrect == Spec => []ChannelsMatchWaiters
<1>1. ChannelInv => ChannelsMatchWaiters
  BY DEF ChannelInv, ChannelsMatchWaiters
<1> QED BY <1>1, ChannelsHold, PTL

\* HandleARP only ever sends to goroutines that are still registered.
THEOREM NotifiesCorrect == Spec => []NotifiesOnlyListeners
<1>1. ChannelInv => NotifiesOnlyListeners
  BY DEF ChannelInv
<1> QED BY <1>1, ChannelsHold, PTL

-----------------------------------------------------------------------------
(* What a step may not do.                                                   *)

\* The read lock is let go of by the last send, and by then everyone has received.
LEMMA LastSendWakesAll ==
  ASSUME TypeInv, ChannelInv, [Next]_vars, ReadHeld, ~ReadHeld',
         NEW w \in Waiters, waiter[w].pc \in Listening, waiter[w].addr = handler.addr
  PROVE  waiter[w]'.pc = "cleanup"
<1>0. /\ waiter \in [Waiters -> WaiterState] /\ handler.chs \in Seq(Waiters) /\ handler.chs # <<>>
      /\ handler.pc = "sending"
  BY DEF TypeInv, TypeOK, WellFormed, ReadHeld
<1>1. ~QuietNext
  BY QuietSteps DEF Quiet, ReadHeld
<1>2. Deliver
  BY <1>0, <1>1 DEF Next, QuietNext, Register, Unregister, HandleReply, StartNotify, CanLock, ReadHeld
<1> DEFINE h == Head(handler.chs)
<1>3. h \in Waiters /\ Goto(h, "cleanup")
      /\ handler' = IF Len(handler.chs) = 1 THEN HandlerIdle ELSE [handler EXCEPT !.chs = Tail(@)]
  BY <1>0, <1>2, TailChannels DEF Deliver
<1>4. Len(handler.chs) = 1
  BY <1>0, <1>3 DEF ReadHeld, TypeInv, TypeOK
<1>5. \A x : Contains(handler.chs, x) => x = h
  BY <1>0, <1>4, TailChannels
<1>6. w = h \/ waiter[w].pc = "cleanup"
  BY <1>5 DEF ChannelInv, StillToNotify, Resolves
<1> HIDE DEF h
<1>7. waiter'[w].pc = IF w = h THEN "cleanup" ELSE waiter[w].pc
  BY <1>0, <1>3, GotoEffect DEF WaiterPC
<1> QED BY <1>6, <1>7

\* A reply wakes every goroutine that was resolving its address.
THEOREM ReplyWakesAllHolds == Spec => ReplyWakesAll
<1>1. TypeInv /\ ChannelInv /\ [Next]_vars =>
        [ReadHeld /\ ~ReadHeld' =>
           \A w \in Waiters : waiter[w].pc \in Listening /\ waiter[w].addr = handler.addr =>
             waiter[w]'.pc = "cleanup"]_vars
  BY LastSendWakesAll
<1> QED BY <1>1, ChannelsHold, PTL DEF Spec, ReplyWakesAll

\* Of a goroutine that will not receive: it keeps away from its select.
LEMMA WedgeStays == TypeInv /\ ChannelInv /\ Wedged /\ [Next]_vars => Wedged'
<1> SUFFICES ASSUME TypeInv, ChannelInv, Wedged, [Next]_vars PROVE Wedged'
  OBVIOUS
<1> DEFINE h == Head(handler.chs)
<1>0. /\ waiter \in [Waiters -> WaiterState] /\ handler.chs \in Seq(Waiters) /\ handler.chs # <<>>
      /\ handler.pc = "sending" /\ ReadHeld
      /\ waiter[h].pc \in {"expire", "cleanup"} \/ (waiter[h].pc = "registered" /\ pending # {})
  BY DEF TypeInv, TypeOK, WellFormed, ReadHeld, Wedged
<1>1. h \in Waiters
  BY <1>0, TailChannels
<1> HIDE DEF h
<1>2. ASSUME UNCHANGED handler, pending \subseteq pending', waiter'[h].pc = waiter[h].pc
      PROVE  Wedged'
  BY <1>0, <1>2 DEF Wedged, ReadHeld, h
<1>3. ASSUME NEW v \in Waiters, NEW r \in WaiterState, v # h, Set(v, r)
      PROVE  waiter'[h].pc = waiter[h].pc
  BY <1>0, <1>1, <1>3, SetEffect
<1>4. CASE \E p \in Lockers : QueueForLock(p)
  BY <1>2, <1>4 DEF QueueForLock
<1>5. CASE \E a \in Addr : StartGetMacFor(a)
  <2>1. PICK a \in Addr : StartGetMacFor(a)
    BY <1>5
  <2> DEFINE r == [pc |-> "lookup", addr |-> a, tries |-> 0]
  <2>2. r \in WaiterState /\ Reader \in Waiters
    BY ConstAssumption DEF WaiterState, WaiterPC, Waiters
  <2>3. Set(Reader, r) /\ waiter[Reader].pc = "idle" /\ UNCHANGED <<handler, pending>>
    BY <2>1 DEF StartGetMacFor
  <2> HIDE DEF r
  <2> QED BY <1>0, <1>2, <1>3, <2>2, <2>3
<1>6. CASE \E w \in Waiters : SendFirst(w) \/ NoDestination(w)
  <2>1. PICK w \in Waiters : SendFirst(w) \/ NoDestination(w)
    BY <1>6
  <2>2. pending = {} /\ waiter[w].pc = "registered" /\ UNCHANGED <<handler, pending>>
    BY <2>1 DEF SendFirst, NoDestination, CanRLock
  <2>3. w # h
    BY <1>0, <2>2
  <2>4. waiter'[h] = waiter[h]
    BY <1>0, <1>1, <2>1, <2>3 DEF SendFirst, NoDestination, Set, Goto
  <2> QED BY <1>2, <2>2, <2>4
<1>7. CASE \E w \in Waiters : Timeout(w)
  <2>1. PICK w \in Waiters : Timeout(w)
    BY <1>7
  <2>2. waiter[w].pc = "wait" /\ UNCHANGED <<handler, pending>>
    BY <2>1 DEF Timeout
  <2>3. w # h
    BY <1>0, <2>2
  <2>4. waiter'[h] = waiter[h]
    BY <1>0, <1>1, <2>1, <2>3 DEF Timeout, Set, Goto
  <2> QED BY <1>2, <2>2, <2>4
<1>8. CASE Tick \/ UNCHANGED vars
  BY <1>2, <1>8 DEF Tick, vars
<1>9. ~Deliver
  BY <1>0 DEF Deliver, h
<1> QED BY <1>0, <1>4, <1>5, <1>6, <1>7, <1>8, <1>9 DEF Next, LookupHit, Register, Unregister,
       RemoveExpired, HandleRequest, HandleReply, OtherPacket, StartNotify, RunARPExpiryJob, Operator,
       CanLock, ReadHeld

\* Once HandleARP sends to a goroutine that waits for the lock, it sends for ever.
THEOREM WedgedForeverHolds == Spec => WedgedForever
<1>1. TypeInv /\ ChannelInv /\ [Next]_vars => [Wedged => Wedged']_vars
  BY WedgeStays
<1> QED BY <1>1, ChannelsHold, PTL DEF Spec, WedgedForever

-----------------------------------------------------------------------------
(* The table and the answers.                                                *)

\* As long as the packet an answer may be part of has not been overwritten, the
\* answer is a MAC that was asserted for that address, however replies, timeouts,
\* expiry and operators' edits interleave.
AnswerIsClaimed == answer # <<>> /\ bytes # "reused" => answer \in claimed

TableInv ==
  /\ OneEntryPerAddress
  /\ \A e \in arp : <<e.addr, e.mac>> \in claimed
  /\ handler.pc # "idle" => <<handler.addr, handler.mac>> \in claimed
  /\ AnswerIsClaimed

\* The reader has no answer before a reply reaches it in its select.
NotYetAnswered ==
  waiter[Reader].pc \in {"lookup", "start", "registered", "wait"} => answer = <<>>

\* Without the entry found, a table has no entry of the address.
LEMMA WithoutFound ==
  ASSUME OneEntryPerAddress, NEW a
  PROVE  \A e \in arp \ Found(a) : e.addr # a
BY DEF OneEntryPerAddress, Found, EntryOf

LEMMA StoreKeepsTable ==
  ASSUME TableInv, NEW a, NEW m, NEW e, e.addr = a, e.mac = m,
         arp' = (arp \ Found(a)) \cup {e}, claimed' = claimed \cup {<<a, m>>},
         UNCHANGED <<answer, bytes>> \/ bytes' = "reused",
         handler' = handler \/ (handler'.addr = a /\ handler'.mac = m)
  PROVE  TableInv'
<1>1. OneEntryPerAddress'
  BY WithoutFound DEF TableInv, OneEntryPerAddress
<1>2. (\A f \in arp : <<f.addr, f.mac>> \in claimed)'
  BY DEF TableInv
<1> QED BY <1>1, <1>2 DEF TableInv, AnswerIsClaimed

LEMMA InitTable == Init => TableInv /\ NotYetAnswered
BY DEF Init, TableInv, OneEntryPerAddress, AnswerIsClaimed, HandlerIdle, NotYetAnswered, Idle, Waiters

LEMMA NextTable == TypeInv /\ ChannelInv /\ TableInv /\ [Next]_vars => TableInv'
<1> SUFFICES ASSUME TypeInv, ChannelInv, TableInv, [Next]_vars PROVE TableInv'
  OBVIOUS
<1>1. ASSUME arp' \subseteq arp, UNCHANGED claimed,
             answer' = <<>> \/ bytes' = "reused" \/ UNCHANGED <<answer, bytes>>,
             handler' = handler \/ handler'.pc = "idle"
                \/ (handler'.addr = handler.addr /\ handler'.mac = handler.mac /\ handler.pc # "idle")
      PROVE  TableInv'
  BY <1>1 DEF TableInv, OneEntryPerAddress, AnswerIsClaimed
<1>2. CASE LookupHit
  <2>1. EntryOf(waiter[Reader].addr) \in arp /\ EntryOf(waiter[Reader].addr).addr = waiter[Reader].addr
    BY <1>2, FoundEntry DEF LookupHit, TypeInv
  <2>2. answer' \in claimed /\ UNCHANGED <<arp, claimed, handler>>
    BY <1>2, <2>1 DEF LookupHit, TableInv
  <2> QED BY <2>2 DEF TableInv, OneEntryPerAddress, AnswerIsClaimed
<1>3. ASSUME NEW a \in Addr, NEW m \in Mac, HandleRequest(a, m) \/ HandleReply(a, m)
      PROVE  TableInv'
  <2>1. AddOrUpdateARP(a, m) /\ claimed' = claimed \cup {<<a, m>>} /\ ReadPacket
        /\ (handler' = handler \/ (handler'.addr = a /\ handler'.mac = m))
    BY <1>3 DEF HandleRequest, HandleReply
  <2>2. arp' = (arp \ Found(a)) \cup {Learned(a, m)}
    BY <2>1 DEF AddOrUpdateARP, Learned
  <2>3. Learned(a, m).addr = a /\ Learned(a, m).mac = m
    BY DEF Learned
  <2>4. UNCHANGED <<answer, bytes>> \/ bytes' = "reused"
    BY <2>1, PacketRead
  <2> QED BY <2>1, <2>2, <2>3, <2>4, StoreKeepsTable
<1>4. CASE Deliver
  <2> DEFINE w == Head(handler.chs)
  <2>1. ReadHeld /\ waiter[w].addr = handler.addr
    <3>1. ReadHeld /\ handler.chs \in Seq(Waiters) /\ handler.chs # <<>>
      BY <1>4 DEF Deliver, ReadHeld, TypeInv, TypeOK, WellFormed
    <3>2. Contains(handler.chs, w)
      BY <3>1, TailChannels
    <3> QED BY <3>1, <3>2 DEF ChannelInv, NotifiesOnlyListeners, Contains
  <2>2. /\ answer' = <<handler.addr, handler.mac>> \/ UNCHANGED <<answer, bytes>>
        /\ UNCHANGED <<arp, claimed>>
        /\ (handler'.pc = "idle" \/ (handler'.addr = handler.addr /\ handler'.mac = handler.mac))
    BY <1>4, <2>1 DEF Deliver, HandlerIdle, TypeInv, TypeOK
  <2> QED BY <2>1, <2>2 DEF TableInv, OneEntryPerAddress, AnswerIsClaimed, ReadHeld
<1>5. CASE Operator
  <2>1. UNCHANGED <<handler, answer, bytes>>
    BY <1>5 DEF Operator
  <2>2. ASSUME NEW a \in Addr, NEW m \in Mac, NEW perm \in BOOLEAN, AddStaticARPEntry(a, m, perm)
        PROVE  TableInv'
    <3> DEFINE e == [addr |-> a, mac |-> m, expires |-> 0, updating |-> FALSE, permanent |-> perm]
    <3>1. e.addr = a /\ e.mac = m
      OBVIOUS
    <3>2. arp' = (arp \ Found(a)) \cup {e} /\ claimed' = claimed \cup {<<a, m>>}
      BY <2>2 DEF AddStaticARPEntry
    <3> HIDE DEF e
    <3> QED BY <2>1, <3>1, <3>2, StoreKeepsTable
  <2>3. CASE (\E a \in Addr : RemoveARPEntry(a)) \/ FlushARPTable \/ FlushPermanentARP
    BY <1>1, <2>1, <2>3 DEF RemoveARPEntry, FlushARPTable, FlushPermanentARP
  <2> QED BY <1>5, <2>2, <2>3 DEF Operator
<1>6. CASE StartNotify
  <2>1. handler.pc # "idle" /\ UNCHANGED <<arp, claimed, answer, bytes>>
        /\ (handler'.pc = "idle" \/ (handler'.addr = handler.addr /\ handler'.mac = handler.mac))
    BY <1>6 DEF StartNotify, HandlerIdle, TypeInv, TypeOK
  <2> QED BY <1>1, <2>1
<1>7. CASE \/ \E p \in Lockers : QueueForLock(p)
           \/ \E a \in Addr : StartGetMacFor(a)
           \/ \E w \in Waiters : Register(w) \/ SendFirst(w) \/ NoDestination(w) \/ Timeout(w) \/ Unregister(w)
           \/ Tick
           \/ UNCHANGED vars
  BY <1>1, <1>7 DEF QueueForLock, StartGetMacFor, Register, SendFirst, NoDestination, Timeout,
     Unregister, Tick, vars
<1>8. CASE (\E u \in Updaters : RemoveExpired(u)) \/ RunARPExpiryJob
  BY <1>1, <1>8 DEF RemoveExpired, RunARPExpiryJob
<1>9. CASE OtherPacket
  <2>1. UNCHANGED <<arp, claimed, handler>> /\ (UNCHANGED <<answer, bytes>> \/ bytes' = "reused")
    BY <1>9, PacketRead DEF OtherPacket
  <2> QED BY <1>1, <2>1
<1> QED BY <1>2, <1>3, <1>4, <1>5, <1>6, <1>7, <1>8, <1>9 DEF Next

LEMMA TableHolds == Spec => []TableInv
BY ChannelsHold, InitTable, NextTable, PTL DEF Spec

\* The table never has two entries for one address.
THEOREM OneEntryHolds == Spec => []OneEntryPerAddress
<1>1. TableInv => OneEntryPerAddress
  BY DEF TableInv
<1> QED BY <1>1, TableHolds, PTL

\* A resolution is answered with a MAC that somebody asserted for the address,
\* and the answer remains that until its packet's buffer is read into again.
THEOREM AnswersCorrect == Spec => []AnswerIsClaimed
<1>1. TableInv => AnswerIsClaimed
  BY DEF TableInv
<1> QED BY <1>1, TableHolds, PTL

-----------------------------------------------------------------------------
(* Arp implements Resolver.                                                  *)

AllInv == TypeInv /\ ChannelInv /\ TableInv /\ NotYetAnswered

\* A step in which the reader neither starts nor returns, and gets no answer.
ReaderStays ==
  /\ waiter'[Reader].pc # "idle" <=> waiter[Reader].pc # "idle"
  /\ waiter'[Reader].addr = waiter[Reader].addr
  /\ answer' # <<>> <=> answer # <<>>

LEMMA StaysAsked == ReaderStays => Asked' = Asked
BY DEF ReaderStays, Asked

LEMMA OthersStay ==
  ASSUME TypeInv, NEW w \in Waiters, w # Reader,
         \/ \E r \in WaiterState : Set(w, r)
         \/ \E l \in WaiterPC : Goto(w, l)
  PROVE  waiter'[Reader] = waiter[Reader]
<1>1. waiter \in [Waiters -> WaiterState] /\ Reader \in Waiters
  BY DEF TypeInv, TypeOK, Waiters
<1> QED BY <1>1 DEF Set, Goto

\* The reader on its way from the miss to the clean-up.
LEMMA ReaderMoves ==
  ASSUME AllInv, NEW w \in Waiters, UNCHANGED <<answer, bytes, claimed>>,
         Register(w) \/ SendFirst(w) \/ NoDestination(w) \/ Timeout(w)
  PROVE  ReaderStays /\ NotYetAnswered'
<1>0. waiter \in [Waiters -> WaiterState] /\ Reader \in Waiters /\ waiter[w] \in WaiterState
  BY DEF AllInv, TypeInv, TypeOK, Waiters
<1>1. CASE w # Reader
  <2>1. waiter'[Reader] = waiter[Reader]
    BY <1>0, <1>1 DEF Register, SendFirst, NoDestination, Timeout, Set, Goto
  <2> QED BY <2>1 DEF AllInv, ReaderStays, NotYetAnswered
<1>2. CASE w = Reader
  <2>1. waiter[w].pc \in {"lookup", "start", "registered", "wait"}
    BY DEF Register, SendFirst, NoDestination, Timeout
  <2>2. waiter'[w].addr = waiter[w].addr /\ waiter'[w].pc # "idle"
    BY <1>0, <2>1 DEF Register, SendFirst, NoDestination, Timeout, Set, Goto, WaiterState
  <2> QED BY <1>2, <2>1, <2>2 DEF AllInv, ReaderStays, NotYetAnswered
<1> QED BY <1>1, <1>2

LEMMA InitAsked == Init => R!Init
BY DEF Init, R!Init, Asked, Idle, Waiters

\* Every step is one of the resolver's or leaves its state alone.
LEMMA NextAsked == AllInv /\ [Next]_vars => [R!Next]_(R!vars) /\ NotYetAnswered'
<1> SUFFICES ASSUME AllInv, [Next]_vars PROVE [R!Next]_(R!vars) /\ NotYetAnswered'
  OBVIOUS
<1>0. /\ waiter \in [Waiters -> WaiterState] /\ Reader \in Waiters /\ TypeInv
      /\ \A w \in Waiters : waiter[w].pc # "idle" => waiter[w].addr \in Addr
      /\ NoAddr \notin Addr
  BY ConstAssumption DEF AllInv, TypeInv, TypeOK, WellFormed, WaitersWellFormed, Waiters
<1>1. ASSUME waiter'[Reader] = waiter[Reader], UNCHANGED <<answer, bytes, claimed>>
      PROVE  [R!Next]_(R!vars) /\ NotYetAnswered'
  BY <1>1, StaysAsked DEF ReaderStays, R!vars, AllInv, NotYetAnswered
<1>2. ASSUME waiter'[Reader] = waiter[Reader], UNCHANGED <<answer, bytes>>,
             NEW a \in Addr, NEW m \in Mac, claimed' = claimed \cup {<<a, m>>}
      PROVE  [R!Next]_(R!vars) /\ NotYetAnswered'
  BY <1>2, StaysAsked DEF ReaderStays, R!Next, R!Claim, AllInv, NotYetAnswered
<1>12. ASSUME waiter'[Reader] = waiter[Reader], ReadPacket
       PROVE  /\ Asked' = Asked /\ NotYetAnswered'
              /\ R!Reuse \/ UNCHANGED <<answer, bytes>>
  BY <1>0, <1>12, PacketRead, StaysAsked DEF ReaderStays, R!Reuse, AllInv, NotYetAnswered
<1>3. ASSUME NEW a \in Addr, StartGetMacFor(a)
      PROVE  [R!Next]_(R!vars) /\ NotYetAnswered'
  <2> DEFINE r == [pc |-> "lookup", addr |-> a, tries |-> 0]
  <2>1. r \in WaiterState /\ r.pc = "lookup" /\ r.addr = a
    BY ConstAssumption DEF WaiterState, WaiterPC
  <2>2. /\ Set(Reader, r) /\ waiter[Reader].pc = "idle"
        /\ answer' = <<>> /\ bytes' = "own" /\ claimed' = claimed
    BY <1>3 DEF StartGetMacFor
  <2> HIDE DEF r
  <2>3. waiter'[Reader] = r
    BY <1>0, <2>1, <2>2, SetEffect
  <2>4. Asked = NoAddr /\ Asked' = a
    BY <2>1, <2>2, <2>3 DEF Asked
  <2> QED BY <2>2, <2>4 DEF R!Next, R!Ask, NotYetAnswered
<1>4. CASE LookupHit
  <2> DEFINE a == waiter[Reader].addr
  <2>1. /\ EntryOf(a) \in arp /\ EntryOf(a).addr = a /\ EntryOf(a).mac \in Mac /\ a \in Addr
        /\ <<a, EntryOf(a).mac>> \in claimed
    BY <1>0, <1>4, FoundEntry DEF LookupHit, AllInv, TypeInv, TableInv, ArpEntry
  <2>2. waiter[Reader].pc = "lookup" /\ answer = <<>> /\ claimed' = claimed
        /\ answer' = <<a, EntryOf(a).mac>> /\ bytes' = "own"
    BY <1>4 DEF LookupHit, AllInv, NotYetAnswered
  <2>3. waiter'[Reader] = Idle
    BY <1>0, <1>4, ConstAssumption DEF LookupHit, Set, Waiters
  <2>4. Asked = a /\ Asked' = NoAddr
    BY <2>2, <2>3, IdleState DEF Asked
  <2>5. R!Answer(EntryOf(a).mac)
    BY <1>0, <2>1, <2>2, <2>4 DEF R!Answer
  <2> QED BY <2>1, <2>3, <2>5, IdleState DEF R!Next, NotYetAnswered
<1>5. ASSUME NEW w \in Waiters, Register(w) \/ SendFirst(w) \/ NoDestination(w) \/ Timeout(w)
      PROVE  [R!Next]_(R!vars) /\ NotYetAnswered'
  <2>1. UNCHANGED <<answer, bytes, claimed>>
    BY <1>5 DEF Register, SendFirst, NoDestination, Timeout
  <2> QED BY <1>5, <2>1, ReaderMoves, StaysAsked DEF R!vars, ReaderStays
<1>6. ASSUME NEW w \in Waiters, Unregister(w)
      PROVE  [R!Next]_(R!vars) /\ NotYetAnswered'
  <2>1. Set(w, Idle) /\ waiter[w].pc = "cleanup" /\ UNCHANGED <<answer, bytes, claimed>>
    BY <1>6 DEF Unregister
  <2>2. CASE w # Reader
    BY <1>0, <1>1, <2>1, <2>2, IdleState, OthersStay
  <2>3. CASE w = Reader
    <3>1. waiter'[Reader] = Idle
      BY <1>0, <2>1, <2>3, IdleState, SetEffect
    <3>2. Asked' = NoAddr /\ NotYetAnswered'
      BY <3>1, IdleState DEF Asked, NotYetAnswered
    <3>3. CASE answer = <<>>
      <4>1. Asked \in Addr
        BY <1>0, <2>1, <2>3, <3>3 DEF Asked
      <4> QED BY <1>0, <2>1, <3>2, <4>1 DEF R!Next, R!Fail
    <3>4. CASE answer # <<>>
      BY <2>1, <3>2, <3>4 DEF Asked, R!vars
    <3> QED BY <3>3, <3>4
  <2> QED BY <2>2, <2>3
<1>7. ASSUME NEW u \in Updaters, RemoveExpired(u)
      PROVE  [R!Next]_(R!vars) /\ NotYetAnswered'
  <2>1. u \in Waiters /\ u # Reader /\ Goto(u, "cleanup") /\ "cleanup" \in WaiterPC
    BY <1>7, ConstAssumption DEF RemoveExpired, Waiters, WaiterPC
  <2> QED BY <1>0, <1>1, <1>7, <2>1, OthersStay DEF RemoveExpired
<1>8. ASSUME NEW a \in Addr, NEW m \in Mac, HandleRequest(a, m) \/ HandleReply(a, m)
      PROVE  [R!Next]_(R!vars) /\ NotYetAnswered'
  <2>1. waiter'[Reader] = waiter[Reader] /\ ReadPacket /\ claimed' = claimed \cup {<<a, m>>}
    BY <1>8 DEF HandleRequest, HandleReply
  <2>2. R!Claim(a, m) /\ NotYetAnswered'
    BY <1>12, <2>1 DEF R!Claim
  <2> QED BY <2>2 DEF R!Next
<1>9. CASE Deliver
  <2> DEFINE w == Head(handler.chs)
  <2>1. ReadHeld /\ handler.chs \in Seq(Waiters) /\ handler.chs # <<>>
    BY <1>0, <1>9 DEF Deliver, ReadHeld, TypeInv, TypeOK, WellFormed
  <2>2. w \in Waiters /\ Contains(handler.chs, w)
    BY <2>1, TailChannels
  <2>3. /\ waiter[w].pc = "wait" /\ waiter[w].addr = handler.addr /\ claimed' = claimed
        /\ IF w = Reader THEN answer' = <<waiter[w].addr, handler.mac>> /\ bytes' = "lent"
                         ELSE UNCHANGED <<answer, bytes>>
        /\ Goto(w, "cleanup") /\ "cleanup" \in WaiterPC
    BY <1>9, <2>1, <2>2 DEF Deliver, AllInv, ChannelInv, NotifiesOnlyListeners, Contains, WaiterPC
  <2>4. handler.mac \in Mac /\ <<handler.addr, handler.mac>> \in claimed /\ handler.addr \in Addr
    BY <2>1 DEF AllInv, TypeInv, WellFormed, TableInv, ReadHeld
  <2> HIDE DEF w
  <2>5. CASE w # Reader
    BY <1>0, <1>1, <2>2, <2>3, <2>5, OthersStay
  <2>6. CASE w = Reader
    <3>1. answer = <<>> /\ Asked = handler.addr
      BY <2>3, <2>6 DEF AllInv, NotYetAnswered, Asked
    <3>2. waiter'[Reader].pc = "cleanup"
      BY <1>0, <2>2, <2>3, <2>6, GotoEffect
    <3>3. answer' = <<handler.addr, handler.mac>> /\ bytes' = "lent"
      BY <2>3, <2>6
    <3>4. Asked' = NoAddr /\ NotYetAnswered'
      BY <3>2, <3>3 DEF Asked, NotYetAnswered
    <3>5. R!Answer(handler.mac)
      BY <1>0, <2>3, <2>4, <3>1, <3>3, <3>4 DEF R!Answer
    <3> QED BY <2>4, <3>4, <3>5 DEF R!Next
  <2> QED BY <2>5, <2>6
<1>10. CASE Operator
  BY <1>1, <1>2, <1>10 DEF Operator, AddStaticARPEntry, RemoveARPEntry, FlushARPTable, FlushPermanentARP
<1>11. CASE (\E p \in Lockers : QueueForLock(p)) \/ StartNotify \/ RunARPExpiryJob \/ Tick \/ UNCHANGED vars
  BY <1>1, <1>11 DEF QueueForLock, StartNotify, RunARPExpiryJob, Tick, vars
<1>13. CASE OtherPacket
  <2>1. waiter'[Reader] = waiter[Reader] /\ ReadPacket /\ claimed' = claimed
    BY <1>13 DEF OtherPacket
  <2>2. R!Overwrite \/ UNCHANGED R!vars
    BY <1>12, <2>1 DEF R!Overwrite, R!vars
  <2> QED BY <1>12, <2>1, <2>2 DEF R!Next
<1> QED BY <1>3, <1>4, <1>5, <1>6, <1>7, <1>8, <1>9, <1>10, <1>11, <1>13 DEF Next

\* GetMacFor, with its table, locks, channels and retries, implements Resolver:
\* no interleaving makes it answer another question, twice, or with a MAC that
\* nobody had asserted when it was given.
THEOREM Implements == Spec => ImplementsResolver
<1>1. Init => AllInv
  BY InitTypes, InitChannels, InitTable DEF AllInv
<1>2. AllInv /\ [Next]_vars => AllInv'
  BY NextTypes, NextChannels, NextTable, NextAsked DEF AllInv
<1>3. AllInv /\ [Next]_vars => [R!Next]_(R!vars)
  BY NextAsked
<1> QED BY <1>1, <1>2, <1>3, InitAsked, PTL DEF Spec, ImplementsResolver, R!Spec

=============================================================================
