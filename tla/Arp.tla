-------------------------------- MODULE Arp --------------------------------
(***************************************************************************)
(* Address resolution on one vxlan interface (interface.go).               *)
(*                                                                         *)
(* Four kinds of goroutine share the ARP table and the map of event        *)
(* channels, both guarded by the RWMutex i.tables:                         *)
(*   - the TUN packet reader, which calls GetMacFor for each packet and    *)
(*     blocks up to MaxTries timeouts when the address is unknown;         *)
(*   - any number of updateARPFor goroutines, one spawned each time the    *)
(*     reader uses an expired entry;                                       *)
(*   - the listener's packet reader, which calls HandleARP;                *)
(*   - the expiry ticker and the gRPC handlers, which edit the table.      *)
(*                                                                         *)
(* A critical section that is released before its goroutine blocks is one  *)
(* action.  The one lock that is held across a blocking operation is the   *)
(* read lock HandleARP keeps while it sends on the waiters' unbuffered     *)
(* channels: it is the handler state "sending", and pending is the set of  *)
(* goroutines whose Lock() call is queued behind it (a queued writer bars  *)
(* later readers, as sync.RWMutex documents).                              *)
(*                                                                         *)
(* Addresses are the ones left after GetGateway's substitution and after   *)
(* the multicast and broadcast cases have returned.                        *)
(*                                                                         *)
(* A MAC is a slice.  The one HandleARP sends to the waiters points into   *)
(* the buffer the listener reads packets into (AddOrUpdateARP copies it,   *)
(* the send does not), so an answer that came from a reply changes under   *)
(* its owner's hands when the next packet is read: bytes and ReadPacket.   *)
(***************************************************************************)
EXTENDS Naturals, Sequences, FiniteSets, SequencesExt

CONSTANTS
  Addr,      \* IP addresses on the overlay
  Mac,       \* MAC addresses of the peers
  NoAddr,    \* the address field of a goroutine that resolves nothing
  Reader,    \* the TUN packet reader, the only caller of GetMacFor
  Updaters,  \* the updateARPFor goroutines that may exist at one time (a bound)
  TTL,       \* the 60 s a learned entry lives, in ticks
  Grace,     \* the 120 s after which an expired entry is to be removed, in ticks
  MaxTries,  \* ARP requests sent before giving up: 3 in the code
  MaxTime    \* bound on the clock

ASSUME ConstAssumption ==
  /\ NoAddr \notin Addr
  /\ Reader \notin Updaters
  /\ TTL \in Nat \ {0}
  /\ Grace \in Nat
  /\ MaxTries \in Nat \ {0}
  /\ MaxTime \in Nat

Waiters == {Reader} \cup Updaters

VARIABLES
  arp,       \* i.tables.arp, at most one entry per address (OneEntryPerAddress)
  arpEvent,  \* i.tables.arpEvent: the owners of the channels registered per address
  waiter,    \* the goroutines inside GetMacFor or updateARPFor
  handler,   \* the goroutine inside HandleARP, with the channels left to send on
  pending,   \* goroutines queued in i.tables.Lock()
  now,       \* the clock; Expires = 0 stands for the zero time, so it starts at 1
  answer,    \* <<addr, mac>> of the last GetMacFor, as it reads now; <<>> if none
  bytes,     \* whose memory answer's MAC is: see Bytes
  claimed    \* history: every <<addr, mac>> a peer or an operator has asserted

vars == <<arp, arpEvent, waiter, handler, pending, now, answer, bytes, claimed>>

\* Nobody else writes the MAC ("own": it is the table's, or there is no answer);
\* it is part of the packet buffer ("lent"), which has since been read into
\* again ("reused").
Bytes == {"own", "lent", "reused"}

ArpEntry == [addr: Addr, mac: Mac, expires: Nat, permanent: BOOLEAN, updating: BOOLEAN]

WaiterPC == {"idle", "lookup", "start", "registered", "wait", "expire", "cleanup"}
\* The states in which a goroutine's channel is in arpEvent.
Listening == {"registered", "wait", "expire", "cleanup"}
\* The states whose next step is i.tables.Lock().
WantsLock == {"lookup", "start", "expire", "cleanup"}

WaiterState == [pc: WaiterPC, addr: Addr \cup {NoAddr}, tries: 0..MaxTries]

Lockers == Waiters \cup {"expiry", "operator"}

Idle == [pc |-> "idle", addr |-> NoAddr, tries |-> 0]
HandlerIdle == [pc |-> "idle", addr |-> NoAddr, mac |-> NoAddr, chs |-> <<>>]

TypeOK ==
  /\ arp \subseteq ArpEntry
  /\ arpEvent \in [Addr -> Seq(Waiters)]
  /\ waiter \in [Waiters -> WaiterState]
  /\ handler \in [pc: {"idle", "notify", "sending"}, addr: Addr \cup {NoAddr},
                  mac: Mac \cup {NoAddr}, chs: Seq(Waiters)]
  /\ pending \subseteq Lockers
  /\ now \in Nat
  /\ answer \in {<<>>} \cup (Addr \X Mac)
  /\ bytes \in Bytes
  /\ claimed \subseteq Addr \X Mac

Init ==
  /\ arp = {}
  /\ arpEvent = [a \in Addr |-> <<>>]
  /\ waiter = [w \in Waiters |-> Idle]
  /\ handler = HandlerIdle
  /\ pending = {}
  /\ now = 1
  /\ answer = <<>>
  /\ bytes = "own"
  /\ claimed = {}

-----------------------------------------------------------------------------
(* The lock i.tables.                                                        *)

ReadHeld == handler.pc = "sending"
CanLock == ~ReadHeld
CanRLock == pending = {}

\* A goroutine calls Lock() while HandleARP holds the read lock and queues.
QueueForLock(p) ==
  /\ ReadHeld
  /\ p \notin pending
  /\ p \in Waiters => waiter[p].pc \in WantsLock
  /\ pending' = pending \cup {p}
  /\ UNCHANGED <<arp, arpEvent, waiter, handler, now, answer, bytes, claimed>>

-----------------------------------------------------------------------------
(* The table.                                                                *)

HasEntry(a) == \E e \in arp : e.addr = a
\* Mutant: the search does not compare addresses.
EntryOfAnyone(a) == CHOOSE e \in arp : TRUE

EntryOf(a) == CHOOSE e \in arp : e.addr = a
\* The entry a loop over the table stops at: one of address a, if there is one.
Found(a) == {e \in arp : e.addr = a /\ e = EntryOf(a)}
Knows(a, m) == HasEntry(a) /\ EntryOf(a).mac = m

\* Mutant: the entry with another MAC is left in the table.
AddBesideOld(a, m) ==
  arp' = arp \cup {[addr |-> a, mac |-> m, expires |-> now + TTL, updating |-> FALSE,
                    permanent |-> FALSE]}

\* A matching entry is refreshed in place, any other entry of the address is
\* removed and a new one appended.
AddOrUpdateARP(a, m) ==
  arp' = (arp \ Found(a)) \cup
           {[addr |-> a, mac |-> m, expires |-> now + TTL, updating |-> FALSE,
             permanent |-> Knows(a, m) /\ EntryOf(a).permanent]}

-----------------------------------------------------------------------------
(* GetMacFor and updateARPFor.                                               *)

Set(w, state) == waiter' = [waiter EXCEPT ![w] = state]
Goto(w, pc) == Set(w, [waiter[w] EXCEPT !.pc = pc])

\* GetMacFor is called; GetGateway takes and releases the read lock.
StartGetMacFor(a) ==
  /\ waiter[Reader].pc = "idle"
  /\ CanRLock
  /\ Set(Reader, [pc |-> "lookup", addr |-> a, tries |-> 0])
  /\ answer' = <<>>
  /\ bytes' = "own"
  /\ UNCHANGED <<arp, arpEvent, handler, pending, now, claimed>>

\* An entry is refreshed in the background once it is past its expiry.
NeedsUpdate(e) == ~e.updating /\ e.expires # 0 /\ now > e.expires

\* The address is in the table: return its MAC, and start an update if it has
\* expired.  The loop variable is a copy, so marking it as updating leaves the
\* table as it was.
LookupHit ==
  LET a == waiter[Reader].addr IN
  /\ waiter[Reader].pc = "lookup"
  /\ CanLock
  /\ HasEntry(a)
  /\ answer' = <<a, EntryOf(a).mac>>
  /\ bytes' = "own"
  /\ \/ /\ ~NeedsUpdate(EntryOf(a))
        /\ Set(Reader, Idle)
     \/ /\ NeedsUpdate(EntryOf(a))
        /\ \E u \in Updaters :
             /\ waiter[u].pc = "idle"
             /\ waiter' = [waiter EXCEPT ![Reader] = Idle,
                                         ![u] = [pc |-> "start", addr |-> a, tries |-> 0]]
  /\ pending' = pending \ {Reader}
  /\ UNCHANGED <<arp, arpEvent, handler, now, claimed>>

\* Register a channel for the address: GetMacFor after a miss, under the same
\* lock as the search, and updateARPFor when it starts.
Register(w) ==
  /\ \/ w = Reader /\ waiter[w].pc = "lookup" /\ ~HasEntry(waiter[w].addr)
     \/ waiter[w].pc = "start"
  /\ CanLock
  /\ arpEvent' = [arpEvent EXCEPT ![waiter[w].addr] = Append(@, w)]
  /\ Goto(w, "registered")
  /\ pending' = pending \ {w}
  /\ UNCHANGED <<arp, handler, now, answer, bytes, claimed>>

\* GetDestinationFor(broadcast) under the read lock: with a destination the
\* first ARP request is sent, without one the call gives up.
SendFirst(w) ==
  /\ waiter[w].pc = "registered"
  /\ CanRLock
  /\ Set(w, [waiter[w] EXCEPT !.pc = "wait", !.tries = 1])
  /\ UNCHANGED <<arp, arpEvent, handler, pending, now, answer, bytes, claimed>>

NoDestination(w) ==
  /\ waiter[w].pc = "registered"
  /\ CanRLock
  /\ Goto(w, "cleanup")
  /\ UNCHANGED <<arp, arpEvent, handler, pending, now, answer, bytes, claimed>>

\* Mutant: one try too many.
TimeoutOneMore(w) ==
  /\ waiter[w].pc = "wait"
  /\ \/ /\ waiter[w].tries <= MaxTries
        /\ Set(w, [waiter[w] EXCEPT !.tries = @ + 1])
     \/ /\ waiter[w].tries > MaxTries
        /\ Goto(w, "cleanup")
  /\ UNCHANGED <<arp, arpEvent, handler, pending, now, answer, bytes, claimed>>

\* Mutant: tries are not counted.
TimeoutUncounted(w) ==
  /\ waiter[w].pc = "wait"
  /\ UNCHANGED vars

\* Three seconds pass without an answer: send again, or give up after MaxTries;
\* giving up, updateARPFor goes on to remove the entry.
Timeout(w) ==
  /\ waiter[w].pc = "wait"
  /\ \/ /\ waiter[w].tries < MaxTries
        /\ Set(w, [waiter[w] EXCEPT !.tries = @ + 1])
     \/ /\ waiter[w].tries = MaxTries
        /\ Goto(w, IF w = Reader THEN "cleanup" ELSE "expire")
  /\ UNCHANGED <<arp, arpEvent, handler, pending, now, answer, bytes, claimed>>

\* updateARPFor removes whatever entry the address has by now.
RemoveExpired(u) ==
  /\ waiter[u].pc = "expire"
  /\ CanLock
  /\ arp' = arp \ Found(waiter[u].addr)
  /\ Goto(u, "cleanup")
  /\ pending' = pending \ {u}
  /\ UNCHANGED <<arpEvent, handler, now, answer, bytes, claimed>>

\* The event list q without the channel of w, wherever in q it is.
Without(q, w) ==
  IF Contains(q, w) THEN RemoveAt(q, CHOOSE k \in 1..Len(q) : q[k] = w) ELSE q

\* Mutant: the channel is left in the event list.
ReturnRegistered(w) ==
  /\ waiter[w].pc = "cleanup"
  /\ CanLock
  /\ Set(w, Idle)
  /\ pending' = pending \ {w}
  /\ UNCHANGED <<arp, arpEvent, handler, now, answer, bytes, claimed>>

\* Mutant: the event list is edited without the lock.
UnregisterUnlocked(w) ==
  /\ waiter[w].pc = "cleanup"
  /\ arpEvent' = [arpEvent EXCEPT ![waiter[w].addr] = Without(@, w)]
  /\ Set(w, Idle)
  /\ pending' = pending \ {w}
  /\ UNCHANGED <<arp, handler, now, answer, bytes, claimed>>

\* The deferred function: take the channel out of the event list and return.
Unregister(w) ==
  /\ waiter[w].pc = "cleanup"
  /\ CanLock
  /\ arpEvent' = [arpEvent EXCEPT ![waiter[w].addr] = Without(@, w)]
  /\ Set(w, Idle)
  /\ pending' = pending \ {w}
  /\ UNCHANGED <<arp, handler, now, answer, bytes, claimed>>

-----------------------------------------------------------------------------
(* HandleARP, on the listener's goroutine.                                   *)

\* conn.Read fills the packet buffer, whatever still points into it: those six
\* bytes may be any of the new packet's.
ReadPacket ==
  IF bytes = "own" THEN UNCHANGED <<answer, bytes>>
  ELSE /\ bytes' = "reused"
       /\ \E m \in Mac : answer' = <<answer[1], m>>

\* A packet that teaches the interface nothing: not for it, not ARP, a request
\* for another's address or from a sender without a destination.
OtherPacket ==
  /\ handler.pc = "idle"
  /\ bytes # "own"
  /\ ReadPacket
  /\ UNCHANGED <<arp, arpEvent, waiter, handler, pending, now, claimed>>

\* A request for one of our addresses teaches us the sender's MAC.
HandleRequest(a, m) ==
  /\ handler.pc = "idle"
  /\ CanRLock
  /\ ReadPacket
  /\ AddOrUpdateARP(a, m)
  /\ claimed' = claimed \cup {<<a, m>>}
  /\ UNCHANGED <<arpEvent, waiter, handler, pending, now>>

\* A reply to our MAC is stored under the lock, which is then released ...
HandleReply(a, m) ==
  /\ handler.pc = "idle"
  /\ ReadPacket
  /\ AddOrUpdateARP(a, m)
  /\ claimed' = claimed \cup {<<a, m>>}
  /\ handler' = [pc |-> "notify", addr |-> a, mac |-> m, chs |-> <<>>]
  /\ UNCHANGED <<arpEvent, waiter, pending, now>>

\* ... then the read lock is taken and kept while the channels are sent to.
StartNotify ==
  /\ handler.pc = "notify"
  /\ CanRLock
  /\ LET chs == arpEvent[handler.addr] IN
     handler' = IF chs = <<>> THEN HandlerIdle
                ELSE [handler EXCEPT !.pc = "sending", !.chs = chs]
  /\ UNCHANGED <<arp, arpEvent, waiter, pending, now, answer, bytes, claimed>>

\* Mutant: only the first channel is sent to.
DeliverFirst ==
  LET w == Head(handler.chs) IN
  /\ handler.pc = "sending"
  /\ waiter[w].pc = "wait"
  /\ Goto(w, "cleanup")
  /\ IF w = Reader THEN answer' = <<waiter[w].addr, handler.mac>> /\ bytes' = "lent"
                    ELSE UNCHANGED <<answer, bytes>>
  /\ handler' = HandlerIdle
  /\ UNCHANGED <<arp, arpEvent, pending, now, claimed>>

\* The unbuffered send meets the receive of a goroutine that is in its select
\* and hands it a slice of the packet buffer, which updateARPFor does not look at.
\* After the last channel the read lock is released.
Deliver ==
  LET w == Head(handler.chs) IN
  /\ handler.pc = "sending"
  /\ waiter[w].pc = "wait"
  /\ Goto(w, "cleanup")
  /\ IF w = Reader THEN answer' = <<waiter[w].addr, handler.mac>> /\ bytes' = "lent"
                    ELSE UNCHANGED <<answer, bytes>>
  /\ handler' = IF Len(handler.chs) = 1 THEN HandlerIdle
                ELSE [handler EXCEPT !.chs = Tail(@)]
  /\ UNCHANGED <<arp, arpEvent, pending, now, claimed>>

-----------------------------------------------------------------------------
(* The expiry ticker and the operators' calls.                               *)

\* The test is the code's: an entry is removed while now is before the end of
\* its grace period.
RunARPExpiryJob ==
  /\ CanLock
  /\ arp' = {e \in arp : e.expires = 0 \/ now >= e.expires + Grace}
  /\ pending' = pending \ {"expiry"}
  /\ UNCHANGED <<arpEvent, waiter, handler, now, answer, bytes, claimed>>

AddStaticARPEntry(a, m, perm) ==
  /\ arp' = (arp \ Found(a)) \cup
              {[addr |-> a, mac |-> m, expires |-> 0, updating |-> FALSE, permanent |-> perm]}
  /\ claimed' = claimed \cup {<<a, m>>}

RemoveARPEntry(a) ==
  /\ HasEntry(a)
  /\ arp' = arp \ Found(a)
  /\ UNCHANGED claimed

FlushARPTable ==
  /\ arp' = {}
  /\ UNCHANGED claimed

\* ApplyConfig drops the permanent entries before it adds those of the file.
FlushPermanentARP ==
  /\ arp' = {e \in arp : ~e.permanent}
  /\ UNCHANGED claimed

Operator ==
  /\ CanLock
  /\ \/ \E a \in Addr, m \in Mac, perm \in BOOLEAN : AddStaticARPEntry(a, m, perm)
     \/ \E a \in Addr : RemoveARPEntry(a)
     \/ FlushARPTable
     \/ FlushPermanentARP
  /\ pending' = pending \ {"operator"}
  /\ UNCHANGED <<arpEvent, waiter, handler, now, answer, bytes>>

Tick ==
  /\ now < MaxTime
  /\ now' = now + 1
  /\ UNCHANGED <<arp, arpEvent, waiter, handler, pending, answer, bytes, claimed>>

-----------------------------------------------------------------------------

Next ==
  \/ \E p \in Lockers : QueueForLock(p)
  \/ \E a \in Addr : StartGetMacFor(a)
  \/ LookupHit
  \/ \E w \in Waiters : \/ Register(w)
                        \/ SendFirst(w)
                        \/ NoDestination(w)
                        \/ Timeout(w)
                        \/ Unregister(w)
  \/ \E u \in Updaters : RemoveExpired(u)
  \/ \E a \in Addr, m \in Mac : HandleRequest(a, m) \/ HandleReply(a, m)
  \/ OtherPacket
  \/ StartNotify
  \/ Deliver
  \/ RunARPExpiryJob
  \/ Operator
  \/ Tick

Spec == Init /\ [][Next]_vars

\* The next step of a goroutine that is not waiting for a reply.
Run(w) ==
  \/ w = Reader /\ LookupHit
  \/ w \in Updaters /\ RemoveExpired(w)
  \/ Register(w)
  \/ SendFirst(w)
  \/ NoDestination(w)
  \/ Unregister(w)

\* A goroutine that can run does; a blocked Lock() or RLock() succeeds if the
\* lock is free again and again (sync.RWMutex starves nobody).  Callers,
\* packets, operators and the ticker owe nothing, except a queued Lock().
Fairness ==
  /\ \A w \in Waiters : SF_vars(Run(w)) /\ WF_vars(Timeout(w))
  /\ SF_vars(StartNotify)
  /\ WF_vars(Deliver)
  /\ SF_vars("expiry" \in pending /\ RunARPExpiryJob)
  /\ SF_vars("operator" \in pending /\ Operator)

FairSpec == Spec /\ Fairness

-----------------------------------------------------------------------------
(* Safety.                                                                   *)

\* The loops over i.tables.arp stop at the first entry of an address, so the
\* table must never hold two: GetMacFor would go on answering with the stale
\* one and RemoveARPEntry would leave the other behind.
OneEntryPerAddress == \A e, f \in arp : e.addr = f.addr => e = f

ChannelsListed ==
  \A w \in Waiters, a \in Addr :
    Contains(arpEvent[a], w) <=> waiter[w].pc \in Listening /\ waiter[w].addr = a

ChannelsDistinct == \A a \in Addr : IsInjective(arpEvent[a])

\* A goroutine's channel is in the event list of the address it resolves, and
\* of no other, exactly while the goroutine may still receive from it: the
\* deferred clean-up leaves nothing behind on any return path.  And it is there
\* once: HandleARP sends to it as often, and its owner receives once.
ChannelsMatchWaiters == ChannelsListed /\ ChannelsDistinct

\* HandleARP never sends on a channel whose owner has returned, which would
\* block it for ever: everyone it has left to send to is still registered.
NotifiesOnlyListeners ==
  ReadHeld => \A k \in 1..Len(handler.chs) :
                /\ waiter[handler.chs[k]].pc \in Listening
                /\ waiter[handler.chs[k]].addr = handler.addr

-----------------------------------------------------------------------------
(* What a step may not do.                                                   *)

\* No wake-up is lost: when HandleARP lets go of the read lock, every goroutine
\* that was resolving the address has received the reply.
ReplyWakesAll ==
  [][ReadHeld /\ ~ReadHeld' =>
       \A w \in Waiters :
         waiter[w].pc \in Listening /\ waiter[w].addr = handler.addr =>
           waiter[w]'.pc = "cleanup"]_vars

\* HandleARP is sending to a goroutine that will not receive: it has timed out
\* and its next step is i.tables.Lock(), or it is about to read the MAC table
\* and its RLock() is behind a queued Lock().
Wedged ==
  /\ ReadHeld
  /\ LET w == Head(handler.chs) IN
     \/ waiter[w].pc \in {"expire", "cleanup"}
     \/ waiter[w].pc = "registered" /\ pending # {}

\* That wait is never broken: no timeout, reply or operator undoes it, and the
\* listener's reader, with every goroutine that needs the tables, stays in it.
WedgedForever == [][Wedged => Wedged']_vars

\* The comment in runARPExpiryJob: "If this entry is expired and past 2 minute
\* grace, remove it".  So it removes no other.
ExpiryJobKeepsUnexpired ==
  [][RunARPExpiryJob =>
       \A e \in arp \ arp' : e.expires # 0 /\ now >= e.expires + Grace]_vars

-----------------------------------------------------------------------------
(* Liveness.                                                                 *)

\* The wedge is the only way that a resolution or an update fails to return
\* after its three tries (interface.go:840-855), that a reply keeps the
\* listener's reader, or that a queued Lock() is never granted.
EndsUnlessWedged ==
  /\ \A w \in Waiters : waiter[w].pc # "idle" ~> (waiter[w].pc = "idle" \/ Wedged)
  /\ handler.pc # "idle" ~> (handler.pc = "idle" \/ Wedged)
  /\ \A p \in Lockers : p \in pending ~> (p \notin pending \/ Wedged)

-----------------------------------------------------------------------------
(* What resolution promises, without its table, locks and channels.          *)

Asked == IF waiter[Reader].pc = "idle" \/ answer # <<>> THEN NoAddr ELSE waiter[Reader].addr

\* GetMacFor, with everything around it, implements the abstract resolver: each
\* call answers at most once, for the address asked, with a MAC that was asserted
\* for it when it was given.  If it came from a reply it is good only until the
\* next packet is read, and that may be before GetMacFor returns.
R == INSTANCE Resolver WITH asked <- Asked
ImplementsResolver == R!Spec
=============================================================================
