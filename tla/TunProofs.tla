----------------------------- MODULE TunProofs ------------------------------
(***************************************************************************)
(* Proofs about module Tun, for all sizes, capacities and bounds.          *)
(*                                                                         *)
(* FaultsNamed needs, for each cause, what keeps the others from it: who   *)
(* may use the session when Close ends it, who is left when the events are *)
(* closed, how often the netlink socket has been closed, and where a       *)
(* negative size can come from (Safe).  SizeInUse needs that the one       *)
(* sender there may be has the size that is stored (IfcSender,             *)
(* ListenerSender).                                                        *)
(*                                                                         *)
(* CloseEnds needs fairness and is left to TLC; what it needs besides,     *)
(* that no goroutine waits in a circle once Close is called, is proved     *)
(* here (NobodyLeftWaiting).                                               *)
(***************************************************************************)
EXTENDS Tun, TLAPS

\* What the types leave out: the event reader has a size when it goes to store
\* one, and routineNetlinkListener something to send when it sends.
Loaded ==
  /\ evr.pc = "swap" => evr.m \in MTU \cap Nat
  /\ nl.pc = "send" => nl.queue # <<>>
  /\ nl.pc # "done" => sock = IF made THEN 0 ELSE 1
  /\ platform = "linux" => closing # "ended"

Typed == TypeOK /\ Loaded

-----------------------------------------------------------------------------
(* Bags.                                                                     *)

LEMMA BagOfOne ==
  ASSUME NEW x
  PROVE  /\ EmptyBag (+) SetToBag({x}) = SetToBag({x})
         /\ SetToBag({x}) (-) SetToBag({x}) = EmptyBag
         /\ SetToBag({x}) # EmptyBag
         /\ BagToSet(SetToBag({x})) = {x} /\ BagToSet(EmptyBag) = {}
         /\ IsABag(EmptyBag)
<1>1. DOMAIN SetToBag({x}) = {x} /\ DOMAIN EmptyBag = {} /\ SetToBag({x})[x] = 1
  BY DEF SetToBag, EmptyBag
<1>2. EmptyBag (+) SetToBag({x}) = [e \in {x} |-> 1]
  BY <1>1 DEF (+), SetToBag
<1>3. SetToBag({x}) (-) SetToBag({x}) = EmptyBag
  <2>1. SetToBag({x}) (-) SetToBag({x}) = [e \in {} |-> 1]
    BY <1>1 DEF (-), SetToBag
  <2> QED BY <2>1 DEF EmptyBag, SetToBag
<1> QED BY <1>1, <1>2, <1>3 DEF BagToSet, IsABag, SetToBag, EmptyBag

LEMMA BagMore ==
  ASSUME NEW B, IsABag(B), NEW x
  PROVE  /\ IsABag(B (+) SetToBag({x}))
         /\ BagToSet(B (+) SetToBag({x})) = BagToSet(B) \cup {x}
BY DEF IsABag, BagToSet, (+), SetToBag

LEMMA BagLess ==
  ASSUME NEW B, IsABag(B), NEW x
  PROVE  /\ IsABag(B (-) SetToBag({x}))
         /\ BagToSet(B (-) SetToBag({x})) \subseteq BagToSet(B)
BY DEF IsABag, BagToSet, (-), SetToBag
-----------------------------------------------------------------------------
(* Types.                                                                    *)

LEMMA Sizes == Size \subseteq MTU /\ MTU \subseteq Int /\ \A s \in Size : s - Overhead \in MTU
<1>1. \A s \in Size : s \in Int /\ Overhead \in Int /\ s - Overhead \in Int
  BY TunAssumption
<1> QED BY <1>1 DEF MTU

LEMMA NoEvents == <<>> \in Seq(Event) /\ Len(<<>>) = 0
OBVIOUS

LEMMA TypeInit == Init => Typed
<1> SUFFICES ASSUME Init PROVE Typed
  OBVIOUS
<1>1. devMTU \in MTU \cap Nat /\ max \in Size /\ max > 1 /\ small \in BOOLEAN
  BY Sizes, TunAssumption DEF Init, MTU
<1>2. DeviceTypeOK
  <2>1. DeviceInit /\ made \in BOOLEAN /\ platform \in {"linux", "windows"}
    BY DEF Init, LinuxInit
  <2>2. reader = "start" \/ reader = "done"
    BY <2>1 DEF Init
  <2>3. Len(events) <= EventCap /\ events \in Seq(Event)
    BY <2>1, NoEvents, TunAssumption DEF DeviceInit
  <2> QED BY <1>1, <2>1, <2>2, <2>3 DEF DeviceInit, DeviceTypeOK
<1>3. LinuxTypeOK /\ WindowsTypeOK
  <2>1. LinuxInit /\ WindowsInit
    BY DEF Init
  <2>2. made \in BOOLEAN /\ notes \in Nat /\ sock \in 0..2 /\ errors \in 0..1
    BY <2>1 DEF LinuxInit
  <2>3. nl \in [pc: {"recv", "send", "unwind", "done"}, queue: Seq(Event)]
    BY <2>1, NoEvents DEF LinuxInit
  <2> QED BY <2>1, <2>2, <2>3 DEF LinuxInit, WindowsInit, LinuxTypeOK, WindowsTypeOK
<1>4. IsABag(sending) /\ IsABag(lsending) /\ BagToSet(sending) = {} /\ BagToSet(lsending) = {}
  BY BagOfOne DEF Init
<1>5. changes \in 0..MaxChanges
  BY BoundAssumption DEF Init
<1> QED BY <1>1, <1>2, <1>3, <1>4, <1>5 DEF Typed, TypeOK, Loaded, Init, LinuxInit, DeviceInit
LEMMA Sent ==
  ASSUME DeviceTypeOK, NEW e \in Event, SendEvent(e)
  PROVE  /\ events' \in Seq(Event) /\ Len(events') <= EventCap
         /\ faults' \subseteq {"events", "size", "session", "socket"}
<1>1. events \in Seq(Event) /\ Len(events) <= EventCap /\ EventCap \in Nat
  BY TunAssumption DEF DeviceTypeOK
<1>2. CASE eventsOpen
  <2>1. events' = Append(events, e) /\ Len(events) < EventCap /\ faults' = faults
    BY <1>2 DEF SendEvent
  <2>2. Append(events, e) \in Seq(Event) /\ Len(Append(events, e)) = Len(events) + 1
    BY <1>1
  <2> QED BY <1>1, <2>1, <2>2 DEF DeviceTypeOK
<1>3. CASE ~eventsOpen
  BY <1>1, <1>3 DEF SendEvent, DeviceTypeOK
<1> QED BY <1>2, <1>3

\* One step lemma for each goroutine; together they are all of Next.
LEMMA LinuxTypes == Typed /\ (Hack \/ Netlink \/ OnLinux(LinuxRead \/ LinuxReadFails \/ NetlinkFails \/ LinuxPacket)) => Typed'
<1> SUFFICES ASSUME Typed, (Hack \/ Netlink \/ OnLinux(LinuxRead \/ LinuxReadFails \/ NetlinkFails \/ LinuxPacket)) PROVE Typed'
  OBVIOUS
<1> USE DEF Typed, TypeOK, Loaded, DeviceTypeOK, LinuxTypeOK, WindowsTypeOK, shared, linuxVars, windowsVars, ifcVars, sizeVars
<1>1. CASE OnLinux(HackProbe)
  BY <1>1 DEF HackProbe, OnLinux
<1>2. CASE OnLinux(HackSend)
  <2>1. SendEvent("state") /\ "state" \in Event
    BY <1>2 DEF HackSend, OnLinux, Event
  <2>2. events' \in Seq(Event) /\ Len(events') <= EventCap
        /\ faults' \subseteq {"events", "size", "session", "socket"}
    BY <2>1, Sent
  <2> QED BY <1>2, <2>2 DEF HackSend, OnLinux
<1>3. CASE OnLinux(HackShutdown)
  BY <1>3 DEF HackShutdown, OnLinux
<1>4. CASE OnLinux(NetlinkMessage)
  <2>1. <<"state", "mtu">> \in Seq(Event) /\ <<"mtu">> \in Seq(Event)
        /\ <<"state", "mtu">> # <<>> /\ <<"mtu">> # <<>>
    BY DEF Event
  <2>2. /\ nl' \in [pc: {"recv", "send", "unwind", "done"}, queue: Seq(Event)]
        /\ nl'.pc = "send" => nl'.queue # <<>>
        /\ nl.pc # "done" /\ notes' \in Nat /\ sock' = sock
    BY <1>4, <2>1 DEF NetlinkMessage, OnLinux
  <2> QED BY <1>4, <2>2 DEF NetlinkMessage, OnLinux
<1>5. CASE OnLinux(NetlinkCancelled)
  BY <1>5 DEF NetlinkCancelled, OnLinux
<1>6. CASE OnLinux(NetlinkFails)
  BY <1>6 DEF NetlinkFails, OnLinux
<1>7. CASE OnLinux(NetlinkSend)
  <2>1. /\ SendEvent(Head(nl.queue)) /\ Head(nl.queue) \in Event
        /\ nl.pc = "send" /\ nl' = [pc |-> IF Len(nl.queue) > 1 THEN "send" ELSE "recv",
                                   queue |-> Tail(nl.queue)]
    BY <1>7 DEF NetlinkSend, OnLinux
  <2>2. events' \in Seq(Event) /\ Len(events') <= EventCap
        /\ faults' \subseteq {"events", "size", "session", "socket"}
    BY <2>1, Sent
  <2>3. Tail(nl.queue) \in Seq(Event) /\ (Len(nl.queue) > 1 => Tail(nl.queue) # <<>>)
    <3>1. nl.queue \in Seq(Event) /\ nl.queue # <<>>
      BY <2>1
    <3>2. Tail(nl.queue) \in Seq(Event) /\ Len(Tail(nl.queue)) = Len(nl.queue) - 1
          /\ Len(nl.queue) \in Nat
      BY <3>1
    <3>3. Len(nl.queue) > 1 => Tail(nl.queue) # <<>>
      <4> SUFFICES ASSUME Len(nl.queue) > 1, Tail(nl.queue) = <<>> PROVE FALSE
        OBVIOUS
      <4>1. Len(Tail(nl.queue)) = 0
        BY NoEvents
      <4> QED BY <3>2, <4>1
    <3> QED BY <3>2, <3>3
  <2>4. /\ nl' \in [pc: {"recv", "send", "unwind", "done"}, queue: Seq(Event)]
        /\ nl'.pc = "send" => nl'.queue # <<>>
    BY <2>1, <2>3
  <2> QED BY <1>7, <2>1, <2>2, <2>4 DEF NetlinkSend, OnLinux
<1>8. CASE OnLinux(NetlinkUnwind)
  <2>1. /\ nl' \in [pc: {"recv", "send", "unwind", "done"}, queue: Seq(Event)]
        /\ nl'.pc = "done"
        /\ sock' \in 0..2
        /\ faults' \subseteq {"events", "size", "session", "socket"}
    BY <1>8 DEF NetlinkUnwind, OnLinux
  <2>2. eventsOpen' \in BOOLEAN
    BY <1>8 DEF NetlinkUnwind, OnLinux
  <2>3. UNCHANGED <<platform, devMTU, gone, events, reader, closing, made, running, notes, hack,
                    last, errors, windowsVars, ifcVars, sizeVars, changes>>
    BY <1>8 DEF NetlinkUnwind, OnLinux
  <2> QED BY <2>1, <2>2, <2>3
<1>9. CASE OnLinux(LinuxRead)
  BY <1>9 DEF LinuxRead, OnLinux
<1>10. CASE OnLinux(LinuxReadFails)
  BY <1>10 DEF LinuxReadFails, OnLinux
<1>11. CASE OnLinux(LinuxPacket)
  BY <1>11 DEF LinuxPacket, OnLinux
<1> QED BY <1>1, <1>2, <1>3, <1>4, <1>5, <1>6, <1>7, <1>8, <1>9, <1>10, <1>11 DEF Hack, Netlink, OnLinux

LEMMA WindowsTypes == Typed /\ (User \/ OnWindows(WindowsRead \/ WindowsReadTests \/ WindowsReceive \/ CallUser \/ SetMTUSends)) => Typed'
<1> SUFFICES ASSUME Typed, (User \/ OnWindows(WindowsRead \/ WindowsReadTests \/ WindowsReceive \/ CallUser \/ SetMTUSends)) PROVE Typed'
  OBVIOUS
<1> USE DEF Typed, TypeOK, Loaded, DeviceTypeOK, LinuxTypeOK, WindowsTypeOK, shared, linuxVars, windowsVars, ifcVars, sizeVars
<1>1. CASE OnWindows(WindowsRead)
  BY <1>1 DEF WindowsRead, OnWindows
<1>2. CASE OnWindows(WindowsReadTests)
  BY <1>2 DEF WindowsReadTests, OnWindows
<1>3. CASE OnWindows(WindowsReceive)
  <2>1. faults' \subseteq {"events", "size", "session", "socket"}
        /\ reader' \in {"error", "packet", "in"}
    BY <1>3 DEF WindowsReceive, OnWindows, Use
  <2> QED BY <1>3, <2>1 DEF WindowsReceive, OnWindows
<1>4. CASE OnWindows(TestFlag)
  BY <1>4 DEF TestFlag, OnWindows
<1>5. CASE OnWindows(UseAdapter)
  <2>1. faults' \subseteq {"events", "size", "session", "socket"}
    BY <1>5 DEF UseAdapter, OnWindows, Use
  <2> QED BY <1>5, <2>1 DEF UseAdapter, OnWindows
<1>6. CASE OnWindows(CallUser)
  BY <1>6 DEF CallUser, OnWindows
<1>7. CASE OnWindows(SetMTUSends)
  <2>1. SendEvent("mtu") /\ "mtu" \in Event
    BY <1>7 DEF SetMTUSends, OnWindows, Event
  <2>2. events' \in Seq(Event) /\ Len(events') <= EventCap
        /\ faults' \subseteq {"events", "size", "session", "socket"}
    BY <2>1, Sent
  <2> QED BY <1>7, <2>2 DEF SetMTUSends, OnWindows
<1> QED BY <1>1, <1>2, <1>3, <1>4, <1>5, <1>6, <1>7 DEF User, OnWindows

LEMMA ReaderTypes == Typed /\ (EventReader \/ PacketReader) => Typed'
<1> SUFFICES ASSUME Typed, (EventReader \/ PacketReader) PROVE Typed'
  OBVIOUS
<1> USE DEF Typed, TypeOK, Loaded, DeviceTypeOK, LinuxTypeOK, WindowsTypeOK, shared, linuxVars, windowsVars, ifcVars, sizeVars
<1>1. CASE TakeEvent
  <2>1. events' \in Seq(Event) /\ Len(events') <= EventCap
    <3>1. CASE events # <<>> /\ events' = Tail(events)
      BY <3>1, TunAssumption
    <3> QED BY <1>1, <3>1 DEF TakeEvent
  <2>2. /\ evr' \in [pc: {"recv", "mtu", "swap", "change", "done"}, m: MTU \cup {0}]
        /\ evr'.pc # "swap"
    BY <1>1 DEF TakeEvent
  <2> QED BY <1>1, <2>1, <2>2 DEF TakeEvent
<1>2. CASE ReadMTU
  BY <1>2 DEF ReadMTU
<1>3. CASE SwapMTU
  <2>1. mtu' \in MTU
    BY <1>3, Sizes DEF SwapMTU, Smaller
  <2>2. IsABag(sending') /\ BagToSet(sending') \subseteq MTU
    <3>1. /\ IsABag(sending (+) SetToBag({mtu'}))
          /\ BagToSet(sending (+) SetToBag({mtu'})) = BagToSet(sending) \cup {mtu'}
      BY BagMore
    <3> QED BY <1>3, <2>1, <3>1 DEF SwapMTU
  <2>3. crossed' \subseteq {"mtuc", "maxMessageSizeC"}
    BY <1>3 DEF SwapMTU
  <2>4. evr' \in [pc: {"recv", "mtu", "swap", "change", "done"}, m: MTU \cup {0}] /\ evr'.pc = "recv"
    BY <1>3 DEF SwapMTU
  <2>5. UNCHANGED <<shared, linuxVars, windowsVars, close, buf, max, lsending, lbuf, small, changes>>
    BY <1>3 DEF SwapMTU
  <2> QED BY <2>1, <2>2, <2>3, <2>4, <2>5
<1>4. CASE ChangeState
  <2>1. evr' \in [pc: {"recv", "mtu", "swap", "change", "done"}, m: MTU \cup {0}] /\ evr'.pc = "recv"
    BY <1>4 DEF ChangeState
  <2> QED BY <1>4, <2>1 DEF ChangeState
<1>5. CASE StartReader
  BY <1>5 DEF StartReader, MakeBuffer
<1>6. CASE HandlePacket
  <2>1. /\ buf' \in MTU /\ IsABag(sending') /\ BagToSet(sending') \subseteq MTU
        /\ faults' \subseteq {"events", "size", "session", "socket"}
    <3>1. ASSUME NEW size \in BagToSet(sending), MakeBuffer(size),
                 sending' = sending (-) SetToBag({size})
          PROVE  /\ buf' \in MTU /\ IsABag(sending') /\ BagToSet(sending') \subseteq MTU
                 /\ faults' \subseteq {"events", "size", "session", "socket"}
      <4>1. /\ IsABag(sending (-) SetToBag({size}))
            /\ BagToSet(sending (-) SetToBag({size})) \subseteq BagToSet(sending)
        BY BagLess
      <4> QED BY <3>1, <4>1 DEF MakeBuffer
    <3>2. CASE UNCHANGED <<buf, sending, faults>>
      BY <3>2
    <3>3. \/ \E size \in BagToSet(sending) :
               MakeBuffer(size) /\ sending' = sending (-) SetToBag({size})
          \/ UNCHANGED <<buf, sending, faults>>
      BY <1>6 DEF HandlePacket
    <3>4. CASE \E size \in BagToSet(sending) :
                 MakeBuffer(size) /\ sending' = sending (-) SetToBag({size})
      <4>1. PICK size \in BagToSet(sending) :
                   MakeBuffer(size) /\ sending' = sending (-) SetToBag({size})
        BY <3>4
      <4> QED BY <4>1, <3>1
    <3> QED BY <3>2, <3>3, <3>4
  <2> QED BY <1>6, <2>1 DEF HandlePacket
<1>7. CASE ReadError
  BY <1>7 DEF ReadError
<1> QED BY <1>1, <1>2, <1>3, <1>4, <1>5, <1>6, <1>7 DEF EventReader, PacketReader

LEMMA CloseTypes == Typed /\ (Close \/ CallClose) => Typed'
<1> SUFFICES ASSUME Typed, (Close \/ CallClose) PROVE Typed'
  OBVIOUS
<1> USE DEF Typed, TypeOK, Loaded, DeviceTypeOK, LinuxTypeOK, WindowsTypeOK, shared, linuxVars, windowsVars, ifcVars, sizeVars, ifcOtherVars
<1>1. CASE CloseStep
  BY <1>1 DEF CloseStep
<1>2. CASE CloseDevice
  <2>1. /\ closing' \in {"open", "begun", "ended", "closed"}
        /\ eventsOpen' \in BOOLEAN
    <3>1. CASE platform = "linux"
      BY <1>2, <3>1 DEF CloseDevice, LinuxClose
    <3>2. CASE platform = "windows"
      <4>1. closing' \in {"open", "begun", "ended", "closed"}
        BY <1>2, <3>2 DEF CloseDevice, WindowsClose
      <4>2. eventsOpen' = (closing # "ended")
        BY <1>2, <3>2 DEF CloseDevice, WindowsClose
      <4> QED BY <4>1, <4>2
    <3> QED BY <3>1, <3>2
  <2> QED BY <1>2, <2>1 DEF CloseDevice, LinuxClose, WindowsClose
<1>3. CASE CallClose
  BY <1>3 DEF CallClose
<1> QED BY <1>1, <1>2, <1>3 DEF Close

LEMMA Counted ==
  ASSUME changes \in 0..MaxChanges, Count PROVE changes' \in 0..MaxChanges
BY BoundAssumption DEF Count

LEMMA OtherTypes == Typed /\ (Outside \/ CallSetMTU \/ TakeMaxMessageSize \/ \E size \in Size : SetMaxMessageSize(size) \/ SetMTU(size)) => Typed'
<1> SUFFICES ASSUME Typed, (Outside \/ CallSetMTU \/ TakeMaxMessageSize \/ \E size \in Size : SetMaxMessageSize(size) \/ SetMTU(size)) PROVE Typed'
  OBVIOUS
<1> USE DEF Typed, TypeOK, Loaded, DeviceTypeOK, LinuxTypeOK, WindowsTypeOK, shared, linuxVars, windowsVars, ifcVars, sizeVars, Count
<1>1. CASE Outside
  <2>1. changes' \in 0..MaxChanges
    BY <1>1, Counted, BoundAssumption DEF Outside
  <2>2. notes' \in Nat /\ running' \in BOOLEAN /\ gone' \in BOOLEAN
    <3>1. CASE LinkChange
      <4>1. notes' = notes + 1 /\ gone' = gone /\ running' = ~running
        BY <3>1 DEF LinkChange, Notified
      <4> QED BY <4>1
    <3>2. CASE LinkDelete \/ (AdapterDelete /\ UNCHANGED linuxVars)
      BY <3>2 DEF LinkDelete, AdapterDelete
    <3> QED BY <1>1, <3>1, <3>2 DEF Outside
  <2>3. UNCHANGED <<platform, devMTU, events, eventsOpen, reader, closing, faults, made, sock, hack,
                    last, nl, errors, windowsVars, ifcVars, sizeVars>>
    BY <1>1 DEF Outside, LinkChange, LinkDelete, AdapterDelete
  <2> QED BY <2>1, <2>2, <2>3
<1>2. CASE CallSetMTU
  BY <1>2, Counted DEF CallSetMTU, SetMTUTests
<1>3. CASE TakeMaxMessageSize
  <2>1. lbuf' \in Size /\ IsABag(lsending') /\ BagToSet(lsending') \subseteq Size
    <3>1. PICK size \in BagToSet(lsending) : lbuf' = size /\ lsending' = lsending (-) SetToBag({size})
      BY <1>3 DEF TakeMaxMessageSize
    <3>2. /\ IsABag(lsending (-) SetToBag({size}))
          /\ BagToSet(lsending (-) SetToBag({size})) \subseteq BagToSet(lsending)
      BY BagLess
    <3> QED BY <3>1, <3>2
  <2>2. UNCHANGED <<shared, linuxVars, windowsVars, ifcVars, max, crossed, small, changes>>
    BY <1>3 DEF TakeMaxMessageSize
  <2> QED BY <2>1, <2>2
<1>4. ASSUME NEW size \in Size, SetMaxMessageSize(size) PROVE Typed'
  <2>1. IsABag(lsending') /\ BagToSet(lsending') \subseteq Size
    <3>1. /\ IsABag(lsending (+) SetToBag({size}))
          /\ BagToSet(lsending (+) SetToBag({size})) = BagToSet(lsending) \cup {size}
      BY BagMore
    <3> QED BY <1>4, <3>1 DEF SetMaxMessageSize
  <2>2. /\ max' \in Size /\ max' > 1 /\ small' \in BOOLEAN
        /\ crossed' \subseteq {"mtuc", "maxMessageSizeC"}
    BY <1>4 DEF SetMaxMessageSize
  <2>3. changes' \in 0..MaxChanges
    BY <1>4, Counted DEF SetMaxMessageSize
  <2>4. UNCHANGED <<shared, linuxVars, windowsVars, ifcVars, lbuf>>
    BY <1>4 DEF SetMaxMessageSize
  <2> QED BY <2>1, <2>2, <2>3, <2>4
<1>5. ASSUME NEW size \in Size, SetMTU(size) PROVE Typed'
  <2>1. MTUFor(size) \in MTU
    BY Sizes DEF MTUFor
  <2>2. CASE platform = "linux" /\ LinuxSetMTU(MTUFor(size))
    BY <1>5, <2>1, <2>2, Counted DEF SetMTU, LinuxSetMTU, Notified
  <2>3. CASE platform = "windows" /\ SetMTUSets(MTUFor(size))
    BY <1>5, <2>1, <2>3 DEF SetMTU, SetMTUSets
  <2> QED BY <1>5, <2>2, <2>3 DEF SetMTU
<1> QED BY <1>1, <1>2, <1>3, <1>4, <1>5

LEMMA TypeStep == Typed /\ [Next]_vars => Typed'
<1>1. CASE UNCHANGED vars
  BY <1>1 DEF vars, Typed, TypeOK, Loaded, DeviceTypeOK, LinuxTypeOK, WindowsTypeOK, shared,
              linuxVars, windowsVars, ifcVars, sizeVars
<1>2. CASE Next
  <2>1. CASE Read
    BY <2>1, LinuxTypes, WindowsTypes DEF Read, OnLinux, OnWindows
  <2>2. CASE OnLinux(NetlinkFails \/ LinuxPacket)
    BY <2>2, LinuxTypes DEF OnLinux
  <2>3. CASE OnWindows(CallUser \/ SetMTUSends)
    BY <2>3, WindowsTypes DEF OnWindows
  <2> QED BY <1>2, <2>1, <2>2, <2>3, LinuxTypes, WindowsTypes, ReaderTypes, CloseTypes, OtherTypes
          DEF Next
<1> QED BY <1>1, <1>2

\* Every variable of Tun and of the two devices has its type in every reachable
\* state, so that no channel holds more than its capacity.
THEOREM TypeCorrect == Spec => []TypeOK
<1>1. Typed => TypeOK
  BY DEF Typed
<1> QED BY <1>1, TypeInit, TypeStep, PTL DEF Spec
-----------------------------------------------------------------------------
(* What goes wrong.                                                          *)

\* On Linux nobody uses a session.
OnLinuxNone == platform = "linux" => user = "idle" /\ setter = "idle" /\ reader # "use"

\* When Close ends the session nobody is past the test of the flag.
SessionLeft == closing \in {"ended", "closed"} => reader # "use" /\ user # "use"

\* On Linux the events are closed by the last that could send one.
SendersLeft == platform = "linux" /\ ~eventsOpen => hack = "done" /\ nl.pc = "done"

\* A negative size comes from a maximum message size below the overhead.
SizesKnown ==
  ~small => /\ max >= Overhead /\ mtu >= 0
            /\ \A m \in BagToSet(sending) : m >= 0

Safe == OnLinuxNone /\ SessionLeft /\ SendersLeft /\ SizesKnown

LEMMA SafeInit == Init => Safe /\ FaultsNamed
<1> SUFFICES ASSUME Init PROVE Safe /\ FaultsNamed
  OBVIOUS
<1>1. max \in Nat /\ Overhead \in Nat /\ (~small => ~(max < Overhead))
  BY TunAssumption DEF Init
<1>2. mtu \in Int /\ mtu > 1
  BY <1>1, TunAssumption DEF Init
<1>3. (~small => max >= Overhead) /\ mtu >= 0
  <2>1. mtu >= 0
    BY <1>2
  <2>2. ~(max < Overhead) => max >= Overhead
    BY <1>1
  <2> QED BY <1>1, <2>1, <2>2
<1>4. BagToSet(sending) = {}
  BY BagOfOne DEF Init
<1> QED BY <1>3, <1>4 DEF Init, DeviceInit, LinuxInit, WindowsInit, Safe, OnLinuxNone, SessionLeft,
                    SendersLeft, SizesKnown, FaultsNamed

\* Who uses the session.
LEMMA SessionStep ==
  Typed /\ OnLinuxNone /\ SessionLeft /\ Next => OnLinuxNone' /\ SessionLeft'
<1> SUFFICES ASSUME Typed, OnLinuxNone, SessionLeft, Next PROVE OnLinuxNone' /\ SessionLeft'
  OBVIOUS
<1> USE DEF OnLinuxNone, SessionLeft, shared, linuxVars, windowsVars, ifcVars, sizeVars
<1>1. CASE Hack \/ Netlink \/ OnLinux(LinuxRead \/ LinuxReadFails \/ NetlinkFails \/ LinuxPacket)
  BY <1>1 DEF Hack, Netlink, OnLinux, HackProbe, HackSend, HackShutdown, NetlinkMessage,
              NetlinkCancelled, NetlinkSend, NetlinkUnwind, LinuxRead, LinuxReadFails, NetlinkFails,
              LinuxPacket
<1>2. CASE OnWindows(WindowsRead \/ WindowsReadTests \/ WindowsReceive)
  BY <1>2 DEF OnWindows, WindowsRead, WindowsReadTests, WindowsReceive
<1>3. CASE User \/ OnWindows(CallUser \/ SetMTUSends)
  BY <1>3 DEF User, OnWindows, TestFlag, UseAdapter, CallUser, SetMTUSends
<1>4. CASE EventReader
  BY <1>4 DEF EventReader, TakeEvent, ReadMTU, SwapMTU, ChangeState
<1>5. CASE PacketReader
  BY <1>5 DEF PacketReader, StartReader, HandlePacket, ReadError
<1>6. CASE CloseStep \/ CallClose
  BY <1>6 DEF CloseStep, CallClose, ifcOtherVars
<1>7. CASE CloseDevice
  <2>1. CASE platform = "linux"
    BY <1>7, <2>1 DEF CloseDevice, LinuxClose
  <2>2. CASE platform = "windows"
    BY <1>7, <2>2 DEF CloseDevice, WindowsClose, NoneRunning, Typed, TypeOK, DeviceTypeOK
  <2> QED BY <2>1, <2>2 DEF Typed, TypeOK, DeviceTypeOK
<1>8. CASE Outside
  BY <1>8 DEF Outside, LinkChange, LinkDelete, AdapterDelete
<1>9. CASE CallSetMTU \/ TakeMaxMessageSize
  BY <1>9 DEF CallSetMTU, SetMTUTests, TakeMaxMessageSize
<1>10. ASSUME NEW size \in Size, SetMaxMessageSize(size) \/ SetMTU(size)
       PROVE  OnLinuxNone' /\ SessionLeft'
  BY <1>10 DEF SetMaxMessageSize, SetMTU, LinuxSetMTU, SetMTUSets
<1> QED BY <1>1, <1>2, <1>3, <1>4, <1>5, <1>6, <1>7, <1>8, <1>9, <1>10
        DEF Next, Read, Close, OnLinux, OnWindows

\* Who sends an event.
LEMMA SendersStep == Typed /\ SendersLeft /\ Next => SendersLeft'
<1> SUFFICES ASSUME Typed, SendersLeft, Next PROVE SendersLeft'
  OBVIOUS
<1> USE DEF SendersLeft, shared, linuxVars, windowsVars, ifcVars, sizeVars
<1>1. CASE Hack \/ Netlink \/ OnLinux(NetlinkFails)
  BY <1>1 DEF Hack, Netlink, OnLinux, HackProbe, HackSend, HackShutdown, NetlinkMessage,
              NetlinkCancelled, NetlinkSend, NetlinkUnwind, NetlinkFails, Typed, TypeOK, LinuxTypeOK
<1>2. CASE UNCHANGED <<platform, eventsOpen, hack, nl>>
  BY <1>2
<1>3. CASE CloseDevice
  BY <1>3 DEF CloseDevice, LinuxClose, WindowsClose, Typed, TypeOK, DeviceTypeOK
<1>4. CASE Read \/ User \/ OnLinux(LinuxPacket) \/ OnWindows(CallUser \/ SetMTUSends)
  BY <1>4, <1>2 DEF Read, User, OnLinux, OnWindows, LinuxRead, LinuxReadFails, LinuxPacket, WindowsRead,
                    WindowsReadTests, WindowsReceive, TestFlag, UseAdapter, CallUser, SetMTUSends
<1>5. CASE EventReader \/ PacketReader
  BY <1>5, <1>2 DEF EventReader, PacketReader, TakeEvent, ReadMTU, SwapMTU, ChangeState, StartReader,
                    HandlePacket, ReadError
<1>6. CASE CloseStep \/ CallClose \/ Outside \/ CallSetMTU \/ TakeMaxMessageSize
  BY <1>6, <1>2 DEF CloseStep, CallClose, ifcOtherVars, Outside, LinkChange, LinkDelete, AdapterDelete,
                    CallSetMTU, SetMTUTests, TakeMaxMessageSize
<1>7. ASSUME NEW size \in Size, SetMaxMessageSize(size) \/ SetMTU(size) PROVE SendersLeft'
  BY <1>7, <1>2 DEF SetMaxMessageSize, SetMTU, LinuxSetMTU, SetMTUSets
<1> QED BY <1>1, <1>3, <1>4, <1>5, <1>6, <1>7 DEF Next, Close, OnLinux
\* The sizes, and who changes them.
sizes == <<mtu, sending, max, small, buf, lsending, lbuf, crossed>>

LEMMA SizesChange ==
  Next => \/ /\ UNCHANGED <<sizes, made>>
             /\ reader = "start" => reader' = "start"
             /\ faults' \subseteq faults \cup {"events", "session", "socket"}
          \/ SwapMTU \/ HandlePacket \/ StartReader \/ TakeMaxMessageSize
          \/ \E size \in Size : SetMaxMessageSize(size)
<1> SUFFICES ASSUME Next,
                    ~SwapMTU, ~HandlePacket, ~StartReader, ~TakeMaxMessageSize,
                    ~\E size \in Size : SetMaxMessageSize(size)
             PROVE  /\ UNCHANGED <<sizes, made>>
                    /\ reader = "start" => reader' = "start"
                    /\ faults' \subseteq faults \cup {"events", "session", "socket"}
  OBVIOUS
<1> USE DEF sizes, shared, linuxVars, windowsVars, ifcVars, sizeVars
<1>1. CASE Hack \/ OnLinux(NetlinkFails \/ LinuxPacket \/ LinuxRead \/ LinuxReadFails)
  BY <1>1 DEF Hack, OnLinux, HackProbe, HackSend, HackShutdown, SendEvent, NetlinkFails, LinuxPacket,
              LinuxRead, LinuxReadFails
<1>2. CASE Netlink
  BY <1>2 DEF Netlink, OnLinux, NetlinkMessage, NetlinkCancelled, NetlinkSend, NetlinkUnwind, SendEvent
<1>3. CASE OnWindows(WindowsRead \/ WindowsReadTests \/ WindowsReceive)
  BY <1>3 DEF OnWindows, WindowsRead, WindowsReadTests, WindowsReceive, Use
<1>4. CASE User \/ OnWindows(CallUser \/ SetMTUSends)
  BY <1>4 DEF User, OnWindows, TestFlag, UseAdapter, Use, CallUser, SetMTUSends, SendEvent
<1>5. CASE TakeEvent \/ ReadMTU \/ ChangeState \/ ReadError
  BY <1>5 DEF TakeEvent, ReadMTU, ChangeState, ReadError
<1>6. CASE Close \/ CallClose
  BY <1>6 DEF Close, CloseStep, CloseDevice, LinuxClose, WindowsClose, CallClose, ifcOtherVars
<1>7. CASE Outside \/ CallSetMTU
  BY <1>7 DEF Outside, LinkChange, LinkDelete, AdapterDelete, CallSetMTU, SetMTUTests
<1>8. CASE \E size \in Size : SetMTU(size)
  BY <1>8 DEF SetMTU, LinuxSetMTU, SetMTUSets
<1> QED BY <1>1, <1>2, <1>3, <1>4, <1>5, <1>6, <1>7, <1>8
        DEF Next, Read, EventReader, PacketReader, OnLinux, OnWindows

\* Where a negative size comes from.
LEMMA SizesStep == Typed /\ SizesKnown /\ Next => SizesKnown'
<1> SUFFICES ASSUME Typed, SizesKnown, Next, ~small' PROVE SizesKnown'
  BY DEF SizesKnown
<1>1. /\ max \in Nat /\ Overhead \in Nat /\ mtu \in Int
      /\ IsABag(sending)
  BY TunAssumption, Sizes DEF Typed, TypeOK
<1>2. CASE UNCHANGED sizes
  BY <1>2 DEF sizes, SizesKnown
<1>3. CASE SwapMTU
  <2>1. evr.m \in Nat /\ small' = small /\ max' = max
    BY <1>3 DEF Typed, Loaded, SwapMTU
  <2>2. mtu' >= 0
    BY <1>1, <1>3, <2>1 DEF SwapMTU, Smaller, SizesKnown
  <2>3. BagToSet(sending (+) SetToBag({mtu'})) = BagToSet(sending) \cup {mtu'}
    BY <1>1, BagMore
  <2>4. \A m \in BagToSet(sending') : m >= 0
    BY <1>3, <2>1, <2>2, <2>3 DEF SwapMTU, SizesKnown
  <2> QED BY <2>1, <2>2, <2>4 DEF SizesKnown
<1>4. CASE HandlePacket
  <2>1. UNCHANGED <<mtu, max, small>>
    BY <1>4 DEF HandlePacket, sizeVars
  <2>2. CASE UNCHANGED sending
    BY <2>1, <2>2 DEF SizesKnown
  <2>3. ASSUME NEW size, sending' = sending (-) SetToBag({size}) PROVE SizesKnown'
    <3>1. BagToSet(sending (-) SetToBag({size})) \subseteq BagToSet(sending)
      BY <1>1, BagLess
    <3> QED BY <2>1, <2>3, <3>1 DEF SizesKnown
  <2> QED BY <1>4, <2>2, <2>3 DEF HandlePacket
<1>5. CASE StartReader \/ TakeMaxMessageSize
  BY <1>5 DEF StartReader, TakeMaxMessageSize, sizeVars, ifcVars, SizesKnown
<1>6. ASSUME NEW size \in Size, SetMaxMessageSize(size) PROVE SizesKnown'
  <2>1. size \in Nat /\ max' = size /\ small' = (small \/ size < Overhead) /\ UNCHANGED ifcVars
    BY <1>6, TunAssumption DEF SetMaxMessageSize
  <2>2. ~small /\ ~(size < Overhead)
    BY <2>1
  <2> QED BY <1>1, <2>1, <2>2 DEF SizesKnown, ifcVars
<1> QED BY <1>2, <1>3, <1>4, <1>5, <1>6, SizesChange

\* Who reports what.
LEMMA FaultsStep == Typed /\ Safe /\ FaultsNamed /\ Next => FaultsNamed'
<1> SUFFICES ASSUME Typed, Safe, FaultsNamed, Next PROVE FaultsNamed'
  OBVIOUS
<1>1. "events" \notin faults /\ "size" \notin faults /\ "session" \notin faults
  BY DEF Next, Alive, FaultsNamed
<1> USE DEF shared, linuxVars, windowsVars, ifcVars, sizeVars
<1>2. CASE faults' = faults /\ made' = made
  BY <1>1, <1>2 DEF FaultsNamed
<1>3. CASE Hack \/ OnLinux(NetlinkFails \/ LinuxPacket \/ LinuxRead \/ LinuxReadFails)
  <2>1. CASE OnLinux(HackSend)
    <3>1. eventsOpen
      BY <2>1 DEF OnLinux, HackSend, Safe, SendersLeft
    <3> QED BY <1>2, <2>1, <3>1 DEF OnLinux, HackSend, SendEvent
  <2> QED BY <1>2, <1>3, <2>1 DEF Hack, OnLinux, HackProbe, HackShutdown, NetlinkFails, LinuxPacket,
                                  LinuxRead, LinuxReadFails
<1>4. CASE Netlink
  <2>1. CASE OnLinux(NetlinkSend)
    <3>1. eventsOpen
      BY <2>1 DEF OnLinux, NetlinkSend, Safe, SendersLeft
    <3> QED BY <1>2, <2>1, <3>1 DEF OnLinux, NetlinkSend, SendEvent
  <2>2. CASE OnLinux(NetlinkUnwind)
    <3>1. sock = IF made THEN 0 ELSE 1
      BY <2>2 DEF OnLinux, NetlinkUnwind, Typed, Loaded
    <3> QED BY <1>1, <2>2, <3>1 DEF OnLinux, NetlinkUnwind, FaultsNamed
  <2> QED BY <1>2, <1>4, <2>1, <2>2 DEF Netlink, OnLinux, NetlinkMessage, NetlinkCancelled
<1>5. CASE OnWindows(WindowsRead \/ WindowsReadTests \/ WindowsReceive)
  <2>1. reader = "use" => closing \notin {"ended", "closed"}
    BY DEF Safe, SessionLeft
  <2> QED BY <1>2, <1>5, <2>1 DEF OnWindows, WindowsRead, WindowsReadTests, WindowsReceive, Use
<1>6. CASE User \/ OnWindows(CallUser)
  <2>1. user = "use" => closing \notin {"ended", "closed"}
    BY DEF Safe, SessionLeft
  <2> QED BY <1>2, <1>6, <2>1 DEF User, OnWindows, TestFlag, UseAdapter, CallUser, Use
<1>7. CASE OnWindows(SetMTUSends)
  BY <1>1, <1>7 DEF OnWindows, SetMTUSends, SendEvent, FaultsNamed
<1>8. CASE StartReader
  <2>1. mtu < 0 => small
    BY Sizes DEF Safe, SizesKnown, Typed, TypeOK
  <2> QED BY <1>1, <1>8, <2>1 DEF StartReader, MakeBuffer, FaultsNamed
<1>9. CASE HandlePacket
  <2>1. ASSUME NEW size \in BagToSet(sending), MakeBuffer(size) PROVE FaultsNamed'
    <3>1. size < 0 => small
      <4>1. size \in Int /\ (~small => size >= 0)
        BY Sizes DEF Safe, SizesKnown, Typed, TypeOK
      <4> QED BY <4>1
    <3> QED BY <1>1, <1>9, <2>1, <3>1 DEF HandlePacket, MakeBuffer, FaultsNamed
  <2>2. CASE UNCHANGED faults
    BY <1>2, <1>9, <2>2 DEF HandlePacket
  <2> QED BY <1>9, <2>1, <2>2 DEF HandlePacket
<1>10. CASE EventReader \/ ReadError
  BY <1>2, <1>10 DEF EventReader, TakeEvent, ReadMTU, SwapMTU, ChangeState, ReadError
<1>11. CASE Close \/ CallClose
  BY <1>2, <1>11 DEF Close, CloseStep, CloseDevice, LinuxClose, WindowsClose, CallClose, ifcOtherVars
<1>12. CASE Outside \/ CallSetMTU \/ TakeMaxMessageSize
  BY <1>2, <1>12 DEF Outside, LinkChange, LinkDelete, AdapterDelete, CallSetMTU, SetMTUTests,
                     TakeMaxMessageSize
<1>13. ASSUME NEW size \in Size, SetMaxMessageSize(size) \/ SetMTU(size) PROVE FaultsNamed'
  BY <1>2, <1>13 DEF SetMaxMessageSize, SetMTU, LinuxSetMTU, SetMTUSets
<1> QED BY <1>3, <1>4, <1>5, <1>6, <1>7, <1>8, <1>9, <1>10, <1>11, <1>12, <1>13
        DEF Next, Read, PacketReader, OnLinux, OnWindows

\* Nobody uses the session or the adapter after Close has ended them, only SetMTU
\* on Windows sends on the closed channel, only a maximum message size below the
\* overhead makes a negative buffer, and only a CreateTUN that failed has the
\* netlink socket closed twice.
THEOREM FaultsAreNamed == Spec => []FaultsNamed
<1>1. ASSUME Typed, Safe, FaultsNamed, [Next]_vars PROVE Safe' /\ FaultsNamed'
  <2>1. CASE UNCHANGED vars
    BY <1>1, <2>1 DEF vars, shared, linuxVars, windowsVars, ifcVars, sizeVars, Safe, OnLinuxNone,
                      SessionLeft, SendersLeft, SizesKnown, FaultsNamed
  <2>2. CASE Next
    BY <1>1, <2>2, SessionStep, SendersStep, SizesStep, FaultsStep DEF Safe
  <2> QED BY <1>1, <2>1, <2>2
<1>2. Typed /\ Safe /\ FaultsNamed /\ [Next]_vars => Safe' /\ FaultsNamed'
  BY <1>1
<1> QED BY <1>2, TypeInit, TypeStep, SafeInit, PTL DEF Spec
-----------------------------------------------------------------------------
(* The size in use.                                                          *)

\* There is no sender, and the buffer has the stored size, or one that has it.
IfcSender ==
  "mtuc" \notin crossed =>
    \/ sending = EmptyBag /\ (Alive /\ made /\ reader # "start" => buf = mtu)
    \/ sending = SetToBag({mtu})

ListenerSender ==
  "maxMessageSizeC" \notin crossed =>
    \/ lsending = EmptyBag /\ lbuf = max
    \/ lsending = SetToBag({max})

LEMMA IfcSenderStep == Typed /\ IfcSender /\ Next => IfcSender'
<1> SUFFICES ASSUME Typed, IfcSender, Next, "mtuc" \notin crossed'
             PROVE  \/ sending' = EmptyBag /\ (Alive' /\ made' /\ reader' # "start" => buf' = mtu')
                    \/ sending' = SetToBag({mtu'})
  BY DEF IfcSender
<1>1. Alive
  BY DEF Next
<1>2. CASE /\ UNCHANGED <<mtu, sending, buf, made>> /\ "mtuc" \notin crossed
           /\ reader = "start" => reader' = "start"
  BY <1>1, <1>2 DEF IfcSender
<1>3. CASE SwapMTU
  <2>1. CASE mtu' = mtu
    BY <1>2, <1>3, <2>1 DEF SwapMTU, shared, linuxVars
  <2>2. CASE mtu' # mtu
    <3>1. sending = EmptyBag /\ sending' = sending (+) SetToBag({mtu'})
      BY <1>3, <2>2 DEF SwapMTU
    <3> QED BY <3>1, BagOfOne
  <2> QED BY <2>1, <2>2
<1>4. CASE HandlePacket
  <2>1. reader # "start" /\ UNCHANGED <<made, mtu, crossed>>
    BY <1>4 DEF HandlePacket, linuxVars, sizeVars
  <2>2. CASE UNCHANGED <<buf, sending>>
    BY <1>2, <2>1, <2>2
  <2>3. ASSUME NEW size \in BagToSet(sending), buf' = size, sending' = sending (-) SetToBag({size})
        PROVE  sending' = EmptyBag /\ buf' = mtu'
    <3>1. sending # EmptyBag
      BY BagOfOne
    <3>2. sending = SetToBag({mtu})
      BY <2>1, <3>1 DEF IfcSender
    <3>3. size = mtu
      BY <3>2, BagOfOne
    <3> QED BY <2>1, <2>3, <3>2, <3>3, BagOfOne
  <2> QED BY <1>4, <2>2, <2>3 DEF HandlePacket, MakeBuffer
<1>5. CASE StartReader
  <2>1. buf' = mtu' /\ UNCHANGED <<made, mtu, sending, crossed>>
    BY <1>5 DEF StartReader, MakeBuffer, linuxVars, sizeVars
  <2> QED BY <2>1 DEF IfcSender
<1>6. CASE TakeMaxMessageSize
  BY <1>2, <1>6 DEF TakeMaxMessageSize, shared, linuxVars, ifcVars
<1>7. ASSUME NEW size \in Size, SetMaxMessageSize(size)
      PROVE  UNCHANGED <<mtu, sending, buf, made, reader>> /\ "mtuc" \notin crossed
  BY <1>7 DEF SetMaxMessageSize, shared, linuxVars, ifcVars
<1> QED BY <1>2, <1>3, <1>4, <1>5, <1>6, <1>7, SizesChange DEF sizes

LEMMA ListenerSenderStep == ListenerSender /\ Next => ListenerSender'
<1> SUFFICES ASSUME ListenerSender, Next, "maxMessageSizeC" \notin crossed'
             PROVE  \/ lsending' = EmptyBag /\ lbuf' = max'
                    \/ lsending' = SetToBag({max'})
  BY DEF ListenerSender
<1>1. CASE UNCHANGED <<max, lsending, lbuf>> /\ "maxMessageSizeC" \notin crossed
  BY <1>1 DEF ListenerSender
<1>2. CASE SwapMTU
  BY <1>1, <1>2 DEF SwapMTU
<1>3. CASE HandlePacket \/ StartReader
  BY <1>1, <1>3 DEF HandlePacket, StartReader, sizeVars
<1>4. CASE TakeMaxMessageSize
  <2>1. PICK size \in BagToSet(lsending) : lbuf' = size /\ lsending' = lsending (-) SetToBag({size})
    BY <1>4 DEF TakeMaxMessageSize
  <2>2. lsending # EmptyBag /\ UNCHANGED <<max, crossed>>
    BY <1>4, <2>1, BagOfOne DEF TakeMaxMessageSize
  <2>3. lsending = SetToBag({max})
    BY <2>2 DEF ListenerSender
  <2>4. size = max
    BY <2>3, BagOfOne
  <2> QED BY <2>1, <2>2, <2>3, <2>4, BagOfOne
<1>5. ASSUME NEW size \in Size, SetMaxMessageSize(size) PROVE lsending' = SetToBag({max'})
  <2>1. lsending = EmptyBag /\ max' = size /\ lsending' = lsending (+) SetToBag({size})
    BY <1>5 DEF SetMaxMessageSize
  <2> QED BY <2>1, BagOfOne
<1> QED BY <1>1, <1>2, <1>3, <1>4, <1>5, SizesChange DEF sizes

\* A packet reader that has been handed all sizes works with the size that is
\* stored, unless two senders have been under way at once.
THEOREM SizeIsInUse == Spec => []SizeInUse
<1>1. Init => IfcSender /\ ListenerSender
  BY DEF Init, IfcSender, ListenerSender
<1>2. ASSUME Typed, IfcSender, ListenerSender, [Next]_vars PROVE IfcSender' /\ ListenerSender'
  <2>1. CASE UNCHANGED vars
    BY <1>2, <2>1 DEF vars, shared, linuxVars, ifcVars, sizeVars, IfcSender, ListenerSender, Alive
  <2>2. CASE Next
    BY <1>2, <2>2, IfcSenderStep, ListenerSenderStep
  <2> QED BY <1>2, <2>1, <2>2
<1>3. Typed /\ IfcSender /\ ListenerSender /\ [Next]_vars => IfcSender' /\ ListenerSender'
  BY <1>2
<1>4. IfcSender /\ ListenerSender => SizeInUse
  BY BagOfOne DEF IfcSender, ListenerSender, SizeInUse
<1> QED BY <1>1, <1>3, <1>4, TypeInit, TypeStep, PTL DEF Spec
-----------------------------------------------------------------------------
(* No deadlock in Close.                                                     *)

\* Who can go on.  Close waits for those who use the adapter and for the packet
\* reader,
CloseGoes ==
  \/ close = "called"
  \/ close = "device" /\ (platform = "windows" /\ closing = "begun" => NoneRunning)
  \/ close = "wait" /\ reader \in {"start", "done"}

UserGoes == user # "idle"

\* the packet reader for a packet or the end of the file,
ReaderGoes ==
  \/ reader \in {"start", "read", "use", "packet", "error"}
  \/ reader = "in" /\ (platform = "linux" => ~FileOpen)

\* the event reader for an event, the closing of the channel or i.state,
EventReaderGoes ==
  \/ evr.pc = "recv" /\ (events # <<>> \/ ~eventsOpen)
  \/ evr.pc \in {"mtu", "swap"}
  \/ evr.pc = "change" /\ ~StateLocked

\* and the device's goroutines for room in the channel, and one for the other.
Room == eventsOpen => Len(events) < EventCap
HackGoes == hack = "watch" \/ (hack = "send" /\ Room)
NetlinkGoes ==
  \/ nl.pc = "recv"
  \/ nl.pc = "send" /\ Room
  \/ nl.pc = "unwind" /\ hack = "done"

\* Interface.Close holds i.state while it waits for the packet reader, the event
\* reader waits for i.state, the device's goroutines for the event reader and for
\* each other.  Once Close is called each of them has come to its end, or can go
\* on, or waits for one that can: there is no circle, with any capacity of the
\* channel and any events in it (interface.go:247-275, tun_linux.go:53-192).
NobodyLeftWaiting ==
  Alive /\ close # "none" =>
    /\ close = "done" \/ CloseGoes \/ ReaderGoes \/ UserGoes
    /\ reader = "done" \/ ReaderGoes \/ CloseGoes
    /\ close = "done" =>
         /\ evr.pc = "done" \/ EventReaderGoes \/ (platform = "linux" /\ (HackGoes \/ NetlinkGoes))
         /\ platform = "linux" =>
              /\ hack = "done" \/ HackGoes \/ EventReaderGoes
              /\ nl.pc = "done" \/ NetlinkGoes \/ HackGoes \/ EventReaderGoes

\* Close comes to an end on an interface only, after the device's Close; the
\* events are closed last, by what ends the device's goroutines or by Close
\* itself; and the event reader ends after that.
EndsInOrder ==
  /\ close # "none" \/ reader # "done" => made
  /\ close \in {"wait", "done"} => closing = "closed"
  /\ platform = "windows" => (eventsOpen <=> closing # "closed")
  /\ platform = "linux" /\ nl.pc = "done" => ~eventsOpen
  /\ made /\ evr.pc = "done" => ~eventsOpen

LEMMA EndsInit == Init => EndsInOrder
BY DEF Init, DeviceInit, LinuxInit, WindowsInit, EndsInOrder

LEMMA EndsStep == Typed /\ SendersLeft /\ EndsInOrder /\ Next => EndsInOrder'
<1> SUFFICES ASSUME Typed, SendersLeft, EndsInOrder, Next PROVE EndsInOrder'
  OBVIOUS
<1> USE DEF EndsInOrder, shared, linuxVars, windowsVars, ifcVars, sizeVars
<1>1. CASE Hack \/ OnLinux(NetlinkMessage \/ NetlinkCancelled \/ NetlinkSend \/ NetlinkFails)
  BY <1>1 DEF Hack, OnLinux, HackProbe, HackSend, HackShutdown, NetlinkMessage, NetlinkCancelled,
              NetlinkSend, NetlinkFails, Typed, TypeOK, LinuxTypeOK
<1>2. CASE OnLinux(NetlinkUnwind)
  BY <1>2 DEF OnLinux, NetlinkUnwind
<1>3. CASE UNCHANGED <<platform, made, eventsOpen, closing, nl, close, reader>> /\ evr'.pc # "done"
  BY <1>3
<1>4. CASE /\ UNCHANGED <<platform, made, eventsOpen, closing, nl, close, evr>>
           /\ reader # "done" \/ reader' = reader
  BY <1>4
<1>5. CASE TakeEvent
  <2>1. UNCHANGED <<platform, made, eventsOpen, closing, nl, close, reader>>
    BY <1>5 DEF TakeEvent
  <2>2. evr'.pc = "done" => ~eventsOpen
    BY <1>5 DEF TakeEvent, Typed, TypeOK
  <2> QED BY <2>1, <2>2
<1>6. CASE ReadMTU \/ SwapMTU \/ ChangeState
  BY <1>3, <1>6 DEF ReadMTU, SwapMTU, ChangeState, Typed, TypeOK
<1>7. CASE Read \/ User \/ OnLinux(LinuxPacket) \/ OnWindows(CallUser \/ SetMTUSends)
  BY <1>4, <1>7 DEF Read, User, OnLinux, OnWindows, LinuxRead, LinuxReadFails, LinuxPacket, WindowsRead,
                    WindowsReadTests, WindowsReceive, TestFlag, UseAdapter, CallUser, SetMTUSends
<1>8. CASE StartReader \/ HandlePacket
  BY <1>4, <1>8 DEF StartReader, HandlePacket
<1>9. CASE ReadError
  BY <1>9 DEF ReadError, Loaded, Typed
<1>10. CASE CloseStep \/ CallClose
  BY <1>10 DEF CloseStep, CallClose, ifcOtherVars
<1>11. CASE CloseDevice
  <2>1. CASE platform = "linux"
    BY <1>11, <2>1 DEF CloseDevice, LinuxClose
  <2>2. CASE platform = "windows"
    BY <1>11, <2>2 DEF CloseDevice, WindowsClose, Typed, TypeOK, DeviceTypeOK
  <2> QED BY <2>1, <2>2 DEF Typed, TypeOK, DeviceTypeOK
<1>12. CASE Outside \/ CallSetMTU \/ TakeMaxMessageSize
  BY <1>4, <1>12 DEF Outside, LinkChange, LinkDelete, AdapterDelete, CallSetMTU, SetMTUTests,
                     TakeMaxMessageSize
<1>13. ASSUME NEW size \in Size, SetMaxMessageSize(size) \/ SetMTU(size) PROVE EndsInOrder'
  BY <1>4, <1>13 DEF SetMaxMessageSize, SetMTU, LinuxSetMTU, SetMTUSets
<1> QED BY <1>1, <1>2, <1>5, <1>6, <1>7, <1>8, <1>9, <1>10, <1>11, <1>12, <1>13
        DEF Next, Netlink, OnLinux, EventReader, PacketReader, Close

\* A full channel has an event for the event reader, which is there to take it
\* once i.state is free.
LEMMA EventReaderTakes ==
  ASSUME Typed, SendersLeft, EndsInOrder, platform = "linux", made, ~StateLocked,
         hack # "done" \/ nl.pc # "done"
  PROVE  Room \/ EventReaderGoes
<1>1. eventsOpen
  BY DEF SendersLeft
<1>2. evr.pc # "done"
  BY <1>1 DEF EndsInOrder
<1>3. CASE Len(events) < EventCap
  BY <1>3 DEF Room
<1>4. CASE ~(Len(events) < EventCap)
  <2>1. events # <<>>
    BY <1>4, NoEvents, TunAssumption
  <2>2. evr.pc \in {"recv", "mtu", "swap", "change"}
    BY <1>2 DEF Typed, TypeOK
  <2> QED BY <2>1, <2>2 DEF EventReaderGoes
<1> QED BY <1>3, <1>4

LEMMA SomeoneGoes == Typed /\ SendersLeft /\ OnLinuxNone /\ EndsInOrder => NobodyLeftWaiting
<1> SUFFICES ASSUME Typed, SendersLeft, OnLinuxNone, EndsInOrder, close # "none" PROVE NobodyLeftWaiting
  BY DEF NobodyLeftWaiting
<1>1. made /\ platform \in {"linux", "windows"}
      /\ close \in {"called", "device", "wait", "done"}
      /\ reader \in {"start", "read", "in", "use", "packet", "error", "done"}
      /\ evr.pc \in {"recv", "mtu", "swap", "change", "done"}
      /\ hack \in {"watch", "send", "done"}
      /\ nl.pc \in {"recv", "send", "unwind", "done"}
  BY DEF EndsInOrder, Typed, TypeOK, DeviceTypeOK, LinuxTypeOK
<1>2. close = "done" \/ CloseGoes \/ ReaderGoes \/ UserGoes
  <2>1. CASE close = "wait"
    BY <1>1, <2>1 DEF EndsInOrder, CloseGoes, ReaderGoes, FileOpen
  <2> QED BY <1>1, <2>1 DEF CloseGoes, ReaderGoes, UserGoes, NoneRunning
<1>3. reader = "done" \/ ReaderGoes \/ CloseGoes
  BY <1>1 DEF EndsInOrder, CloseGoes, ReaderGoes, FileOpen
<1>4. ASSUME close = "done" PROVE ~StateLocked
  BY <1>4 DEF StateLocked
<1>5. ASSUME close = "done", platform = "linux" PROVE hack = "done" \/ HackGoes \/ EventReaderGoes
  BY <1>1, <1>4, <1>5, EventReaderTakes DEF HackGoes
<1>6. ASSUME close = "done", platform = "linux"
      PROVE  nl.pc = "done" \/ NetlinkGoes \/ HackGoes \/ EventReaderGoes
  BY <1>1, <1>4, <1>5, <1>6, EventReaderTakes DEF NetlinkGoes
<1>7. ASSUME close = "done"
      PROVE  evr.pc = "done" \/ EventReaderGoes \/ (platform = "linux" /\ (HackGoes \/ NetlinkGoes))
  <2>1. CASE platform = "linux" /\ nl.pc # "done"
    BY <1>6, <1>7, <2>1
  <2>2. CASE ~eventsOpen
    BY <1>1, <1>4, <1>7, <2>2 DEF EventReaderGoes
  <2> QED BY <1>1, <1>7, <2>1, <2>2 DEF EndsInOrder
<1> QED BY <1>2, <1>3, <1>5, <1>6, <1>7 DEF NobodyLeftWaiting

\* Once Close is called, Close itself, the packet reader, the event reader and the
\* device's goroutines have ended, or can go on, or wait for one that can.
THEOREM NobodyIsLeftWaiting == Spec => []NobodyLeftWaiting
<1>1. ASSUME Typed, OnLinuxNone, SessionLeft, SendersLeft, EndsInOrder, [Next]_vars
      PROVE  OnLinuxNone' /\ SessionLeft' /\ SendersLeft' /\ EndsInOrder'
  <2>1. CASE UNCHANGED vars
    BY <1>1, <2>1 DEF vars, shared, linuxVars, windowsVars, ifcVars, OnLinuxNone, SessionLeft,
                      SendersLeft, EndsInOrder
  <2>2. CASE Next
    BY <1>1, <2>2, SessionStep, SendersStep, EndsStep
  <2> QED BY <1>1, <2>1, <2>2
<1>2. Typed /\ OnLinuxNone /\ SessionLeft /\ SendersLeft /\ EndsInOrder /\ [Next]_vars
        => OnLinuxNone' /\ SessionLeft' /\ SendersLeft' /\ EndsInOrder'
  BY <1>1
<1>3. Init => OnLinuxNone /\ SessionLeft /\ SendersLeft /\ EndsInOrder
  BY SafeInit, EndsInit DEF Safe
<1> QED BY <1>2, <1>3, SomeoneGoes, TypeInit, TypeStep, PTL DEF Spec
=============================================================================
