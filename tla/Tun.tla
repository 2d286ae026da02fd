-------------------------------- MODULE Tun ---------------------------------
(***************************************************************************)
(* A vxlan interface over its TUN device (interface.go over tun/): the     *)
(* event reader, the packet reader, Close, and the way a new size reaches  *)
(* the buffer of a packet reader, which the listener has too (listener.go).*)
(*                                                                         *)
(* A size is stored first, and then handed by a goroutine of its own to    *)
(* the packet reader, which looks for one after each packet.               *)
(***************************************************************************)
EXTENDS TunLinux, TunWindows, Bags

CONSTANTS
  MaxChanges   \* bound on the sizes operators set and the changes of the link

ASSUME BoundAssumption == MaxChanges \in Nat

VARIABLES
  evr,       \* the event reader, and the device's MTU it has read
  close,     \* Interface.Close, the first call of it
  mtu,       \* i.tun.mtu
  sending,   \* the goroutines that send on i.tun.mtuc, as their sizes
  buf,       \* the length of the packet reader's buffer
  max,       \* l.net.maxMessageSize
  lsending,  \* the goroutines that send on l.net.maxMessageSizeC
  lbuf,      \* the length of the buffer of the listener's packet reader
  changes,   \* the sizes set so far
  crossed,   \* history: the channels on which two sends have been under way
  small      \* history: the maximum message size has been below the overhead

ifcVars == <<evr, close, mtu, sending, buf>>
sizeVars == <<max, lsending, lbuf, crossed, small>>
vars == <<shared, linuxVars, windowsVars, ifcVars, sizeVars, changes>>

TypeOK ==
  /\ DeviceTypeOK /\ LinuxTypeOK /\ WindowsTypeOK
  /\ evr \in [pc: {"recv", "mtu", "swap", "change", "done"}, m: MTU \cup {0}]
  /\ close \in {"none", "called", "device", "wait", "done"}
  /\ mtu \in MTU /\ buf \in MTU
  /\ max \in Size /\ max > 1 /\ lbuf \in Size /\ small \in BOOLEAN
  /\ IsABag(sending) /\ BagToSet(sending) \subseteq MTU
  /\ IsABag(lsending) /\ BagToSet(lsending) \subseteq Size
  /\ crossed \subseteq {"mtuc", "maxMessageSizeC"}
  /\ changes \in 0..MaxChanges

\* NewInterface has the device and its MTU, the one asked for or what the
\* listener leaves, and starts the readers.  Without a device there is no
\* interface, and only the device's goroutines are left.
Init ==
  /\ platform \in {"linux", "windows"}
  /\ max \in {s \in Size : s > 1} /\ lbuf = max
  /\ devMTU \in {s \in Size \cup {max - Overhead} : s > 1}
  /\ DeviceInit /\ LinuxInit /\ WindowsInit
  /\ platform = "windows" => made
  /\ reader = IF made THEN "start" ELSE "done"
  /\ evr = [pc |-> IF made THEN "recv" ELSE "done", m |-> 0]
  /\ close = "none"
  /\ mtu = devMTU /\ buf = devMTU
  /\ sending = EmptyBag /\ lsending = EmptyBag
  /\ crossed = {} /\ small = (max < Overhead)
  /\ changes = 0

-----------------------------------------------------------------------------
(* The event reader.                                                         *)

TakeEvent ==
  /\ evr.pc = "recv"
  /\ \/ /\ events # <<>>
        /\ events' = Tail(events)
        /\ evr' = [evr EXCEPT !.pc = IF Head(events) = "mtu" THEN "mtu" ELSE "change"]
     \/ /\ events = <<>> /\ ~eventsOpen
        /\ evr' = [evr EXCEPT !.pc = "done"]
        /\ UNCHANGED events
  /\ UNCHANGED <<platform, devMTU, gone, eventsOpen, reader, closing, faults, linuxVars,
                 windowsVars, close, mtu, sending, buf, sizeVars, changes>>

\* The device's MTU, which only an open device has to tell on Linux.
ReadMTU ==
  /\ evr.pc = "mtu"
  /\ evr' = IF platform = "windows" \/ FileOpen THEN [pc |-> "swap", m |-> devMTU]
            ELSE [evr EXCEPT !.pc = "recv"]
  /\ UNCHANGED <<shared, linuxVars, windowsVars, close, mtu, sending, buf, sizeVars,
                 changes>>

Smaller(m, n) == IF m < n THEN m ELSE n

\* Mutant: the sender is given the device's MTU, not the one stored.
SendUncapped ==
  /\ evr.pc = "swap"
  /\ mtu' = Smaller(evr.m, max - Overhead)
  /\ sending' = IF mtu' # mtu THEN sending (+) SetToBag({evr.m}) ELSE sending
  /\ crossed' = IF mtu' # mtu /\ sending # EmptyBag THEN crossed \cup {"mtuc"} ELSE crossed
  /\ evr' = [pc |-> "recv", m |-> 0]
  /\ UNCHANGED <<shared, linuxVars, windowsVars, close, buf, max, lsending, lbuf, small, changes>>

\* It is capped by the listener's maximum message size, stored, and handed to
\* the packet reader if it is another one.
SwapMTU ==
  /\ evr.pc = "swap"
  /\ mtu' = Smaller(evr.m, max - Overhead)
  /\ sending' = IF mtu' # mtu THEN sending (+) SetToBag({mtu'}) ELSE sending
  /\ crossed' = IF mtu' # mtu /\ sending # EmptyBag THEN crossed \cup {"mtuc"} ELSE crossed
  /\ evr' = [pc |-> "recv", m |-> 0]
  /\ UNCHANGED <<shared, linuxVars, windowsVars, close, buf, max, lsending, lbuf, small, changes>>

StateLocked == close \in {"device", "wait"}

\* Up and Down take i.state, which Close holds from beginning to end; and
\* changeState falls through from up to down, so that nothing changes.
ChangeState ==
  /\ evr.pc = "change" /\ ~StateLocked
  /\ evr' = [evr EXCEPT !.pc = "recv"]
  /\ UNCHANGED <<shared, linuxVars, windowsVars, close, mtu, sending, buf, sizeVars,
                 changes>>

EventReader == TakeEvent \/ ReadMTU \/ SwapMTU \/ ChangeState

-----------------------------------------------------------------------------
(* The packet reader.                                                        *)

\* A buffer of a negative size panics.
MakeBuffer(size) ==
  /\ buf' = size
  /\ faults' = IF size < 0 THEN faults \cup {"size"} ELSE faults

StartReader ==
  /\ reader = "start"
  /\ reader' = "read"
  /\ MakeBuffer(mtu)
  /\ UNCHANGED <<platform, devMTU, gone, events, eventsOpen, closing, linuxVars, windowsVars,
                 evr, close, mtu, sending, sizeVars, changes>>

\* A packet is sent on (see Arp and Tables), or given up.  Then the reader
\* takes the size of a goroutine that has come to its send; if there is none
\* yet, or the packet was given up, it goes on as it is.
HandlePacket ==
  /\ reader = "packet"
  /\ reader' = "read"
  /\ \/ \E size \in BagToSet(sending) :
          /\ MakeBuffer(size)
          /\ sending' = sending (-) SetToBag({size})
     \/ UNCHANGED <<buf, sending, faults>>
  /\ UNCHANGED <<platform, devMTU, gone, events, eventsOpen, closing, linuxVars, windowsVars,
                 evr, close, mtu, sizeVars, changes>>

\* On any error the reader has the interface closed, if it is not, and ends.
ReadError ==
  /\ reader = "error"
  /\ reader' = "done"
  /\ close' = IF close = "none" THEN "called" ELSE close
  /\ UNCHANGED <<platform, devMTU, gone, events, eventsOpen, closing, faults, linuxVars,
                 windowsVars, evr, mtu, sending, buf, sizeVars, changes>>

PacketReader == StartReader \/ HandlePacket \/ ReadError

-----------------------------------------------------------------------------
(* Close.                                                                    *)

ifcOtherVars == <<evr, mtu, sending, buf>>

\* A handler, or the listener that closes.
CallClose ==
  /\ close = "none" /\ made
  /\ close' = "called"
  /\ UNCHANGED <<shared, linuxVars, windowsVars, ifcOtherVars, sizeVars, changes>>

\* i.state is locked, the state is closed, the device is closed,
CloseDevice ==
  /\ close = "device"
  /\ IF platform = "linux" THEN LinuxClose /\ UNCHANGED windowsVars
                           ELSE WindowsClose /\ UNCHANGED linuxVars
  /\ UNCHANGED <<ifcVars, sizeVars, changes>>

\* the packet reader is waited for, if it has begun, and with the interface
\* taken off the listener's list (see Lifecycle) i.state is released.
CloseStep ==
  /\ \/ close = "called" /\ close' = "device"
     \/ close = "device" /\ closing = "closed" /\ close' = "wait"
     \/ close = "wait" /\ reader \in {"start", "done"} /\ close' = "done"
  /\ UNCHANGED <<shared, linuxVars, windowsVars, ifcOtherVars, sizeVars, changes>>

-----------------------------------------------------------------------------
(* The sizes.                                                                *)

Count == changes < MaxChanges /\ changes' = changes + 1

\* Mutant: no size is too small.
SetAnySize(size) ==
  /\ Count
  /\ max' = size
  /\ lsending' = lsending (+) SetToBag({size})
  /\ crossed' = IF lsending # EmptyBag THEN crossed \cup {"maxMessageSizeC"} ELSE crossed
  /\ small' = (small \/ size < Overhead)
  /\ UNCHANGED <<shared, linuxVars, windowsVars, ifcVars, lbuf>>

SetMaxMessageSize(size) ==
  /\ size > 1
  /\ Count
  /\ max' = size
  /\ lsending' = lsending (+) SetToBag({size})
  /\ crossed' = IF lsending # EmptyBag THEN crossed \cup {"maxMessageSizeC"} ELSE crossed
  /\ small' = (small \/ size < Overhead)
  /\ UNCHANGED <<shared, linuxVars, windowsVars, ifcVars, lbuf>>

\* The listener's packet reader, after a packet.
TakeMaxMessageSize ==
  /\ \E size \in BagToSet(lsending) :
       /\ lbuf' = size
       /\ lsending' = lsending (-) SetToBag({size})
  /\ UNCHANGED <<shared, linuxVars, windowsVars, ifcVars, max, crossed, small, changes>>

\* An MTU that is not given is what the listener leaves.
MTUFor(want) == IF want <= 1 THEN max - Overhead ELSE want

SetMTU(want) ==
  /\ made
  /\ \/ /\ platform = "linux"
        /\ Count
        /\ LinuxSetMTU(MTUFor(want))
        /\ UNCHANGED windowsVars
     \/ /\ platform = "windows"
        /\ SetMTUSets(MTUFor(want))
        /\ UNCHANGED <<linuxVars, changes>>
  /\ UNCHANGED <<ifcVars, sizeVars>>

-----------------------------------------------------------------------------

OnLinux(step) ==
  platform = "linux" /\ step /\ UNCHANGED <<windowsVars, ifcVars, sizeVars, changes>>

OnWindows(step) ==
  platform = "windows" /\ step /\ UNCHANGED <<linuxVars, ifcVars, sizeVars, changes>>

Hack == OnLinux(HackProbe \/ HackSend \/ HackShutdown)
Netlink == OnLinux(NetlinkMessage \/ NetlinkCancelled \/ NetlinkSend \/ NetlinkUnwind)
Read == \/ OnLinux(LinuxRead \/ LinuxReadFails)
        \/ OnWindows(WindowsRead \/ WindowsReadTests \/ WindowsReceive)
User == OnWindows(TestFlag \/ UseAdapter)
Close == CloseStep \/ CloseDevice

CallSetMTU ==
  /\ platform = "windows"
  /\ Count
  /\ SetMTUTests
  /\ UNCHANGED <<linuxVars, ifcVars, sizeVars>>

Outside ==
  /\ Count
  /\ \/ platform = "linux" /\ (LinkChange \/ LinkDelete) /\ UNCHANGED windowsVars
     \/ platform = "windows" /\ AdapterDelete /\ UNCHANGED linuxVars
  /\ UNCHANGED <<ifcVars, sizeVars>>

Next ==
  /\ Alive
  /\ \/ Hack \/ Netlink \/ Read \/ User \/ Close
     \/ EventReader \/ PacketReader
     \/ OnLinux(NetlinkFails \/ LinuxPacket)
     \/ OnWindows(CallUser \/ SetMTUSends)
     \/ Outside
     \/ CallClose
     \/ \E size \in Size : SetMaxMessageSize(size) \/ SetMTU(size)
     \/ CallSetMTU
     \/ TakeMaxMessageSize

Spec == Init /\ [][Next]_vars

\* Every goroutine goes on as long as it can; Close, that waits for a count of
\* zero, does so if it can again and again.  Packets, notifications, failures
\* and operators owe nothing.
Fairness ==
  /\ WF_vars(Alive /\ Hack) /\ WF_vars(Alive /\ Netlink)
  /\ WF_vars(Alive /\ EventReader) /\ SF_vars(Alive /\ Close)
  /\ WF_vars(Alive /\ (Read \/ PacketReader)) /\ WF_vars(Alive /\ User)

FairSpec == Spec /\ Fairness

-----------------------------------------------------------------------------
(* Properties.                                                               *)

\* What goes wrong has one known cause each.  Nobody uses the session or the
\* adapter after Close has ended them; only SetMTU on Windows, which is not
\* counted in running, sends on a closed channel; only a maximum message size
\* below the encapsulation's own makes a negative buffer; and the netlink
\* socket is closed twice only by a CreateTUN that has failed.
FaultsNamed ==
  /\ "session" \notin faults
  /\ "events" \in faults => platform = "windows" /\ setter = "send"
  /\ "size" \in faults => small
  /\ "socket" \in faults => ~made

\* A packet reader that has been handed all sizes works with the size that
\* holds now, unless two senders were ever under way at once: those may be
\* served in either order, and leave the reader with an older size for good.
SizeInUse ==
  /\ Alive /\ made /\ reader # "start" /\ sending = EmptyBag /\ "mtuc" \notin crossed
       => buf = mtu
  /\ lsending = EmptyBag /\ "maxMessageSizeC" \notin crossed => lbuf = max

Ended ==
  /\ close = "done" /\ reader = "done" /\ evr.pc = "done"
  /\ platform = "linux" => hack = "done" /\ nl.pc = "done"

\* Close ends, and with it the packet reader, the event reader and the two
\* goroutines of the device, though the event reader waits for the lock that
\* Close holds, the device's goroutines for the event reader, and Close for
\* the packet reader.
CloseEnds == close = "called" ~> (Ended \/ ~Alive)
=============================================================================
