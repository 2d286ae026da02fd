----------------------------- MODULE TunDevice ------------------------------
(***************************************************************************)
(* What the TUN devices of the two platforms (TunLinux, TunWindows) share  *)
(* with each other and with the interface that uses them (Tun): the device *)
(* as the system has it, the channel of its events, the packet reader's    *)
(* call of Read and the progress of Close.                                 *)
(***************************************************************************)
EXTENDS Integers, Sequences

CONSTANTS
  Size,      \* the sizes operators ask for
  Overhead,  \* the bytes of VXLAN encapsulation, 50 in the code
  EventCap   \* the capacity of the events channel: 5 on Linux, 10 on Windows

ASSUME TunAssumption ==
  /\ Size \subseteq Nat
  /\ Overhead \in Nat
  /\ EventCap \in Nat \ {0}

VARIABLES
  platform,    \* "linux" or "windows"
  devMTU,      \* the MTU the system has for the device
  gone,        \* the device has been deleted from outside
  events,      \* the events channel
  eventsOpen,  \* it has not been closed
  reader,      \* where the interface's packet reader is
  closing,     \* how far the device's Close has come
  faults       \* what has gone wrong, see Alive

shared == <<platform, devMTU, gone, events, eventsOpen, reader, closing, faults>>

\* Sizes, and what is left of one without the encapsulation.
MTU == Size \cup {s - Overhead : s \in Size}

\* EventUp and EventDown, which come to the same (see ChangeState), and
\* EventMTUUpdate.
Event == {"state", "mtu"}

DeviceTypeOK ==
  /\ platform \in {"linux", "windows"}
  /\ devMTU \in MTU \cap Nat
  /\ gone \in BOOLEAN
  /\ events \in Seq(Event) /\ Len(events) <= EventCap
  /\ eventsOpen \in BOOLEAN
  /\ reader \in {"start", "read", "in", "use", "packet", "error", "done"}
  /\ closing \in {"open", "begun", "ended", "closed"}
  /\ faults \subseteq {"events", "size", "session", "socket"}

DeviceInit ==
  /\ gone = FALSE
  /\ events = <<>>
  /\ eventsOpen = TRUE
  /\ closing = "open"
  /\ faults = {}

\* A send on a closed channel and a slice of negative length panic, which
\* ends the process.
Alive == "events" \notin faults /\ "size" \notin faults

\* tun.events <- e waits while the channel is full, and panics if it is closed.
SendEvent(e) ==
  IF eventsOpen
    THEN /\ Len(events) < EventCap
         /\ events' = Append(events, e)
         /\ UNCHANGED faults
    ELSE /\ faults' = faults \cup {"events"}
         /\ UNCHANGED events
=============================================================================
