------------------------------ MODULE TunLinux ------------------------------
(***************************************************************************)
(* The Linux TUN device (tun/tun_linux.go): two goroutines that watch it,  *)
(* Read and Close.                                                         *)
(*                                                                         *)
(* routineHackListener probes the device every second; routineNetlink-     *)
(* Listener hears the kernel's link notifications.  Both send on events,   *)
(* which the second one closes when the first one has ended.               *)
(***************************************************************************)
EXTENDS TunDevice

VARIABLES
  made,     \* CreateTUNFromFile has succeeded
  running,  \* the link's IFF_RUNNING
  notes,    \* link notifications the kernel has queued on the netlink socket
  sock,     \* how often the netlink socket has been closed
  hack,     \* routineHackListener
  last,     \* and the state it reported last
  nl,       \* routineNetlinkListener: where it is, and what it has to send
  errors    \* the errors channel

linuxVars == <<made, running, notes, sock, hack, last, nl, errors>>

LinuxTypeOK ==
  /\ made \in BOOLEAN /\ running \in BOOLEAN
  /\ notes \in Nat /\ sock \in 0..2
  /\ hack \in {"watch", "send", "done"}
  /\ last \in {"none", "up", "down"}
  /\ nl \in [pc: {"recv", "send", "unwind", "done"}, queue: Seq(Event)]
  /\ errors \in 0..1

\* CreateTUNFromFile starts both goroutines and then sets the MTU.  If that
\* fails it closes the netlink socket and drops the device as it is.  The MTU
\* it sets is the first thing the kernel has to tell.
LinuxInit ==
  /\ made \in BOOLEAN
  /\ running = FALSE
  /\ notes = IF made THEN 1 ELSE 0
  /\ sock = IF made THEN 0 ELSE 1
  /\ hack = "watch" /\ last = "none"
  /\ nl = [pc |-> "recv", queue |-> <<>>]
  /\ errors = 0

-----------------------------------------------------------------------------
(* The kernel.                                                               *)

\* The file can be used; when it is closed the device goes too.
FileOpen == closing # "closed" /\ ~gone

Notified == notes' = notes + 1

LinkChange ==
  /\ FileOpen
  /\ running' = ~running
  /\ Notified
  /\ UNCHANGED <<shared, made, sock, hack, last, nl, errors>>

LinkDelete ==
  /\ FileOpen
  /\ gone' = TRUE
  /\ UNCHANGED <<platform, devMTU, events, eventsOpen, reader, closing, faults, linuxVars>>

\* SetMTU, from the interface or from any other program.
LinuxSetMTU(m) ==
  /\ FileOpen /\ m \in Nat /\ m # devMTU
  /\ devMTU' = m
  /\ Notified
  /\ UNCHANGED <<platform, gone, events, eventsOpen, reader, closing, faults,
                 made, running, sock, hack, last, nl, errors>>

-----------------------------------------------------------------------------
(* routineHackListener.                                                      *)

\* The null write fails with EINVAL while the link is up, with EIO while it
\* is down, and with something else once the file is closed or the device gone.
HackProbe ==
  /\ hack = "watch"
  /\ LET now == IF running THEN "up" ELSE "down" IN
     /\ hack' = IF ~FileOpen THEN "done" ELSE IF last = now THEN "watch" ELSE "send"
     /\ last' = IF ~FileOpen THEN "none" ELSE now
  /\ UNCHANGED <<shared, made, running, notes, sock, nl, errors>>

HackSend ==
  /\ hack = "send"
  /\ SendEvent("state")
  /\ hack' = IF eventsOpen THEN "watch" ELSE hack
  /\ UNCHANGED <<platform, devMTU, gone, eventsOpen, reader, closing,
                 made, running, notes, sock, last, nl, errors>>

\* Between two probes it waits for a second, or for Close.
HackShutdown ==
  /\ hack = "watch" /\ last # "none"
  /\ closing # "open"
  /\ hack' = "done" /\ last' = "none"
  /\ UNCHANGED <<shared, made, running, notes, sock, nl, errors>>

-----------------------------------------------------------------------------
(* routineNetlinkListener.                                                   *)

\* A link notification makes an up event if the link is up, and an MTU event;
\* a down event it makes only behind an up event of the same datagram, and the
\* kernel puts one notification in a datagram.
NetlinkMessage ==
  /\ nl.pc = "recv" /\ notes > 0 /\ sock = 0
  /\ notes' = notes - 1
  /\ nl' = IF closing # "open" THEN [nl EXCEPT !.pc = "unwind"]
           ELSE [pc |-> "send", queue |-> IF running THEN <<"state", "mtu">> ELSE <<"mtu">>]
  /\ UNCHANGED <<shared, made, running, sock, hack, last, errors>>

\* Close cancels the wait for a message, or the socket is closed.
NetlinkCancelled ==
  /\ nl.pc = "recv"
  /\ closing # "open" \/ sock > 0
  /\ errors' = 1
  /\ nl' = [nl EXCEPT !.pc = "unwind"]
  /\ UNCHANGED <<shared, made, running, notes, sock, hack, last>>

\* Too many messages, or too little memory.
NetlinkFails ==
  /\ nl.pc = "recv"
  /\ errors' = 1
  /\ nl' = [nl EXCEPT !.pc = "unwind"]
  /\ UNCHANGED <<shared, made, running, notes, sock, hack, last>>

NetlinkSend ==
  /\ nl.pc = "send"
  /\ SendEvent(Head(nl.queue))
  /\ nl' = [pc |-> IF Len(nl.queue) > 1 THEN "send" ELSE "recv", queue |-> Tail(nl.queue)]
  /\ UNCHANGED <<platform, devMTU, gone, eventsOpen, reader, closing,
                 made, running, notes, sock, hack, last, errors>>

\* Mutant: routineHackListener is not waited for.
UnwindAtOnce ==
  /\ nl.pc = "unwind"
  /\ sock' = sock + 1
  /\ faults' = IF sock > 0 THEN faults \cup {"socket"} ELSE faults
  /\ eventsOpen' = FALSE
  /\ nl' = [nl EXCEPT !.pc = "done"]
  /\ UNCHANGED <<platform, devMTU, gone, events, reader, closing,
                 made, running, notes, hack, last, errors>>

\* Mutant: events is not closed.
UnwindLeavesEvents ==
  /\ nl.pc = "unwind" /\ hack = "done"
  /\ sock' = sock + 1
  /\ faults' = IF sock > 0 THEN faults \cup {"socket"} ELSE faults
  /\ nl' = [nl EXCEPT !.pc = "done"]
  /\ UNCHANGED <<platform, devMTU, gone, events, eventsOpen, reader, closing,
                 made, running, notes, hack, last, errors>>

\* The deferred function: the socket is closed, routineHackListener waited
\* for, and events closed.
NetlinkUnwind ==
  /\ nl.pc = "unwind" /\ hack = "done"
  /\ sock' = sock + 1
  /\ faults' = IF sock > 0 THEN faults \cup {"socket"} ELSE faults
  /\ eventsOpen' = FALSE
  /\ nl' = [nl EXCEPT !.pc = "done"]
  /\ UNCHANGED <<platform, devMTU, gone, events, reader, closing,
                 made, running, notes, hack, last, errors>>

-----------------------------------------------------------------------------
(* Read and Close.                                                           *)

\* An error of routineNetlinkListener first; else the file is read.
LinuxRead ==
  /\ reader = "read"
  /\ reader' = IF errors > 0 THEN "error" ELSE "in"
  /\ errors' = 0
  /\ UNCHANGED <<platform, devMTU, gone, events, eventsOpen, closing, faults,
                 made, running, notes, sock, hack, last, nl>>

LinuxReadFails ==
  /\ reader = "in" /\ ~FileOpen
  /\ reader' = "error"
  /\ UNCHANGED <<platform, devMTU, gone, events, eventsOpen, closing, faults, linuxVars>>

LinuxPacket ==
  /\ reader = "in" /\ FileOpen
  /\ reader' = "packet"
  /\ UNCHANGED <<platform, devMTU, gone, events, eventsOpen, closing, faults, linuxVars>>

\* The listeners are told first, then the file is closed.
LinuxClose ==
  /\ closing # "closed"
  /\ closing' = CASE closing = "open" -> "begun" [] closing = "begun" -> "closed"
  /\ UNCHANGED <<platform, devMTU, gone, events, eventsOpen, reader, faults, linuxVars>>
=============================================================================
