----------------------------- MODULE TunWindows -----------------------------
(***************************************************************************)
(* The Windows TUN device (tun/tun_windows.go): Read, Write, LUID and      *)
(* SetMTU against Close.                                                   *)
(*                                                                         *)
(* Read, Write and LUID count themselves in running before they test the   *)
(* close flag; Close sets the flag and waits for running before it ends    *)
(* the session and closes the adapter.  SetMTU tests the flag, and sends   *)
(* its event without being counted.                                        *)
(***************************************************************************)
EXTENDS TunDevice

VARIABLES
  user,   \* a Write of the listener's packet reader, or a LUID
  setter  \* a handler in SetMTU

windowsVars == <<user, setter>>

WindowsTypeOK ==
  /\ user \in {"idle", "counted", "use"}
  /\ setter \in {"idle", "tested", "send"}

WindowsInit == user = "idle" /\ setter = "idle"

\* running.Wait() goes on when this holds.
NoneRunning == reader \notin {"in", "use"} /\ user = "idle"

\* The session and the adapter are used.
Use == IF closing \in {"ended", "closed"} THEN faults' = faults \cup {"session"}
       ELSE UNCHANGED faults

-----------------------------------------------------------------------------
(* Write and LUID.                                                           *)

CallUser ==
  /\ user = "idle"
  /\ user' = "counted"
  /\ UNCHANGED <<shared, setter>>

TestFlag ==
  /\ user = "counted"
  /\ user' = IF closing = "open" THEN "use" ELSE "idle"
  /\ UNCHANGED <<shared, setter>>

UseAdapter ==
  /\ user = "use"
  /\ Use
  /\ user' = "idle"
  /\ UNCHANGED <<platform, devMTU, gone, events, eventsOpen, reader, closing, setter>>

-----------------------------------------------------------------------------
(* Read.                                                                     *)

WindowsRead ==
  /\ reader = "read"
  /\ reader' = "in"
  /\ UNCHANGED <<platform, devMTU, gone, events, eventsOpen, closing, faults, windowsVars>>

WindowsReadTests ==
  /\ reader = "in"
  /\ reader' = IF closing = "open" THEN "use" ELSE "error"
  /\ UNCHANGED <<platform, devMTU, gone, events, eventsOpen, closing, faults, windowsVars>>

\* A packet; or none, and Read waits for one or for Close; or the adapter has
\* been deleted.
WindowsReceive ==
  /\ reader = "use"
  /\ Use
  /\ reader' \in IF gone THEN {"error"} ELSE {"packet", "in"}
  /\ UNCHANGED <<platform, devMTU, gone, events, eventsOpen, closing, windowsVars>>

AdapterDelete ==
  /\ ~gone
  /\ gone' = TRUE
  /\ UNCHANGED <<platform, devMTU, events, eventsOpen, reader, closing, faults, windowsVars>>

-----------------------------------------------------------------------------
(* SetMTU and Close.                                                         *)

SetMTUTests ==
  /\ setter = "idle"
  /\ closing = "open"
  /\ setter' = "tested"
  /\ UNCHANGED <<shared, user>>

\* The adapter is told; a failure ends the call.
SetMTUSets(m) ==
  /\ setter = "tested"
  /\ \/ /\ ~gone /\ closing = "open" /\ m \in Nat
        /\ devMTU' = m
        /\ setter' = IF devMTU # m THEN "send" ELSE "idle"
     \/ setter' = "idle" /\ UNCHANGED devMTU
  /\ UNCHANGED <<platform, gone, events, eventsOpen, reader, closing, faults, user>>

SetMTUSends ==
  /\ setter = "send"
  /\ SendEvent("mtu")
  /\ setter' = IF eventsOpen THEN "idle" ELSE setter
  /\ UNCHANGED <<platform, devMTU, gone, eventsOpen, reader, closing, user>>

WindowsClose ==
  /\ closing # "closed"
  /\ closing' = CASE closing = "open" -> "begun"
                  [] closing = "begun" -> "ended"
                  [] closing = "ended" -> "closed"
  /\ closing = "begun" => NoneRunning
  /\ eventsOpen' = (closing # "ended")
  /\ UNCHANGED <<platform, devMTU, gone, events, reader, faults, windowsVars>>
=============================================================================
