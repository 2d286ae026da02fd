------------------------------ MODULE Resolver ------------------------------
(***************************************************************************)
(* What GetMacFor (interface.go) promises its caller, the TUN packet       *)
(* reader: one question at a time, each answered at most once, for the     *)
(* address that was asked and with a MAC that somebody has asserted for    *)
(* that address by then, or given up.  An answer out of the table stays    *)
(* what it was.  One out of a reply is lent: the next packet the listener  *)
(* reads may turn it into any other MAC.  How: the table, the event        *)
(* channels, the locks, the retries and the expiry are the business of     *)
(* module Arp.                                                             *)
(***************************************************************************)
CONSTANTS Addr, Mac, NoAddr

VARIABLES
  asked,    \* the address being resolved, NoAddr if none
  claimed,  \* every <<addr, mac>> asserted so far
  answer,   \* the answer to the last question, <<>> before it and after a failure
  bytes     \* whether the answer's MAC stays ("own"), is lent, or is since reused

vars == <<asked, claimed, answer, bytes>>

Init == asked = NoAddr /\ claimed = {} /\ answer = <<>> /\ bytes = "own"

\* The memory that a lent answer is in gets other contents.
Reuse ==
  /\ bytes # "own"
  /\ bytes' = "reused"
  /\ \E m \in Mac : answer' = <<answer[1], m>>

\* A peer's ARP packet or an operator's static entry asserts a MAC; a packet
\* overwrites the packet before it.
Claim(a, m) ==
  /\ claimed' = claimed \cup {<<a, m>>}
  /\ Reuse \/ UNCHANGED <<answer, bytes>>
  /\ UNCHANGED asked

\* A packet that asserts nothing.
Overwrite == Reuse /\ UNCHANGED <<asked, claimed>>

Ask(a) ==
  /\ asked = NoAddr
  /\ asked' = a
  /\ answer' = <<>>
  /\ bytes' = "own"
  /\ UNCHANGED claimed

Answer(m) ==
  /\ asked # NoAddr
  /\ <<asked, m>> \in claimed
  /\ answer' = <<asked, m>>
  /\ bytes' \in {"own", "lent"}
  /\ asked' = NoAddr
  /\ UNCHANGED claimed

\* No destination for the request, or no reply to any of them.
Fail ==
  /\ asked # NoAddr
  /\ asked' = NoAddr
  /\ UNCHANGED <<claimed, answer, bytes>>

Next ==
  \/ \E a \in Addr, m \in Mac : Claim(a, m)
  \/ Overwrite
  \/ \E a \in Addr : Ask(a)
  \/ \E m \in Mac : Answer(m)
  \/ Fail

Spec == Init /\ [][Next]_vars
=============================================================================
