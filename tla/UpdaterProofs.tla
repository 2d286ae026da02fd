--------------------------- MODULE UpdaterProofs ----------------------------
(***************************************************************************)
(* Proofs about module Updater, for every number of processes, releases    *)
(* and events.                                                             *)
(*                                                                         *)
(* ProgramKept is made inductive by what the two files hold at each place  *)
(* of an update (Kept), which is only so as long as one updater works at a *)
(* time.  Ordered and Busy are needed beside it: no version is later than  *)
(* the latest release, and an update is made by a server that runs and,    *)
(* from the renames on, has no socket.  That an updater installs what it   *)
(* has found, and not what is the latest by then, needs TargetKept, which  *)
(* rests on OneServes.                                                     *)
(*                                                                         *)
(* HandedOver needs that one process serves or starts at a time, but for   *)
(* an updater and its child (OneServes), and where the socket and the      *)
(* address are at each place of the hand-over (SocketKept, ListenerGiven,  *)
(* ListenerTaken).                                                         *)
(***************************************************************************)
EXTENDS Updater, TLAPS

Places ==
  {"idle", "listeners", "hung", "grpc", "update", "moved", "updated", "wait", "done", "abort"}
Applies == [Proc -> {"none", "filter", "running", "done"}]

USE DEF world, Forget, Places, Applies

Sound == {"updated", "wait", "done"}  \* the new program is in its place
Hot == Sound \cup {"moved", "abort"}

Ordered ==
  /\ exe <= latest /\ old <= latest
  /\ \A p \in Proc : ver[p] <= latest
  /\ \A u \in Updaters : target[u] <= latest

Busy ==
  \A p \in Proc :
    /\ upd[p] # "idle" => main[p] \in {"serve", "quit"}
    /\ Renaming(p) => sock # p

\* Who waits has a child, and the command has nothing to close.
Closing == {"listeners", "hung", "grpc"}
Placed ==
  /\ \A p \in Proc : upd[p] = "wait" => child[p] \in Proc
  /\ upd[Cli] \notin Closing

\* Of two processes that run one is done with its update, or waits for the
\* other, which it has started and which is at no update.
Waits(p, q) == upd[p] = "wait" /\ child[p] = q /\ upd[q] = "idle"

OneServes ==
  \A p, q \in Proc : p # q /\ Alive(p) /\ Alive(q) =>
    upd[p] = "done" \/ upd[q] = "done" \/ Waits(p, q) \/ Waits(q, p)

\* An updater that has not yet put its release in place has found one that is
\* not older than what runs, nor the command one that is older than the file.
Early == {"listeners", "hung", "grpc", "update", "moved"}
TargetKept ==
  "two" \notin seen =>
    /\ upd[Cli] = "update" => exe # 0 /\ exe <= target[Cli]
    /\ \A u \in Updaters : upd[u] \in Early => \A p \in Proc : Alive(p) => ver[p] <= target[u]

\* Each part on its own, while "two" has not been seen.
SomeProgram == exe # 0 \/ old # 0
GoneInUpdate == exe = 0 => "left" \in seen \/ \E u \in Updaters : upd[u] \in {"moved", "abort"}
NotOlder == \A p \in Proc : Alive(p) /\ exe # 0 => exe >= ver[p] \/ "left" \in seen
OneMoves == \A u, v \in Updaters : upd[u] = "moved" /\ upd[v] = "moved" => u = v
MovedIsGone == \A u \in Updaters : upd[u] = "moved" => exe = 0
SoundIsThere == \A u \in Updaters : upd[u] \in Sound => exe # 0
OldExplained ==
  "left" \notin seen /\ old # 0 =>
    \E u \in Updaters : upd[u] \in Sound \/ (upd[u] \in {"moved", "abort"} /\ exe = 0)
OldNotOlder ==
  "left" \notin seen /\ old # 0 /\ exe = 0 => \A p \in Proc : Alive(p) => old >= ver[p]

Kept ==
  "two" \notin seen =>
    /\ SomeProgram /\ GoneInUpdate /\ NotOlder /\ OneMoves
    /\ MovedIsGone /\ SoundIsThere /\ OldExplained /\ OldNotOlder

IInv == TypeOK /\ Ordered /\ Busy /\ Placed /\ OneServes /\ TargetKept /\ Kept

-----------------------------------------------------------------------------
(* Types, and what is needed beside Kept.                                    *)

\* What the assumption gives.
LEMMA Sets ==
  /\ Cli \notin Proc /\ None \notin Proc /\ "stale" \notin Proc
  /\ None # Cli /\ None # "stale"
  /\ Version \subseteq Nat \ {0} /\ 1 \in Version /\ MaxVersion \in Version
  /\ \A v \in Version : v \in Nat /\ v # 0
  /\ Proc \subseteq Updaters /\ Cli \in Updaters
BY UpdaterAssumption DEF Version, Updaters

\* Every part holds at first.
LEMMA InitInv == Init => IInv
<1> SUFFICES ASSUME Init PROVE IInv
  OBVIOUS
<1>1. TypeOK
  <2>1. events \in 0..MaxEvents
    BY UpdaterAssumption DEF Init
  <2>2. broken \subseteq Version
    BY DEF Init
  <2>3. \A p \in Proc : upd[p] = "idle" /\ udp # p /\ sock # p
    BY Sets DEF Init
  <2> QED BY <2>1, <2>2, <2>3, Sets DEF Init, TypeOK
<1>2. Ordered /\ Busy /\ Placed
  BY Sets DEF Init, Ordered, Busy, Placed, Closing, Updaters, Renaming
<1>3. Kept
  <2>1. exe = 1 /\ old = 0 /\ \A u \in Updaters : upd[u] = "idle"
    BY DEF Init
  <2>2. \A p \in Proc : ~Alive(p)
    BY DEF Init, Alive
  <2> QED BY <2>1, <2>2 DEF Kept, SomeProgram, GoneInUpdate, NotOlder, OneMoves, MovedIsGone,
                 SoundIsThere, OldExplained, OldNotOlder, Sound
<1>4. OneServes /\ TargetKept
  BY Sets DEF Init, OneServes, TargetKept, Early, Alive
<1> QED BY <1>1, <1>2, <1>3, <1>4 DEF IInv

\* A process that ends takes what it has with it.
LEMMA EndType ==
  ASSUME TypeOK, NEW p \in Proc, End(p)
  PROVE  /\ udp' \in Proc \cup {None} /\ sock' \in Proc \cup {"stale", None}
         /\ main' \in [Proc -> {"boot", "remove", "bind", "serve", "quit", "exited"}]
         /\ ver' \in [Proc -> Version]
         /\ apply' \in Applies
         /\ upd' \in [Updaters -> Places]
         /\ child' \in [Updaters -> Proc \cup {None}]
         /\ target' \in [Updaters -> Version] /\ target'[p] = 1
         /\ \A u \in Updaters \ {p} : target'[u] = target[u]
         /\ main'[p] = "exited" /\ upd'[p] = "idle" /\ ver'[p] = 1
         /\ \A q \in Proc \ {p} : main'[q] = main[q] /\ ver'[q] = ver[q]
         /\ \A u \in Updaters \ {p} : upd'[u] = upd[u]
BY Sets DEF TypeOK, End, Silence

\* A process that ends, and seen and the files of their types, keep the types.
LEMMA EndKeepsType ==
  ASSUME TypeOK, NEW p \in Proc, End(p), UNCHANGED <<world, client>>,
         exe' \in {0} \cup Version, old' \in {0} \cup Version,
         events' \in 0..MaxEvents, seen' \subseteq Seen
  PROVE  TypeOK'
<1>1. \A q \in Proc : ~Alive(q)' => upd'[q] = "idle" /\ udp' # q /\ sock' # q
  <2> SUFFICES ASSUME NEW q \in Proc, ~Alive(q)' PROVE upd'[q] = "idle" /\ udp' # q /\ sock' # q
    OBVIOUS
  <2>1. CASE q = p
    BY <2>1, Sets, EndType DEF End
  <2>2. CASE q # p
    <3>1. ~Alive(q) /\ upd'[q] = upd[q]
      BY <2>2, Sets, EndType DEF Alive
    <3> QED BY <3>1, Sets DEF End, TypeOK
  <2> QED BY <2>1, <2>2
<1> QED BY <1>1, EndType DEF TypeOK

\* Unlinking the socket's file keeps its type and seen's.
LEMMA UnlinkType ==
  ASSUME TypeOK, NEW o, Unlink(o)
  PROVE  sock' = None /\ seen' \subseteq Seen /\ seen \subseteq seen' /\ seen' \subseteq seen \cup {"snatched"}
BY DEF TypeOK, Unlink, Seen

\* A count stays within the bound.
LEMMA CountType == ASSUME TypeOK, Count PROVE events' \in 0..MaxEvents
BY UpdaterAssumption DEF TypeOK, Count

\* Going on in an update keeps the types of who lives.
LEMMA GotoType ==
  ASSUME TypeOK, NEW u \in Updaters, NEW pc, Goto(u, pc),
         pc \in Places,
         u = Cli \/ Alive(u), UNCHANGED main
  PROVE  /\ upd' \in [Updaters -> Places]
         /\ \A p \in Proc : ~Alive(p)' => upd'[p] = "idle"
         /\ upd'[u] = pc /\ \A v \in Updaters \ {u} : upd'[v] = upd[v]
BY Sets DEF TypeOK, Goto, Alive

\* An updater that is at something is the command or a process that lives.
LEMMA AtWork ==
  ASSUME TypeOK, NEW u \in Updaters, upd[u] # "idle"
  PROVE  u = Cli \/ (u \in Proc /\ Alive(u))
<1>1. CASE u \in Proc
  BY <1>1 DEF TypeOK
<1> QED BY <1>1 DEF Updaters

\* Started processes have the types they should.
LEMMA StartType ==
  ASSUME TypeOK, NEW p \in Proc, exe # 0, Start(p)
  PROVE  /\ main' \in [Proc -> {"boot", "remove", "bind", "serve", "quit", "exited"}]
         /\ ver' \in [Proc -> Version]
         /\ apply' \in Applies
         /\ main'[p] = "boot" /\ ver'[p] = exe
         /\ \A q \in Proc \ {p} : main'[q] = main[q] /\ ver'[q] = ver[q]
         /\ \A q \in Proc : ~Alive(q)' => ~Alive(q)
BY DEF TypeOK, Start, Alive

\* No step breaks a type, or leaves something to a process that has ended.
LEMMA TypeStep == TypeOK /\ Busy /\ Placed /\ [Next]_vars => TypeOK'
<1> SUFFICES ASSUME TypeOK, Busy, Placed, [Next]_vars PROVE TypeOK'
  OBVIOUS
<1>1. ASSUME NEW p \in Proc, ServiceStart(p) PROVE TypeOK'
  BY <1>1, StartType DEF TypeOK, ServiceStart, files
<1>2. ASSUME NEW p \in Proc, ApplyFilters(p) PROVE TypeOK'
  BY <1>2 DEF TypeOK, ApplyFilters, files, Alive
<1>3. ASSUME NEW p \in Proc, RemoveSocket(p) PROVE TypeOK'
  BY <1>3, Sets, UnlinkType DEF TypeOK, RemoveSocket, files, Alive
<1>4. ASSUME NEW p \in Proc, Serve(p) PROVE TypeOK'
  BY <1>4 DEF TypeOK, Serve, files, Alive
<1>5. ASSUME NEW p \in Proc, FailToServe(p) PROVE TypeOK'
  BY <1>5, EndKeepsType DEF TypeOK, FailToServe, files
<1>6. ASSUME NEW p \in Proc, ApplyConfig(p) PROVE TypeOK'
  BY <1>6, Sets DEF TypeOK, ApplyConfig, files, Alive, Seen
<1>7. ASSUME NEW p \in Proc, Reload(p) PROVE TypeOK'
  BY <1>7, Sets, CountType DEF TypeOK, Reload, files, Alive
<1>30. ASSUME NEW p \in Proc, ReloadRemove(p) PROVE TypeOK'
  BY <1>30, Sets, UnlinkType DEF TypeOK, ReloadRemove, files, Alive
<1>8. ASSUME NEW p \in Proc, Quit(p) PROVE TypeOK'
  BY <1>8, Sets, CountType DEF TypeOK, Quit, files, Alive
<1>9. ASSUME NEW p \in Proc, Leave(p) PROVE seen' \subseteq Seen
  BY <1>9 DEF TypeOK, Leave, Seen
<1>10. ASSUME NEW p \in Proc, Exit(p) PROVE TypeOK'
  <2>1. seen' \subseteq Seen /\ sock' \in {sock, None} /\ (Renaming(p) \/ sock' = None)
    BY <1>9, <1>10, UnlinkType DEF Exit, TypeOK
  <2>2. /\ main' \in [Proc -> {"boot", "remove", "bind", "serve", "quit", "exited"}]
        /\ \A q \in Proc : ~Alive(q)' => q = p \/ ~Alive(q)
    BY <1>10 DEF TypeOK, Exit, Alive
  <2>3. \A q \in Proc : ~Alive(q)' => upd'[q] = "idle"
    BY <1>10, <2>2, Sets DEF TypeOK, Exit
  <2>4. \A q \in Proc : ~Alive(q)' => udp' # q
    BY <1>10, <2>2, Sets DEF TypeOK, Exit
  <2>5. \A q \in Proc : ~Alive(q)' => sock' # q
    BY <1>10, <2>1, <2>2, Sets DEF TypeOK, Exit, Busy
  <2>6. apply' \in Applies /\ target' \in [Updaters -> Version]
    BY <1>10, Sets DEF TypeOK, Exit, Silence
  <2> QED BY <1>10, <2>1, <2>2, <2>3, <2>4, <2>5, <2>6, Sets DEF TypeOK, Exit, files
<1>11. ASSUME NEW p \in Proc, Kill(p) PROVE TypeOK'
  BY <1>9, <1>11, EndKeepsType, CountType DEF TypeOK, Kill, files
<1>12. CASE ClientFilter
  BY <1>12, CountType DEF TypeOK, ClientFilter, files, procVars, Alive
<1>13. CASE ClientRemove
  BY <1>13, Sets, UnlinkType DEF TypeOK, ClientRemove, files, procVars, Alive
<1>14. CASE Release
  BY <1>14, UpdaterAssumption DEF TypeOK, Release, files, procVars, Alive, Version
<1>15. ASSUME NEW p \in Proc, CheckForUpdate(p) PROVE TypeOK'
  <2>1. Alive(p) /\ p \in Updaters
    BY <1>15, Sets DEF CheckForUpdate, Alive
  <2> QED BY <1>15, <2>1, GotoType DEF TypeOK, CheckForUpdate, files, procVars, Alive
<1>16. ASSUME NEW p \in Proc, PreUpdateListeners(p) PROVE TypeOK'
  <2>1. p \in Updaters /\ Alive(p)
    BY <1>16, Sets DEF PreUpdateListeners, TypeOK
  <2> QED BY <1>16, <2>1, Sets, GotoType DEF TypeOK, PreUpdateListeners, files, procVars, Alive
<1>31. ASSUME NEW p \in Proc, Hang(p) PROVE TypeOK'
  <2>1. p \in Updaters /\ Alive(p)
    BY <1>31, Sets DEF Hang, TypeOK
  <2>2. upd' \in [Updaters -> Places] /\ \A q \in Proc : ~Alive(q)' => upd'[q] = "idle"
    BY <1>31, <2>1, GotoType DEF Hang, procVars
  <2> QED BY <1>31, <2>2, Sets DEF TypeOK, Hang, files, procVars, Alive
<1>17. ASSUME NEW p \in Proc, PreUpdateGRPC(p) PROVE TypeOK'
  <2>1. p \in Updaters /\ Alive(p)
    BY <1>17, Sets DEF PreUpdateGRPC, TypeOK
  <2> QED BY <1>17, <2>1, Sets, GotoType, UnlinkType DEF TypeOK, PreUpdateGRPC, files, procVars, Alive
<1>18. CASE CliUpdate
  BY <1>18, Sets, GotoType, CountType DEF TypeOK, CliUpdate, files, procVars, Alive
<1>19. ASSUME NEW u \in Updaters, Meet(u) PROVE seen' \subseteq Seen
  BY <1>19 DEF TypeOK, Meet, Seen
<1>20. ASSUME NEW u \in Updaters, MoveOld(u) PROVE TypeOK'
  <2>1. u = Cli \/ Alive(u)
    BY <1>20, AtWork DEF MoveOld
  <2> QED BY <1>19, <1>20, <2>1, GotoType DEF TypeOK, MoveOld, procVars, Alive
<1>21. ASSUME NEW u \in Updaters, MoveNew(u) PROVE TypeOK'
  <2>1. u = Cli \/ Alive(u)
    BY <1>21, AtWork DEF MoveNew
  <2>2. target' \in [Updaters -> Version] /\ target[u] \in Version
    BY <1>21, Sets DEF TypeOK, MoveNew
  <2> QED BY <1>21, <2>1, <2>2, GotoType DEF TypeOK, MoveNew, procVars, Alive
<1>22. ASSUME RollBack \/ UNCHANGED files
       PROVE  exe' \in {0} \cup Version /\ old' \in {0} \cup Version
  BY <1>22 DEF TypeOK, RollBack, files
<1>23. ASSUME NEW u \in Updaters, UpdateToFails(u) PROVE TypeOK'
  <2>1. u = Cli \/ Alive(u)
    BY <1>23, AtWork DEF UpdateToFails
  <2>2. target' \in [Updaters -> Version] /\ target[u] \in Version
    BY <1>23, Sets DEF TypeOK, UpdateToFails
  <2> QED BY <1>22, <1>23, <2>1, <2>2, GotoType DEF TypeOK, UpdateToFails, procVars, Alive
<1>24. ASSUME NEW u \in Updaters, Abort(u) PROVE TypeOK'
  <2>1. CASE u = Cli
    BY <1>19, <1>22, <1>24, <2>1, GotoType DEF TypeOK, Abort, procVars, Alive
  <2>2. CASE u \in Proc /\ u # Cli
    <3>1. End(u)
      BY <1>24, <2>2 DEF Abort
    <3> QED BY <1>19, <1>22, <1>24, <2>2, <3>1, EndKeepsType DEF Abort, TypeOK
  <2> QED BY <2>1, <2>2 DEF Updaters
<1>25. CASE CliDone
  BY <1>25, Sets, GotoType DEF TypeOK, CliDone, procVars, Alive
<1>26. ASSUME NEW p \in Proc, Relaunch(p) PROVE TypeOK'
  <2>1. p \in Updaters /\ Alive(p)
    BY <1>26, Sets DEF Relaunch, TypeOK
  <2>2. PICK c \in Proc : ~Alive(c) /\ Start(c) /\ child' = [child EXCEPT ![p] = c]
    BY <1>26 DEF Relaunch
  <2>3. exe # 0
    BY <1>26 DEF Relaunch
  <2>4. \A q \in Proc : ~Alive(q)' => upd'[q] = "idle" /\ udp' # q /\ sock' # q
    BY <1>26, <2>1, <2>2, <2>3, StartType DEF Relaunch, Goto, TypeOK
  <2>5. upd' \in [Updaters -> Places]
    BY <1>26 DEF Relaunch, Goto, TypeOK
  <2>6. child' \in [Updaters -> Proc \cup {None}]
    BY <2>2 DEF TypeOK
  <2> QED BY <1>26, <2>2, <2>3, <2>4, <2>5, <2>6, StartType DEF TypeOK, Relaunch, files
<1>27. ASSUME NEW p \in Proc, ChildStarted(p) \/ ChildFailed(p) PROVE TypeOK'
  <2>1. p \in Updaters /\ Alive(p)
    BY <1>27, Sets DEF ChildStarted, ChildFailed, TypeOK
  <2> QED BY <1>27, <2>1, GotoType DEF TypeOK, ChildStarted, ChildFailed, files, procVars, Alive
<1>32. ASSUME NEW p \in Proc, upd[p] = "wait" PROVE child[p] \in Proc
  BY <1>32 DEF Placed
<1>33. ASSUME NEW p \in Proc, ChildTimeout(p) PROVE TypeOK'
  BY <1>9, <1>32, <1>33, EndKeepsType DEF TypeOK, ChildTimeout, files
<1>28. ASSUME NEW p \in Proc, HandOver(p) PROVE TypeOK'
  BY <1>28, EndKeepsType DEF HandOver, TypeOK
<1>29. CASE UNCHANGED vars
  BY <1>29 DEF TypeOK, vars, files, procVars, Alive
<1> QED BY Sets, <1>1, <1>2, <1>3, <1>4, <1>5, <1>6, <1>7, <1>8, <1>10, <1>11, <1>12, <1>13, <1>14,
           <1>15, <1>16, <1>17, <1>18, <1>20, <1>21, <1>23, <1>24, <1>25, <1>26, <1>27, <1>28, <1>29,
           <1>30, <1>31, <1>33
        DEF Next, Boot, UpdateStep

\* Who begins to wait has just started a child.
LEMMA PlacedStep == TypeOK /\ Placed /\ [Next]_vars => Placed'
<1> SUFFICES ASSUME TypeOK, Placed, [Next]_vars PROVE Placed'
  OBVIOUS
<1>1. ASSUME \A p \in Proc : upd'[p] = "wait" => upd[p] = "wait" /\ child'[p] = child[p],
             upd'[Cli] = upd[Cli] \/ upd'[Cli] \notin Closing
      PROVE  Placed'
  BY <1>1 DEF Placed
<1>2. ASSUME UNCHANGED <<upd, child>> PROVE Placed'
  BY <1>1, <1>2
<1>3. ASSUME NEW p \in Proc, End(p) \/ Exit(p) PROVE Placed'
  <2>1. upd' = [upd EXCEPT ![p] = "idle"] /\ child' = [child EXCEPT ![p] = None]
    BY <1>3 DEF End, Exit
  <2> QED BY <1>1, <2>1, Sets DEF TypeOK
<1>4. ASSUME NEW u \in Updaters, NEW pc \in Places \ {"wait"}, Goto(u, pc), UNCHANGED child,
             u \in Proc \/ pc \notin Closing
      PROVE  Placed'
  <2>1. \A p \in Updaters : upd'[p] = IF p = u THEN pc ELSE upd[p]
    BY <1>4, Sets DEF Goto, TypeOK
  <2> QED BY <1>1, <1>4, <2>1, Sets
<1>5. ASSUME NEW p \in Proc,
             \/ ServiceStart(p) \/ ApplyFilters(p) \/ RemoveSocket(p) \/ Serve(p) \/ ApplyConfig(p)
             \/ Reload(p) \/ ReloadRemove(p) \/ Quit(p)
      PROVE  Placed'
  BY <1>2, <1>5 DEF ServiceStart, ApplyFilters, RemoveSocket, Serve, ApplyConfig, Reload, ReloadRemove, Quit
<1>6. ASSUME NEW p \in Proc, FailToServe(p) \/ Kill(p) \/ HandOver(p) PROVE Placed'
  BY <1>3, <1>6 DEF FailToServe, Kill, HandOver
<1>7. ASSUME NEW p \in Proc, ChildTimeout(p) PROVE Placed'
  BY <1>3, <1>7 DEF ChildTimeout, Placed
<1>8. CASE ClientFilter \/ ClientRemove \/ Release \/ UNCHANGED vars
  BY <1>2, <1>8 DEF ClientFilter, ClientRemove, Release, vars
<1>9. ASSUME NEW p \in Proc,
             \/ CheckForUpdate(p) \/ Hang(p) \/ PreUpdateListeners(p) \/ PreUpdateGRPC(p)
             \/ ChildStarted(p) \/ ChildFailed(p)
      PROVE  Placed'
  <2>1. UNCHANGED child /\ \E pc \in Places \ {"wait"} : Goto(p, pc)
    BY <1>9 DEF CheckForUpdate, Hang, PreUpdateListeners, PreUpdateGRPC, ChildStarted, ChildFailed
  <2> QED BY <1>4, <2>1, Sets
<1>10. CASE CliUpdate \/ CliDone
  <2>1. UNCHANGED child /\ \E pc \in Places \ {"wait"} : pc \notin Closing /\ Goto(Cli, pc)
    BY <1>10 DEF CliUpdate, CliDone, Closing
  <2> QED BY <1>4, <2>1, Sets
<1>11. ASSUME NEW u \in Updaters, MoveOld(u) \/ MoveNew(u) \/ UpdateToFails(u) PROVE Placed'
  <2>1. UNCHANGED child /\ \E pc \in Places \ {"wait"} : pc \notin Closing /\ Goto(u, pc)
    BY <1>11 DEF MoveOld, MoveNew, UpdateToFails, Closing
  <2> QED BY <1>4, <2>1
<1>12. ASSUME NEW u \in Updaters, Abort(u) PROVE Placed'
  <2>1. CASE u = Cli
    BY <1>4, <1>12, <2>1 DEF Abort, Closing
  <2>2. CASE u # Cli
    BY <1>3, <1>12, <2>2 DEF Abort, Updaters
  <2> QED BY <2>1, <2>2
<1>13. ASSUME NEW p \in Proc, Relaunch(p) PROVE Placed'
  <2>1. \A q \in Proc \ {p} : upd'[q] = upd[q] /\ child'[q] = child[q]
    BY <1>13, Sets DEF Relaunch, Goto, TypeOK
  <2>2. child'[p] \in Proc
    BY <1>13, Sets DEF Relaunch, TypeOK
  <2>3. upd'[Cli] = upd[Cli]
    BY <1>13, Sets DEF Relaunch, Goto, TypeOK
  <2> QED BY <2>1, <2>2, <2>3 DEF Placed
<1> QED BY Sets, <1>3, <1>5, <1>6, <1>7, <1>8, <1>9, <1>10, <1>11, <1>12, <1>13
        DEF Next, Boot, UpdateStep

\* A step of an updater u that has begun, to another place of the update.
LEMMA BusyGoto ==
  ASSUME TypeOK, Busy, NEW u \in Updaters, NEW pc, Goto(u, pc), upd[u] # "idle",
         Renaming(u) \/ sock' # u, sock' \in {sock, None}, UNCHANGED main
  PROVE  Busy'
<1>1. \A v \in Updaters : upd'[v] = IF v = u THEN pc ELSE upd[v]
  BY DEF TypeOK, Goto
<1> QED BY <1>1, Sets DEF Busy, Renaming

\* A process that ends is at no update.
LEMMA BusyEnd ==
  ASSUME TypeOK, Busy, NEW p \in Proc, End(p)
  PROVE  Busy'
<1>1. /\ upd'[p] = "idle" /\ \A q \in Proc \ {p} : upd'[q] = upd[q] /\ main'[q] = main[q]
  BY EndType, Sets
<1>2. sock' \in {sock, "stale"}
  BY DEF End
<1> QED BY <1>1, <1>2, Sets DEF Busy, Renaming

\* Who is not at an update may do as he likes with main, and who has the socket
\* is not past PreUpdate.
LEMMA BusyElse ==
  ASSUME TypeOK, Busy, UNCHANGED upd,
         \A p \in Proc : main'[p] = main[p] \/ main'[p] \in {"serve", "quit"} \/ upd[p] = "idle",
         sock' \in {sock, None, "stale"} \/ (sock' \in Proc /\ upd[sock'] = "idle")
  PROVE  Busy'
BY Sets DEF Busy, Renaming

\* No step puts a process at an update that it cannot be at.
LEMMA BusyStep == TypeOK /\ Busy /\ Placed /\ [Next]_vars => Busy'
<1> SUFFICES ASSUME TypeOK, Busy, Placed, [Next]_vars PROVE Busy'
  OBVIOUS
<1>1. ASSUME NEW p \in Proc, ServiceStart(p) \/ ApplyFilters(p) PROVE Busy'
  <2>1. /\ upd[p] = "idle" /\ \A q \in Proc \ {p} : main'[q] = main[q]
        /\ UNCHANGED <<upd, sock>>
    BY <1>1, StartType DEF ServiceStart, ApplyFilters, TypeOK, Busy
  <2> QED BY <2>1, BusyElse
<1>2. ASSUME NEW p \in Proc, RemoveSocket(p) \/ Serve(p) PROVE Busy'
  <2>1. /\ upd[p] = "idle" /\ \A q \in Proc \ {p} : main'[q] = main[q]
        /\ UNCHANGED upd /\ sock' \in {None, p}
    BY <1>2, UnlinkType DEF RemoveSocket, Serve, TypeOK, Busy
  <2> QED BY <2>1, BusyElse
<1>3. ASSUME NEW p \in Proc, FailToServe(p) \/ Kill(p) \/ HandOver(p) PROVE Busy'
  BY <1>3, BusyEnd DEF FailToServe, Kill, HandOver
<1>16. ASSUME NEW p \in Proc, ChildTimeout(p) PROVE Busy'
  BY <1>16, BusyEnd DEF ChildTimeout, Placed
<1>17. ASSUME NEW p \in Proc, ReloadRemove(p) PROVE Busy'
  <2>1. UNCHANGED <<upd, main>> /\ sock' = None
    BY <1>17, UnlinkType DEF ReloadRemove
  <2> QED BY <2>1, BusyElse
<1>4. ASSUME NEW p \in Proc, ApplyConfig(p) \/ Reload(p) \/ Quit(p) PROVE Busy'
  <2>1. /\ \A q \in Proc : main'[q] = main[q] \/ main'[q] \in {"serve", "quit"}
        /\ UNCHANGED upd /\ sock' \in {sock, None}
    BY <1>4 DEF ApplyConfig, Reload, Quit, TypeOK
  <2> QED BY <2>1, BusyElse
<1>5. ASSUME NEW p \in Proc, Exit(p) PROVE Busy'
  <2>1. /\ upd'[p] = "idle" /\ \A q \in Proc \ {p} : upd'[q] = upd[q] /\ main'[q] = main[q]
        /\ sock' \in {sock, None}
    BY <1>5, Sets, UnlinkType DEF Exit, TypeOK
  <2> QED BY <2>1, Sets DEF Busy, Renaming
<1>6. CASE ClientFilter \/ ClientRemove \/ Release \/ UNCHANGED vars
  <2>1. UNCHANGED <<upd, main>> /\ sock' \in {sock, None}
    BY <1>6, UnlinkType DEF ClientFilter, ClientRemove, Release, vars, procVars
  <2> QED BY <2>1, BusyElse
<1>7. ASSUME NEW p \in Proc, CheckForUpdate(p) PROVE Busy'
  <2>1. /\ main[p] \in {"serve", "quit"} /\ UNCHANGED <<main, sock>> /\ upd'[p] = "listeners"
        /\ \A q \in Proc \ {p} : upd'[q] = upd[q]
    BY <1>7, Sets DEF CheckForUpdate, Goto, TypeOK, procVars
  <2> QED BY <2>1, Sets DEF Busy, Renaming
<1>8. ASSUME NEW p \in Proc, PreUpdateListeners(p) \/ Hang(p) PROVE Busy'
  <2>1. /\ UNCHANGED <<main, sock>> /\ upd'[p] \in {"grpc", "hung"} /\ upd[p] # "idle"
        /\ \A q \in Proc \ {p} : upd'[q] = upd[q]
    BY <1>8, Sets DEF PreUpdateListeners, Hang, Goto, TypeOK, procVars
  <2> QED BY <2>1, Sets DEF Busy, Renaming
<1>9. ASSUME NEW p \in Proc, PreUpdateGRPC(p) PROVE Busy'
  BY <1>9, Sets, UnlinkType, BusyGoto DEF PreUpdateGRPC, procVars
<1>10. CASE CliUpdate
  <2>1. UNCHANGED <<main, sock>> /\ \A q \in Proc : upd'[q] = upd[q]
    BY <1>10, Sets DEF CliUpdate, Goto, TypeOK, procVars
  <2> QED BY <2>1 DEF Busy, Renaming
<1>11. ASSUME NEW u \in Updaters, MoveOld(u) \/ MoveNew(u) \/ UpdateToFails(u) PROVE Busy'
  <2>1. Renaming(u) /\ UNCHANGED <<main, sock>> /\ upd[u] # "idle"
    BY <1>11 DEF MoveOld, MoveNew, UpdateToFails, Renaming, procVars
  <2> QED BY <1>11, <2>1, BusyGoto DEF MoveOld, MoveNew, UpdateToFails
<1>12. ASSUME NEW u \in Updaters, Abort(u) PROVE Busy'
  <2>1. CASE u = Cli
    <3>1. Renaming(u) /\ UNCHANGED <<main, sock>> /\ upd[u] # "idle"
      BY <1>12, <2>1 DEF Abort, Renaming, procVars
    <3> QED BY <1>12, <2>1, <3>1, BusyGoto DEF Abort
  <2>2. CASE u # Cli
    BY <1>12, <2>2, BusyEnd DEF Abort, Updaters
  <2> QED BY <2>1, <2>2
<1>13. CASE CliDone
  <2>1. UNCHANGED <<main, sock>> /\ \A q \in Proc : upd'[q] = upd[q]
    BY <1>13, Sets DEF CliDone, Goto, TypeOK, procVars
  <2> QED BY <2>1 DEF Busy, Renaming
<1>14. ASSUME NEW p \in Proc, Relaunch(p) PROVE Busy'
  <2>1. PICK c \in Proc : ~Alive(c) /\ Start(c)
    BY <1>14 DEF Relaunch
  <2>2. /\ upd[c] = "idle" /\ \A q \in Proc \ {c} : main'[q] = main[q]
        /\ UNCHANGED sock /\ c # p
    BY <1>14, <2>1 DEF Start, TypeOK, Relaunch
  <2>3. Renaming(p) /\ \A q \in Proc : upd'[q] = IF q = p THEN "wait" ELSE upd[q]
    BY <1>14, Sets DEF Relaunch, Goto, TypeOK, Renaming
  <2> QED BY <2>2, <2>3 DEF Busy, Renaming
<1>15. ASSUME NEW p \in Proc, ChildStarted(p) \/ ChildFailed(p) PROVE Busy'
  <2>1. Renaming(p) /\ UNCHANGED <<main, sock>> /\ upd[p] # "idle" /\ p \in Updaters
    BY <1>15, Sets DEF ChildStarted, ChildFailed, Renaming, procVars
  <2> QED BY <1>15, <2>1, BusyGoto DEF ChildStarted, ChildFailed
<1> QED BY Sets, <1>1, <1>2, <1>3, <1>4, <1>5, <1>6, <1>7, <1>8, <1>9, <1>10, <1>11, <1>12, <1>13,
           <1>14, <1>15, <1>16, <1>17 DEF Next, Boot, UpdateStep

\* Every variable keeps its type, and a process that has ended has no goroutine
\* at an update, no listener's address and no socket.
THEOREM TypeCorrect == Spec => []TypeOK
<1>1. Init => TypeOK /\ Busy /\ Placed
  BY InitInv DEF IInv
<1> QED BY <1>1, TypeStep, BusyStep, PlacedStep, PTL DEF Spec

-----------------------------------------------------------------------------
(* No program is later than the latest release.                              *)

\* What the steps do to versions.
LEMMA OrderedStep == TypeOK /\ Ordered /\ Placed /\ [Next]_vars => Ordered'
<1> SUFFICES ASSUME TypeOK, Ordered, Placed, [Next]_vars PROVE Ordered'
  OBVIOUS
<1>1. /\ exe \in Nat /\ old \in Nat /\ latest \in Nat /\ 1 <= latest
      /\ \A p \in Proc : ver[p] \in Nat /\ ver[p] <= latest
      /\ \A u \in Updaters : target[u] \in Nat /\ target[u] <= latest
      /\ exe <= latest /\ old <= latest
  BY Sets DEF TypeOK, Ordered, Version
<1>2. ASSUME latest' = latest, exe' \in {0, exe, old} \/ \E u \in Updaters : exe' = target[u],
             old' \in {0, exe, old},
             \A p \in Proc : ver'[p] \in {1, ver[p], exe},
             \A u \in Updaters : target'[u] \in {1, target[u], latest}
      PROVE  Ordered'
  BY <1>1, <1>2 DEF Ordered
<1>3. ASSUME NEW p \in Proc, End(p)
      PROVE  /\ \A q \in Proc : ver'[q] \in {1, ver[q], exe}
             /\ \A u \in Updaters : target'[u] \in {1, target[u], latest}
  BY <1>3, EndType
<1>4. ASSUME NEW p \in Proc, Start(p) PROVE \A q \in Proc : ver'[q] \in {1, ver[q], exe}
  BY <1>4 DEF Start, TypeOK
<1>5. RollBack => exe' \in {0, exe, old} /\ old' \in {0, exe, old}
  BY DEF RollBack
<1>6. ASSUME NEW p \in Proc, ServiceStart(p) \/ Relaunch(p) PROVE Ordered'
  BY <1>2, <1>4, <1>6 DEF ServiceStart, Relaunch, files
<1>7. ASSUME NEW p \in Proc, FailToServe(p) \/ Kill(p) \/ HandOver(p) PROVE Ordered'
  BY <1>2, <1>3, <1>7 DEF FailToServe, Kill, HandOver, files
<1>14. ASSUME NEW p \in Proc, ChildTimeout(p) PROVE Ordered'
  BY <1>2, <1>3, <1>14 DEF ChildTimeout, Placed, files
<1>8. ASSUME NEW p \in Proc, Exit(p) PROVE Ordered'
  <2>1. /\ \A q \in Proc : ver'[q] \in {1, ver[q], exe}
        /\ \A u \in Updaters : target'[u] \in {1, target[u], latest}
    BY <1>8 DEF Exit, TypeOK
  <2> QED BY <1>2, <1>8, <2>1 DEF Exit, files
<1>9. CASE Release
  <2>1. latest' = latest + 1 /\ UNCHANGED <<exe, old, ver, target>>
    BY <1>9 DEF Release, files, procVars
  <2> QED BY <1>1, <2>1 DEF Ordered
<1>10. ASSUME NEW u \in Updaters, Abort(u) PROVE Ordered'
  <2>1. /\ \A q \in Proc : ver'[q] \in {1, ver[q], exe}
        /\ \A v \in Updaters : target'[v] \in {1, target[v], latest}
    BY <1>3, <1>10 DEF Abort, procVars, Updaters
  <2> QED BY <1>2, <1>5, <1>10, <2>1 DEF Abort
<1>15. ASSUME NEW u \in Updaters, NEW v \in {1, latest}, target' = [target EXCEPT ![u] = v]
       PROVE  \A w \in Updaters : target'[w] \in {1, target[w], latest}
  BY <1>15 DEF TypeOK
<1>11. ASSUME NEW u \in Updaters, MoveOld(u) \/ MoveNew(u) \/ UpdateToFails(u) PROVE Ordered'
  <2>1. /\ exe' \in {0, exe, old} \/ \E v \in Updaters : exe' = target[v]
        /\ old' \in {0, exe, old} /\ UNCHANGED <<latest, ver>>
    BY <1>5, <1>11 DEF MoveOld, MoveNew, UpdateToFails, files, procVars
  <2>2. \A w \in Updaters : target'[w] \in {1, target[w], latest}
    BY <1>11, <1>15 DEF MoveOld, MoveNew, UpdateToFails
  <2> QED BY <1>2, <2>1, <2>2
<1>12. ASSUME NEW p \in Proc,
              \/ ApplyFilters(p) \/ RemoveSocket(p) \/ Serve(p) \/ ApplyConfig(p) \/ Reload(p)
              \/ ReloadRemove(p) \/ Quit(p) \/ Hang(p) \/ PreUpdateListeners(p) \/ PreUpdateGRPC(p)
              \/ ChildStarted(p) \/ ChildFailed(p)
       PROVE  Ordered'
  BY <1>2, <1>12 DEF ApplyFilters, RemoveSocket, Serve, ApplyConfig, Reload, ReloadRemove, Quit, Hang,
       PreUpdateListeners, PreUpdateGRPC, ChildStarted, ChildFailed, files, procVars
<1>13. CASE ClientFilter \/ ClientRemove \/ CliDone \/ UNCHANGED vars
  BY <1>2, <1>13 DEF ClientFilter, ClientRemove, CliDone, vars, files, procVars
<1>16. ASSUME NEW u \in Updaters, (u \in Proc /\ CheckForUpdate(u)) \/ (u = Cli /\ CliUpdate)
       PROVE  Ordered'
  <2>1. /\ target' = [target EXCEPT ![u] = latest]
        /\ UNCHANGED <<exe, old, latest, ver>>
    BY <1>16 DEF CheckForUpdate, CliUpdate, files, procVars
  <2> QED BY <1>2, <1>15, <2>1
<1> QED BY Sets, <1>6, <1>7, <1>8, <1>9, <1>10, <1>11, <1>12, <1>13, <1>14, <1>16
        DEF Next, Boot, UpdateStep

-----------------------------------------------------------------------------
(* One server at a time, but for an updater and its child.                   *)

\* Processes that end, and what they were doing besides, leave the rest.
LEMMA FewerServe ==
  ASSUME OneServes,
         \A p \in Proc : Alive(p)' => Alive(p) /\ upd'[p] = upd[p] /\ child'[p] = child[p]
  PROVE  OneServes'
BY DEF OneServes, Waits

\* While one is in the middle of an update all others are done with theirs.
LEMMA OthersDone ==
  ASSUME TypeOK, OneServes, NEW p \in Proc, upd[p] \notin {"idle", "wait", "done"},
         NEW q \in Proc, q # p, Alive(q)
  PROVE  upd[q] = "done"
BY DEF TypeOK, OneServes, Waits

LEMMA MiddleGoto ==
  ASSUME TypeOK, OneServes, NEW p \in Proc, upd[p] \notin {"idle", "wait", "done"},
         NEW pc, Goto(p, pc), UNCHANGED main
  PROVE  OneServes'
<1>1. \A q \in Proc : q # p /\ Alive(q)' => upd'[q] = "done"
  BY OthersDone, Sets DEF Goto, TypeOK, Alive
<1> QED BY <1>1 DEF OneServes

LEMMA OneServesStep == TypeOK /\ Busy /\ Placed /\ OneServes /\ [Next]_vars => OneServes'
<1> SUFFICES ASSUME TypeOK, Busy, Placed, OneServes, [Next]_vars PROVE OneServes'
  OBVIOUS
<1>1. ASSUME NEW p \in Proc, ServiceStart(p) PROVE OneServes'
  BY <1>1 DEF ServiceStart, Start, OneServes, Alive, TypeOK
<1>2. ASSUME UNCHANGED <<upd, child>>, \A p \in Proc : Alive(p)' => Alive(p) PROVE OneServes'
  BY <1>2, FewerServe
<1>3. ASSUME NEW p \in Proc, ApplyFilters(p) \/ RemoveSocket(p) \/ Serve(p) \/ ApplyConfig(p)
                             \/ Reload(p) \/ ReloadRemove(p) \/ Quit(p)
      PROVE  OneServes'
  <2>1. UNCHANGED <<upd, child>> /\ \A q \in Proc : Alive(q)' => Alive(q)
    BY <1>3 DEF ApplyFilters, RemoveSocket, Serve, ApplyConfig, Reload, ReloadRemove, Quit,
         Alive, TypeOK
  <2> QED BY <1>2, <2>1
<1>4. ASSUME NEW p \in Proc, End(p) \/ Exit(p) PROVE OneServes'
  <2>1. /\ main' = [main EXCEPT ![p] = "exited"] /\ upd' = [upd EXCEPT ![p] = "idle"]
        /\ child' = [child EXCEPT ![p] = None]
    BY <1>4 DEF End, Exit
  <2>2. \A q \in Proc : Alive(q)' => Alive(q) /\ q # p
    BY <2>1 DEF Alive, TypeOK
  <2>3. \A q \in Proc : Alive(q)' => upd'[q] = upd[q] /\ child'[q] = child[q]
    BY <2>1, <2>2, Sets DEF TypeOK
  <2> QED BY <2>2, <2>3, FewerServe
<1>5. ASSUME NEW p \in Proc, FailToServe(p) \/ Kill(p) \/ HandOver(p) PROVE OneServes'
  BY <1>4, <1>5 DEF FailToServe, Kill, HandOver
<1>15. ASSUME NEW p \in Proc, ChildTimeout(p) PROVE OneServes'
  BY <1>4, <1>15 DEF ChildTimeout, Placed
<1>6. CASE ClientFilter \/ ClientRemove \/ Release \/ UNCHANGED vars
  BY <1>2, <1>6 DEF ClientFilter, ClientRemove, Release, vars, procVars, Alive
<1>7. ASSUME NEW p \in Proc, CheckForUpdate(p) PROVE OneServes'
  <2>1. /\ upd[p] = "idle" /\ upd'[p] = "listeners" /\ UNCHANGED <<main, child>>
        /\ \A q \in Proc \ {p} : upd'[q] = upd[q]
        /\ \A q \in Proc : upd[q] = "wait" => child[q] # p
    BY <1>7, Sets DEF CheckForUpdate, Goto, TypeOK, procVars
  <2> QED BY <2>1 DEF OneServes, Waits, Alive
<1>8. ASSUME NEW p \in Proc, Hang(p) \/ PreUpdateListeners(p) \/ PreUpdateGRPC(p)
      PROVE  OneServes'
  BY <1>8, Sets, MiddleGoto DEF Hang, PreUpdateListeners, PreUpdateGRPC, procVars
<1>9. ASSUME NEW u \in Updaters, MoveOld(u) \/ MoveNew(u) \/ UpdateToFails(u) PROVE OneServes'
  <2>1. CASE u \in Proc
    BY <1>9, <2>1, MiddleGoto DEF MoveOld, MoveNew, UpdateToFails, procVars
  <2>2. CASE u = Cli
    <3>1. \A q \in Proc : Alive(q)' => Alive(q) /\ upd'[q] = upd[q] /\ child'[q] = child[q]
      BY <1>9, <2>2, Sets DEF MoveOld, MoveNew, UpdateToFails, Goto, TypeOK, procVars, Alive
    <3> QED BY <3>1, FewerServe
  <2> QED BY <2>1, <2>2 DEF Updaters
<1>10. CASE CliUpdate \/ CliDone \/ Abort(Cli)
  <2>1. \A q \in Proc : Alive(q)' => Alive(q) /\ upd'[q] = upd[q] /\ child'[q] = child[q]
    BY <1>10, Sets DEF CliUpdate, CliDone, Abort, Goto, TypeOK, procVars, Alive
  <2> QED BY <2>1, FewerServe
<1>11. ASSUME NEW p \in Proc, Abort(p) PROVE OneServes'
  BY <1>4, <1>11, Sets DEF Abort
<1>12. ASSUME NEW p \in Proc, Relaunch(p) PROVE OneServes'
  <2>1. PICK c \in Proc : ~Alive(c) /\ Start(c) /\ child' = [child EXCEPT ![p] = c]
    BY <1>12 DEF Relaunch
  <2>2. upd[p] = "updated" /\ Alive(p) /\ p # c /\ upd[c] = "idle"
    BY <1>12, <2>1 DEF Relaunch, TypeOK
  <2>3. /\ upd'[p] = "wait" /\ child'[p] = c /\ upd'[c] = "idle"
        /\ \A q \in Proc \ {p} : upd'[q] = upd[q]
    BY <1>12, <2>1, <2>2, Sets DEF Relaunch, Goto, TypeOK
  <2>4. \A q \in Proc \ {p, c} : Alive(q)' => upd'[q] = "done"
    BY <2>1, <2>2, <2>3, OthersDone DEF Start, Alive, TypeOK
  <2> QED BY <2>3, <2>4 DEF OneServes, Waits
<1>13. ASSUME NEW p \in Proc, ChildStarted(p) PROVE OneServes'
  <2>1. /\ upd'[p] = "done" /\ UNCHANGED <<main, child>> /\ upd[p] = "wait"
        /\ \A q \in Proc \ {p} : upd'[q] = upd[q]
    BY <1>13, Sets DEF ChildStarted, Goto, TypeOK, procVars
  <2> QED BY <2>1 DEF OneServes, Waits, Alive
<1>14. ASSUME NEW p \in Proc, ChildFailed(p) PROVE OneServes'
  <2>1. /\ upd[p] = "wait" /\ ~Alive(child[p]) /\ UNCHANGED <<main, child>>
        /\ \A q \in Proc \ {p} : upd'[q] = upd[q]
    BY <1>14, Sets DEF ChildFailed, Goto, TypeOK, procVars, Alive
  <2>2. \A q \in Proc \ {p} : Alive(q)' => upd'[q] = "done"
    BY <2>1 DEF OneServes, Waits, Alive, TypeOK
  <2> QED BY <2>2 DEF OneServes
<1> QED BY Sets, <1>1, <1>3, <1>4, <1>5, <1>6, <1>7, <1>8, <1>9, <1>10, <1>11, <1>12, <1>13, <1>14, <1>15
        DEF Next, Boot, UpdateStep

-----------------------------------------------------------------------------
(* The files at each place of an update.                                     *)

\* A step that leaves the files, that brings no updater into the hot places or
\* out of them, and that starts processes from the file only.
LEMMA Calm ==
  ASSUME IInv, UNCHANGED <<exe, old>>, seen \subseteq seen',
         \A u \in Updaters : \/ upd'[u] = upd[u]
                             \/ upd[u] \notin Hot /\ upd'[u] \notin Hot
                             \/ upd[u] \in Sound /\ upd'[u] \in Sound,
         \A p \in Proc : Alive(p)' => \/ Alive(p) /\ ver'[p] = ver[p]
                                      \/ exe # 0 /\ ver'[p] = exe
  PROVE  Kept'
<1> SUFFICES ASSUME "two" \notin seen' PROVE
      /\ SomeProgram' /\ GoneInUpdate' /\ NotOlder' /\ OneMoves'
      /\ MovedIsGone' /\ SoundIsThere' /\ OldExplained' /\ OldNotOlder'
  BY DEF Kept
<1>1. /\ SomeProgram /\ GoneInUpdate /\ NotOlder /\ OneMoves
      /\ MovedIsGone /\ SoundIsThere /\ OldExplained /\ OldNotOlder
  BY DEF IInv, Kept
<1>2. \A u \in Updaters :
        /\ (upd'[u] = "moved") = (upd[u] = "moved")
        /\ (upd'[u] \in {"moved", "abort"}) = (upd[u] \in {"moved", "abort"})
        /\ (upd'[u] \in Sound) = (upd[u] \in Sound)
  BY DEF Hot, Sound
<1>3. SomeProgram'
  BY <1>1 DEF SomeProgram
<1>4. GoneInUpdate'
  BY <1>1, <1>2 DEF GoneInUpdate
<1>5. NotOlder'
  <2>1. exe \in Nat
    BY Sets DEF IInv, TypeOK
  <2> QED BY <1>1, <2>1 DEF NotOlder
<1>6. OneMoves' /\ MovedIsGone' /\ SoundIsThere'
  BY <1>1, <1>2 DEF OneMoves, MovedIsGone, SoundIsThere
<1>7. OldExplained'
  BY <1>1, <1>2 DEF OldExplained
<1>8. OldNotOlder'
  BY <1>1 DEF OldNotOlder
<1> QED BY <1>3, <1>4, <1>5, <1>6, <1>7, <1>8

\* An updater that ends with its process leaves the files, and says so.
LEMMA Ended ==
  ASSUME IInv, UNCHANGED <<exe, old>>, NEW p \in Proc,
         upd' = [upd EXCEPT ![p] = "idle"],
         seen \subseteq seen', upd[p] \in Hot /\ old # 0 => "left" \in seen',
         \A q \in Proc : Alive(q)' => Alive(q) /\ ver'[q] = ver[q]
  PROVE  Kept'
<1> SUFFICES ASSUME "two" \notin seen' PROVE
      /\ SomeProgram' /\ GoneInUpdate' /\ NotOlder' /\ OneMoves'
      /\ MovedIsGone' /\ SoundIsThere' /\ OldExplained' /\ OldNotOlder'
  BY DEF Kept
<1>1. /\ SomeProgram /\ GoneInUpdate /\ NotOlder /\ OneMoves
      /\ MovedIsGone /\ SoundIsThere /\ OldExplained /\ OldNotOlder
  BY DEF IInv, Kept
<1>2. /\ upd'[p] = "idle" /\ \A u \in Updaters \ {p} : upd'[u] = upd[u]
  BY Sets DEF IInv, TypeOK
<1>3. SomeProgram' /\ NotOlder' /\ OldNotOlder'
  BY <1>1 DEF SomeProgram, NotOlder, OldNotOlder
<1>4. GoneInUpdate'
  BY <1>1, <1>2 DEF GoneInUpdate, SomeProgram, Hot
<1>5. OneMoves' /\ MovedIsGone' /\ SoundIsThere'
  BY <1>1, <1>2 DEF OneMoves, MovedIsGone, SoundIsThere, Sound
<1>6. OldExplained'
  BY <1>1, <1>2 DEF OldExplained, Hot
<1> QED BY <1>3, <1>4, <1>5, <1>6

\* The .old file is removed with the new program in its place.
LEMMA Finished ==
  ASSUME IInv, exe' = exe, old' = 0, NEW u \in Updaters, upd[u] \in Sound,
         upd' = [upd EXCEPT ![u] = "idle"], seen' = seen,
         \A q \in Proc : Alive(q)' => Alive(q) /\ ver'[q] = ver[q]
  PROVE  Kept'
<1> SUFFICES ASSUME "two" \notin seen' PROVE
      /\ SomeProgram' /\ GoneInUpdate' /\ NotOlder' /\ OneMoves'
      /\ MovedIsGone' /\ SoundIsThere' /\ OldExplained' /\ OldNotOlder'
  BY DEF Kept
<1>1. /\ SomeProgram /\ GoneInUpdate /\ NotOlder /\ OneMoves
      /\ MovedIsGone /\ SoundIsThere /\ OldExplained /\ OldNotOlder
  BY DEF IInv, Kept
<1>2. upd'[u] = "idle" /\ \A v \in Updaters \ {u} : upd'[v] = upd[v]
  BY DEF IInv, TypeOK
<1>3. exe # 0
  BY <1>1 DEF SoundIsThere
<1>4. SomeProgram' /\ GoneInUpdate' /\ OldExplained' /\ OldNotOlder'
  BY <1>3 DEF SomeProgram, GoneInUpdate, OldExplained, OldNotOlder
<1>5. NotOlder'
  BY <1>1 DEF NotOlder
<1>6. OneMoves' /\ MovedIsGone' /\ SoundIsThere'
  BY <1>1, <1>2 DEF OneMoves, MovedIsGone, SoundIsThere, Sound
<1> QED BY <1>4, <1>5, <1>6

\* The first rename: nobody else is between the renames, or both are seen.
LEMMA MoveOldKept ==
  ASSUME IInv, NEW u \in Updaters, MoveOld(u)
  PROVE  Kept'
<1> SUFFICES ASSUME "two" \notin seen' PROVE
      /\ SomeProgram' /\ GoneInUpdate' /\ NotOlder' /\ OneMoves'
      /\ MovedIsGone' /\ SoundIsThere' /\ OldExplained' /\ OldNotOlder'
  BY DEF Kept
<1>1. seen' = seen /\ \A v \in Updaters \ {u} : ~Renaming(v)
  BY DEF MoveOld, Meet
<1>2. NotOlder
  BY <1>1 DEF IInv, Kept
<1>3. upd'[u] = "moved" /\ \A v \in Updaters \ {u} : upd'[v] = upd[v] /\ upd[v] \notin Hot
  BY <1>1 DEF IInv, TypeOK, MoveOld, Goto, Renaming, Hot, Sound
<1>4. exe' = 0 /\ old' = exe /\ exe # 0 /\ UNCHANGED procVars
  BY DEF MoveOld
<1>5. SomeProgram' /\ GoneInUpdate' /\ NotOlder'
  BY <1>3, <1>4 DEF SomeProgram, GoneInUpdate, NotOlder
<1>6. OneMoves' /\ MovedIsGone' /\ SoundIsThere'
  BY <1>3, <1>4 DEF OneMoves, MovedIsGone, SoundIsThere, Hot, Sound
<1>7. OldExplained'
  BY <1>3, <1>4 DEF OldExplained
<1>8. OldNotOlder'
  BY <1>1, <1>2, <1>4 DEF OldNotOlder, NotOlder, procVars, Alive
<1> QED BY <1>5, <1>6, <1>7, <1>8

\* The second rename.
LEMMA MoveNewKept ==
  ASSUME IInv, NEW u \in Updaters, MoveNew(u)
  PROVE  Kept'
<1> SUFFICES ASSUME "two" \notin seen' PROVE
      /\ SomeProgram' /\ GoneInUpdate' /\ NotOlder' /\ OneMoves'
      /\ MovedIsGone' /\ SoundIsThere' /\ OldExplained' /\ OldNotOlder'
  BY DEF Kept
<1>1. seen' = seen /\ exe' = target[u] /\ old' = old /\ UNCHANGED procVars /\ upd[u] = "moved"
  BY DEF MoveNew
<1>2. OneMoves /\ MovedIsGone /\ SoundIsThere
  BY <1>1 DEF IInv, Kept
<1>3. upd'[u] = "updated" /\ \A v \in Updaters \ {u} : upd'[v] = upd[v]
  BY DEF IInv, TypeOK, MoveNew, Goto
<1>4. target[u] # 0 /\ target[u] \in Nat /\ \A p \in Proc : Alive(p) => ver[p] <= target[u]
  BY <1>1, Sets DEF IInv, TypeOK, TargetKept, Early
<1>5. SomeProgram' /\ GoneInUpdate' /\ SoundIsThere' /\ OldNotOlder'
  BY <1>1, <1>4 DEF SomeProgram, GoneInUpdate, SoundIsThere, OldNotOlder
<1>6. \A p \in Proc : Alive(p)' => ver'[p] \in Nat /\ exe' >= ver'[p]
  BY <1>1, <1>4, Sets DEF procVars, Alive, IInv, TypeOK
<1>7. NotOlder'
  BY <1>6 DEF NotOlder
<1>8. OneMoves' /\ MovedIsGone'
  BY <1>1, <1>2, <1>3 DEF OneMoves, MovedIsGone
<1>9. OldExplained'
  BY <1>3 DEF OldExplained, Sound
<1> QED BY <1>5, <1>7, <1>8, <1>9

\* The new program cannot be put in its place; the first rename is undone, if
\* that does not fail too.
LEMMA UpdateToFailsKept ==
  ASSUME IInv, NEW u \in Updaters, UpdateToFails(u)
  PROVE  Kept'
<1> SUFFICES ASSUME "two" \notin seen' PROVE
      /\ SomeProgram' /\ GoneInUpdate' /\ NotOlder' /\ OneMoves'
      /\ MovedIsGone' /\ SoundIsThere' /\ OldExplained' /\ OldNotOlder'
  BY DEF Kept
<1>1. seen' = seen /\ UNCHANGED procVars /\ upd[u] \in {"update", "moved"}
  BY DEF UpdateToFails
<1>2. /\ SomeProgram /\ GoneInUpdate /\ NotOlder /\ OneMoves
      /\ MovedIsGone /\ SoundIsThere /\ OldExplained /\ OldNotOlder
  BY <1>1 DEF IInv, Kept
<1>3. upd'[u] = "abort" /\ \A v \in Updaters \ {u} : upd'[v] = upd[v]
  BY DEF IInv, TypeOK, UpdateToFails, Goto
<1>4. \A p \in Proc : ver'[p] = ver[p] /\ (Alive(p)' <=> Alive(p))
  BY <1>1 DEF procVars, Alive
<1>5. OneMoves'
  BY <1>2, <1>3 DEF OneMoves
<1>6. CASE UNCHANGED files
  <2>1. exe' = exe /\ old' = old
    BY <1>6 DEF files
  <2>2. SomeProgram' /\ GoneInUpdate' /\ MovedIsGone' /\ SoundIsThere'
    BY <1>1, <1>2, <1>3, <2>1 DEF SomeProgram, GoneInUpdate, MovedIsGone, SoundIsThere, Sound
  <2>3. NotOlder' /\ OldNotOlder'
    BY <1>1, <1>2, <1>4, <2>1 DEF NotOlder, OldNotOlder
  <2>4. OldExplained'
    <3> SUFFICES ASSUME "left" \notin seen, old # 0
                 PROVE  \E v \in Updaters : upd'[v] \in Sound \/ (upd'[v] \in {"moved", "abort"} /\ exe = 0)
      BY <1>1, <2>1 DEF OldExplained
    <3>1. PICK v \in Updaters : upd[v] \in Sound \/ (upd[v] \in {"moved", "abort"} /\ exe = 0)
      BY <1>2 DEF OldExplained
    <3> QED BY <1>1, <1>3, <3>1 DEF Sound
  <2> QED BY <1>5, <2>2, <2>3, <2>4
<1>7. CASE upd[u] = "moved" /\ RollBack
  <2>1. exe = 0 /\ old # 0 /\ exe' = old /\ old' = 0
    BY <1>2, <1>7 DEF MovedIsGone, SomeProgram, RollBack
  <2>2. SomeProgram' /\ GoneInUpdate' /\ SoundIsThere' /\ OldExplained' /\ OldNotOlder'
    BY <2>1 DEF SomeProgram, GoneInUpdate, SoundIsThere, OldExplained, OldNotOlder
  <2>3. MovedIsGone'
    BY <1>2, <1>3, <1>7 DEF MovedIsGone, OneMoves
  <2>4. NotOlder'
    BY <1>1, <1>2, <1>4, <2>1 DEF NotOlder, OldNotOlder
  <2> QED BY <1>5, <2>2, <2>3, <2>4
<1> QED BY <1>6, <1>7 DEF UpdateToFails

\* The rollback of an update that has failed: what it puts back, if anything,
\* is what this updater has moved away.
LEMMA AbortKept ==
  ASSUME IInv, NEW u \in Updaters, Abort(u)
  PROVE  Kept'
<1> SUFFICES ASSUME "two" \notin seen' PROVE
      /\ SomeProgram' /\ GoneInUpdate' /\ NotOlder' /\ OneMoves'
      /\ MovedIsGone' /\ SoundIsThere' /\ OldExplained' /\ OldNotOlder'
  BY DEF Kept
<1>1. seen' = seen /\ upd[u] = "abort" /\ \A v \in Updaters \ {u} : ~Renaming(v)
  BY DEF Abort, Meet
<1>2. SomeProgram /\ NotOlder /\ OldExplained /\ OldNotOlder
  BY <1>1 DEF IInv, Kept
<1>3. upd'[u] = "idle" /\ \A v \in Updaters \ {u} : upd'[v] = upd[v]
  <2>1. CASE u = Cli
    BY <2>1 DEF IInv, TypeOK, Abort, Goto
  <2>2. CASE u # Cli
    BY <2>2, EndType DEF IInv, Abort, Updaters
  <2> QED BY <2>1, <2>2
<1>4. \A v \in Updaters : upd'[v] \notin Hot
  BY <1>1, <1>3 DEF Renaming, Hot, Sound
<1>5. \A q \in Proc : Alive(q)' => Alive(q) /\ ver'[q] = ver[q]
  <2>1. CASE u = Cli
    BY <2>1 DEF Abort, procVars, Alive
  <2>2. CASE u # Cli
    BY <2>2, EndType DEF IInv, Abort, Updaters, Alive
  <2> QED BY <2>1, <2>2
<1>6. old' = 0 /\ exe' # 0 /\ exe' = IF old # 0 THEN old ELSE exe
  BY <1>2 DEF Abort, RollBack, SomeProgram
<1>7. "left" \notin seen /\ old # 0 => exe = 0
  BY <1>1, <1>2 DEF OldExplained, Renaming, Sound
<1>8. SomeProgram' /\ GoneInUpdate' /\ OldExplained' /\ OldNotOlder'
  BY <1>6 DEF SomeProgram, GoneInUpdate, OldExplained, OldNotOlder
<1>9. OneMoves' /\ MovedIsGone' /\ SoundIsThere'
  BY <1>4 DEF OneMoves, MovedIsGone, SoundIsThere, Hot
<1>10. NotOlder'
  BY <1>1, <1>2, <1>5, <1>6, <1>7 DEF NotOlder, OldNotOlder
<1> QED BY <1>8, <1>9, <1>10

\* No step loses the program while one updater works at a time.
LEMMA KeptStep == IInv /\ [Next]_vars => Kept'
<1> SUFFICES ASSUME IInv, [Next]_vars PROVE Kept'
  OBVIOUS
<1>1. TypeOK /\ upd \in [Updaters -> Places]
  BY DEF IInv, TypeOK
<1>2. ASSUME NEW p \in Proc, ServiceStart(p) PROVE Kept'
  <2>1. exe # 0 /\ UNCHANGED <<exe, old, upd, seen>>
    BY <1>2 DEF ServiceStart, files
  <2>2. \A q \in Proc : Alive(q)' => (Alive(q) /\ ver'[q] = ver[q]) \/ ver'[q] = exe
    BY <1>1, <1>2, <2>1, StartType DEF ServiceStart, Alive
  <2> QED BY <2>1, <2>2, Calm
<1>3. ASSUME NEW p \in Proc,
             \/ ApplyFilters(p) \/ RemoveSocket(p) \/ Serve(p) \/ ApplyConfig(p) \/ Reload(p)
             \/ ReloadRemove(p) \/ Quit(p)
      PROVE  Kept'
  <2>1. UNCHANGED <<exe, old, upd, ver>> /\ seen \subseteq seen'
    BY <1>3 DEF ApplyFilters, RemoveSocket, Serve, ApplyConfig, Reload, ReloadRemove, Quit, Unlink, files
  <2>2. \A q \in Proc : Alive(q)' => Alive(q)
    BY <1>1, <1>3 DEF ApplyFilters, RemoveSocket, Serve, ApplyConfig, Reload, ReloadRemove, Quit, Alive, TypeOK
  <2> QED BY <2>1, <2>2, Calm
<1>4. ASSUME NEW p \in Proc, End(p)
      PROVE  /\ upd' = [upd EXCEPT ![p] = "idle"]
             /\ \A q \in Proc : Alive(q)' => Alive(q) /\ ver'[q] = ver[q]
  BY <1>1, <1>4, EndType DEF End, Alive
<1>5. ASSUME NEW p \in Proc, Leave(p)
      PROVE  seen \subseteq seen' /\ (upd[p] \in Hot /\ old # 0 => "left" \in seen')
  BY <1>5 DEF Leave, Renaming, Hot, Sound
<1>6. ASSUME NEW p \in Proc, FailToServe(p) PROVE Kept'
  <2>1. upd[p] = "idle" /\ "idle" \notin Hot /\ UNCHANGED <<exe, old, seen>>
    BY <1>6 DEF IInv, Busy, FailToServe, files, Hot, Sound
  <2> QED BY <1>4, <1>6, <2>1, Ended DEF FailToServe
<1>7. ASSUME NEW p \in Proc, Kill(p) PROVE Kept'
  BY <1>4, <1>5, <1>7, Ended DEF Kill, files
<1>16. ASSUME NEW p \in Proc, ChildTimeout(p) PROVE Kept'
  <2>1. child[p] \in Proc
    BY <1>16 DEF IInv, Placed, ChildTimeout
  <2> QED BY <1>4, <1>5, <1>16, <2>1, Ended DEF ChildTimeout, files
<1>8. ASSUME NEW p \in Proc, Exit(p) PROVE Kept'
  <2>1. upd' = [upd EXCEPT ![p] = "idle"] /\ UNCHANGED <<exe, old>>
    BY <1>8 DEF Exit, files
  <2>2. \A q \in Proc : Alive(q)' => Alive(q) /\ ver'[q] = ver[q]
    BY <1>1, <1>8 DEF Exit, TypeOK, Alive
  <2>3. seen \subseteq seen' /\ (upd[p] \in Hot /\ old # 0 => "left" \in seen')
    <3>1. CASE Renaming(p)
      BY <1>5, <1>8, <3>1 DEF Exit
    <3>2. CASE ~Renaming(p)
      BY <1>8, <3>2 DEF Exit, Unlink, Renaming, Hot, Sound
    <3> QED BY <3>1, <3>2
  <2> QED BY <2>1, <2>2, <2>3, Ended
<1>9. CASE ClientFilter \/ ClientRemove \/ Release \/ UNCHANGED vars
  <2>1. UNCHANGED <<exe, old, upd, ver, main>> /\ seen \subseteq seen'
    BY <1>9 DEF ClientFilter, ClientRemove, Release, Unlink, vars, files, procVars
  <2> QED BY <2>1, Calm DEF Alive
<1>10. ASSUME NEW u \in Updaters, NEW pc, Goto(u, pc),
              \/ upd[u] \notin Hot /\ pc \notin Hot
              \/ upd[u] \in Sound /\ pc \in Sound
       PROVE  \A v \in Updaters : \/ upd'[v] = upd[v]
                                  \/ upd[v] \notin Hot /\ upd'[v] \notin Hot
                                  \/ upd[v] \in Sound /\ upd'[v] \in Sound
  BY <1>1, <1>10 DEF Goto
<1>11. ASSUME NEW p \in Proc,
              \/ CheckForUpdate(p) \/ Hang(p) \/ PreUpdateListeners(p) \/ PreUpdateGRPC(p)
              \/ ChildStarted(p) \/ ChildFailed(p)
       PROVE  Kept'
  <2>1. UNCHANGED <<exe, old, ver, main>> /\ seen \subseteq seen' /\ p \in Updaters
    BY <1>11, Sets DEF CheckForUpdate, Hang, PreUpdateListeners, PreUpdateGRPC, ChildStarted,
         ChildFailed, Unlink, files, procVars
  <2>2. \E pc : /\ Goto(p, pc)
                /\ \/ upd[p] \notin Hot /\ pc \notin Hot
                   \/ upd[p] \in Sound /\ pc \in Sound
    BY <1>11 DEF CheckForUpdate, Hang, PreUpdateListeners, PreUpdateGRPC, ChildStarted, ChildFailed,
         Hot, Sound
  <2> QED BY <1>10, <2>1, <2>2, Calm DEF Alive
<1>12. CASE CliUpdate
  <2>1. UNCHANGED <<exe, old, ver, main, seen>> /\ Goto(Cli, "update") /\ upd[Cli] = "idle"
    BY <1>12 DEF CliUpdate, files, procVars
  <2>2. "update" \notin Hot /\ "idle" \notin Hot
    BY DEF Hot, Sound
  <2> QED BY <1>10, <2>1, <2>2, Sets, Calm DEF Alive
<1>13. CASE CliDone
  <2>1. upd[Cli] \in Sound /\ UNCHANGED <<exe, ver, main, seen>> /\ old' = 0
        /\ upd' = [upd EXCEPT ![Cli] = "idle"]
    BY <1>13 DEF CliDone, procVars, Goto, Sound
  <2> QED BY <2>1, Sets, Finished DEF Alive
<1>14. ASSUME NEW p \in Proc, Relaunch(p) PROVE Kept'
  <2>1. exe # 0 /\ UNCHANGED <<exe, old, seen>> /\ p \in Updaters
    BY <1>14, Sets DEF Relaunch, files
  <2>2. PICK c \in Proc : ~Alive(c) /\ Start(c)
    BY <1>14 DEF Relaunch
  <2>3. \A q \in Proc : Alive(q)' => (Alive(q) /\ ver'[q] = ver[q]) \/ ver'[q] = exe
    BY <1>1, <2>1, <2>2, StartType DEF Alive
  <2>4. Goto(p, "wait") /\ upd[p] \in Sound /\ "wait" \in Sound
    BY <1>14 DEF Relaunch, Sound
  <2> QED BY <1>10, <2>1, <2>3, <2>4, Calm
<1>15. ASSUME NEW p \in Proc, HandOver(p) PROVE Kept'
  BY <1>4, <1>15, Sets, Finished DEF HandOver, Sound
<1> QED BY Sets, <1>2, <1>3, <1>6, <1>7, <1>8, <1>9, <1>11, <1>12, <1>13, <1>14, <1>15, <1>16,
           MoveOldKept, MoveNewKept, UpdateToFailsKept, AbortKept
        DEF Next, Boot, UpdateStep

-----------------------------------------------------------------------------
(* The release an updater has found.                                         *)

\* What has been seen stays seen.
LEMMA SeenGrows == TypeOK /\ [Next]_vars => seen \subseteq seen'
<1> SUFFICES ASSUME TypeOK, [Next]_vars PROVE seen \subseteq seen'
  OBVIOUS
<1> USE DEF files, procVars, Unlink, Leave, Meet
<1>1. ASSUME NEW p \in Proc,
             \/ ServiceStart(p) \/ ApplyFilters(p) \/ RemoveSocket(p) \/ Serve(p) \/ FailToServe(p)
             \/ ApplyConfig(p) \/ Reload(p) \/ ReloadRemove(p) \/ Quit(p) \/ Exit(p) \/ Kill(p)
      PROVE  seen \subseteq seen'
  BY <1>1 DEF ServiceStart, ApplyFilters, RemoveSocket, Serve, FailToServe, ApplyConfig, Reload,
              ReloadRemove, Quit, Exit, Kill
<1>2. ASSUME NEW p \in Proc,
             \/ CheckForUpdate(p) \/ Hang(p) \/ PreUpdateListeners(p) \/ PreUpdateGRPC(p)
             \/ Relaunch(p) \/ ChildStarted(p) \/ ChildTimeout(p) \/ ChildFailed(p) \/ HandOver(p)
      PROVE  seen \subseteq seen'
  BY <1>2 DEF CheckForUpdate, Hang, PreUpdateListeners, PreUpdateGRPC, Relaunch, ChildStarted,
              ChildTimeout, ChildFailed, HandOver
<1>3. ASSUME NEW u \in Updaters, MoveOld(u) \/ MoveNew(u) \/ UpdateToFails(u) \/ Abort(u)
      PROVE  seen \subseteq seen'
  BY <1>3 DEF MoveOld, MoveNew, UpdateToFails, Abort
<1>4. CASE ClientFilter \/ ClientRemove \/ Release \/ CliUpdate \/ CliDone \/ UNCHANGED vars
  BY <1>4 DEF ClientFilter, ClientRemove, Release, CliUpdate, CliDone, vars
<1> QED BY Sets, <1>1, <1>2, <1>3, <1>4 DEF Next, Boot, UpdateStep

\* Nobody comes to the early places, the command's file is left alone, and no
\* process is started.
LEMMA TargetCalm ==
  ASSUME IInv, seen \subseteq seen',
         upd'[Cli] = "update" => upd[Cli] = "update" /\ exe' = exe,
         \A u \in Updaters : upd'[u] \in Early => upd[u] \in Early /\ target'[u] = target[u],
         \A p \in Proc : Alive(p)' => Alive(p) /\ ver'[p] = ver[p]
  PROVE  TargetKept'
<1>1. upd'[Cli] = "update" => target'[Cli] = target[Cli]
  BY Sets DEF Early
<1> QED BY <1>1 DEF IInv, TargetKept

\* A process that starts, from the file, has no other server early in an update
\* beside it, and is not later than what the command has found.
LEMMA TargetStarted ==
  ASSUME IInv, NEW c \in Proc, Start(c), exe # 0, UNCHANGED <<exe, target, seen>>,
         \A p \in Proc : upd[p] \notin Early,
         \A u \in Updaters : upd'[u] \in Early => upd'[u] = upd[u],
         upd'[Cli] = upd[Cli]
  PROVE  TargetKept'
<1> SUFFICES ASSUME "two" \notin seen' PROVE TargetKept'
  BY DEF TargetKept
<1>1. /\ upd[Cli] = "update" => exe # 0 /\ exe <= target[Cli]
      /\ \A u \in Updaters : upd[u] \in Early => \A p \in Proc : Alive(p) => ver[p] <= target[u]
      /\ MovedIsGone
  BY DEF IInv, TargetKept, Kept
<1>2. /\ \A u \in Updaters : upd'[u] \in Early => u = Cli /\ upd[u] \in Early
      /\ upd'[Cli] = upd[Cli]
  BY DEF Updaters
<1>3. ASSUME upd[Cli] \in Early PROVE upd[Cli] = "update"
  <2>1. upd[Cli] # "moved"
    BY <1>1, Sets DEF MovedIsGone
  <2>2. upd[Cli] \notin {"listeners", "hung", "grpc"}
    BY DEF IInv, Placed, Closing
  <2> QED BY <1>3, <2>1, <2>2 DEF Early
<1>4. \A q \in Proc : Alive(q)' => (Alive(q) /\ ver'[q] = ver[q]) \/ ver'[q] = exe
  BY StartType DEF IInv, Alive
<1> QED BY <1>1, <1>2, <1>3, <1>4 DEF TargetKept

LEMMA TargetStep == IInv /\ [Next]_vars => TargetKept'
<1> SUFFICES ASSUME IInv, [Next]_vars PROVE TargetKept'
  OBVIOUS
<1>1. TypeOK /\ Placed /\ seen \subseteq seen'
  BY SeenGrows DEF IInv
<1>2. ASSUME UNCHANGED <<upd, exe, target, ver>>, \A p \in Proc : Alive(p)' => Alive(p)
      PROVE  TargetKept'
  BY <1>1, <1>2, TargetCalm
<1>3. ASSUME NEW p \in Proc, ServiceStart(p) PROVE TargetKept'
  <2>1. \A q \in Proc : upd[q] \notin Early
    BY <1>1, <1>3 DEF ServiceStart, TypeOK, Early
  <2>2. Start(p) /\ exe # 0 /\ UNCHANGED <<exe, target, seen, upd>>
    BY <1>3 DEF ServiceStart, files
  <2> QED BY <2>1, <2>2, TargetStarted
<1>4. ASSUME NEW p \in Proc, Relaunch(p) PROVE TargetKept'
  <2>1. PICK c \in Proc : ~Alive(c) /\ Start(c)
    BY <1>4 DEF Relaunch
  <2>2. \A q \in Proc : upd[q] \notin Early
    <3> SUFFICES ASSUME NEW q \in Proc, upd[q] \in Early PROVE FALSE
      OBVIOUS
    <3>1. q # p /\ Alive(p) /\ Alive(q)
      BY <1>1, <1>4 DEF Relaunch, Early, TypeOK
    <3> QED BY <1>4, <3>1, OthersDone DEF IInv, Relaunch, Early
  <2>3. /\ exe # 0 /\ UNCHANGED <<exe, target, seen>> /\ upd'[Cli] = upd[Cli]
        /\ \A u \in Updaters : upd'[u] = upd[u] \/ upd'[u] = "wait"
    BY <1>1, <1>4, Sets DEF Relaunch, files, Goto, TypeOK
  <2>4. "wait" \notin Early
    BY DEF Early
  <2> QED BY <2>1, <2>2, <2>3, <2>4, TargetStarted
<1>5. ASSUME NEW p \in Proc,
             \/ ApplyFilters(p) \/ RemoveSocket(p) \/ Serve(p) \/ ApplyConfig(p) \/ Reload(p)
             \/ ReloadRemove(p) \/ Quit(p)
      PROVE  TargetKept'
  <2>1. /\ UNCHANGED <<upd, exe, target, ver>>
        /\ \A q \in Proc : Alive(q)' => Alive(q)
    BY <1>1, <1>5 DEF ApplyFilters, RemoveSocket, Serve, ApplyConfig, Reload, ReloadRemove, Quit, files,
         TypeOK, Alive
  <2> QED BY <1>2, <2>1
<1>6. CASE ClientFilter \/ ClientRemove \/ Release \/ UNCHANGED vars
  BY <1>2, <1>6 DEF ClientFilter, ClientRemove, Release, vars, files, procVars, Alive
<1>7. ASSUME NEW p \in Proc, End(p) \/ Exit(p), exe' = exe PROVE TargetKept'
  <2>1. /\ upd'[p] = "idle" /\ \A u \in Updaters \ {p} : upd'[u] = upd[u] /\ target'[u] = target[u]
    BY <1>1, <1>7, Sets DEF End, Exit, TypeOK
  <2>2. \A q \in Proc : Alive(q)' => Alive(q) /\ ver'[q] = ver[q]
    BY <1>1, <1>7 DEF End, Exit, TypeOK, Alive
  <2> QED BY <1>1, <1>7, <2>1, <2>2, Sets, TargetCalm DEF Early
<1>8. ASSUME NEW p \in Proc, FailToServe(p) \/ Exit(p) \/ Kill(p) \/ HandOver(p) PROVE TargetKept'
  <2>1. (End(p) \/ Exit(p)) /\ exe' = exe
    BY <1>8 DEF FailToServe, Exit, Kill, HandOver, files
  <2> QED BY <1>7, <2>1
<1>9. ASSUME NEW p \in Proc, ChildTimeout(p) PROVE TargetKept'
  BY <1>1, <1>7, <1>9 DEF ChildTimeout, Placed, files
<1>10. ASSUME NEW u \in Updaters, NEW pc, Goto(u, pc), UNCHANGED <<ver, main, target>>, exe' = exe,
              pc \in Early => u \in Proc /\ upd[u] \in Early
       PROVE  TargetKept'
  <2>1. \A v \in Updaters : upd'[v] = IF v = u THEN pc ELSE upd[v]
    BY <1>1, <1>10 DEF Goto, TypeOK
  <2>2. upd'[Cli] = "update" => upd[Cli] = "update"
    BY <1>10, <2>1, Sets DEF Early
  <2>3. \A v \in Updaters : upd'[v] \in Early => upd[v] \in Early /\ target'[v] = target[v]
    BY <1>10, <2>1
  <2>4. \A q \in Proc : Alive(q)' => Alive(q) /\ ver'[q] = ver[q]
    BY <1>10 DEF Alive
  <2> QED BY <1>1, <1>10, <2>2, <2>3, <2>4, TargetCalm
<1>11. ASSUME NEW p \in Proc,
              \/ Hang(p) \/ PreUpdateListeners(p) \/ PreUpdateGRPC(p)
              \/ ChildStarted(p) \/ ChildFailed(p)
       PROVE  TargetKept'
  <2>1. \E pc : /\ Goto(p, pc) /\ UNCHANGED <<ver, main, target, exe>>
                /\ pc \in Early => upd[p] \in Early
    BY <1>11 DEF Hang, PreUpdateListeners, PreUpdateGRPC, ChildStarted, ChildFailed, files, procVars, Early
  <2> QED BY <1>10, <2>1, Sets
<1>12. CASE CliDone
  BY <1>10, <1>12, Sets DEF CliDone, procVars, Early
<1>13. ASSUME NEW u \in Updaters, target' = [target EXCEPT ![u] = latest],
              Goto(u, IF u = Cli THEN "update" ELSE "listeners"),
              UNCHANGED <<ver, main, exe, seen>>, u = Cli => exe # 0 /\ exe < latest
       PROVE  TargetKept'
  <2>1. /\ target'[u] = latest /\ \A v \in Updaters \ {u} : target'[v] = target[v] /\ upd'[v] = upd[v]
        /\ u = Cli => upd'[u] = "update"
    BY <1>1, <1>13 DEF TypeOK, Goto
  <2>2. \A q \in Proc : ver[q] <= latest /\ (Alive(q)' <=> Alive(q)) /\ ver'[q] = ver[q]
    BY <1>13 DEF IInv, Ordered, Alive
  <2>3. exe \in Nat /\ latest \in Nat
    BY <1>1, Sets DEF TypeOK
  <2> QED BY <1>13, <2>1, <2>2, <2>3, Sets DEF IInv, TargetKept, Early
<1>14. ASSUME NEW p \in Proc, CheckForUpdate(p) PROVE TargetKept'
  BY <1>13, <1>14, Sets DEF CheckForUpdate, files, procVars
<1>15. CASE CliUpdate
  BY <1>13, <1>15, Sets DEF CliUpdate, files, procVars
<1>16. ASSUME NEW u \in Updaters, NEW pc \in {"moved", "updated", "abort"}, Goto(u, pc),
              UNCHANGED procVars, target' \in {target, [target EXCEPT ![u] = 1]},
              pc = "moved" => upd[u] \in Early /\ target' = target,
              u # Cli /\ upd[Cli] = "update" => exe' = exe \/ "two" \in seen'
       PROVE  TargetKept'
  <2>1. /\ upd'[u] = pc
        /\ \A v \in Updaters \ {u} : upd'[v] = upd[v] /\ target'[v] = target[v]
    BY <1>1, <1>16 DEF Goto, TypeOK
  <2>2. CASE "two" \in seen'
    BY <2>2 DEF TargetKept
  <2>3. CASE "two" \notin seen'
    <3>1. upd'[Cli] = "update" => upd[Cli] = "update" /\ exe' = exe
      BY <1>16, <2>1, <2>3, Sets
    <3>2. \A v \in Updaters : upd'[v] \in Early => upd[v] \in Early /\ target'[v] = target[v]
      BY <1>16, <2>1 DEF Early
    <3> QED BY <1>1, <1>16, <3>1, <3>2, TargetCalm DEF procVars, Alive
  <2> QED BY <2>2, <2>3
<1>17. ASSUME NEW u \in Updaters, u # Cli, upd[Cli] = "update", MoveOld(u) \/ Abort(u)
       PROVE  "two" \in seen'
  BY <1>17, Sets DEF MoveOld, Abort, Meet, Renaming
<1>18. ASSUME NEW u \in Updaters, upd[u] = "moved", upd[Cli] = "update", seen' = seen
       PROVE  "two" \in seen'
  BY <1>18 DEF IInv, TargetKept, Kept, MovedIsGone
<1>19. ASSUME NEW u \in Updaters, MoveOld(u) PROVE TargetKept'
  BY <1>16, <1>17, <1>19 DEF MoveOld, Early
<1>20. ASSUME NEW u \in Updaters, MoveNew(u) PROVE TargetKept'
  BY <1>16, <1>18, <1>20 DEF MoveNew
<1>21. ASSUME NEW u \in Updaters, UpdateToFails(u) PROVE TargetKept'
  <2>1. upd[Cli] = "update" => exe' = exe \/ "two" \in seen'
    BY <1>18, <1>21 DEF UpdateToFails, files
  <2> QED BY <1>16, <1>21, <2>1 DEF UpdateToFails
<1>22. ASSUME NEW u \in Updaters, Abort(u) PROVE TargetKept'
  <2>1. /\ upd'[u] = "idle"
        /\ \A v \in Updaters \ {u} : upd'[v] = upd[v] /\ target'[v] = target[v]
        /\ \A q \in Proc : Alive(q)' => Alive(q) /\ ver'[q] = ver[q]
    <3>1. CASE u = Cli
      BY <1>1, <1>22, <3>1 DEF Abort, Goto, TypeOK, procVars, Alive
    <3>2. CASE u # Cli
      BY <1>1, <1>22, <3>2, EndType DEF Abort, Updaters, Alive
    <3> QED BY <3>1, <3>2
  <2>2. CASE "two" \in seen'
    BY <2>2 DEF TargetKept
  <2>3. CASE "two" \notin seen'
    <3>1. upd'[Cli] # "update"
      BY <1>17, <1>22, <2>1, <2>3, Sets
    <3> QED BY <1>1, <2>1, <3>1, TargetCalm DEF Early
  <2> QED BY <2>2, <2>3
<1> QED BY Sets, <1>3, <1>4, <1>5, <1>6, <1>8, <1>9, <1>11, <1>12, <1>14, <1>15, <1>19, <1>20, <1>21,
           <1>22
        DEF Next, Boot, UpdateStep

\* While one updater works at a time there is a program to start again, in its
\* place or on the way to it, and none older than what runs, unless an updater
\* has been ended at its files.
THEOREM ProgramIsKept == Spec => []ProgramKept
<1>1. IInv /\ [Next]_vars => IInv'
  BY TypeStep, OrderedStep, BusyStep, PlacedStep, OneServesStep, TargetStep, KeptStep DEF IInv
<1>2. IInv => ProgramKept
  BY DEF IInv, Kept, ProgramKept, SomeProgram, GoneInUpdate, NotOlder
<1> QED BY <1>1, <1>2, InitInv, PTL DEF Spec
-----------------------------------------------------------------------------
(* Who has the socket and the listener.                                      *)

\* Where an updater still has its socket, and where it may have its listener.
SocketOpen == {"idle", "listeners", "hung", "grpc"}
ListenerOpen == {"idle", "listeners", "hung"}

SocketKept ==
  "snatched" \notin seen =>
    \A p \in Proc : main[p] = "serve" /\ upd[p] \in SocketOpen => sock = p

ListenerGiven ==
  "late" \notin seen => \A p \in Proc : upd[p] \notin ListenerOpen => udp # p

ListenerTaken ==
  "late" \notin seen =>
    \A p \in Proc : main[p] = "serve" /\ upd[p] = "idle" /\ apply[p] = "done" => udp = p

\* Who still has the socket has had it, and has not lost it silently.
LEMMA SameSocket ==
  ASSUME SocketKept, seen \subseteq seen',
         \A p \in Proc : main'[p] = "serve" /\ upd'[p] \in SocketOpen =>
           /\ main[p] = "serve" /\ upd[p] \in SocketOpen
           /\ sock' = sock \/ sock # p \/ "snatched" \in seen'
  PROVE  SocketKept'
BY DEF SocketKept

LEMMA SocketStep == TypeOK /\ Busy /\ Placed /\ SocketKept /\ [Next]_vars => SocketKept'
<1> SUFFICES ASSUME TypeOK, Busy, Placed, SocketKept, [Next]_vars PROVE SocketKept'
  OBVIOUS
<1>1. seen \subseteq seen'
  BY SeenGrows
<1>2. ASSUME UNCHANGED <<upd, sock>>, \A p \in Proc : main'[p] = "serve" => main[p] = "serve"
      PROVE  SocketKept'
  BY <1>1, <1>2, SameSocket
<1>3. ASSUME NEW p \in Proc, ServiceStart(p) \/ ApplyFilters(p) \/ ApplyConfig(p) \/ Quit(p)
      PROVE  SocketKept'
  <2>1. UNCHANGED <<upd, sock>> /\ \A q \in Proc : main'[q] = "serve" => main[q] = "serve"
    BY <1>3 DEF ServiceStart, Start, ApplyFilters, ApplyConfig, Quit, TypeOK
  <2> QED BY <1>2, <2>1
<1>4. ASSUME NEW p \in Proc, RemoveSocket(p) PROVE SocketKept'
  <2>1. /\ UNCHANGED upd /\ \A q \in Proc : main'[q] = "serve" => main[q] = "serve"
        /\ sock \in Proc => "snatched" \in seen'
    BY <1>4, Sets DEF RemoveSocket, Unlink, TypeOK
  <2> QED BY <1>1, <2>1, SameSocket
<1>5. ASSUME NEW p \in Proc, Serve(p) PROVE SocketKept'
  <2>1. /\ UNCHANGED upd /\ sock' = p /\ sock = None
        /\ \A q \in Proc \ {p} : main'[q] = main[q]
    BY <1>5 DEF Serve, TypeOK
  <2> QED BY <1>1, <2>1, Sets DEF SocketKept
<1>6. ASSUME NEW p \in Proc, End(p) PROVE SocketKept'
  <2>1. /\ main'[p] = "exited" /\ \A q \in Proc \ {p} : main'[q] = main[q] /\ upd'[q] = upd[q]
    BY <1>6, EndType, Sets
  <2>2. sock' = sock \/ sock = p
    BY <1>6 DEF End
  <2> QED BY <1>1, <2>1, <2>2, SameSocket
<1>20. ASSUME NEW p \in Proc, ChildTimeout(p) PROVE SocketKept'
  BY <1>6, <1>20 DEF ChildTimeout, Placed
<1>7. ASSUME NEW p \in Proc, FailToServe(p) \/ Kill(p) \/ HandOver(p) PROVE SocketKept'
  BY <1>6, <1>7 DEF FailToServe, Kill, HandOver
<1>8. ASSUME NEW p \in Proc, Exit(p) PROVE SocketKept'
  <2>1. /\ main'[p] = "exited" /\ \A q \in Proc \ {p} : main'[q] = main[q] /\ upd'[q] = upd[q]
        /\ sock' = sock \/ sock \notin Proc \ {p} \/ "snatched" \in seen'
    BY <1>8, Sets DEF Exit, Unlink, TypeOK
  <2> QED BY <1>1, <2>1, SameSocket
<1>9. ASSUME NEW p \in Proc, Reload(p) PROVE SocketKept'
  BY <1>2, <1>9 DEF Reload
<1>19. ASSUME NEW p \in Proc, ReloadRemove(p) PROVE SocketKept'
  <2>1. UNCHANGED <<upd, main>> /\ (sock \in Proc => "snatched" \in seen')
    BY <1>19, Sets DEF ReloadRemove, Unlink
  <2> QED BY <1>1, <2>1, SameSocket
<1>10. CASE ClientRemove
  <2>1. UNCHANGED <<upd, main>> /\ (sock \in Proc => "snatched" \in seen')
    BY <1>10, Sets DEF ClientRemove, Unlink, procVars
  <2> QED BY <1>1, <2>1, SameSocket
<1>11. CASE ClientFilter \/ Release \/ UNCHANGED vars
  BY <1>2, <1>11 DEF ClientFilter, Release, vars, procVars
<1>12. ASSUME NEW p \in Proc, CheckForUpdate(p) \/ Hang(p) \/ PreUpdateListeners(p) PROVE SocketKept'
  <2>1. /\ UNCHANGED <<main, sock>> /\ upd[p] \in SocketOpen
        /\ \A q \in Proc \ {p} : upd'[q] = upd[q]
    BY <1>12, Sets DEF CheckForUpdate, Hang, PreUpdateListeners, Goto, TypeOK, procVars, SocketOpen
  <2> QED BY <1>1, <2>1, SameSocket
<1>13. ASSUME NEW p \in Proc, PreUpdateGRPC(p) PROVE SocketKept'
  <2>1. /\ UNCHANGED main /\ upd'[p] \notin SocketOpen
        /\ \A q \in Proc \ {p} : upd'[q] = upd[q]
        /\ sock \notin Proc \ {p} \/ "snatched" \in seen'
    BY <1>13, Sets DEF PreUpdateGRPC, Goto, Unlink, TypeOK, procVars, SocketOpen
  <2> QED BY <1>1, <2>1, SameSocket
<1>14. ASSUME NEW u \in Updaters, MoveOld(u) \/ MoveNew(u) \/ UpdateToFails(u) PROVE SocketKept'
  <2>1. /\ UNCHANGED <<main, sock>>
        /\ \A q \in Proc : upd'[q] = upd[q] \/ upd'[q] \notin SocketOpen
    <3>1. UNCHANGED <<main, sock>>
      BY <1>14 DEF MoveOld, MoveNew, UpdateToFails, procVars
    <3>2. PICK pc \in {"moved", "updated", "abort"} : Goto(u, pc)
      BY <1>14 DEF MoveOld, MoveNew, UpdateToFails
    <3> QED BY <3>1, <3>2, Sets DEF Goto, TypeOK, SocketOpen
  <2> QED BY <1>1, <2>1, SameSocket
<1>15. CASE CliUpdate \/ CliDone \/ Abort(Cli)
  <2>1. UNCHANGED <<main, sock>> /\ \A q \in Proc : upd'[q] = upd[q]
    BY <1>15, Sets DEF CliUpdate, CliDone, Abort, Goto, TypeOK, procVars
  <2> QED BY <1>1, <2>1, SameSocket
<1>16. ASSUME NEW p \in Proc, Abort(p) PROVE SocketKept'
  BY <1>6, <1>16, Sets DEF Abort
<1>17. ASSUME NEW p \in Proc, Relaunch(p) PROVE SocketKept'
  <2>1. PICK c \in Proc : Start(c)
    BY <1>17 DEF Relaunch
  <2>2. /\ sock' = sock /\ main'[c] = "boot" /\ upd'[p] \notin SocketOpen
        /\ \A q \in Proc : q # c => main'[q] = main[q]
        /\ \A q \in Proc : q # p => upd'[q] = upd[q]
    BY <1>17, <2>1, Sets DEF Relaunch, Start, Goto, TypeOK, SocketOpen
  <2> QED BY <1>1, <2>2, SameSocket
<1>18. ASSUME NEW p \in Proc, ChildStarted(p) \/ ChildFailed(p) PROVE SocketKept'
  <2>1. /\ UNCHANGED <<main, sock>> /\ upd'[p] \notin SocketOpen
        /\ \A q \in Proc \ {p} : upd'[q] = upd[q]
    BY <1>18, Sets DEF ChildStarted, ChildFailed, Goto, TypeOK, procVars, SocketOpen
  <2> QED BY <1>1, <2>1, SameSocket
<1> QED BY Sets, <1>3, <1>4, <1>5, <1>7, <1>8, <1>9, <1>10, <1>11, <1>12, <1>13, <1>14, <1>15, <1>16,
           <1>17, <1>18, <1>19, <1>20 DEF Next, Boot, UpdateStep

\* Who has given the listener's address up has no way to it but a late ApplyConfig,
\* and who has it keeps it.
LEMMA SameListener ==
  ASSUME ListenerGiven, ListenerTaken, seen \subseteq seen',
         \A p \in Proc : upd'[p] \notin ListenerOpen =>
           upd[p] \notin ListenerOpen /\ (udp' = udp \/ udp' # p),
         \A p \in Proc : main'[p] = "serve" /\ upd'[p] = "idle" /\ apply'[p] = "done" =>
           /\ main[p] = "serve" /\ upd[p] = "idle" /\ apply[p] = "done"
           /\ udp' = udp \/ udp # p
  PROVE  ListenerGiven' /\ ListenerTaken'
BY DEF ListenerGiven, ListenerTaken

LEMMA ListenerStep ==
  TypeOK /\ Busy /\ Placed /\ OneServes /\ ListenerGiven /\ ListenerTaken /\ [Next]_vars
    => ListenerGiven' /\ ListenerTaken'
<1> SUFFICES ASSUME TypeOK, Busy, Placed, OneServes, ListenerGiven, ListenerTaken, [Next]_vars
             PROVE  ListenerGiven' /\ ListenerTaken'
  OBVIOUS
<1> DEFINE Both == ListenerGiven' /\ ListenerTaken'
<1>1. seen \subseteq seen'
  BY SeenGrows
<1>2. ASSUME UNCHANGED <<upd, udp>>,
             \A p \in Proc : main'[p] = "serve" /\ apply'[p] = "done" =>
                             main[p] = "serve" /\ apply[p] = "done"
      PROVE  Both
  BY <1>1, <1>2, SameListener
<1>3. ASSUME NEW p \in Proc, ServiceStart(p) \/ ApplyFilters(p) \/ RemoveSocket(p) \/ Serve(p)
                             \/ Reload(p) \/ ReloadRemove(p)
      PROVE  Both
  <2>1. /\ UNCHANGED <<upd, udp>>
        /\ \A q \in Proc : main'[q] = "serve" /\ apply'[q] = "done" =>
                           main[q] = "serve" /\ apply[q] = "done"
    BY <1>3 DEF ServiceStart, Start, ApplyFilters, RemoveSocket, Serve, Reload, ReloadRemove,
         TypeOK
  <2> QED BY <1>2, <2>1
<1>4. ASSUME NEW p \in Proc, ApplyConfig(p) PROVE Both
  <2>1. /\ UNCHANGED <<upd, main>> /\ main[p] \in {"serve", "quit"}
        /\ \A q \in Proc \ {p} : apply'[q] = apply[q]
        /\ udp' = IF udp = None THEN p ELSE udp
        /\ udp = None /\ upd[p] \notin ListenerOpen => "late" \in seen'
    BY <1>4 DEF ApplyConfig, TypeOK, ListenerOpen
  <2>2. ListenerGiven'
    BY <1>1, <2>1 DEF ListenerGiven
  <2>3. ASSUME "late" \notin seen', main[p] = "serve", upd[p] = "idle" PROVE udp' = p
    <3> SUFFICES ASSUME udp # None, udp # p PROVE FALSE
      BY <2>1
    <3>1. PICK q \in Proc : q = udp /\ Alive(q) /\ q # p
      BY DEF TypeOK
    <3>2. upd[q] \in ListenerOpen /\ Alive(p)
      BY <1>1, <2>3, <3>1 DEF ListenerGiven, Alive
    <3> QED BY <2>3, <3>1, <3>2 DEF OneServes, Waits, ListenerOpen
  <2>4. ASSUME "late" \notin seen', NEW q \in Proc, q # p, main[q] = "serve", upd[q] = "idle",
               apply'[q] = "done"
        PROVE  udp' = q
    <3>1. udp = q
      BY <1>1, <2>1, <2>4 DEF ListenerTaken
    <3> QED BY <2>1, <3>1, Sets
  <2> QED BY <2>1, <2>2, <2>3, <2>4 DEF ListenerTaken
<1>5. ASSUME NEW p \in Proc, Quit(p) PROVE Both
  <2>1. /\ UNCHANGED <<upd, apply>> /\ main'[p] # "serve" /\ (udp' = udp \/ (udp = p /\ udp' = None))
        /\ \A q \in Proc \ {p} : main'[q] = main[q]
    BY <1>5 DEF Quit, TypeOK
  <2> QED BY <1>1, <2>1, Sets, SameListener
<1>6. ASSUME NEW p \in Proc, End(p) \/ Exit(p) PROVE Both
  <2>1. /\ main'[p] # "serve" /\ upd'[p] \in ListenerOpen
        /\ udp' = udp \/ (udp = p /\ udp' = None)
        /\ \A q \in Proc \ {p} : main'[q] = main[q] /\ upd'[q] = upd[q]
    BY <1>6, Sets DEF End, Exit, TypeOK, ListenerOpen
  <2>2. \A q \in Proc \ {p} : apply'[q] = apply[q]
    BY <1>6 DEF End, Exit, Silence, TypeOK
  <2> QED BY <1>1, <2>1, <2>2, Sets, SameListener
<1>17. ASSUME NEW p \in Proc, ChildTimeout(p) PROVE Both
  BY <1>6, <1>17 DEF ChildTimeout, Placed
<1>7. ASSUME NEW p \in Proc, FailToServe(p) \/ Kill(p) \/ HandOver(p) PROVE Both
  BY <1>6, <1>7 DEF FailToServe, Kill, HandOver
<1>8. CASE ClientFilter \/ ClientRemove \/ Release \/ UNCHANGED vars
  BY <1>2, <1>8 DEF ClientFilter, ClientRemove, Release, vars, procVars
<1>9. ASSUME NEW p \in Proc, CheckForUpdate(p) PROVE Both
  <2>1. /\ UNCHANGED <<main, udp, apply>> /\ upd'[p] = "listeners"
        /\ \A q \in Proc \ {p} : upd'[q] = upd[q]
    BY <1>9, Sets DEF CheckForUpdate, Goto, TypeOK, procVars
  <2> QED BY <1>1, <2>1, SameListener DEF ListenerOpen
<1>18. ASSUME NEW p \in Proc, Hang(p) PROVE Both
  <2>1. /\ UNCHANGED <<main, apply>> /\ upd'[p] = "hung" /\ upd[p] = "listeners"
        /\ udp = p /\ udp' \in {udp, None}
        /\ \A q \in Proc \ {p} : upd'[q] = upd[q]
    BY <1>18, Sets DEF Hang, Goto, TypeOK, procVars
  <2> QED BY <1>1, <2>1, Sets DEF ListenerOpen, ListenerGiven, ListenerTaken
<1>10. ASSUME NEW p \in Proc, PreUpdateListeners(p) PROVE Both
  <2>1. /\ UNCHANGED <<main, apply>> /\ upd'[p] = "grpc"
        /\ udp' # p /\ (udp' = udp \/ (udp = p /\ udp' = None))
        /\ \A q \in Proc \ {p} : upd'[q] = upd[q]
    BY <1>10, Sets DEF PreUpdateListeners, Goto, TypeOK, procVars
  <2> QED BY <1>1, <2>1, Sets DEF ListenerOpen, ListenerGiven, ListenerTaken
<1>11. ASSUME UNCHANGED <<main, apply, udp>>,
              \A q \in Proc : \/ upd'[q] = upd[q]
                              \/ upd[q] \notin ListenerOpen /\ upd'[q] \notin ListenerOpen
       PROVE  Both
  BY <1>1, <1>11, SameListener DEF ListenerOpen
<1>12. ASSUME NEW p \in Proc, PreUpdateGRPC(p) \/ ChildStarted(p) \/ ChildFailed(p) PROVE Both
  <2>1. /\ UNCHANGED <<main, apply, udp>>
        /\ \A q \in Proc : \/ upd'[q] = upd[q]
                           \/ upd[q] \notin ListenerOpen /\ upd'[q] \notin ListenerOpen
    <3>1. UNCHANGED <<main, apply, udp>> /\ upd[p] \notin ListenerOpen
      BY <1>12 DEF PreUpdateGRPC, ChildStarted, ChildFailed, procVars, ListenerOpen
    <3>2. PICK pc \in {"update", "done", "updated"} : Goto(p, pc)
      BY <1>12 DEF PreUpdateGRPC, ChildStarted, ChildFailed
    <3>3. \A q \in Proc : upd'[q] = IF q = p THEN pc ELSE upd[q]
      BY <3>2, Sets DEF Goto, TypeOK
    <3>4. pc \notin ListenerOpen
      BY <3>2 DEF ListenerOpen
    <3> QED BY <3>1, <3>3, <3>4
  <2> QED BY <1>11, <2>1
<1>13. ASSUME NEW u \in Updaters, MoveOld(u) \/ MoveNew(u) \/ UpdateToFails(u) PROVE Both
  <2>1. /\ UNCHANGED <<main, apply, udp>>
        /\ \A q \in Proc : \/ upd'[q] = upd[q]
                           \/ upd[q] \notin ListenerOpen /\ upd'[q] \notin ListenerOpen
    <3>1. UNCHANGED <<main, apply, udp>> /\ upd[u] \notin ListenerOpen
      BY <1>13 DEF MoveOld, MoveNew, UpdateToFails, procVars, ListenerOpen
    <3>2. PICK pc \in {"moved", "updated", "abort"} : Goto(u, pc)
      BY <1>13 DEF MoveOld, MoveNew, UpdateToFails
    <3>3. \A q \in Proc : upd'[q] = IF q = u THEN pc ELSE upd[q]
      BY <3>2, Sets DEF Goto, TypeOK
    <3>4. pc \notin ListenerOpen
      BY <3>2 DEF ListenerOpen
    <3> QED BY <3>1, <3>3, <3>4
  <2> QED BY <1>11, <2>1
<1>14. CASE CliUpdate \/ CliDone \/ Abort(Cli)
  <2>1. UNCHANGED <<main, apply, udp>> /\ \A q \in Proc : upd'[q] = upd[q]
    BY <1>14, Sets DEF CliUpdate, CliDone, Abort, Goto, TypeOK, procVars
  <2> QED BY <1>11, <2>1
<1>15. ASSUME NEW p \in Proc, Abort(p) PROVE Both
  BY <1>6, <1>15, Sets DEF Abort
<1>16. ASSUME NEW p \in Proc, Relaunch(p) PROVE Both
  <2>1. PICK c \in Proc : Start(c)
    BY <1>16 DEF Relaunch
  <2>2. /\ udp' = udp /\ main'[c] = "boot" /\ upd[p] \notin ListenerOpen /\ upd'[p] \notin ListenerOpen
        /\ \A q \in Proc : q # c => main'[q] = main[q] /\ apply'[q] = apply[q]
        /\ \A q \in Proc : q # p => upd'[q] = upd[q]
    BY <1>16, <2>1, Sets DEF Relaunch, Start, Goto, TypeOK, ListenerOpen
  <2> QED BY <1>1, <2>2, SameListener DEF ListenerOpen
<1> QED BY Sets, <1>3, <1>4, <1>5, <1>6, <1>7, <1>8, <1>9, <1>10, <1>12, <1>13, <1>14, <1>15, <1>16,
           <1>17, <1>18
        DEF Next, Boot, UpdateStep

\* A server that has started and applied its configuration has the socket and the
\* listeners that the old process gave up, unless its socket has been removed by
\* a client or an ApplyConfig has opened a listener behind PreUpdate's back.
THEOREM NewProcessHasAll == Spec => []HandedOver
<1> DEFINE HInv == OneServes /\ SocketKept /\ ListenerGiven /\ ListenerTaken
<1>1. Init => TypeOK /\ Busy /\ Placed /\ HInv
  <2>1. Init => \A p \in Proc : ~Alive(p) /\ main[p] = "exited" /\ upd[p] = "idle"
    BY Sets DEF Init, Alive
  <2> QED BY <2>1, InitInv DEF IInv, OneServes, SocketKept, ListenerGiven, ListenerTaken, ListenerOpen
<1>2. TypeOK /\ Busy /\ Placed /\ HInv /\ [Next]_vars => HInv'
  BY OneServesStep, SocketStep, ListenerStep
<1>3. HInv => HandedOver
  BY DEF SocketKept, ListenerTaken, HandedOver, SocketOpen
<1> HIDE DEF HInv
<1> QED BY <1>1, <1>2, <1>3, TypeStep, BusyStep, PlacedStep, PTL DEF Spec
=============================================================================
