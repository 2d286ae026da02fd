------------------------------ MODULE Updater -------------------------------
(***************************************************************************)
(* The updater (updater.go) with what it hands over from one process to    *)
(* the next: the program's file, the RPC socket (grpc.go, config.go) and   *)
(* the listeners' UDP address, between the server processes (server_cmd.go)*)
(* and the update command (update_cmd.go).                                 *)
(*                                                                         *)
(* A server's update loop closes the listeners and the gRPC server, has    *)
(* the program replaced, starts it, and exits once the child has said that *)
(* the service is started.  Its main goroutine runs on meanwhile.          *)
(***************************************************************************)
EXTENDS Integers, FiniteSets

CONSTANTS
  Proc,       \* server processes, as many as live at one time
  Cli,        \* the update command
  None,       \* nobody, nothing
  MaxVersion, \* bound on the releases
  MaxEvents   \* bound on signals, kills and client commands

ASSUME UpdaterAssumption ==
  /\ {Cli, "stale"} \cap Proc = {} /\ None \notin Proc \cup {Cli, "stale"}
  /\ MaxVersion \in Nat \ {0} /\ MaxEvents \in Nat

Version == 1..MaxVersion
Updaters == Proc \cup {Cli}

VARIABLES
  exe,      \* the version in the program's file, 0 if there is none
  old,      \* the version in its .old file
  latest,   \* the latest release
  broken,   \* the releases that do not start
  quiet,    \* the configured log level is above info
  sock,     \* the RPC socket's file: a listening process, "stale" or None
  udp,      \* the process that has the listener's address
  main,     \* each server's main goroutine
  ver,      \* its version
  apply,    \* its ApplyConfig
  upd,      \* each updater's place in CheckForUpdate
  target,   \* the release it has found
  child,    \* the process it has started
  client,   \* a client command in ApplyFilters
  events,   \* signals, kills and client commands so far
  seen      \* history: what has happened that explains a loss, see Seen

vars ==
  <<exe, old, latest, broken, quiet, sock, udp, main, ver, apply, upd, target, child, client, events,
    seen>>
files == <<exe, old>>
world == <<latest, broken, quiet>>
procVars == <<main, ver, apply>>

\* "left": an updater has been ended between its renames, or before it removed
\*   the .old file.
\* "two": two updaters have been at it at the same time.
\* "late": an ApplyConfig has opened a listener after PreUpdate closed them.
\* "snatched": ApplyFilters has removed the socket of a listening process.
Seen == {"left", "two", "late", "snatched"}

Alive(p) == main[p] # "exited"
Renaming(u) == upd[u] \in {"update", "moved", "updated", "wait", "done", "abort"}

TypeOK ==
  /\ exe \in {0} \cup Version /\ old \in {0} \cup Version
  /\ latest \in Version /\ broken \subseteq Version /\ quiet \in BOOLEAN
  /\ sock \in Proc \cup {"stale", None} /\ udp \in Proc \cup {None}
  /\ main \in [Proc -> {"boot", "remove", "bind", "serve", "quit", "exited"}]
  /\ ver \in [Proc -> Version]
  /\ apply \in [Proc -> {"none", "filter", "running", "done"}]
  /\ upd \in [Updaters -> {"idle", "listeners", "hung", "grpc", "update", "moved", "updated", "wait",
                           "done", "abort"}]
  /\ target \in [Updaters -> Version]
  /\ child \in [Updaters -> Proc \cup {None}]
  /\ client \in BOOLEAN
  /\ events \in 0..MaxEvents
  /\ seen \subseteq Seen
  \* goroutines, sockets and addresses end with their process
  /\ \A p \in Proc : ~Alive(p) => upd[p] = "idle" /\ udp # p /\ sock # p

Init ==
  /\ exe = 1 /\ old = 0
  /\ latest = 1 /\ broken \in SUBSET (Version \ {1}) /\ quiet \in BOOLEAN
  /\ sock = None /\ udp = None
  /\ main = [p \in Proc |-> "exited"]
  /\ ver = [p \in Proc |-> 1]
  /\ apply = [p \in Proc |-> "none"]
  /\ upd = [u \in Updaters |-> "idle"]
  /\ target = [u \in Updaters |-> 1]
  /\ child = [u \in Updaters |-> None]
  /\ client = FALSE
  /\ events = 0
  /\ seen = {}

Count == events < MaxEvents /\ events' = events + 1

-----------------------------------------------------------------------------
(* A server process.                                                         *)

\* Started by the service manager, which has one at a time, or by an updater.
Start(p) ==
  /\ main' = [main EXCEPT ![p] = "boot"]
  /\ ver' = [ver EXCEPT ![p] = exe]
  /\ apply' = [apply EXCEPT ![p] = "none"]

ServiceStart(p) ==
  /\ \A q \in Proc : ~Alive(q)
  /\ exe # 0
  /\ Start(p)
  /\ UNCHANGED <<files, world, sock, udp, upd, target, child, client, events, seen>>

\* What a process that ends has said stays for an updater that reads its output.
Silence(p) ==
  apply' = IF \E q \in Proc : upd[q] = "wait" /\ child[q] = p THEN apply
                                                             ELSE [apply EXCEPT ![p] = "none"]

\* The process p ends: what it has is given back, and its socket's file is
\* left behind unless the gRPC server has been closed.
End(p) ==
  /\ main' = [main EXCEPT ![p] = "exited"]
  /\ udp' = IF udp = p THEN None ELSE udp
  /\ sock' = IF sock = p THEN "stale" ELSE sock
  /\ upd' = [upd EXCEPT ![p] = "idle"]
  /\ target' = [target EXCEPT ![p] = 1]
  /\ child' = [child EXCEPT ![p] = None]
  /\ ver' = [ver EXCEPT ![p] = 1]
  /\ Silence(p)

\* ApplyFilters: a socket that nobody listens on is removed, in a second step.
ApplyFilters(p) ==
  /\ main[p] = "boot" /\ ver[p] \notin broken
  /\ main' = [main EXCEPT ![p] = IF sock = "stale" THEN "remove" ELSE "bind"]
  /\ UNCHANGED <<files, world, sock, udp, ver, apply, upd, target, child, client, events, seen>>

\* The socket's file goes, whosever it is: owner believes it is his.
Unlink(owner) ==
  /\ sock' = None
  /\ seen' = IF sock \in Proc \ {owner} THEN seen \cup {"snatched"} ELSE seen

RemoveSocket(p) ==
  /\ main[p] = "remove"
  /\ main' = [main EXCEPT ![p] = "bind"]
  /\ Unlink(None)
  /\ UNCHANGED <<files, world, udp, ver, apply, upd, target, child, client, events>>

\* NewGRPCServer, and then ApplyConfig in the background: the service is
\* started.
Serve(p) ==
  /\ main[p] = "bind" /\ sock = None
  /\ sock' = p
  /\ main' = [main EXCEPT ![p] = "serve"]
  /\ apply' = [apply EXCEPT ![p] = "running"]
  /\ UNCHANGED <<files, world, udp, ver, upd, target, child, client, events, seen>>

\* The socket's file exists, or the program does not work: Run returns an error.
FailToServe(p) ==
  /\ \/ main[p] = "bind" /\ sock # None
     \/ main[p] = "boot" /\ ver[p] \in broken
  /\ End(p)
  /\ UNCHANGED <<files, world, client, events, seen>>

\* ApplyConfig opens the listener, if the address is free.
ApplyConfig(p) ==
  /\ main[p] \in {"serve", "quit"} /\ apply[p] = "running"
  /\ apply' = [apply EXCEPT ![p] = "done"]
  /\ udp' = IF udp = None THEN p ELSE udp
  /\ seen' = IF udp = None /\ upd[p] \notin {"idle", "listeners", "hung"} THEN seen \cup {"late"} ELSE seen
  /\ UNCHANGED <<files, world, sock, main, ver, upd, target, child, client, events>>

\* SIGHUP: the configuration is read, with ApplyFilters, and applied.
Reload(p) ==
  /\ main[p] = "serve" /\ apply[p] = "done"
  /\ Count
  /\ apply' = [apply EXCEPT ![p] = IF sock = "stale" THEN "filter" ELSE "running"]
  /\ UNCHANGED <<files, world, sock, udp, main, ver, upd, target, child, client, seen>>

ReloadRemove(p) ==
  /\ apply[p] = "filter" /\ Alive(p)
  /\ apply' = [apply EXCEPT ![p] = "running"]
  /\ Unlink(None)
  /\ UNCHANGED <<files, world, udp, main, ver, upd, target, child, client, events>>

\* SIGTERM: the listeners are closed, if no Close hangs (see Hang).
Quit(p) ==
  /\ main[p] = "serve" /\ apply[p] # "filter"
  /\ Count
  /\ main' = [main EXCEPT ![p] = "quit"]
  /\ udp' \in {udp, IF udp = p THEN None ELSE udp}
  /\ UNCHANGED <<files, world, sock, ver, apply, upd, target, child, client, seen>>

\* An updater that ends with its process leaves the files as they are.
Leave(p) == seen' = IF Renaming(p) /\ old # 0 THEN seen \cup {"left"} ELSE seen

\* The listeners are closed, and the gRPC server unless PreUpdate has.
Exit(p) ==
  /\ main[p] = "quit"
  /\ main' = [main EXCEPT ![p] = "exited"]
  /\ udp' = IF udp = p THEN None ELSE udp
  /\ IF Renaming(p) THEN UNCHANGED sock /\ Leave(p) ELSE Unlink(p)
  /\ upd' = [upd EXCEPT ![p] = "idle"]
  /\ target' = [target EXCEPT ![p] = 1]
  /\ child' = [child EXCEPT ![p] = None]
  /\ ver' = [ver EXCEPT ![p] = 1]
  /\ Silence(p)
  /\ UNCHANGED <<files, world, client, events>>

\* SIGKILL, a panic (see Lifecycle), the parent's timer while a child is starting,
\* or SIGPIPE when a child logs a line after the parent that read its output
\* has exited.
Kill(p) ==
  /\ Alive(p)
  /\ Count
  /\ End(p)
  /\ Leave(p)
  /\ UNCHANGED <<files, world, client>>

-----------------------------------------------------------------------------
(* A client command reads the configuration too, and so comes to ApplyFilters. *)

ClientFilter ==
  /\ ~client /\ sock = "stale"
  /\ Count
  /\ client' = TRUE
  /\ UNCHANGED <<files, world, sock, udp, procVars, upd, target, child, seen>>

ClientRemove ==
  /\ client
  /\ client' = FALSE
  /\ Unlink(None)
  /\ UNCHANGED <<files, world, udp, procVars, upd, target, child, events>>

-----------------------------------------------------------------------------
(* Update.                                                                   *)

Release ==
  /\ latest < MaxVersion
  /\ latest' = latest + 1
  /\ UNCHANGED <<files, broken, quiet, sock, udp, procVars, upd, target, child, client, events, seen>>

Goto(u, pc) == upd' = [upd EXCEPT ![u] = pc]

\* The update loop of a server finds a later version than its own.  A process
\* that an updater has started (UPDATER_UPDATE) looks for one a day later, when
\* the updater, that waits for five minutes at most, is done with it.
CheckForUpdate(p) ==
  /\ main[p] \in {"serve", "quit"} /\ upd[p] = "idle"
  /\ ver[p] < latest
  /\ \A q \in Proc : upd[q] = "wait" => child[q] # p
  /\ Goto(p, "listeners")
  /\ target' = [target EXCEPT ![p] = latest]
  /\ UNCHANGED <<files, world, sock, udp, procVars, child, client, events, seen>>

\* Mutant: PreUpdate closes the gRPC server only.
PreUpdateKeepsListeners(p) ==
  /\ upd[p] = "listeners"
  /\ Goto(p, "grpc")
  /\ UNCHANGED <<files, world, sock, udp, procVars, target, child, client, events, seen>>

\* The Close of the listener may never return: Lifecycle says how (Stuck), and
\* Arp (Wedged), before the address is given back or after.
Hang(p) ==
  /\ upd[p] = "listeners" /\ udp = p
  /\ udp' \in {udp, None}
  /\ Goto(p, "hung")
  /\ UNCHANGED <<files, world, sock, procVars, target, child, client, events, seen>>

\* PreUpdate closes the listeners there are, without app.Net,
PreUpdateListeners(p) ==
  /\ upd[p] = "listeners"
  /\ udp' = IF udp = p THEN None ELSE udp
  /\ Goto(p, "grpc")
  /\ UNCHANGED <<files, world, sock, procVars, target, child, client, events, seen>>

\* Mutant: PreUpdate leaves the gRPC server to the exit.
PreUpdateKeepsSocket(p) ==
  /\ upd[p] = "grpc"
  /\ Goto(p, "update")
  /\ UNCHANGED <<files, world, sock, udp, procVars, target, child, client, events, seen>>

\* and the gRPC server, with the socket's file.
PreUpdateGRPC(p) ==
  /\ upd[p] = "grpc"
  /\ Unlink(p)
  /\ Goto(p, "update")
  /\ UNCHANGED <<files, world, udp, procVars, target, child, client, events>>

\* The command has nothing to close; its own version is the file's.
CliUpdate ==
  /\ upd[Cli] = "idle" /\ exe # 0 /\ exe < latest
  /\ Count
  /\ Goto(Cli, "update")
  /\ target' = [target EXCEPT ![Cli] = latest]
  /\ UNCHANGED <<files, world, sock, udp, procVars, child, client, seen>>

\* History: another updater is at the files.
Meet(u) ==
  seen' = IF \E v \in Updaters \ {u} : Renaming(v) THEN seen \cup {"two"} ELSE seen

\* UpdateTo (go-selfupdate): the new program is fetched and checked, an .old
\* file removed, the program renamed to it,
MoveOld(u) ==
  /\ upd[u] = "update" /\ exe # 0
  /\ old' = exe /\ exe' = 0
  /\ Goto(u, "moved")
  /\ Meet(u)
  /\ UNCHANGED <<world, sock, udp, procVars, target, child, client, events>>

\* The release found is of no use after this, and not kept.
Forget(u) == target' = [target EXCEPT ![u] = 1]

\* and the new program to its name.
MoveNew(u) ==
  /\ upd[u] = "moved"
  /\ exe' = target[u] /\ old' = old
  /\ Goto(u, "updated")
  /\ Forget(u)
  /\ UNCHANGED <<world, sock, udp, procVars, child, client, events, seen>>

RollBack == exe' = (IF old # 0 THEN old ELSE exe) /\ old' = 0

\* The download fails, or the first rename; or the second, which is undone,
\* if that does not fail in its turn.
UpdateToFails(u) ==
  /\ upd[u] \in {"update", "moved"}
  /\ UNCHANGED files \/ (upd[u] = "moved" /\ RollBack)
  /\ Goto(u, "abort")
  /\ Forget(u)
  /\ UNCHANGED <<world, sock, udp, procVars, child, client, events, seen>>

\* Mutant: the rollback only removes the .old file.
AbortRemoves(u) ==
  /\ upd[u] = "abort"
  /\ old' = 0 /\ exe' = exe
  /\ IF u = Cli THEN Goto(u, "idle") /\ UNCHANGED <<sock, udp, procVars, target, child>> ELSE End(u)
  /\ Meet(u)
  /\ UNCHANGED <<world, client, events>>

\* An .old file takes the program's name.  AbortUpdate makes a server's gRPC
\* server again, which fails because app.grpcServer is still set, and ends
\* the process; the command ends too.
Abort(u) ==
  /\ upd[u] = "abort"
  /\ RollBack
  /\ IF u = Cli THEN Goto(u, "idle") /\ UNCHANGED <<sock, udp, procVars, target, child>> ELSE End(u)
  /\ Meet(u)
  /\ UNCHANGED <<world, client, events>>

\* The command removes the .old file and is done.
CliDone ==
  /\ upd[Cli] = "updated"
  /\ old' = 0
  /\ Goto(Cli, "idle")
  /\ UNCHANGED <<exe, world, sock, udp, procVars, target, child, client, events, seen>>

-----------------------------------------------------------------------------
(* The new process.                                                          *)

\* Mutant: the child is started whether the program is there or not.
RelaunchBlindly(p) ==
  /\ upd[p] = "updated" /\ p \in Proc
  /\ \E c \in Proc :
       /\ ~Alive(c)
       /\ Start(c)
       /\ child' = [child EXCEPT ![p] = c]
  /\ Goto(p, "wait")
  /\ UNCHANGED <<files, world, sock, udp, target, client, events, seen>>

\* Start fails without a program.  Like every failure from here on it goes to
\* abortUpdate with an err that is declared inside, so that the outer one is
\* still nil and the new process is started again.
Relaunch(p) ==
  /\ upd[p] = "updated" /\ exe # 0
  /\ \E c \in Proc :
       /\ ~Alive(c)
       /\ Start(c)
       /\ child' = [child EXCEPT ![p] = c]
  /\ Goto(p, "wait")
  /\ UNCHANGED <<files, world, sock, udp, target, client, events, seen>>

\* "Service started." in the child's output, which may have ended since.  The
\* line is of level info.
ChildStarted(p) ==
  /\ upd[p] = "wait" /\ apply[child[p]] # "none" /\ ~quiet
  /\ Goto(p, "done")
  /\ UNCHANGED <<files, world, sock, udp, procVars, target, child, client, events, seen>>

\* Without the line the parent's timer ends the child, that may well serve.
ChildTimeout(p) ==
  /\ upd[p] = "wait" /\ quiet /\ Alive(child[p])
  /\ End(child[p])
  /\ Leave(child[p])
  /\ UNCHANGED <<files, world, client, events>>

ChildFailed(p) ==
  /\ upd[p] = "wait" /\ main[child[p]] = "exited"
  /\ Goto(p, "updated")
  /\ UNCHANGED <<files, world, sock, udp, procVars, target, child, client, events, seen>>

\* The .old file is removed, and the old process exits.
HandOver(p) ==
  /\ upd[p] = "done"
  /\ old' = 0
  /\ End(p)
  /\ UNCHANGED <<exe, world, client, events, seen>>

-----------------------------------------------------------------------------

Boot(p) == ApplyFilters(p) \/ RemoveSocket(p) \/ Serve(p) \/ FailToServe(p)
UpdateStep(p) ==
  \/ PreUpdateListeners(p) \/ PreUpdateGRPC(p) \/ MoveOld(p) \/ MoveNew(p) \/ UpdateToFails(p)
  \/ Abort(p) \/ Relaunch(p) \/ ChildStarted(p) \/ ChildTimeout(p) \/ ChildFailed(p) \/ HandOver(p)

Next ==
  \/ \E p \in Proc :
       \/ ServiceStart(p) \/ Boot(p) \/ ApplyConfig(p) \/ Reload(p) \/ ReloadRemove(p) \/ Quit(p) \/ Exit(p)
       \/ Kill(p) \/ CheckForUpdate(p) \/ Hang(p) \/ UpdateStep(p)
  \/ ClientFilter \/ ClientRemove
  \/ Release
  \/ CliUpdate \/ MoveOld(Cli) \/ MoveNew(Cli) \/ UpdateToFails(Cli) \/ Abort(Cli) \/ CliDone

Spec == Init /\ [][Next]_vars

\* A process that runs goes on, but for the shutdown, where a Close may hang;
\* releases, signals, kills, commands and the service manager owe nothing.
Fairness ==
  \A p \in Proc : WF_vars(Boot(p)) /\ WF_vars(ApplyConfig(p) \/ ReloadRemove(p)) /\ SF_vars(UpdateStep(p))

FairSpec == Spec /\ Fairness

-----------------------------------------------------------------------------
(* Properties.                                                               *)

\* There is a program to start again: its file or its .old file is there, and
\* the file itself unless an updater is between the two renames or has been
\* ended there; and it is never older than a server that runs, unless an
\* updater that was ended has left an .old file for the next one to roll back
\* to.  Two updaters at once (a server's and the command's) can lose it all.
ProgramKept ==
  "two" \notin seen =>
    /\ exe # 0 \/ old # 0
    /\ exe = 0 => "left" \in seen \/ \E u \in Updaters : upd[u] \in {"moved", "abort"}
    /\ \A p \in Proc : Alive(p) /\ exe # 0 => exe >= ver[p] \/ "left" \in seen

\* A server that has started and applied its configuration, and is not at an
\* update itself, can be reached by its socket and has the listeners that the
\* old process gave up, unless a client's ApplyFilters has removed the socket
\* or an ApplyConfig has opened a listener behind PreUpdate's back.
HandedOver ==
  \A p \in Proc : main[p] = "serve" /\ upd[p] = "idle" =>
    /\ sock = p \/ "snatched" \in seen
    /\ apply[p] = "done" => udp = p \/ "late" \in seen

\* An update that has begun ends the process that makes it: by the exit after
\* the hand-over, or by AbortUpdate.  What keeps it for ever is a Close of
\* PreUpdate that hangs, or a new program that is started again and again: it
\* does not come to serve, since it does not work, is not there or finds another's
\* socket, or serves but does not say so, its log level being above info, and
\* is ended after five minutes.
UpdateEnds ==
  \A p \in Proc : upd[p] # "idle" ~>
    (upd[p] \in {"idle", "hung"} \/ exe \in broken \cup {0} \/ "snatched" \in seen \/ quiet)
=============================================================================
