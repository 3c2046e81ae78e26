-------------------------------- MODULE Daemon --------------------------------
(***************************************************************************)
(* The daemon supervisor (packages/server/src/daemon.ts): the commands     *)
(* start, stop, restart and status of remnote-mcp-server, each a process   *)
(* of its own, meet in a lock file, a pid file, a state file, two ports    *)
(* and the detached server they look after (packages/server/src/index.ts,  *)
(* shutdown.ts).                                                           *)
(*                                                                         *)
(*   - Each await is a step, and so is each file that is read or written.  *)
(*   - Timeouts may run out at any time.                                   *)
(*   - canBind occupies the port it tries until it closes it again.        *)
(*   - Process ids are given out in turn: a server does not get the id     *)
(*     some running command has seen, and other programs get those of old  *)
(*     servers only between commands, which take seconds.                  *)
(*   - On macOS with a LaunchAgent launchctl does the work; that, logs and *)
(*     servers started by hand are left out.                               *)
(***************************************************************************)
EXTENDS Naturals

CONSTANTS
    Commands,        \* invocations of the command line, each made once
    Pids,            \* process ids of servers
    Ops,             \* the commands users give
    Disturbances,    \* "kill" a command, "crash" a server, "reuse" a pid
    MaxDisturbances, \* bound: how many of them happen
    None

ASSUME DaemonAssumption ==
    /\ Ops \subseteq {"start", "stop", "restart", "status"}
    /\ MaxDisturbances \in Nat
    /\ Commands \cap Pids = {} /\ None \notin Commands \cup Pids

VARIABLES
    cmd,        \* the state of each command
    lock,       \* the lock file, and whose it is
    pidFile,
    stateFile,
    proc,       \* what runs under each pid
    port,       \* who listens on the HTTP and the WebSocket port
    left        \* disturbances that may still happen

vars == <<cmd, lock, pidFile, stateFile, proc, port, left>>

files == <<lock, pidFile, stateFile>>

Ports == {"http", "ws"}

(***************************************************************************)
(* "at" is where a command is suspended and "for" what for: its stop, its  *)
(* check before it spawns, its wait for the server, its failure, or a look *)
(* at the status. "named" says that the state it read has the server's     *)
(* entry point, "busy" that it found the HTTP port occupied.               *)
(* History: "alone" says that no other command was running meanwhile, and  *)
(* "blind" that it only goes on to the signal because it could not read    *)
(* the command line of the process.                                        *)
(***************************************************************************)
(* Under a pid there is a server, or some other program of the user:       *)
(* "other", or "alike" if its command line holds the base name of the      *)
(* server's entry point, which is index.js.                                *)
(***************************************************************************)
CommandStates ==
    [op : {"none", "start", "stop", "restart", "status"},
     for : {"none", "stop", "check", "wait", "fail", "look"},
     at : {"ready", "lock", "read", "readPid", "known", "clean", "cleanState",
           "http", "httpBound", "ws", "wsBound", "spawn", "writePid", "writeState",
           "poll", "signal", "wait", "release", "done", "killed"},
     pid : Pids \cup {None}, named : BOOLEAN, busy : BOOLEAN, ok : BOOLEAN,
     alone : BOOLEAN, blind : BOOLEAN]

Running(c) == cmd[c].at \notin {"ready", "done", "killed"}

Strangers == {"other", "alike"}

TypeOK ==
    /\ cmd \in [Commands -> CommandStates]
    /\ lock \in Commands \cup {None}
    /\ pidFile \in Pids \cup {None} /\ stateFile \in Pids \cup {None}
    /\ proc \in [Pids -> {"free", "starting", "halfway", "serving", "stopping"} \cup Strangers]
    /\ port \in [Ports -> Pids \cup Commands \cup {None}]
    /\ left \in Nat
    /\ lock # None => Running(lock) \/ cmd[lock].at = "killed"

Init ==
    /\ cmd = [c \in Commands |->
                [op |-> "none", for |-> "none", at |-> "ready", pid |-> None,
                 named |-> FALSE, busy |-> FALSE, ok |-> FALSE, alone |-> TRUE,
                 blind |-> FALSE]]
    /\ lock = None /\ pidFile = None /\ stateFile = None
    /\ proc = [p \in Pids |-> "free"]
    /\ port = [x \in Ports |-> None]
    /\ left = MaxDisturbances

-----------------------------------------------------------------------------
(* Helpers *)

Alive(p) == proc[p] # "free"

Up == {p \in Pids : proc[p] \in {"starting", "halfway", "serving"}}

Unused(p) == proc[p] = "free" /\ \A c \in Commands : Running(c) => cmd[c].pid # p

Freed(owner) == [x \in Ports |-> IF port[x] = owner THEN None ELSE port[x]]

Ends(p) == proc' = [proc EXCEPT ![p] = "free"] /\ port' = Freed(p)

\* The server handles SIGTERM once it has started: the first shuts it down,
\* the second ends it, and before that one does.
Terminates(p) ==
    IF proc[p] \in {"halfway", "serving"}
    THEN proc' = [proc EXCEPT ![p] = "stopping"] /\ UNCHANGED port
    ELSE Ends(p)

Goes(c, at) == cmd' = [cmd EXCEPT ![c].at = at]

\* What a process knew is gone with it.
Leaving(c, at, ok) ==
    cmd' = [cmd EXCEPT ![c].at = at, ![c].ok = ok, ![c].pid = None,
                       ![c].named = FALSE, ![c].busy = FALSE, ![c].blind = FALSE]

Finishes(c, ok) == Leaving(c, "done", ok)

Releases(c, ok) == cmd' = [cmd EXCEPT ![c].at = "release", ![c].ok = ok]

Disturbs(kind) == kind \in Disturbances /\ left > 0 /\ left' = left - 1

-----------------------------------------------------------------------------
(* All commands *)

Invoke(c) ==
    /\ cmd[c].at = "ready"
    /\ \E op \in Ops :
          cmd' = [d \in Commands |->
                    IF d = c
                    THEN [cmd[c] EXCEPT
                            !.op = op,
                            !.for = CASE op = "start"  -> "check"
                                      [] op = "status" -> "look"
                                      [] OTHER         -> "stop",
                            !.at = CASE op = "start"  -> "lock"
                                     [] op = "status" -> "http"
                                     [] OTHER         -> "read",
                            !.alone = \A e \in Commands : ~Running(e)]
                    ELSE [cmd[d] EXCEPT !.alone = @ /\ ~Running(d)]]
    /\ UNCHANGED <<files, proc, port, left>>

\* readDaemonState: the state file, or else the pid file.
ReadState(c) ==
    /\ cmd[c].at = "read"
    /\ cmd' = IF stateFile = None THEN [cmd EXCEPT ![c].at = "readPid"]
              ELSE [cmd EXCEPT ![c].at = "known", ![c].pid = stateFile, ![c].named = TRUE]
    /\ UNCHANGED <<files, proc, port, left>>

ReadPid(c) ==
    /\ cmd[c].at = "readPid"
    /\ cmd' = [cmd EXCEPT ![c].at = "known", ![c].pid = pidFile, ![c].named = FALSE]
    /\ UNCHANGED <<files, proc, port, left>>

FindsRunning(c) == cmd[c].at = "known" /\ cmd[c].pid # None /\ Alive(cmd[c].pid)

NotRunning(c) ==
    /\ cmd[c].at = "known" /\ ~FindsRunning(c)
    /\ Goes(c, "clean")
    /\ UNCHANGED <<files, proc, port, left>>

\* cleanupStaleState: one file after the other.
Clean(c) ==
    /\ cmd[c].at = "clean"
    /\ Goes(c, "cleanState")
    /\ pidFile' = None
    /\ UNCHANGED <<lock, stateFile, proc, port, left>>

CleanState(c) ==
    /\ cmd[c].at = "cleanState"
    /\ stateFile' = None
    /\ \/ cmd[c].for = "check" /\ Goes(c, "http")
       \/ cmd[c].for = "fail" /\ Releases(c, FALSE)
       \/ cmd[c].op = "stop" /\ Finishes(c, TRUE)
       \/ /\ cmd[c].op = "restart" /\ cmd[c].for = "stop"
          /\ cmd' = [cmd EXCEPT ![c].for = "check", ![c].at = "lock", ![c].pid = None]
    /\ UNCHANGED <<lock, pidFile, proc, port, left>>

-----------------------------------------------------------------------------
(* canBind, for the check before the spawn, the wait after it and status *)

ProbeBinds(c, x) ==
    /\ cmd[c].at = x /\ port[x] = None
    /\ port' = [port EXCEPT ![x] = c]
    /\ Goes(c, IF x = "http" THEN "httpBound" ELSE "wsBound")
    /\ UNCHANGED <<files, proc, left>>

\* The port was free.
HttpWasFree(c) ==
    /\ cmd[c].at = "httpBound"
    /\ port' = [port EXCEPT !["http"] = None]
    /\ cmd' = [cmd EXCEPT ![c].at = "ws", ![c].busy = FALSE]
    /\ UNCHANGED <<files, proc, left>>

WsWasFree(c) ==
    /\ cmd[c].at = "wsBound"
    /\ port' = [port EXCEPT !["ws"] = None]
    /\ \/ cmd[c].for = "check" /\ Goes(c, "spawn")
       \/ cmd[c].for = "wait" /\ Goes(c, "poll")
       \/ cmd[c].for = "look" /\ Finishes(c, TRUE)
    /\ UNCHANGED <<files, proc, left>>

\* The port is occupied.
HttpIsBusy(c) ==
    /\ cmd[c].at = "http" /\ port["http"] # None
    /\ \/ cmd[c].for = "check" /\ Releases(c, FALSE)
       \/ /\ cmd[c].for \in {"wait", "look"}
          /\ cmd' = [cmd EXCEPT ![c].at = "ws", ![c].busy = TRUE]
    /\ UNCHANGED <<files, proc, port, left>>

\* Faulty variant: one port is enough.
EitherBusy(c) == TRUE

BothBusy(c) == cmd[c].busy

WsIsBusy(c) ==
    /\ cmd[c].at = "ws" /\ port["ws"] # None
    /\ \/ cmd[c].for = "check" /\ Releases(c, FALSE)
       \/ cmd[c].for = "wait" /\ BothBusy(c) /\ Releases(c, TRUE)
       \/ cmd[c].for = "wait" /\ ~BothBusy(c) /\ Goes(c, "poll")
       \/ cmd[c].for = "look" /\ Finishes(c, TRUE)
    /\ UNCHANGED <<files, proc, port, left>>

-----------------------------------------------------------------------------
(* startDaemon *)

\* Faulty variant: the file is opened whether or not it is there.
AcquireLockShared(c) ==
    /\ cmd[c].at = "lock"
    /\ lock' = c
    /\ Goes(c, "read")
    /\ UNCHANGED <<pidFile, stateFile, proc, port, left>>

AcquireLock(c) ==
    /\ cmd[c].at = "lock" /\ lock = None
    /\ lock' = c
    /\ Goes(c, "read")
    /\ UNCHANGED <<pidFile, stateFile, proc, port, left>>

LockTaken(c) ==
    /\ cmd[c].at = "lock" /\ lock # None
    /\ Finishes(c, FALSE)
    /\ UNCHANGED <<files, proc, port, left>>

\* Faulty variant: cleaning comes before the test.
CleansFirst(c) ==
    /\ cmd[c].for = "check" /\ FindsRunning(c)
    /\ Releases(c, TRUE)
    /\ pidFile' = None /\ stateFile' = None
    /\ UNCHANGED <<lock, proc, port, left>>

AlreadyRunning(c) ==
    /\ cmd[c].for = "check" /\ FindsRunning(c)
    /\ Releases(c, TRUE)
    /\ UNCHANGED <<files, proc, port, left>>

Spawn(c) ==
    /\ cmd[c].at = "spawn"
    /\ \E p \in Pids :
          /\ Unused(p)
          /\ proc' = [proc EXCEPT ![p] = "starting"]
          /\ cmd' = [cmd EXCEPT ![c].at = "writePid", ![c].pid = p]
    /\ UNCHANGED <<files, port, left>>

SpawnFails(c) ==
    /\ cmd[c].at = "spawn"
    /\ Releases(c, FALSE)
    /\ UNCHANGED <<files, proc, port, left>>

WritePid(c) ==
    /\ cmd[c].at = "writePid"
    /\ pidFile' = cmd[c].pid
    /\ Goes(c, "writeState")
    /\ UNCHANGED <<lock, stateFile, proc, port, left>>

WriteState(c) ==
    /\ cmd[c].at = "writeState"
    /\ stateFile' = cmd[c].pid
    /\ cmd' = [cmd EXCEPT ![c].at = "poll", ![c].for = "wait"]
    /\ UNCHANGED <<lock, pidFile, proc, port, left>>

Poll(c) ==
    /\ cmd[c].at = "poll" /\ Alive(cmd[c].pid)
    /\ Goes(c, "http")
    /\ UNCHANGED <<files, proc, port, left>>

\* Faulty variant: the server is left alone.
NotTerminated(p) == UNCHANGED <<proc, port>>

GivenUp(p) == Terminates(p)

\* The server is gone, or the time is up.
PollFails(c) ==
    /\ cmd[c].at = "poll"
    /\ GivenUp(cmd[c].pid)
    /\ cmd' = [cmd EXCEPT ![c].at = "clean", ![c].for = "fail"]
    /\ UNCHANGED <<files, left>>

\* Faulty variant: a start that fails keeps the lock.
ReleaseOnSuccess(c) ==
    /\ cmd[c].at = "release"
    /\ lock' = IF cmd[c].ok THEN None ELSE lock
    /\ Finishes(c, cmd[c].ok)
    /\ UNCHANGED <<pidFile, stateFile, proc, port, left>>

Release(c) ==
    /\ cmd[c].at = "release"
    /\ lock' = None
    /\ Finishes(c, cmd[c].ok)
    /\ UNCHANGED <<pidFile, stateFile, proc, port, left>>

-----------------------------------------------------------------------------
(* stopDaemon *)

\* Faulty variant: nothing is asked.
LooksLikeAny(c, read) == TRUE

\* assertManagedProcess lets the stop go on unless the command line of what runs
\* under the pid could be read, the entry point is known, and neither its path
\* nor its base name is in that command line.
LooksManaged(c, read) == read /\ cmd[c].named => proc[cmd[c].pid] # "other"

\* ps tells the command line, or fails or is missing.
Inspect(c) ==
    /\ cmd[c].for = "stop" /\ FindsRunning(c)
    /\ \E read \in BOOLEAN :
          IF LooksManaged(c, read)
          THEN cmd' = [cmd EXCEPT ![c].at = "signal", ![c].blind = ~LooksManaged(c, TRUE)]
          ELSE Finishes(c, FALSE)
    /\ UNCHANGED <<files, proc, port, left>>

SignalStop(c) ==
    /\ cmd[c].at = "signal"
    /\ IF Alive(cmd[c].pid) THEN Terminates(cmd[c].pid) /\ Goes(c, "wait")
       ELSE UNCHANGED <<proc, port>> /\ Finishes(c, FALSE)
    /\ UNCHANGED <<files, left>>

HasStopped(c) ==
    /\ cmd[c].at = "wait" /\ ~Alive(cmd[c].pid)
    /\ Goes(c, "clean")
    /\ UNCHANGED <<files, proc, port, left>>

\* Faulty variant: what waiting came to is not looked at.
TimeoutIgnored(c) ==
    /\ cmd[c].at = "wait" /\ Alive(cmd[c].pid)
    /\ Goes(c, "clean")
    /\ UNCHANGED <<files, proc, port, left>>

\* The time is up: an error, or SIGKILL if --force was given.
StopTimesOut(c) ==
    /\ cmd[c].at = "wait" /\ Alive(cmd[c].pid)
    /\ \/ Finishes(c, FALSE) /\ UNCHANGED <<proc, port>>
       \/ Goes(c, "clean") /\ Ends(cmd[c].pid)
    /\ UNCHANGED <<files, left>>

-----------------------------------------------------------------------------
(* The server *)

\* main: the WebSocket server, then HTTP, then the signal handlers.
BindWs(p) ==
    /\ proc[p] = "starting" /\ port["ws"] # p
    /\ IF port["ws"] = None THEN port' = [port EXCEPT !["ws"] = p] /\ UNCHANGED proc
       ELSE Ends(p)
    /\ UNCHANGED <<files, cmd, left>>

\* listen reports a taken port to its callback and to 'error': start() fails,
\* or the callback comes first and the server goes on without HTTP.
BindHttp(p) ==
    /\ proc[p] = "starting" /\ port["ws"] = p
    /\ IF port["http"] = None
       THEN /\ port' = [port EXCEPT !["http"] = p]
            /\ proc' = [proc EXCEPT ![p] = "serving"]
       ELSE \/ Ends(p)
            \/ proc' = [proc EXCEPT ![p] = "halfway"] /\ UNCHANGED port
    /\ UNCHANGED <<files, cmd, left>>

StopHttp(p) ==
    /\ proc[p] = "stopping" /\ port["http"] = p
    /\ port' = [port EXCEPT !["http"] = None]
    /\ UNCHANGED <<files, cmd, proc, left>>

Exit(p) ==
    /\ proc[p] = "stopping"
    /\ Ends(p)
    /\ UNCHANGED <<files, cmd, left>>

-----------------------------------------------------------------------------
(* Disturbances *)

\* A command is killed, or the machine goes down on it: the lock file stays.
Kill(c) ==
    /\ Running(c) /\ Disturbs("kill")
    /\ Leaving(c, "killed", FALSE)
    /\ port' = Freed(c)
    /\ UNCHANGED <<files, proc>>

Crash(p) ==
    /\ p \in Up /\ Disturbs("crash")
    /\ Ends(p)
    /\ UNCHANGED <<files, cmd>>

\* Some other program gets the pid, one whose command line tells or one whose does not.
Reuse(p) ==
    /\ proc[p] = "free" /\ \A c \in Commands : ~Running(c)
    /\ Disturbs("reuse")
    /\ \E stranger \in Strangers : proc' = [proc EXCEPT ![p] = stranger]
    /\ UNCHANGED <<files, cmd, port>>

Next ==
    \/ \E c \in Commands :
          \/ Invoke(c) \/ ReadState(c) \/ ReadPid(c) \/ NotRunning(c)
          \/ Clean(c) \/ CleanState(c)
          \/ \E x \in Ports : ProbeBinds(c, x)
          \/ HttpWasFree(c) \/ WsWasFree(c) \/ HttpIsBusy(c) \/ WsIsBusy(c)
          \/ AcquireLock(c) \/ LockTaken(c) \/ AlreadyRunning(c)
          \/ Spawn(c) \/ SpawnFails(c) \/ WritePid(c) \/ WriteState(c)
          \/ Poll(c) \/ PollFails(c) \/ Release(c)
          \/ Inspect(c) \/ SignalStop(c) \/ HasStopped(c) \/ StopTimesOut(c)
          \/ Kill(c)
    \/ \E p \in Pids :
          \/ BindWs(p) \/ BindHttp(p) \/ StopHttp(p) \/ Exit(p)
          \/ Crash(p) \/ Reuse(p)

Spec == Init /\ [][Next]_vars

-----------------------------------------------------------------------------
(* Properties *)

NoStatus == \A c \in Commands : cmd[c].op # "status"

AllAlone == \A c \in Commands : cmd[c].alone

\* However starts, stops and restarts overlap, fail and are killed, there is
\* one server at most that nobody has told to stop. (The ports status tries
\* look occupied to a start that waits.)
OneDaemon == NoStatus => \A p, q \in Up : p = q

\* Where no status command interferes, a start that has waited reports success
\* only for a server that serves, or did and was ended since.
StartedServes ==
    [][\A c \in Commands :
          cmd[c].for = "wait" /\ cmd[c].at # "release" /\ cmd'[c].at = "release" /\ NoStatus
             => proc[cmd[c].pid] \notin {"starting", "halfway"} \cup Strangers]_vars

\* A start that fails after it spawned leaves neither the server nor its record.
FailedLeavesNothing ==
    [][\A c \in Commands :
          cmd[c].for = "fail" /\ cmd[c].at = "release" /\ cmd'[c].at = "done"
             => cmd[c].pid \notin Up \cup {pidFile, stateFile}]_vars

\* While commands come one after the other and none was killed with the lock,
\* the server that runs is the one on record.
RecordedAtRest ==
    AllAlone /\ lock = None /\ (\A c \in Commands : ~Running(c))
       => \A p \in Up : stateFile = p /\ pidFile = p

StopSucceeds(c) == cmd[c].op = "stop" /\ Running(c) /\ cmd'[c].at = "done" /\ cmd'[c].ok

\* When a stop succeeds, the server it found on record has ended, and if commands
\* come one after the other there is no other.
StopStops ==
    [][\A c \in Commands : StopSucceeds(c) =>
          /\ cmd[c].pid # None => ~Alive(cmd[c].pid)
          /\ AllAlone => Up = {} \/ lock # None]_vars

Overlapping == \E c \in Commands : cmd[c].at = "killed" \/ ~cmd[c].alone

Blindly(p) == \E c \in Commands : Running(c) /\ cmd[c].pid = p /\ cmd[c].blind

\* Unless commands overlap or are killed, a program that has got the pid of a
\* server and whose command line does not hold the name of the entry point is
\* signalled only by a stop that could not read that command line.
OthersAreSpared ==
    [][\A p \in Pids : proc[p] = "other" /\ proc'[p] # "other"
          => Overlapping \/ Blindly(p)]_vars
=============================================================================
