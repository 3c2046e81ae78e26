----------------------------- MODULE Daemon_proofs -----------------------------
(***************************************************************************)
(* Theorems about the daemon commands, for any commands, process ids and   *)
(* disturbances: there is one server at most, and what starts, stops and   *)
(* commands that come one after the other leave behind.                    *)
(***************************************************************************)
EXTENDS Daemon, TLAPS

\* The parts of TypeOK that say what the variables range over.
Typed ==
    /\ cmd \in [Commands -> CommandStates]
    /\ lock \in Commands \cup {None}
    /\ pidFile \in Pids \cup {None} /\ stateFile \in Pids \cup {None}
    /\ proc \in [Pids -> {"free", "starting", "halfway", "serving", "stopping"} \cup Strangers]
    /\ port \in [Ports -> Pids \cup Commands \cup {None}]
    /\ left \in Nat

\* A start that has the lock.
Holding(c) ==
    /\ Running(c) /\ cmd[c].at # "lock"
    /\ cmd[c].for \in {"check", "wait", "fail"}

HasSpawned(c) ==
    cmd[c].for \in {"wait", "fail"} \/ cmd[c].at \in {"writePid", "writeState"}

\* What each place in a command is for.
PlaceOK(c) ==
    /\ cmd[c].at = "ready" => cmd[c].op = "none" /\ ~cmd[c].busy
    /\ cmd[c].at \in {"http", "httpBound", "ws", "wsBound"}
          => cmd[c].for \in {"check", "wait", "look"}
    /\ cmd[c].at \in {"spawn", "writePid", "writeState"} => cmd[c].for = "check"
    /\ cmd[c].at = "poll" => cmd[c].for = "wait"
    /\ cmd[c].at = "release" => cmd[c].for \in {"check", "wait", "fail"}
    /\ cmd[c].at \in {"signal", "wait"} => cmd[c].for = "stop"
    /\ cmd[c].at = "lock" => cmd[c].for = "check"
    /\ cmd[c].for = "look" => cmd[c].op = "status"
    /\ cmd[c].op = "stop" => cmd[c].for = "stop"
    /\ cmd[c].for \in {"wait", "fail"}
          => cmd[c].at \notin {"ready", "read", "readPid", "known"}
    /\ Running(c) /\ HasSpawned(c) => cmd[c].pid \in Pids
    /\ cmd[c].busy => cmd[c].for \in {"wait", "fail", "look"}
    /\ cmd[c].for = "wait" /\ cmd[c].at = "release" => cmd[c].busy

ControlOK == \A c \in Commands : PlaceOK(c)

LockIsHeld ==
    /\ \A c \in Commands : Holding(c) => lock = c
    /\ lock # None => Holding(lock) \/ cmd[lock].at = "killed"

HttpIsOwned ==
    /\ \A p \in Pids : proc[p] = "serving" => port["http"] = p
    /\ \A p \in Pids : port["http"] = p => proc[p] \in {"serving", "stopping"}
    /\ \A c \in Commands : port["http"] = c <=> cmd[c].at = "httpBound"

\* From the check on, nobody gets the HTTP port but the start and its server.
HttpIsKept ==
    \A c \in Commands :
       /\ Holding(c) /\ cmd[c].for = "check" /\ cmd[c].at \in {"ws", "wsBound", "spawn"}
             => port["http"] = None
       /\ Holding(c) /\ HasSpawned(c) => port["http"] \in {None, c, cmd[c].pid}

Hatching == {p \in Pids : proc[p] \in {"starting", "halfway"}}

\* A server that has not started is the one of the start with the lock, until
\* that start finds it serving or gives it up.
HatchingIsHeld ==
    /\ \A p \in Hatching :
          /\ lock # None
          /\ cmd[lock].at # "killed" => HasSpawned(lock) /\ cmd[lock].pid = p
    /\ \A c \in Commands :
          Holding(c) /\ (cmd[c].for = "fail" \/ (cmd[c].for = "wait" /\ cmd[c].busy))
             => cmd[c].pid \notin Hatching

DaemonInv ==
    /\ Typed /\ ControlOK /\ LockIsHeld /\ HttpIsOwned
    /\ NoStatus => HttpIsKept /\ HatchingIsHeld
    /\ OneDaemon

-----------------------------------------------------------------------------
\* Command d is where it was.
Stays(d) ==
    /\ cmd'[d].op = cmd[d].op /\ cmd'[d].for = cmd[d].for /\ cmd'[d].at = cmd[d].at
    /\ cmd'[d].pid = cmd[d].pid /\ cmd'[d].busy = cmd[d].busy

\* Command c begins.
Begins(c) ==
    /\ cmd'[c].pid = cmd[c].pid /\ cmd'[c].busy = cmd[c].busy
    /\ \/ cmd'[c].op = "start" /\ cmd'[c].for = "check" /\ cmd'[c].at = "lock"
       \/ cmd'[c].op = "status" /\ cmd'[c].for = "look" /\ cmd'[c].at = "http"
       \/ cmd'[c].op = "stop" /\ cmd'[c].for = "stop" /\ cmd'[c].at = "read"
       \/ cmd'[c].op = "restart" /\ cmd'[c].for = "stop" /\ cmd'[c].at = "read"

\* What giving a command does to the states of all of them.
LEMMA Invoked ==
  ASSUME Typed, NEW c \in Commands, Invoke(c)
  PROVE  /\ cmd' \in [Commands -> CommandStates]
         /\ Begins(c) /\ \A d \in Commands \ {c} : Stays(d)
<1>1. PICK op \in Ops :
         cmd' = [d \in Commands |->
                   IF d = c
                   THEN [cmd[c] EXCEPT
                           !.op = op,
                           !.for = CASE op = "start"  -> "check"
                                     [] op = "status" -> "look"
                                     [] OTHER         -> "stop",
                           !.at = CASE op = "start"  -> "lock"
                                    [] op = "status" -> "http"
                                    [] OTHER         -> "read",
                           !.alone = \A e \in Commands : ~Running(e)]
                   ELSE [cmd[d] EXCEPT !.alone = @ /\ ~Running(d)]]
  BY DEF Invoke
<1>2. \A d \in Commands : cmd[d] \in CommandStates
  BY DEF Typed
<1>3. op \in {"start", "stop", "restart", "status"}
  BY DaemonAssumption DEF DaemonAssumption
<1>4. ASSUME NEW d \in Commands \ {c} PROVE Stays(d) /\ cmd'[d] \in CommandStates
  <2>1. cmd'[d] = [cmd[d] EXCEPT !.alone = @ /\ ~Running(d)]
    BY <1>1
  <2> QED
    BY ZenonT(30), <1>2, <2>1 DEF Stays, CommandStates
<1>5. CASE op = "start"
  <2>1. cmd'[c] = [cmd[c] EXCEPT !.op = "start", !.for = "check", !.at = "lock",
                                 !.alone = \A e \in Commands : ~Running(e)]
    BY <1>1, <1>5
  <2>2. Begins(c) /\ cmd'[c] \in CommandStates
    BY <1>2, <2>1 DEF Begins, CommandStates
  <2> QED
    BY <1>1, <1>4, <2>2
<1>6. CASE op = "status"
  <2>1. cmd'[c] = [cmd[c] EXCEPT !.op = "status", !.for = "look", !.at = "http",
                                 !.alone = \A e \in Commands : ~Running(e)]
    BY <1>1, <1>6
  <2>2. Begins(c) /\ cmd'[c] \in CommandStates
    BY <1>2, <2>1 DEF Begins, CommandStates
  <2> QED
    BY <1>1, <1>4, <2>2
<1>7. CASE op = "stop"
  <2>1. cmd'[c] = [cmd[c] EXCEPT !.op = "stop", !.for = "stop", !.at = "read",
                                 !.alone = \A e \in Commands : ~Running(e)]
    BY <1>1, <1>7
  <2>2. Begins(c) /\ cmd'[c] \in CommandStates
    BY <1>2, <2>1 DEF Begins, CommandStates
  <2> QED
    BY <1>1, <1>4, <2>2
<1>8. CASE op = "restart"
  <2>1. cmd'[c] = [cmd[c] EXCEPT !.op = "restart", !.for = "stop", !.at = "read",
                                 !.alone = \A e \in Commands : ~Running(e)]
    BY <1>1, <1>8
  <2>2. Begins(c) /\ cmd'[c] \in CommandStates
    BY <1>2, <2>1 DEF Begins, CommandStates
  <2> QED
    BY <1>1, <1>4, <2>2
<1> QED
  BY <1>3, <1>5, <1>6, <1>7, <1>8

\* Command c has ended at a place, and what it knew is gone.
Gone(c, at) ==
    /\ cmd'[c].op = cmd[c].op /\ cmd'[c].for = cmd[c].for /\ cmd'[c].alone = cmd[c].alone
    /\ cmd'[c].at = at /\ cmd'[c].pid = None /\ ~cmd'[c].busy

OthersStay(c) == \A d \in Commands \ {c} : cmd'[d] = cmd[d]

LEMMA LeavingFields ==
  ASSUME Typed, NEW c \in Commands, NEW at \in {"done", "killed"}, NEW ok \in BOOLEAN,
         Leaving(c, at, ok)
  PROVE  cmd' \in [Commands -> CommandStates] /\ Gone(c, at) /\ OthersStay(c)
<1> DEFINE r == [cmd[c] EXCEPT !.at = at, !.ok = ok, !.pid = None, !.named = FALSE,
                               !.busy = FALSE, !.blind = FALSE]
<1>1. cmd[c] \in CommandStates /\ DOMAIN cmd = Commands
  BY DEF Typed
<1>2. cmd' = [cmd EXCEPT ![c] = r]
  BY <1>1 DEF Leaving
<1>3. /\ r \in CommandStates
      /\ r.op = cmd[c].op /\ r.for = cmd[c].for /\ r.alone = cmd[c].alone
      /\ r.at = at /\ r.pid = None /\ ~r.busy
  BY <1>1 DEF CommandStates
<1> HIDE DEF r
<1>4. cmd'[c] = r /\ OthersStay(c)
  BY <1>1, <1>2 DEF OthersStay
<1>5. cmd' \in [Commands -> CommandStates]
  BY <1>2, <1>3 DEF Typed
<1> QED BY <1>3, <1>4, <1>5 DEF Gone

\* A start that is over.
LEMMA Released ==
  ASSUME Typed, NEW c \in Commands, Release(c)
  PROVE  cmd' \in [Commands -> CommandStates] /\ Gone(c, "done") /\ OthersStay(c)
<1>1. cmd[c].ok \in BOOLEAN
  BY DEF Typed, CommandStates
<1> QED BY <1>1, LeavingFields DEF Release, Finishes

\* A command that is killed.
LEMMA Killed ==
  ASSUME Typed, NEW c \in Commands, Kill(c)
  PROVE  cmd' \in [Commands -> CommandStates] /\ Gone(c, "killed") /\ OthersStay(c)
  BY LeavingFields DEF Kill

\* A start that does not get the lock.
LEMMA Refused ==
  ASSUME Typed, NEW c \in Commands, LockTaken(c)
  PROVE  cmd' \in [Commands -> CommandStates] /\ Gone(c, "done") /\ OthersStay(c)
  BY LeavingFields DEF LockTaken, Finishes

\* A stop goes on to the signal, blindly if what runs under the pid is other than
\* the entry point it knows.
GoesOn(c) ==
    /\ cmd'[c].op = cmd[c].op /\ cmd'[c].for = cmd[c].for /\ cmd'[c].alone = cmd[c].alone
    /\ cmd'[c].at = "signal" /\ cmd'[c].pid = cmd[c].pid /\ cmd'[c].busy = cmd[c].busy
    /\ cmd[c].named /\ proc[cmd[c].pid] = "other" => cmd'[c].blind

LEMMA Inspected ==
  ASSUME Typed, NEW c \in Commands, Inspect(c)
  PROVE  /\ cmd' \in [Commands -> CommandStates] /\ OthersStay(c)
         /\ GoesOn(c) \/ Gone(c, "done")
         /\ cmd[c].for = "stop" /\ cmd[c].at = "known"
         /\ cmd[c].pid \in Pids /\ Alive(cmd[c].pid)
         /\ UNCHANGED <<files, proc, port, left>>
<1>1. /\ cmd[c].for = "stop" /\ cmd[c].at = "known" /\ Alive(cmd[c].pid)
      /\ cmd[c].pid # None /\ UNCHANGED <<files, proc, port, left>>
  BY DEF Inspect, FindsRunning
<1>2. cmd[c] \in CommandStates /\ DOMAIN cmd = Commands
  BY DEF Typed
<1>3. cmd[c].pid \in Pids
  BY <1>1, <1>2 DEF CommandStates
<1>4. CASE Finishes(c, FALSE)
  BY <1>1, <1>3, <1>4, LeavingFields DEF Finishes
<1>5. CASE cmd' = [cmd EXCEPT ![c].at = "signal", ![c].blind = ~LooksManaged(c, TRUE)]
  <2> DEFINE b == ~LooksManaged(c, TRUE)
             r == [cmd[c] EXCEPT !.at = "signal", !.blind = b]
  <2>1. cmd' = [cmd EXCEPT ![c] = r]
    BY <1>2, <1>5
  <2>2. b \in BOOLEAN /\ (cmd[c].named /\ proc[cmd[c].pid] = "other" => b)
    BY DEF LooksManaged
  <2> HIDE DEF b
  <2>3. /\ r \in CommandStates
        /\ r.op = cmd[c].op /\ r.for = cmd[c].for /\ r.alone = cmd[c].alone
        /\ r.at = "signal" /\ r.pid = cmd[c].pid /\ r.busy = cmd[c].busy /\ r.blind = b
    BY <1>2, <2>2 DEF CommandStates
  <2> HIDE DEF r
  <2>4. cmd'[c] = r /\ OthersStay(c)
    BY <1>2, <2>1 DEF OthersStay
  <2>5. cmd' \in [Commands -> CommandStates]
    BY <2>1, <2>3 DEF Typed
  <2> QED BY <1>1, <1>3, <2>2, <2>3, <2>4, <2>5 DEF GoesOn
<1> QED BY <1>4, <1>5 DEF Inspect

\* The types are kept.
LEMMA TypedStep ==
  ASSUME Typed, Next
  PROVE  Typed'
<1>1. ASSUME NEW c \in Commands, Invoke(c) PROVE Typed'
  <2>1. cmd' \in [Commands -> CommandStates]
    BY <1>1, Invoked
  <2> QED
    BY <1>1, <2>1 DEF Invoke, Typed, files
<1>2. ASSUME NEW c \in Commands, ReadState(c) PROVE Typed'
  <2>1. cmd[c] \in CommandStates /\ stateFile \in Pids \cup {None}
    BY DEF Typed
  <2>2. /\ [cmd[c] EXCEPT !.at = "readPid"] \in CommandStates
        /\ [cmd[c] EXCEPT !.at = "known", !.pid = stateFile, !.named = TRUE] \in CommandStates
    BY <2>1 DEF CommandStates
  <2> QED
    BY <1>2, <2>2 DEF ReadState, files, Typed
<1>3. ASSUME NEW c \in Commands, ReadPid(c) PROVE Typed'
  <2>1. cmd[c] \in CommandStates /\ pidFile \in Pids \cup {None}
    BY DEF Typed
  <2>2. [cmd[c] EXCEPT !.at = "known", !.pid = pidFile, !.named = FALSE] \in CommandStates
    BY <2>1 DEF CommandStates
  <2> QED
    BY <1>3, <2>2 DEF ReadPid, files, Typed
<1>4. ASSUME NEW c \in Commands, NotRunning(c) PROVE Typed'
  BY <1>4 DEF NotRunning, Goes, files, Typed, CommandStates
<1>5. ASSUME NEW c \in Commands, Clean(c) PROVE Typed'
  BY <1>5 DEF Clean, Goes, Typed, CommandStates
<1>6. ASSUME NEW c \in Commands, CleanState(c) PROVE Typed'
  BY <1>6 DEF CleanState, Goes, Finishes, Releases, Typed, CommandStates,
     Leaving
<1>7. ASSUME NEW c \in Commands, NEW x \in Ports, ProbeBinds(c, x) PROVE Typed'
  BY <1>7 DEF ProbeBinds, Goes, files, Ports, Typed, CommandStates
<1>8. ASSUME NEW c \in Commands, HttpWasFree(c) PROVE Typed'
  <2>1. cmd[c] \in CommandStates
    BY DEF Typed
  <2>2. [cmd[c] EXCEPT !.at = "ws", !.busy = FALSE] \in CommandStates
    BY <2>1 DEF CommandStates
  <2> QED
    BY <1>8, <2>2 DEF HttpWasFree, files, Ports, Typed
<1>9. ASSUME NEW c \in Commands, WsWasFree(c) PROVE Typed'
  BY <1>9 DEF WsWasFree, Goes, Finishes, files, Ports, Typed, CommandStates,
     Leaving
<1>10. ASSUME NEW c \in Commands, HttpIsBusy(c) PROVE Typed'
  BY SMTT(30), <1>10 DEF HttpIsBusy, Releases, files, Typed, CommandStates
<1>11. ASSUME NEW c \in Commands, WsIsBusy(c) PROVE Typed'
  BY SMTT(30), <1>11 DEF WsIsBusy, Goes, Finishes, Releases, files, Typed,
     CommandStates, Leaving
<1>12. ASSUME NEW c \in Commands, AcquireLock(c) PROVE Typed'
  BY <1>12 DEF AcquireLock, Goes, Typed, CommandStates
<1>13. ASSUME NEW c \in Commands, LockTaken(c) PROVE Typed'
  BY <1>13, Refused DEF LockTaken, files, Typed
<1>14. ASSUME NEW c \in Commands, AlreadyRunning(c) PROVE Typed'
  <2>1. cmd[c] \in CommandStates
    BY DEF Typed
  <2>2. [cmd[c] EXCEPT !.at = "release", !.ok = TRUE] \in CommandStates
    BY <2>1 DEF CommandStates
  <2> QED
    BY <1>14, <2>2 DEF AlreadyRunning, Alive, Releases, files, Typed
<1>15. ASSUME NEW c \in Commands, Spawn(c) PROVE Typed'
  <2>1. PICK p \in Pids : /\ proc' = [proc EXCEPT ![p] = "starting"]
                          /\ cmd' = [cmd EXCEPT ![c].at = "writePid", ![c].pid = p]
    BY <1>15 DEF Spawn
  <2>2. cmd[c] \in CommandStates
    BY DEF Typed
  <2>3. [cmd[c] EXCEPT !.at = "writePid", !.pid = p] \in CommandStates
    BY <2>2 DEF CommandStates
  <2> QED
    BY <1>15, <2>1, <2>3 DEF Spawn, Typed, files
<1>16. ASSUME NEW c \in Commands, SpawnFails(c) PROVE Typed'
  <2>1. cmd[c] \in CommandStates
    BY DEF Typed
  <2>2. [cmd[c] EXCEPT !.at = "release", !.ok = FALSE] \in CommandStates
    BY <2>1 DEF CommandStates
  <2> QED
    BY <1>16, <2>2 DEF SpawnFails, Releases, files, Typed
<1>17. ASSUME NEW c \in Commands, WritePid(c) PROVE Typed'
  BY <1>17 DEF WritePid, Goes, Typed, CommandStates
<1>18. ASSUME NEW c \in Commands, WriteState(c) PROVE Typed'
  <2>1. cmd[c] \in CommandStates
    BY DEF Typed
  <2>2. [cmd[c] EXCEPT !.at = "poll", !.for = "wait"] \in CommandStates
    BY <2>1 DEF CommandStates
  <2>3. cmd[c].pid \in Pids \cup {None}
    BY <2>1 DEF CommandStates
  <2> QED
    BY <1>18, <2>2, <2>3 DEF WriteState, Typed
<1>19. ASSUME NEW c \in Commands, Poll(c) PROVE Typed'
  BY <1>19 DEF Poll, Goes, files, Typed, CommandStates
<1>20. ASSUME NEW c \in Commands, PollFails(c) PROVE Typed'
  <2>1. cmd[c] \in CommandStates
    BY DEF Typed
  <2>2. [cmd[c] EXCEPT !.at = "clean", !.for = "fail"] \in CommandStates
    BY <2>1 DEF CommandStates
  <2> QED
    BY <1>20, <2>2 DEF PollFails, Freed, Ends, Terminates, GivenUp, files, Ports,
       Typed
<1>21. ASSUME NEW c \in Commands, Release(c) PROVE Typed'
  BY <1>21, Released DEF Release, Typed
<1>22. ASSUME NEW c \in Commands, Inspect(c) PROVE Typed'
  BY <1>22, Inspected DEF files, Typed
<1>23. ASSUME NEW c \in Commands, SignalStop(c) PROVE Typed'
  BY <1>23 DEF SignalStop, Freed, Ends, Terminates, Goes, Finishes, files,
     Ports, Typed, CommandStates, Leaving
<1>24. ASSUME NEW c \in Commands, HasStopped(c) PROVE Typed'
  BY <1>24 DEF HasStopped, Goes, files, Typed, CommandStates
<1>25. ASSUME NEW c \in Commands, StopTimesOut(c) PROVE Typed'
  BY <1>25 DEF StopTimesOut, Freed, Ends, Goes, Finishes, files, Ports, Typed,
     CommandStates, Leaving
<1>26. ASSUME NEW c \in Commands, Kill(c) PROVE Typed'
  <2>1. port' \in [Ports -> Pids \cup Commands \cup {None}]
    BY <1>26 DEF Kill, Freed, Typed
  <2>2. cmd' \in [Commands -> CommandStates]
    BY <1>26, Killed
  <2> QED
    BY <1>26, <2>1, <2>2 DEF Kill, Disturbs, files, Typed
<1>27. ASSUME NEW p \in Pids, BindWs(p) PROVE Typed'
  BY <1>27 DEF BindWs, Freed, Ends, files, Ports, Typed
<1>28. ASSUME NEW p \in Pids, BindHttp(p) PROVE Typed'
  BY <1>28 DEF BindHttp, Freed, Ends, files, Ports, Typed
<1>29. ASSUME NEW p \in Pids, StopHttp(p) PROVE Typed'
  BY <1>29 DEF StopHttp, files, Ports, Typed
<1>30. ASSUME NEW p \in Pids, Exit(p) PROVE Typed'
  BY <1>30 DEF Exit, Freed, Ends, files, Ports, Typed
<1>31. ASSUME NEW p \in Pids, Crash(p) PROVE Typed'
  BY <1>31 DEF Crash, Freed, Ends, Disturbs, files, Ports, Typed
<1>32. ASSUME NEW p \in Pids, Reuse(p) PROVE Typed'
  BY <1>32 DEF Reuse, Disturbs, files, Typed, Strangers
<1> QED
  BY <1>1, <1>2, <1>3, <1>4, <1>5, <1>6, <1>7, <1>8, <1>9, <1>10, <1>11, <1>12,
     <1>13, <1>14, <1>15, <1>16, <1>17, <1>18, <1>19, <1>20, <1>21, <1>22,
     <1>23, <1>24, <1>25, <1>26, <1>27, <1>28, <1>29, <1>30, <1>31, <1>32 DEF
     Next

\* Commands keep to their places, and a status command does not become another.
LEMMA ControlStep ==
  ASSUME Typed, ControlOK, Next
  PROVE  ControlOK' /\ (NoStatus' => NoStatus)
<1>1. ASSUME NEW c \in Commands, Invoke(c)
      PROVE  ControlOK' /\ (NoStatus' => NoStatus)
  <2>1. Begins(c) /\ \A d \in Commands \ {c} : Stays(d)
    BY <1>1, Invoked
  <2>2. cmd[c].at = "ready" /\ UNCHANGED <<lock, proc, port>>
    BY <1>1 DEF Invoke, files
  <2>3. ControlOK'
    BY <2>1, <2>2 DEF Begins, Stays, ControlOK, PlaceOK, Running, HasSpawned
  <2>4. NoStatus' => NoStatus
    BY <2>1, <2>2 DEF Begins, Stays, ControlOK, PlaceOK, NoStatus
  <2> QED
    BY <2>3, <2>4
<1>2. ASSUME NEW c \in Commands, ReadState(c)
      PROVE  ControlOK' /\ (NoStatus' => NoStatus)
  BY SMTT(20), <1>2 DEF ReadState, Typed, CommandStates, ControlOK, PlaceOK, NoStatus,
     Running, HasSpawned
<1>3. ASSUME NEW c \in Commands, ReadPid(c)
      PROVE  ControlOK' /\ (NoStatus' => NoStatus)
  BY <1>3 DEF ReadPid, Typed, CommandStates, ControlOK, PlaceOK, NoStatus,
     Running, HasSpawned
<1>4. ASSUME NEW c \in Commands, NotRunning(c)
      PROVE  ControlOK' /\ (NoStatus' => NoStatus)
  BY <1>4 DEF NotRunning, Goes, FindsRunning, Typed, CommandStates, ControlOK,
     PlaceOK, NoStatus, Running, HasSpawned
<1>5. ASSUME NEW c \in Commands, Clean(c)
      PROVE  ControlOK' /\ (NoStatus' => NoStatus)
  BY <1>5 DEF Clean, Goes, Typed, CommandStates, ControlOK, PlaceOK, NoStatus,
     Running, HasSpawned
<1>6. ASSUME NEW c \in Commands, CleanState(c)
      PROVE  ControlOK' /\ (NoStatus' => NoStatus)
  BY <1>6 DEF CleanState, Goes, Finishes, Releases, Typed, CommandStates,
     ControlOK, PlaceOK, NoStatus, Running, HasSpawned, Leaving
<1>7. ASSUME NEW c \in Commands, NEW x \in Ports, ProbeBinds(c, x)
      PROVE  ControlOK' /\ (NoStatus' => NoStatus)
  BY <1>7 DEF ProbeBinds, Goes, Ports, Typed, CommandStates, ControlOK,
     PlaceOK, NoStatus, Running, HasSpawned
<1>8. ASSUME NEW c \in Commands, HttpWasFree(c)
      PROVE  ControlOK' /\ (NoStatus' => NoStatus)
  BY <1>8 DEF HttpWasFree, Typed, CommandStates, ControlOK, PlaceOK, NoStatus,
     Running, HasSpawned
<1>9. ASSUME NEW c \in Commands, WsWasFree(c)
      PROVE  ControlOK' /\ (NoStatus' => NoStatus)
  BY <1>9 DEF WsWasFree, Goes, Finishes, Typed, CommandStates, ControlOK,
     PlaceOK, NoStatus, Running, HasSpawned, Leaving
<1>10. ASSUME NEW c \in Commands, HttpIsBusy(c)
      PROVE  ControlOK' /\ (NoStatus' => NoStatus)
  BY <1>10 DEF HttpIsBusy, Releases, Typed, CommandStates, ControlOK, PlaceOK,
     NoStatus, Running, HasSpawned
<1>11. ASSUME NEW c \in Commands, WsIsBusy(c)
      PROVE  ControlOK' /\ (NoStatus' => NoStatus)
  BY <1>11 DEF WsIsBusy, Goes, Finishes, Releases, BothBusy, Typed,
     CommandStates, ControlOK, PlaceOK, NoStatus, Running, HasSpawned, Leaving
<1>12. ASSUME NEW c \in Commands, AcquireLock(c)
      PROVE  ControlOK' /\ (NoStatus' => NoStatus)
  BY <1>12 DEF AcquireLock, Goes, Typed, CommandStates, ControlOK, PlaceOK,
     NoStatus, Running, HasSpawned
<1>13. ASSUME NEW c \in Commands, LockTaken(c)
      PROVE  ControlOK' /\ (NoStatus' => NoStatus)
  <2>1. OthersStay(c) /\ Gone(c, "done") /\ cmd[c].at = "lock"
    BY <1>13, Refused DEF LockTaken
  <2> QED
    BY <2>1 DEF Gone, OthersStay, ControlOK, PlaceOK, NoStatus, Running, HasSpawned
<1>14. ASSUME NEW c \in Commands, AlreadyRunning(c)
      PROVE  ControlOK' /\ (NoStatus' => NoStatus)
  BY <1>14 DEF AlreadyRunning, Releases, FindsRunning, Typed, CommandStates,
     ControlOK, PlaceOK, NoStatus, Running, HasSpawned
<1>15. ASSUME NEW c \in Commands, Spawn(c)
      PROVE  ControlOK' /\ (NoStatus' => NoStatus)
  BY <1>15 DEF Spawn, Unused, Running, Typed, CommandStates, ControlOK,
     PlaceOK, NoStatus, HasSpawned
<1>16. ASSUME NEW c \in Commands, SpawnFails(c)
      PROVE  ControlOK' /\ (NoStatus' => NoStatus)
  BY <1>16 DEF SpawnFails, Releases, Typed, CommandStates, ControlOK, PlaceOK,
     NoStatus, Running, HasSpawned
<1>17. ASSUME NEW c \in Commands, WritePid(c)
      PROVE  ControlOK' /\ (NoStatus' => NoStatus)
  BY <1>17 DEF WritePid, Goes, Typed, CommandStates, ControlOK, PlaceOK,
     NoStatus, Running, HasSpawned
<1>18. ASSUME NEW c \in Commands, WriteState(c)
      PROVE  ControlOK' /\ (NoStatus' => NoStatus)
  BY <1>18 DEF WriteState, Typed, CommandStates, ControlOK, PlaceOK, NoStatus,
     Running, HasSpawned
<1>19. ASSUME NEW c \in Commands, Poll(c)
      PROVE  ControlOK' /\ (NoStatus' => NoStatus)
  BY <1>19 DEF Poll, Goes, Typed, CommandStates, ControlOK, PlaceOK, NoStatus,
     Running, HasSpawned
<1>20. ASSUME NEW c \in Commands, PollFails(c)
      PROVE  ControlOK' /\ (NoStatus' => NoStatus)
  BY <1>20 DEF PollFails, Typed, CommandStates, ControlOK, PlaceOK, NoStatus,
     Running, HasSpawned
<1>21. ASSUME NEW c \in Commands, Release(c)
      PROVE  ControlOK' /\ (NoStatus' => NoStatus)
  BY <1>21, Released DEF Release, Gone, OthersStay, ControlOK, PlaceOK,
     NoStatus, Running, HasSpawned
<1>22. ASSUME NEW c \in Commands, Inspect(c)
      PROVE  ControlOK' /\ (NoStatus' => NoStatus)
  BY <1>22, Inspected DEF GoesOn, Gone, OthersStay, ControlOK, PlaceOK,
     NoStatus, Running, HasSpawned
<1>23. ASSUME NEW c \in Commands, SignalStop(c)
      PROVE  ControlOK' /\ (NoStatus' => NoStatus)
  BY <1>23 DEF SignalStop, Alive, Goes, Finishes, Typed, CommandStates,
     ControlOK, PlaceOK, NoStatus, Running, HasSpawned, Leaving
<1>24. ASSUME NEW c \in Commands, HasStopped(c)
      PROVE  ControlOK' /\ (NoStatus' => NoStatus)
  BY <1>24 DEF HasStopped, Goes, Typed, CommandStates, ControlOK, PlaceOK,
     NoStatus, Running, HasSpawned
<1>25. ASSUME NEW c \in Commands, StopTimesOut(c)
      PROVE  ControlOK' /\ (NoStatus' => NoStatus)
  BY <1>25 DEF StopTimesOut, Goes, Finishes, Typed, CommandStates, ControlOK,
     PlaceOK, NoStatus, Running, HasSpawned, Leaving
<1>26. ASSUME NEW c \in Commands, Kill(c)
      PROVE  ControlOK' /\ (NoStatus' => NoStatus)
  <2>1. OthersStay(c) /\ Gone(c, "killed") /\ Running(c)
    BY <1>26, Killed DEF Kill
  <2> QED
    BY <2>1 DEF Gone, OthersStay, ControlOK, PlaceOK, NoStatus, Running, HasSpawned
<1>27. ASSUME NEW p \in Pids, BindWs(p)
      PROVE  ControlOK' /\ (NoStatus' => NoStatus)
  BY <1>27 DEF BindWs, ControlOK, PlaceOK, NoStatus, Running, HasSpawned
<1>28. ASSUME NEW p \in Pids, BindHttp(p)
      PROVE  ControlOK' /\ (NoStatus' => NoStatus)
  BY <1>28 DEF BindHttp, ControlOK, PlaceOK, NoStatus, Running, HasSpawned
<1>29. ASSUME NEW p \in Pids, StopHttp(p)
      PROVE  ControlOK' /\ (NoStatus' => NoStatus)
  BY <1>29 DEF StopHttp, ControlOK, PlaceOK, NoStatus, Running, HasSpawned
<1>30. ASSUME NEW p \in Pids, Exit(p)
      PROVE  ControlOK' /\ (NoStatus' => NoStatus)
  BY <1>30 DEF Exit, ControlOK, PlaceOK, NoStatus, Running, HasSpawned
<1>31. ASSUME NEW p \in Pids, Crash(p)
      PROVE  ControlOK' /\ (NoStatus' => NoStatus)
  BY <1>31 DEF Crash, ControlOK, PlaceOK, NoStatus, Running, HasSpawned
<1>32. ASSUME NEW p \in Pids, Reuse(p)
      PROVE  ControlOK' /\ (NoStatus' => NoStatus)
  BY <1>32 DEF Reuse, Running, ControlOK, PlaceOK, NoStatus, HasSpawned,
     Strangers
<1> QED
  BY <1>1, <1>2, <1>3, <1>4, <1>5, <1>6, <1>7, <1>8, <1>9, <1>10, <1>11, <1>12,
     <1>13, <1>14, <1>15, <1>16, <1>17, <1>18, <1>19, <1>20, <1>21, <1>22,
     <1>23, <1>24, <1>25, <1>26, <1>27, <1>28, <1>29, <1>30, <1>31, <1>32 DEF
     Next

\* The lock and the HTTP port stay with their owners.
LEMMA OwnersStep ==
  ASSUME Typed, ControlOK, LockIsHeld, HttpIsOwned, Next
  PROVE  LockIsHeld' /\ HttpIsOwned'
<1>1. ASSUME NEW c \in Commands, Invoke(c) PROVE LockIsHeld' /\ HttpIsOwned'
  <2>1. Begins(c) /\ \A d \in Commands \ {c} : Stays(d)
    BY <1>1, Invoked
  <2>2. cmd[c].at = "ready" /\ UNCHANGED <<lock, proc, port>>
    BY <1>1 DEF Invoke, files
  <2>3. LockIsHeld'
    BY <2>1, <2>2 DEF Begins, Stays, Typed, ControlOK, PlaceOK, LockIsHeld,
       Holding, HasSpawned, Running
  <2>4. HttpIsOwned'
    BY <2>1, <2>2 DEF Begins, Stays, HttpIsOwned
  <2> QED
    BY <2>3, <2>4
<1>2. ASSUME NEW c \in Commands, ReadState(c) PROVE LockIsHeld' /\ HttpIsOwned'
  BY <1>2 DEF ReadState, files, Typed, CommandStates, ControlOK, PlaceOK,
     LockIsHeld, HttpIsOwned, Holding, HasSpawned, Running
<1>3. ASSUME NEW c \in Commands, ReadPid(c) PROVE LockIsHeld' /\ HttpIsOwned'
  BY <1>3 DEF ReadPid, files, Typed, CommandStates, ControlOK, PlaceOK,
     LockIsHeld, HttpIsOwned, Holding, HasSpawned, Running
<1>4. ASSUME NEW c \in Commands, NotRunning(c) PROVE LockIsHeld' /\ HttpIsOwned'
  BY <1>4 DEF NotRunning, Alive, Goes, FindsRunning, files, Typed,
     CommandStates, ControlOK, PlaceOK, LockIsHeld, HttpIsOwned, Holding,
     HasSpawned, Running
<1>5. ASSUME NEW c \in Commands, Clean(c) PROVE LockIsHeld' /\ HttpIsOwned'
  BY <1>5 DEF Clean, Goes, Typed, CommandStates, ControlOK, PlaceOK,
     LockIsHeld, HttpIsOwned, Holding, HasSpawned, Running
<1>6. ASSUME NEW c \in Commands, CleanState(c) PROVE LockIsHeld' /\ HttpIsOwned'
  BY <1>6 DEF CleanState, Goes, Finishes, Releases, Typed, CommandStates,
     ControlOK, PlaceOK, LockIsHeld, HttpIsOwned, Holding, HasSpawned, Running,
     Leaving
<1>7. ASSUME NEW c \in Commands, NEW x \in Ports, ProbeBinds(c, x) PROVE LockIsHeld' /\ HttpIsOwned'
  BY <1>7, DaemonAssumption DEF DaemonAssumption, ProbeBinds, Goes, files,
     Ports, Typed, CommandStates, ControlOK, PlaceOK, LockIsHeld, HttpIsOwned,
     Holding, HasSpawned, Running
<1>8. ASSUME NEW c \in Commands, HttpWasFree(c) PROVE LockIsHeld' /\ HttpIsOwned'
  <2>1. LockIsHeld'
    BY <1>8 DEF HttpWasFree, files, Typed, LockIsHeld, Holding, HasSpawned, Running
  <2>2. HttpIsOwned'
    BY <1>8, DaemonAssumption DEF DaemonAssumption, HttpWasFree, files, Ports, Typed,
       HttpIsOwned
  <2> QED
    BY <2>1, <2>2
<1>9. ASSUME NEW c \in Commands, WsWasFree(c) PROVE LockIsHeld' /\ HttpIsOwned'
  <2>1. LockIsHeld'
    BY <1>9 DEF WsWasFree, Goes, Finishes, files, Typed, CommandStates,
       ControlOK, PlaceOK, LockIsHeld, Holding, HasSpawned, Running, Leaving
  <2>2. HttpIsOwned'
    BY <1>9, DaemonAssumption DEF DaemonAssumption, WsWasFree, Goes, Finishes,
       files, Ports, Typed, CommandStates, HttpIsOwned, Leaving
  <2> QED
    BY <2>1, <2>2
<1>10. ASSUME NEW c \in Commands, HttpIsBusy(c) PROVE LockIsHeld' /\ HttpIsOwned'
  BY <1>10 DEF HttpIsBusy, Releases, files, Typed, CommandStates, ControlOK,
     PlaceOK, LockIsHeld, HttpIsOwned, Holding, HasSpawned, Running
<1>11. ASSUME NEW c \in Commands, WsIsBusy(c) PROVE LockIsHeld' /\ HttpIsOwned'
  BY <1>11 DEF WsIsBusy, Goes, Finishes, Releases, BothBusy, files, Typed,
     CommandStates, ControlOK, PlaceOK, LockIsHeld, HttpIsOwned, Holding,
     HasSpawned, Running, Leaving
<1>12. ASSUME NEW c \in Commands, AcquireLock(c) PROVE LockIsHeld' /\ HttpIsOwned'
  BY <1>12, DaemonAssumption DEF DaemonAssumption, AcquireLock, Goes, Typed,
     CommandStates, ControlOK, PlaceOK, LockIsHeld, HttpIsOwned, Holding,
     HasSpawned, Running
<1>13. ASSUME NEW c \in Commands, LockTaken(c) PROVE LockIsHeld' /\ HttpIsOwned'
  BY <1>13 DEF LockTaken, Finishes, files, Typed, CommandStates, ControlOK,
     PlaceOK, LockIsHeld, HttpIsOwned, Holding, HasSpawned, Running, Leaving
<1>14. ASSUME NEW c \in Commands, AlreadyRunning(c) PROVE LockIsHeld' /\ HttpIsOwned'
  BY <1>14 DEF AlreadyRunning, Alive, Releases, FindsRunning, files, Typed,
     CommandStates, ControlOK, PlaceOK, LockIsHeld, HttpIsOwned, Holding,
     HasSpawned, Running
<1>15. ASSUME NEW c \in Commands, Spawn(c) PROVE LockIsHeld' /\ HttpIsOwned'
  BY <1>15, DaemonAssumption DEF DaemonAssumption, Spawn, Unused, Running,
     files, Typed, CommandStates, ControlOK, PlaceOK, LockIsHeld, HttpIsOwned,
     Holding, HasSpawned
<1>16. ASSUME NEW c \in Commands, SpawnFails(c) PROVE LockIsHeld' /\ HttpIsOwned'
  BY <1>16 DEF SpawnFails, Releases, files, Typed, CommandStates, ControlOK,
     PlaceOK, LockIsHeld, HttpIsOwned, Holding, HasSpawned, Running
<1>17. ASSUME NEW c \in Commands, WritePid(c) PROVE LockIsHeld' /\ HttpIsOwned'
  BY <1>17 DEF WritePid, Goes, Typed, CommandStates, ControlOK, PlaceOK,
     LockIsHeld, HttpIsOwned, Holding, HasSpawned, Running
<1>18. ASSUME NEW c \in Commands, WriteState(c) PROVE LockIsHeld' /\ HttpIsOwned'
  BY <1>18, DaemonAssumption DEF DaemonAssumption, WriteState, Typed,
     CommandStates, ControlOK, PlaceOK, LockIsHeld, HttpIsOwned, Holding,
     HasSpawned, Running
<1>19. ASSUME NEW c \in Commands, Poll(c) PROVE LockIsHeld' /\ HttpIsOwned'
  BY <1>19 DEF Poll, Alive, Goes, files, Typed, CommandStates, ControlOK,
     PlaceOK, LockIsHeld, HttpIsOwned, Holding, HasSpawned, Running
<1>20. ASSUME NEW c \in Commands, PollFails(c) PROVE LockIsHeld' /\ HttpIsOwned'
  BY <1>20, DaemonAssumption DEF DaemonAssumption, PollFails, Freed, Ends,
     Terminates, GivenUp, files, Ports, Typed, CommandStates, ControlOK,
     PlaceOK, LockIsHeld, HttpIsOwned, Holding, HasSpawned, Running
<1>21. ASSUME NEW c \in Commands, Release(c) PROVE LockIsHeld' /\ HttpIsOwned'
  BY <1>21 DEF Release, Goes, Typed, CommandStates, ControlOK, PlaceOK,
     LockIsHeld, HttpIsOwned, Holding, HasSpawned, Running, Finishes, Leaving
<1>22. ASSUME NEW c \in Commands, Inspect(c) PROVE LockIsHeld' /\ HttpIsOwned'
  <2>1. OthersStay(c) /\ (GoesOn(c) \/ Gone(c, "done"))
    BY <1>22, Inspected
  <2>2. cmd[c].for = "stop" /\ cmd[c].at = "known" /\ UNCHANGED <<files, port, proc>>
    BY <1>22, Inspected
  <2> QED
    BY <2>1, <2>2 DEF GoesOn, Gone, OthersStay, files, Typed, LockIsHeld,
       HttpIsOwned, Holding, Running
<1>23. ASSUME NEW c \in Commands, SignalStop(c) PROVE LockIsHeld' /\ HttpIsOwned'
  BY <1>23, DaemonAssumption DEF DaemonAssumption, SignalStop, Alive, Freed,
     Ends, Terminates, Goes, Finishes, files, Ports, Typed, CommandStates,
     ControlOK, PlaceOK, LockIsHeld, HttpIsOwned, Holding, HasSpawned, Running,
     Leaving
<1>24. ASSUME NEW c \in Commands, HasStopped(c) PROVE LockIsHeld' /\ HttpIsOwned'
  BY <1>24 DEF HasStopped, Alive, Goes, files, Typed, CommandStates, ControlOK,
     PlaceOK, LockIsHeld, HttpIsOwned, Holding, HasSpawned, Running
<1>25. ASSUME NEW c \in Commands, StopTimesOut(c) PROVE LockIsHeld' /\ HttpIsOwned'
  BY SMTT(30), <1>25, DaemonAssumption DEF DaemonAssumption, StopTimesOut, Alive, Freed,
     Ends, Goes, Finishes, files, Ports, Typed, CommandStates, ControlOK,
     PlaceOK, LockIsHeld, HttpIsOwned, Holding, HasSpawned, Running, Leaving
<1>26. ASSUME NEW c \in Commands, Kill(c) PROVE LockIsHeld' /\ HttpIsOwned'
  BY <1>26, DaemonAssumption DEF DaemonAssumption, Kill, Freed, Goes, Running,
     files, Ports, Typed, CommandStates, ControlOK, PlaceOK, LockIsHeld,
     HttpIsOwned, Holding, HasSpawned, Leaving
<1>27. ASSUME NEW p \in Pids, BindWs(p) PROVE LockIsHeld' /\ HttpIsOwned'
  BY <1>27, DaemonAssumption DEF DaemonAssumption, BindWs, Freed, Ends, files,
     Ports, Typed, LockIsHeld, HttpIsOwned, Holding, HasSpawned, Running
<1>28. ASSUME NEW p \in Pids, BindHttp(p) PROVE LockIsHeld' /\ HttpIsOwned'
  BY <1>28, DaemonAssumption DEF DaemonAssumption, BindHttp, Freed, Ends,
     files, Ports, Typed, LockIsHeld, HttpIsOwned, Holding, HasSpawned, Running
<1>29. ASSUME NEW p \in Pids, StopHttp(p) PROVE LockIsHeld' /\ HttpIsOwned'
  BY <1>29, DaemonAssumption DEF DaemonAssumption, StopHttp, files, Ports,
     Typed, LockIsHeld, HttpIsOwned, Holding, HasSpawned, Running
<1>30. ASSUME NEW p \in Pids, Exit(p) PROVE LockIsHeld' /\ HttpIsOwned'
  BY <1>30, DaemonAssumption DEF DaemonAssumption, Exit, Freed, Ends, files,
     Ports, Typed, LockIsHeld, HttpIsOwned, Holding, HasSpawned, Running
<1>31. ASSUME NEW p \in Pids, Crash(p) PROVE LockIsHeld' /\ HttpIsOwned'
  BY <1>31, DaemonAssumption DEF DaemonAssumption, Crash, Up, Freed, Ends,
     files, Ports, Typed, LockIsHeld, HttpIsOwned, Holding, HasSpawned, Running
<1>32. ASSUME NEW p \in Pids, Reuse(p) PROVE LockIsHeld' /\ HttpIsOwned'
  BY <1>32, DaemonAssumption DEF DaemonAssumption, Reuse, Running, files,
     Typed, LockIsHeld, HttpIsOwned, Holding, HasSpawned, Strangers
<1> QED
  BY <1>1, <1>2, <1>3, <1>4, <1>5, <1>6, <1>7, <1>8, <1>9, <1>10, <1>11, <1>12,
     <1>13, <1>14, <1>15, <1>16, <1>17, <1>18, <1>19, <1>20, <1>21, <1>22,
     <1>23, <1>24, <1>25, <1>26, <1>27, <1>28, <1>29, <1>30, <1>31, <1>32 DEF
     Next

\* While there is no status command, the HTTP port is kept for the server of the
\* start with the lock, and there is one server at most.
LEMMA KeptStep ==
  ASSUME Typed, ControlOK, LockIsHeld, HttpIsOwned,
         NoStatus, HttpIsKept, HatchingIsHeld, OneDaemon, Next
  PROVE  HttpIsKept' /\ HatchingIsHeld' /\ OneDaemon'
<1>1. ASSUME NEW c \in Commands, Invoke(c)
      PROVE  HttpIsKept' /\ HatchingIsHeld' /\ OneDaemon'
  <2>1. Begins(c) /\ \A d \in Commands \ {c} : Stays(d)
    BY <1>1, Invoked
  <2>2. cmd[c].at = "ready" /\ UNCHANGED <<lock, proc, port>>
    BY <1>1 DEF Invoke, files
  <2>3. HttpIsKept'
    BY <2>1, <2>2 DEF Begins, Stays, ControlOK, PlaceOK, HttpIsKept, Holding,
       HasSpawned, Running
  <2>4. HatchingIsHeld'
    BY <2>1, <2>2 DEF Begins, Stays, Typed, ControlOK, PlaceOK, LockIsHeld,
       HatchingIsHeld, Hatching, Holding, HasSpawned, Running, Strangers
  <2>5. OneDaemon'
    BY <2>1, <2>2 DEF Begins, Stays, ControlOK, PlaceOK, OneDaemon, Up,
       NoStatus
  <2> QED
    BY <2>3, <2>4, <2>5
<1>2. ASSUME NEW c \in Commands, ReadState(c)
      PROVE  HttpIsKept' /\ HatchingIsHeld' /\ OneDaemon'
  BY SMTT(20), <1>2 DEF ReadState, files, Typed, CommandStates, ControlOK,
     PlaceOK, LockIsHeld, HttpIsKept, HatchingIsHeld, OneDaemon, Hatching, Up,
     NoStatus, Holding, HasSpawned, Running, Strangers
<1>3. ASSUME NEW c \in Commands, ReadPid(c)
      PROVE  HttpIsKept' /\ HatchingIsHeld' /\ OneDaemon'
  BY SMTT(20), <1>3 DEF ReadPid, files, Typed, CommandStates, ControlOK,
     PlaceOK, LockIsHeld, HttpIsKept, HatchingIsHeld, OneDaemon, Hatching, Up,
     NoStatus, Holding, HasSpawned, Running, Strangers
<1>4. ASSUME NEW c \in Commands, NotRunning(c)
      PROVE  HttpIsKept' /\ HatchingIsHeld' /\ OneDaemon'
  BY <1>4 DEF NotRunning, Alive, Goes, FindsRunning, files, Typed,
     CommandStates, ControlOK, PlaceOK, LockIsHeld, HttpIsKept, HatchingIsHeld,
     OneDaemon, Hatching, Up, NoStatus, Holding, HasSpawned, Running, Strangers
<1>5. ASSUME NEW c \in Commands, Clean(c)
      PROVE  HttpIsKept' /\ HatchingIsHeld' /\ OneDaemon'
  BY <1>5 DEF Clean, Goes, Typed, CommandStates, ControlOK, PlaceOK,
     LockIsHeld, HttpIsKept, HatchingIsHeld, OneDaemon, Hatching, Up, NoStatus,
     Holding, HasSpawned, Running, Strangers
<1>6. ASSUME NEW c \in Commands, CleanState(c)
      PROVE  HttpIsKept' /\ HatchingIsHeld' /\ OneDaemon'
  BY <1>6 DEF CleanState, Goes, Finishes, Releases, Typed, CommandStates,
     ControlOK, PlaceOK, LockIsHeld, HttpIsKept, HatchingIsHeld, OneDaemon,
     Hatching, Up, NoStatus, Holding, HasSpawned, Running, Leaving, Strangers
<1>7. ASSUME NEW c \in Commands, NEW x \in Ports, ProbeBinds(c, x)
      PROVE  HttpIsKept' /\ HatchingIsHeld' /\ OneDaemon'
  BY <1>7, DaemonAssumption DEF DaemonAssumption, ProbeBinds, Goes, files,
     Ports, Typed, CommandStates, ControlOK, PlaceOK, LockIsHeld, HttpIsOwned,
     HttpIsKept, HatchingIsHeld, OneDaemon, Hatching, Up, NoStatus, Holding,
     HasSpawned, Running, Strangers
<1>8. ASSUME NEW c \in Commands, HttpWasFree(c)
      PROVE  HttpIsKept' /\ HatchingIsHeld' /\ OneDaemon'
  BY <1>8, DaemonAssumption DEF DaemonAssumption, HttpWasFree, files, Ports,
     Typed, CommandStates, ControlOK, PlaceOK, LockIsHeld, HttpIsOwned,
     HttpIsKept, HatchingIsHeld, OneDaemon, Hatching, Up, NoStatus, Holding,
     HasSpawned, Running, Strangers
<1>9. ASSUME NEW c \in Commands, WsWasFree(c)
      PROVE  HttpIsKept' /\ HatchingIsHeld' /\ OneDaemon'
  BY <1>9, DaemonAssumption DEF DaemonAssumption, WsWasFree, Goes, Finishes,
     files, Ports, Typed, CommandStates, ControlOK, PlaceOK, LockIsHeld,
     HttpIsOwned, HttpIsKept, HatchingIsHeld, OneDaemon, Hatching, Up, NoStatus,
     Holding, HasSpawned, Running, Leaving, Strangers
\* Only the server of the start that waits can occupy the port, so it serves or
\* has been told to stop.
<1>10. ASSUME NEW c \in Commands, HttpIsBusy(c)
      PROVE  HttpIsKept' /\ HatchingIsHeld' /\ OneDaemon'
  BY <1>10, DaemonAssumption DEF DaemonAssumption, HttpIsBusy, Releases,
     files, Ports, Typed, CommandStates, ControlOK, PlaceOK, LockIsHeld,
     HttpIsOwned, HttpIsKept, HatchingIsHeld, OneDaemon, Hatching, Up, NoStatus,
     Holding, HasSpawned, Running, Strangers
<1>11. ASSUME NEW c \in Commands, WsIsBusy(c)
      PROVE  HttpIsKept' /\ HatchingIsHeld' /\ OneDaemon'
  BY <1>11 DEF WsIsBusy, Goes, Finishes, Releases, BothBusy, files, Typed,
     CommandStates, ControlOK, PlaceOK, LockIsHeld, HttpIsKept, HatchingIsHeld,
     OneDaemon, Hatching, Up, NoStatus, Holding, HasSpawned, Running, Leaving,
     Strangers
<1>12. ASSUME NEW c \in Commands, AcquireLock(c)
      PROVE  HttpIsKept' /\ HatchingIsHeld' /\ OneDaemon'
  BY <1>12 DEF AcquireLock, Goes, Typed, CommandStates, ControlOK, PlaceOK,
     LockIsHeld, HttpIsKept, HatchingIsHeld, OneDaemon, Hatching, Up, NoStatus,
     Holding, HasSpawned, Running, Strangers
<1>13. ASSUME NEW c \in Commands, LockTaken(c)
      PROVE  HttpIsKept' /\ HatchingIsHeld' /\ OneDaemon'
  <2>1. OthersStay(c) /\ Gone(c, "done") /\ cmd[c].at = "lock"
    BY <1>13, Refused DEF LockTaken
  <2>2. UNCHANGED <<lock, proc, port>>
    BY <1>13 DEF LockTaken, files
  <2>3. NoStatus /\ HttpIsKept /\ HatchingIsHeld
    OBVIOUS
  <2>4. HttpIsKept'
    BY <2>1, <2>2, <2>3 DEF Gone, OthersStay, HttpIsKept, Holding, HasSpawned, Running
  <2>5. HatchingIsHeld'
    BY <2>1, <2>2, <2>3 DEF Typed, LockIsHeld, Gone, OthersStay, HatchingIsHeld, Hatching,
       Holding, HasSpawned, Running
  <2>6. OneDaemon'
    BY <2>1, <2>2, <2>3 DEF Gone, OthersStay, OneDaemon, Up, NoStatus
  <2> QED
    BY <2>4, <2>5, <2>6
<1>14. ASSUME NEW c \in Commands, AlreadyRunning(c)
      PROVE  HttpIsKept' /\ HatchingIsHeld' /\ OneDaemon'
  BY <1>14 DEF AlreadyRunning, Alive, Releases, FindsRunning, files, Typed,
     CommandStates, ControlOK, PlaceOK, LockIsHeld, HttpIsKept, HatchingIsHeld,
     OneDaemon, Hatching, Up, NoStatus, Holding, HasSpawned, Running, Strangers
\* No server is up: one that serves would have the port, and any other would
\* belong to a start with the lock that has spawned.
<1>15. ASSUME NEW c \in Commands, Spawn(c)
      PROVE  HttpIsKept' /\ HatchingIsHeld' /\ OneDaemon'
  BY <1>15, DaemonAssumption DEF DaemonAssumption, Spawn, Unused, Running,
     files, Typed, CommandStates, ControlOK, PlaceOK, LockIsHeld, HttpIsOwned,
     HttpIsKept, HatchingIsHeld, OneDaemon, Hatching, Up, NoStatus, Holding,
     HasSpawned, Strangers
<1>16. ASSUME NEW c \in Commands, SpawnFails(c)
      PROVE  HttpIsKept' /\ HatchingIsHeld' /\ OneDaemon'
  BY <1>16 DEF SpawnFails, Releases, files, Typed, CommandStates, ControlOK,
     PlaceOK, LockIsHeld, HttpIsKept, HatchingIsHeld, OneDaemon, Hatching, Up,
     NoStatus, Holding, HasSpawned, Running, Strangers
<1>17. ASSUME NEW c \in Commands, WritePid(c)
      PROVE  HttpIsKept' /\ HatchingIsHeld' /\ OneDaemon'
  BY <1>17 DEF WritePid, Goes, Typed, CommandStates, ControlOK, PlaceOK,
     LockIsHeld, HttpIsKept, HatchingIsHeld, OneDaemon, Hatching, Up, NoStatus,
     Holding, HasSpawned, Running, Strangers
<1>18. ASSUME NEW c \in Commands, WriteState(c)
      PROVE  HttpIsKept' /\ HatchingIsHeld' /\ OneDaemon'
  BY <1>18 DEF WriteState, Typed, CommandStates, ControlOK, PlaceOK,
     LockIsHeld, HttpIsKept, HatchingIsHeld, OneDaemon, Hatching, Up, NoStatus,
     Holding, HasSpawned, Running, Strangers
<1>19. ASSUME NEW c \in Commands, Poll(c)
      PROVE  HttpIsKept' /\ HatchingIsHeld' /\ OneDaemon'
  BY <1>19 DEF Poll, Alive, Goes, files, Typed, CommandStates, ControlOK,
     PlaceOK, LockIsHeld, HttpIsKept, HatchingIsHeld, OneDaemon, Hatching, Up,
     NoStatus, Holding, HasSpawned, Running, Strangers
\* The server is gone, or has been told to stop.
<1>20. ASSUME NEW c \in Commands, PollFails(c)
      PROVE  HttpIsKept' /\ HatchingIsHeld' /\ OneDaemon'
  BY <1>20, DaemonAssumption DEF DaemonAssumption, PollFails, Freed, Ends,
     Terminates, GivenUp, files, Ports, Typed, CommandStates, ControlOK, PlaceOK,
     LockIsHeld, HttpIsOwned, HttpIsKept, HatchingIsHeld, OneDaemon, Hatching,
     Up, NoStatus, Holding, HasSpawned, Running, Strangers
\* The start has not spawned, or its server serves or was given up.
<1>21. ASSUME NEW c \in Commands, Release(c)
      PROVE  HttpIsKept' /\ HatchingIsHeld' /\ OneDaemon'
  <2>1. OthersStay(c) /\ Gone(c, "done")
    BY <1>21, Released
  <2>2. cmd[c].at = "release" /\ lock' = None /\ UNCHANGED <<port, proc>>
    BY <1>21 DEF Release
  <2>3. NoStatus /\ Holding(c) /\ lock = c
    BY <2>1, <2>2 DEF Gone, OthersStay, NoStatus, ControlOK, PlaceOK, Holding,
       Running, LockIsHeld
  <2>4. Hatching = {}
    BY <2>2, <2>3 DEF HatchingIsHeld, Hatching, HasSpawned, ControlOK, PlaceOK, Running
  <2> QED
    BY <2>1, <2>2, <2>3, <2>4 DEF Gone, OthersStay, HttpIsKept, HatchingIsHeld,
       OneDaemon, Hatching, Up, NoStatus, Holding, HasSpawned, Running
<1>22. ASSUME NEW c \in Commands, Inspect(c)
      PROVE  HttpIsKept' /\ HatchingIsHeld' /\ OneDaemon'
  <2>1. OthersStay(c) /\ (GoesOn(c) \/ Gone(c, "done"))
    BY <1>22, Inspected
  <2>2. cmd[c].for = "stop" /\ cmd[c].at = "known" /\ UNCHANGED <<files, port, proc>>
    BY <1>22, Inspected
  <2> QED
    BY <2>1, <2>2 DEF GoesOn, Gone, OthersStay, files, Typed, HttpIsKept,
       HatchingIsHeld, OneDaemon, Hatching, Up, NoStatus, Holding, HasSpawned, Running
<1>23. ASSUME NEW c \in Commands, SignalStop(c)
      PROVE  HttpIsKept' /\ HatchingIsHeld' /\ OneDaemon'
  BY <1>23, DaemonAssumption DEF DaemonAssumption, SignalStop, Alive, Freed,
     Ends, Terminates, Goes, Finishes, files, Ports, Typed, CommandStates,
     ControlOK, PlaceOK, LockIsHeld, HttpIsOwned, HttpIsKept, HatchingIsHeld,
     OneDaemon, Hatching, Up, NoStatus, Holding, HasSpawned, Running, Leaving,
     Strangers
<1>24. ASSUME NEW c \in Commands, HasStopped(c)
      PROVE  HttpIsKept' /\ HatchingIsHeld' /\ OneDaemon'
  BY <1>24 DEF HasStopped, Alive, Goes, files, Typed, CommandStates,
     ControlOK, PlaceOK, LockIsHeld, HttpIsKept, HatchingIsHeld, OneDaemon,
     Hatching, Up, NoStatus, Holding, HasSpawned, Running, Strangers
<1>25. ASSUME NEW c \in Commands, StopTimesOut(c)
      PROVE  HttpIsKept' /\ HatchingIsHeld' /\ OneDaemon'
  BY <1>25, DaemonAssumption DEF DaemonAssumption, StopTimesOut, Alive, Freed,
     Ends, Goes, Finishes, files, Ports, Typed, CommandStates, ControlOK,
     PlaceOK, LockIsHeld, HttpIsOwned, HttpIsKept, HatchingIsHeld, OneDaemon,
     Hatching, Up, NoStatus, Holding, HasSpawned, Running, Leaving, Strangers
<1>26. ASSUME NEW c \in Commands, Kill(c)
      PROVE  HttpIsKept' /\ HatchingIsHeld' /\ OneDaemon'
  <2>1. OthersStay(c) /\ Gone(c, "killed")
    BY <1>26, Killed
  <2>2. /\ Running(c) /\ UNCHANGED <<lock, proc>>
        /\ port'["http"] \in {port["http"], None}
    BY <1>26 DEF Kill, Freed, files, Ports
  <2>3. Holding(c) => lock = c
    BY DEF LockIsHeld
  <2>4. NoStatus /\ HttpIsKept /\ HatchingIsHeld
    OBVIOUS
  <2>5. HttpIsKept'
    BY <2>1, <2>2, <2>4 DEF Gone, OthersStay, HttpIsKept, Holding, HasSpawned, Running
  <2>6. HatchingIsHeld'
    BY <2>1, <2>2, <2>4 DEF Typed, Gone, OthersStay, HatchingIsHeld, Hatching, Holding,
       HasSpawned, Running
  <2>7. OneDaemon'
    BY <2>1, <2>2, <2>4 DEF Gone, OthersStay, OneDaemon, Up, NoStatus
  <2> QED
    BY <2>5, <2>6, <2>7
<1>27. ASSUME NEW p \in Pids, BindWs(p)
      PROVE  HttpIsKept' /\ HatchingIsHeld' /\ OneDaemon'
  BY <1>27, DaemonAssumption DEF DaemonAssumption, BindWs, Freed, Ends, files,
     Ports, Typed, LockIsHeld, HttpIsOwned, HttpIsKept, HatchingIsHeld,
     OneDaemon, Hatching, Up, NoStatus, Holding, HasSpawned, Running, Strangers
\* The server that takes the port is that of the start with the lock.
<1>28. ASSUME NEW p \in Pids, BindHttp(p)
      PROVE  HttpIsKept' /\ HatchingIsHeld' /\ OneDaemon'
  BY <1>28, DaemonAssumption DEF DaemonAssumption, BindHttp, Freed, Ends,
     files, Ports, Typed, LockIsHeld, HttpIsOwned, HttpIsKept, HatchingIsHeld,
     OneDaemon, Hatching, Up, NoStatus, Holding, HasSpawned, Running, Strangers
<1>29. ASSUME NEW p \in Pids, StopHttp(p)
      PROVE  HttpIsKept' /\ HatchingIsHeld' /\ OneDaemon'
  BY <1>29, DaemonAssumption DEF DaemonAssumption, StopHttp, files, Ports,
     Typed, LockIsHeld, HttpIsOwned, HttpIsKept, HatchingIsHeld, OneDaemon,
     Hatching, Up, NoStatus, Holding, HasSpawned, Running, Strangers
<1>30. ASSUME NEW p \in Pids, Exit(p)
      PROVE  HttpIsKept' /\ HatchingIsHeld' /\ OneDaemon'
  BY <1>30, DaemonAssumption DEF DaemonAssumption, Exit, Freed, Ends, files,
     Ports, Typed, LockIsHeld, HttpIsOwned, HttpIsKept, HatchingIsHeld,
     OneDaemon, Hatching, Up, NoStatus, Holding, HasSpawned, Running, Strangers
<1>31. ASSUME NEW p \in Pids, Crash(p)
      PROVE  HttpIsKept' /\ HatchingIsHeld' /\ OneDaemon'
  BY <1>31, DaemonAssumption DEF DaemonAssumption, Crash, Up, Freed, Ends,
     files, Ports, Typed, LockIsHeld, HttpIsOwned, HttpIsKept, HatchingIsHeld,
     OneDaemon, Hatching, NoStatus, Holding, HasSpawned, Running, Strangers
<1>32. ASSUME NEW p \in Pids, Reuse(p)
      PROVE  HttpIsKept' /\ HatchingIsHeld' /\ OneDaemon'
  BY <1>32, DaemonAssumption DEF DaemonAssumption, Reuse, Running, files,
     Typed, LockIsHeld, HttpIsOwned, HttpIsKept, HatchingIsHeld, OneDaemon,
     Hatching, Up, NoStatus, Holding, HasSpawned, Strangers
<1> QED
  BY <1>1, <1>2, <1>3, <1>4, <1>5, <1>6, <1>7, <1>8, <1>9, <1>10, <1>11, <1>12,
     <1>13, <1>14, <1>15, <1>16, <1>17, <1>18, <1>19, <1>20, <1>21, <1>22,
     <1>23, <1>24, <1>25, <1>26, <1>27, <1>28, <1>29, <1>30, <1>31, <1>32 DEF
     Next

LEMMA InitInv == Init => DaemonInv
<1> SUFFICES ASSUME Init PROVE DaemonInv
  OBVIOUS
<1>1. Typed
  BY DaemonAssumption DEF DaemonAssumption, Init, Typed, CommandStates, Ports
<1>2. ControlOK
  BY DEF Init, ControlOK, PlaceOK, Running, HasSpawned
<1>3. LockIsHeld
  BY DEF Init, LockIsHeld, Holding, Running
<1>4. HttpIsOwned
  BY DaemonAssumption DEF DaemonAssumption, Init, HttpIsOwned, Ports
<1>5. HttpIsKept
  BY DEF Init, HttpIsKept, Holding, HasSpawned, Running
<1>6. HatchingIsHeld /\ OneDaemon
  BY DEF Init, HatchingIsHeld, OneDaemon, Hatching, Holding, Running, Up,
     Strangers
<1> QED
  BY <1>1, <1>2, <1>3, <1>4, <1>5, <1>6 DEF DaemonInv

LEMMA StepInv == DaemonInv /\ [Next]_vars => DaemonInv'
<1>1. ASSUME DaemonInv, Next PROVE DaemonInv'
  <2>1. Typed' /\ ControlOK' /\ (NoStatus' => NoStatus)
    BY <1>1, TypedStep, ControlStep DEF DaemonInv
  <2>2. LockIsHeld' /\ HttpIsOwned'
    BY <1>1, OwnersStep DEF DaemonInv
  <2>3. CASE NoStatus
    <3>1. HttpIsKept' /\ HatchingIsHeld' /\ OneDaemon'
      BY <1>1, <2>3, KeptStep DEF DaemonInv
    <3> QED
      BY <2>1, <2>2, <3>1 DEF DaemonInv
  <2>4. CASE ~NoStatus
    <3>1. OneDaemon'
      BY <2>1, <2>4 DEF OneDaemon
    <3> QED
      BY <2>1, <2>2, <2>4, <3>1 DEF DaemonInv
  <2> QED
    BY <2>3, <2>4
<1>2. ASSUME DaemonInv, UNCHANGED vars PROVE DaemonInv'
  BY <1>2 DEF DaemonInv, vars, Typed, ControlOK, PlaceOK, LockIsHeld,
     HttpIsOwned, HttpIsKept, HatchingIsHeld, OneDaemon, Hatching, Up, NoStatus,
     Holding, HasSpawned, Running, Alive, Strangers
<1> QED
  BY <1>1, <1>2

-----------------------------------------------------------------------------
\* The inductive invariant.
THEOREM DaemonInvHolds == Spec => []DaemonInv
  BY InitInv, StepInv, PTL DEF Spec

\* The variables keep their types, and a lock file belongs to a command that
\* runs or was killed: no start that ends, however it ends, keeps the lock
\* (the finally block of startDaemon).
THEOREM TypeCorrect == Spec => []TypeOK
<1>1. DaemonInv => TypeOK
  BY DEF DaemonInv, Typed, TypeOK, LockIsHeld, Holding
<1> QED
  BY <1>1, DaemonInvHolds, PTL

\* However starts, stops and restarts overlap, fail and are killed, there is one
\* server at most that nobody has told to stop (acquireLock, assertPortAvailable,
\* waitForProcessOrPort).
THEOREM AlwaysOneDaemon == Spec => []OneDaemon
<1>1. DaemonInv => OneDaemon
  BY DEF DaemonInv
<1> QED
  BY <1>1, DaemonInvHolds, PTL

-----------------------------------------------------------------------------
(* What starts and stops leave behind *)

\* While a command runs, a pid it knows is not given away: the server it spawned
\* is no other program, and one that has ended does not come back.
Leaves(c) ==
    /\ HasSpawned(c) => proc[cmd[c].pid] \notin Strangers
    /\ cmd[c].for = "fail" => cmd[c].pid \notin Up
    /\ cmd[c].for = "fail" /\ cmd[c].at \in {"cleanState", "release"} => pidFile # cmd[c].pid
    /\ cmd[c].for = "fail" /\ cmd[c].at = "release" => stateFile # cmd[c].pid
    /\ cmd[c].for = "stop" /\ cmd[c].at \in {"clean", "cleanState"} /\ cmd[c].pid # None
          => ~Alive(cmd[c].pid)

LeavesNothing == \A c \in Commands : Running(c) => Leaves(c)

-----------------------------------------------------------------------------
(* Commands that come one after the other *)

ReadyIsAlone == \A c \in Commands : cmd[c].at = "ready" => cmd[c].alone

OneRuns == \A c, d \in Commands : Running(c) /\ Running(d) => c = d
NoneRuns == \A c \in Commands : ~Running(c)
NoneKilled == \A c \in Commands : cmd[c].at # "killed"
NoneWrites == \A c \in Commands : cmd[c].at # "writeState"

LockIsLost == lock # None /\ cmd[lock].at = "killed"

Recorded == \A p \in Up : stateFile = p /\ pidFile = p

\* What a command that runs alone has read and removed.
ReadsTrue(c) ==
    /\ cmd[c].at = "readPid" => stateFile = None
    /\ cmd[c].at = "cleanState" => pidFile = None

AloneInv == AllAlone => OneRuns /\ \A c \in Commands : Running(c) => ReadsTrue(c)

\* What it has found out about the servers, and written.
Knows(c) ==
    /\ cmd[c].at \in {"known", "signal"} \/ HasSpawned(c) => \A p \in Up : p = cmd[c].pid
    /\ \/ cmd[c].at \in {"wait", "clean", "cleanState"}
       \/ cmd[c].for = "check" /\ cmd[c].at \in {"http", "httpBound", "ws", "wsBound", "spawn"}
       => Up = {}
    /\ cmd[c].at = "writeState" => pidFile = cmd[c].pid
    /\ cmd[c].at \notin {"writePid", "writeState"} => Recorded

KnownInv ==
    AllAlone /\ ~LockIsLost =>
       /\ \A c \in Commands : Running(c) => Knows(c)
       /\ NoneRuns => Recorded

\* The state file is written last and removed last, so a pid without an entry
\* point to compare is not signalled, nor is one whose command line was compared
\* and differs.
Spares(c) ==
    /\ cmd[c].at = "known" /\ ~cmd[c].named => cmd[c].pid = None
    /\ cmd[c].at \in {"signal", "wait"}
          => cmd[c].pid \in Pids /\ (proc[cmd[c].pid] # "other" \/ cmd[c].blind)

SparedInv ==
    AllAlone /\ NoneKilled =>
       /\ \A c \in Commands : Running(c) => Spares(c)
       /\ NoneWrites /\ stateFile = None => pidFile = None

RestInv == LeavesNothing /\ ReadyIsAlone /\ AloneInv /\ KnownInv /\ SparedInv

\* What a step does not undo.
Lasting ==
    /\ AllAlone' => AllAlone
    /\ NoneKilled' => NoneKilled
    /\ LockIsLost => LockIsLost'

\* What commands leave is kept.
LEMMA LeavesStep ==
  ASSUME Typed, ControlOK, LockIsHeld, LeavesNothing, Next
  PROVE  LeavesNothing'
<1>1. ASSUME NEW c \in Commands, Invoke(c) PROVE LeavesNothing'
  <2>1. Begins(c) /\ \A d \in Commands \ {c} : Stays(d)
    BY <1>1, Invoked
  <2>2. cmd[c].at = "ready" /\ UNCHANGED <<files, proc, port>>
    BY <1>1 DEF Invoke, files
  <2> QED
    BY <2>1, <2>2 DEF Begins, Stays, files, ControlOK, PlaceOK, LeavesNothing,
       Leaves, HasSpawned, Running, Up, Alive, Strangers
<1>2. ASSUME NEW c \in Commands, ReadState(c) PROVE LeavesNothing'
  BY <1>2, DaemonAssumption DEF DaemonAssumption, ReadState, files, Typed,
     CommandStates, ControlOK, PlaceOK, LockIsHeld, Holding, LeavesNothing,
     Leaves, HasSpawned, Running, Up, Alive, Strangers
<1>3. ASSUME NEW c \in Commands, ReadPid(c) PROVE LeavesNothing'
  BY <1>3, DaemonAssumption DEF DaemonAssumption, ReadPid, files, Typed,
     CommandStates, ControlOK, PlaceOK, LockIsHeld, Holding, LeavesNothing,
     Leaves, HasSpawned, Running, Up, Alive, Strangers
<1>4. ASSUME NEW c \in Commands, NotRunning(c) PROVE LeavesNothing'
  BY <1>4, DaemonAssumption DEF DaemonAssumption, NotRunning, FindsRunning,
     Alive, Goes, files, Typed, CommandStates, ControlOK, PlaceOK, LockIsHeld,
     Holding, LeavesNothing, Leaves, HasSpawned, Running, Up, Strangers
<1>5. ASSUME NEW c \in Commands, Clean(c) PROVE LeavesNothing'
  BY <1>5, DaemonAssumption DEF DaemonAssumption, Clean, Goes, files, Typed,
     CommandStates, ControlOK, PlaceOK, LockIsHeld, Holding, LeavesNothing,
     Leaves, HasSpawned, Running, Up, Alive, Strangers
<1>6. ASSUME NEW c \in Commands, CleanState(c) PROVE LeavesNothing'
  BY <1>6, DaemonAssumption DEF DaemonAssumption, CleanState, Goes, Releases,
     Finishes, files, Typed, CommandStates, ControlOK, PlaceOK, LockIsHeld,
     Holding, LeavesNothing, Leaves, HasSpawned, Running, Up, Alive, Leaving,
     Strangers
<1>7. ASSUME NEW c \in Commands, NEW x \in Ports, ProbeBinds(c, x)
      PROVE  LeavesNothing'
  BY <1>7, DaemonAssumption DEF DaemonAssumption, ProbeBinds, Goes, files,
     Ports, Typed, CommandStates, ControlOK, PlaceOK, LockIsHeld, Holding,
     LeavesNothing, Leaves, HasSpawned, Running, Up, Alive, Strangers
<1>8. ASSUME NEW c \in Commands, HttpWasFree(c) PROVE LeavesNothing'
  BY <1>8, DaemonAssumption DEF DaemonAssumption, HttpWasFree, files, Typed,
     CommandStates, ControlOK, PlaceOK, LockIsHeld, Holding, LeavesNothing,
     Leaves, HasSpawned, Running, Up, Alive, Strangers
<1>9. ASSUME NEW c \in Commands, WsWasFree(c) PROVE LeavesNothing'
  BY <1>9, DaemonAssumption DEF DaemonAssumption, WsWasFree, Goes, Finishes,
     files, Typed, CommandStates, ControlOK, PlaceOK, LockIsHeld, Holding,
     LeavesNothing, Leaves, HasSpawned, Running, Up, Alive, Leaving, Strangers
<1>10. ASSUME NEW c \in Commands, HttpIsBusy(c) PROVE LeavesNothing'
  BY <1>10, DaemonAssumption DEF DaemonAssumption, HttpIsBusy, Releases,
     files, Typed, CommandStates, ControlOK, PlaceOK, LockIsHeld, Holding,
     LeavesNothing, Leaves, HasSpawned, Running, Up, Alive, Strangers
<1>11. ASSUME NEW c \in Commands, WsIsBusy(c) PROVE LeavesNothing'
  BY <1>11, DaemonAssumption DEF DaemonAssumption, WsIsBusy, Releases,
     BothBusy, Goes, Finishes, files, Typed, CommandStates, ControlOK, PlaceOK,
     LockIsHeld, Holding, LeavesNothing, Leaves, HasSpawned, Running, Up, Alive,
     Leaving, Strangers
<1>12. ASSUME NEW c \in Commands, AcquireLock(c) PROVE LeavesNothing'
  BY <1>12, DaemonAssumption DEF DaemonAssumption, AcquireLock, Goes, files,
     Typed, CommandStates, ControlOK, PlaceOK, LockIsHeld, Holding,
     LeavesNothing, Leaves, HasSpawned, Running, Up, Alive, Strangers
<1>13. ASSUME NEW c \in Commands, LockTaken(c) PROVE LeavesNothing'
  BY <1>13, DaemonAssumption DEF DaemonAssumption, LockTaken, Finishes, files,
     Typed, CommandStates, ControlOK, PlaceOK, LockIsHeld, Holding,
     LeavesNothing, Leaves, HasSpawned, Running, Up, Alive, Leaving, Strangers
<1>14. ASSUME NEW c \in Commands, AlreadyRunning(c) PROVE LeavesNothing'
  BY <1>14, DaemonAssumption DEF DaemonAssumption, AlreadyRunning,
     FindsRunning, Alive, Releases, files, Typed, CommandStates, ControlOK,
     PlaceOK, LockIsHeld, Holding, LeavesNothing, Leaves, HasSpawned, Running,
     Up, Strangers
\* A pid that a command knows is not given out again.
<1>15. ASSUME NEW c \in Commands, Spawn(c) PROVE LeavesNothing'
  BY <1>15, DaemonAssumption DEF DaemonAssumption, Spawn, Unused, Running,
     files, Typed, CommandStates, ControlOK, PlaceOK, LockIsHeld, Holding,
     LeavesNothing, Leaves, HasSpawned, Up, Alive, Strangers
<1>16. ASSUME NEW c \in Commands, SpawnFails(c) PROVE LeavesNothing'
  BY <1>16, DaemonAssumption DEF DaemonAssumption, SpawnFails, Releases,
     files, Typed, CommandStates, ControlOK, PlaceOK, LockIsHeld, Holding,
     LeavesNothing, Leaves, HasSpawned, Running, Up, Alive, Strangers
\* Only the start with the lock writes, so it is not one that has failed.
<1>17. ASSUME NEW c \in Commands, WritePid(c) PROVE LeavesNothing'
  BY <1>17, DaemonAssumption DEF DaemonAssumption, WritePid, Goes, files,
     Typed, CommandStates, ControlOK, PlaceOK, LockIsHeld, Holding,
     LeavesNothing, Leaves, HasSpawned, Running, Up, Alive, Strangers
<1>18. ASSUME NEW c \in Commands, WriteState(c) PROVE LeavesNothing'
  BY <1>18, DaemonAssumption DEF DaemonAssumption, WriteState, files, Typed,
     CommandStates, ControlOK, PlaceOK, LockIsHeld, Holding, LeavesNothing,
     Leaves, HasSpawned, Running, Up, Alive, Strangers
<1>19. ASSUME NEW c \in Commands, Poll(c) PROVE LeavesNothing'
  BY <1>19, DaemonAssumption DEF DaemonAssumption, Poll, Alive, Goes, files,
     Typed, CommandStates, ControlOK, PlaceOK, LockIsHeld, Holding,
     LeavesNothing, Leaves, HasSpawned, Running, Up, Strangers
\* The server ends, or has been told to.
<1>20. ASSUME NEW c \in Commands, PollFails(c) PROVE LeavesNothing'
  BY <1>20, DaemonAssumption DEF DaemonAssumption, PollFails, GivenUp,
     Terminates, Ends, Freed, Ports, files, Typed, CommandStates, ControlOK,
     PlaceOK, LockIsHeld, Holding, LeavesNothing, Leaves, HasSpawned, Running,
     Up, Alive, Strangers
<1>21. ASSUME NEW c \in Commands, Release(c) PROVE LeavesNothing'
  <2>1. OthersStay(c) /\ Gone(c, "done") /\ cmd[c].at = "release"
    BY <1>21, Released DEF Release
  <2>2. UNCHANGED <<pidFile, stateFile, proc, port>>
    BY <1>21 DEF Release
  <2> QED
    BY <2>1, <2>2 DEF Gone, OthersStay, LeavesNothing, Leaves, HasSpawned, Running,
       Up, Alive, Strangers
<1>22. ASSUME NEW c \in Commands, Inspect(c) PROVE LeavesNothing'
  BY <1>22, DaemonAssumption DEF DaemonAssumption, Inspect, FindsRunning,
     Alive, LooksManaged, Goes, Finishes, files, Typed, CommandStates, ControlOK,
     PlaceOK, LockIsHeld, Holding, LeavesNothing, Leaves, HasSpawned, Running,
     Up, Leaving, Strangers
<1>23. ASSUME NEW c \in Commands, SignalStop(c) PROVE LeavesNothing'
  BY <1>23, DaemonAssumption DEF DaemonAssumption, SignalStop, Alive,
     Terminates, Ends, Freed, Ports, Goes, Finishes, files, Typed, CommandStates,
     ControlOK, PlaceOK, LockIsHeld, Holding, LeavesNothing, Leaves, HasSpawned,
     Running, Up, Leaving, Strangers
<1>24. ASSUME NEW c \in Commands, HasStopped(c) PROVE LeavesNothing'
  BY <1>24, DaemonAssumption DEF DaemonAssumption, HasStopped, Alive, Goes,
     files, Typed, CommandStates, ControlOK, PlaceOK, LockIsHeld, Holding,
     LeavesNothing, Leaves, HasSpawned, Running, Up, Strangers
<1>25. ASSUME NEW c \in Commands, StopTimesOut(c) PROVE LeavesNothing'
  BY <1>25, DaemonAssumption DEF DaemonAssumption, StopTimesOut, Alive,
     Finishes, Goes, Ends, Freed, Ports, files, Typed, CommandStates, ControlOK,
     PlaceOK, LockIsHeld, Holding, LeavesNothing, Leaves, HasSpawned, Running,
     Up, Leaving, Strangers
<1>26. ASSUME NEW c \in Commands, Kill(c) PROVE LeavesNothing'
  BY <1>26, DaemonAssumption DEF DaemonAssumption, Kill, Running, Disturbs,
     Goes, Freed, Ports, files, Typed, CommandStates, ControlOK, PlaceOK,
     LockIsHeld, Holding, LeavesNothing, Leaves, HasSpawned, Up, Alive, Leaving,
     Strangers
<1>27. ASSUME NEW p \in Pids, BindWs(p) PROVE LeavesNothing'
  BY <1>27, DaemonAssumption DEF DaemonAssumption, BindWs, Ends, Freed, Ports,
     files, Typed, CommandStates, ControlOK, PlaceOK, LockIsHeld, Holding,
     LeavesNothing, Leaves, HasSpawned, Running, Up, Alive, Strangers
<1>28. ASSUME NEW p \in Pids, BindHttp(p) PROVE LeavesNothing'
  BY <1>28, DaemonAssumption DEF DaemonAssumption, BindHttp, Ends, Freed,
     Ports, files, Typed, CommandStates, ControlOK, PlaceOK, LockIsHeld, Holding,
     LeavesNothing, Leaves, HasSpawned, Running, Up, Alive, Strangers
<1>29. ASSUME NEW p \in Pids, StopHttp(p) PROVE LeavesNothing'
  BY <1>29, DaemonAssumption DEF DaemonAssumption, StopHttp, files, Typed,
     CommandStates, ControlOK, PlaceOK, LockIsHeld, Holding, LeavesNothing,
     Leaves, HasSpawned, Running, Up, Alive, Strangers
<1>30. ASSUME NEW p \in Pids, Exit(p) PROVE LeavesNothing'
  BY <1>30, DaemonAssumption DEF DaemonAssumption, Exit, Ends, Freed, Ports,
     files, Typed, CommandStates, ControlOK, PlaceOK, LockIsHeld, Holding,
     LeavesNothing, Leaves, HasSpawned, Running, Up, Alive, Strangers
<1>31. ASSUME NEW p \in Pids, Crash(p) PROVE LeavesNothing'
  BY <1>31, DaemonAssumption DEF DaemonAssumption, Crash, Up, Disturbs, Ends,
     Freed, Ports, files, Typed, CommandStates, ControlOK, PlaceOK, LockIsHeld,
     Holding, LeavesNothing, Leaves, HasSpawned, Running, Alive, Strangers
<1>32. ASSUME NEW p \in Pids, Reuse(p) PROVE LeavesNothing'
  BY <1>32, DaemonAssumption DEF DaemonAssumption, Reuse, Running, Disturbs,
     files, Typed, CommandStates, ControlOK, PlaceOK, LockIsHeld, Holding,
     LeavesNothing, Leaves, HasSpawned, Up, Alive, Strangers
<1> QED
  BY <1>1, <1>2, <1>3, <1>4, <1>5, <1>6, <1>7, <1>8, <1>9, <1>10, <1>11, <1>12,
     <1>13, <1>14, <1>15, <1>16, <1>17, <1>18, <1>19, <1>20, <1>21, <1>22,
     <1>23, <1>24, <1>25, <1>26, <1>27, <1>28, <1>29, <1>30, <1>31, <1>32 DEF
     Next

\* What giving a command does to the history.
LEMMA InvokedAlone ==
  ASSUME Typed, NEW c \in Commands, Invoke(c)
  PROVE  /\ cmd'[c].alone <=> NoneRuns
         /\ \A d \in Commands \ {c} : (cmd'[d].alone <=> cmd[d].alone /\ ~Running(d))
<1>1. PICK op \in Ops :
         cmd' = [d \in Commands |->
                   IF d = c
                   THEN [cmd[c] EXCEPT
                           !.op = op,
                           !.for = CASE op = "start"  -> "check"
                                     [] op = "status" -> "look"
                                     [] OTHER         -> "stop",
                           !.at = CASE op = "start"  -> "lock"
                                    [] op = "status" -> "http"
                                    [] OTHER         -> "read",
                           !.alone = \A e \in Commands : ~Running(e)]
                   ELSE [cmd[d] EXCEPT !.alone = @ /\ ~Running(d)]]
  BY DEF Invoke
<1>2. \A d \in Commands : cmd[d] \in CommandStates
  BY DEF Typed
<1>3. cmd'[c].alone <=> NoneRuns
  BY <1>1, <1>2 DEF NoneRuns, CommandStates
<1>4. ASSUME NEW d \in Commands \ {c}
      PROVE  (cmd'[d].alone <=> cmd[d].alone /\ ~Running(d))
  <2>1. cmd'[d] = [cmd[d] EXCEPT !.alone = @ /\ ~Running(d)]
    BY <1>1
  <2> QED
    BY <1>2, <2>1 DEF CommandStates
<1> QED
  BY <1>3, <1>4

\* Commands that have overlapped, one that was killed and a lock file it left stay.
LEMMA HistoryStep ==
  ASSUME Typed, ControlOK, LockIsHeld, ReadyIsAlone, Next
  PROVE  ReadyIsAlone' /\ Lasting
<1>1. ASSUME NEW c \in Commands, Invoke(c) PROVE ReadyIsAlone' /\ Lasting
  <2>1. Begins(c) /\ \A d \in Commands \ {c} : Stays(d)
    BY <1>1, Invoked
  <2>2. cmd[c].at = "ready" /\ UNCHANGED <<files, proc, port>>
    BY <1>1 DEF Invoke, files
  <2>3. /\ cmd'[c].alone <=> NoneRuns
        /\ \A d \in Commands \ {c} : (cmd'[d].alone <=> cmd[d].alone /\ ~Running(d))
    BY <1>1, InvokedAlone
  <2>4. ReadyIsAlone'
    BY <2>1, <2>2, <2>3 DEF Begins, Stays, ReadyIsAlone, Running
  <2>5. (AllAlone' => AllAlone) /\ (NoneKilled' => NoneKilled)
    BY <2>1, <2>2, <2>3 DEF Begins, Stays, ReadyIsAlone, AllAlone, NoneKilled
  <2>6. LockIsLost => LockIsLost'
    BY <2>1, <2>2 DEF Begins, Stays, files, Typed, LockIsLost
  <2> QED
    BY <2>4, <2>5, <2>6 DEF Lasting
<1>2. ASSUME NEW c \in Commands, ReadState(c) PROVE ReadyIsAlone' /\ Lasting
  BY <1>2 DEF ReadState, files, Typed, CommandStates, ControlOK, PlaceOK,
     LockIsHeld, Holding, HasSpawned, Running, ReadyIsAlone, Lasting, AllAlone,
     NoneKilled, LockIsLost
<1>3. ASSUME NEW c \in Commands, ReadPid(c) PROVE ReadyIsAlone' /\ Lasting
  BY <1>3 DEF ReadPid, files, Typed, CommandStates, ControlOK, PlaceOK,
     LockIsHeld, Holding, HasSpawned, Running, ReadyIsAlone, Lasting, AllAlone,
     NoneKilled, LockIsLost
<1>4. ASSUME NEW c \in Commands, NotRunning(c) PROVE ReadyIsAlone' /\ Lasting
  BY <1>4 DEF NotRunning, FindsRunning, Alive, Goes, files, Typed,
     CommandStates, ControlOK, PlaceOK, LockIsHeld, Holding, HasSpawned, Running,
     ReadyIsAlone, Lasting, AllAlone, NoneKilled, LockIsLost
<1>5. ASSUME NEW c \in Commands, Clean(c) PROVE ReadyIsAlone' /\ Lasting
  BY <1>5 DEF Clean, Goes, files, Typed, CommandStates, ControlOK, PlaceOK,
     LockIsHeld, Holding, HasSpawned, Running, ReadyIsAlone, Lasting, AllAlone,
     NoneKilled, LockIsLost
<1>6. ASSUME NEW c \in Commands, CleanState(c) PROVE ReadyIsAlone' /\ Lasting
  BY <1>6 DEF CleanState, Goes, Releases, Finishes, files, Typed,
     CommandStates, ControlOK, PlaceOK, LockIsHeld, Holding, HasSpawned, Running,
     ReadyIsAlone, Lasting, AllAlone, NoneKilled, LockIsLost, Leaving
<1>7. ASSUME NEW c \in Commands, NEW x \in Ports, ProbeBinds(c, x)
      PROVE  ReadyIsAlone' /\ Lasting
  BY <1>7 DEF ProbeBinds, Goes, files, Ports, Typed, CommandStates, ControlOK,
     PlaceOK, LockIsHeld, Holding, HasSpawned, Running, ReadyIsAlone, Lasting,
     AllAlone, NoneKilled, LockIsLost
<1>8. ASSUME NEW c \in Commands, HttpWasFree(c) PROVE ReadyIsAlone' /\ Lasting
  BY SMTT(20), <1>8 DEF HttpWasFree, files, Typed, CommandStates, ControlOK,
     PlaceOK, LockIsHeld, Holding, HasSpawned, Running, ReadyIsAlone, Lasting,
     AllAlone, NoneKilled, LockIsLost
<1>9. ASSUME NEW c \in Commands, WsWasFree(c) PROVE ReadyIsAlone' /\ Lasting
  BY <1>9 DEF WsWasFree, Goes, Finishes, files, Typed, CommandStates,
     ControlOK, PlaceOK, LockIsHeld, Holding, HasSpawned, Running, ReadyIsAlone,
     Lasting, AllAlone, NoneKilled, LockIsLost, Leaving
<1>10. ASSUME NEW c \in Commands, HttpIsBusy(c) PROVE ReadyIsAlone' /\ Lasting
  BY <1>10 DEF HttpIsBusy, Releases, files, Typed, CommandStates, ControlOK,
     PlaceOK, LockIsHeld, Holding, HasSpawned, Running, ReadyIsAlone, Lasting,
     AllAlone, NoneKilled, LockIsLost
<1>11. ASSUME NEW c \in Commands, WsIsBusy(c) PROVE ReadyIsAlone' /\ Lasting
  BY <1>11 DEF WsIsBusy, Releases, BothBusy, Goes, Finishes, files, Typed,
     CommandStates, ControlOK, PlaceOK, LockIsHeld, Holding, HasSpawned, Running,
     ReadyIsAlone, Lasting, AllAlone, NoneKilled, LockIsLost, Leaving
<1>12. ASSUME NEW c \in Commands, AcquireLock(c) PROVE ReadyIsAlone' /\ Lasting
  BY <1>12 DEF AcquireLock, Goes, files, Typed, CommandStates, ControlOK,
     PlaceOK, LockIsHeld, Holding, HasSpawned, Running, ReadyIsAlone, Lasting,
     AllAlone, NoneKilled, LockIsLost
<1>13. ASSUME NEW c \in Commands, LockTaken(c) PROVE ReadyIsAlone' /\ Lasting
  BY <1>13 DEF LockTaken, Finishes, files, Typed, CommandStates, ControlOK,
     PlaceOK, LockIsHeld, Holding, HasSpawned, Running, ReadyIsAlone, Lasting,
     AllAlone, NoneKilled, LockIsLost, Leaving
<1>14. ASSUME NEW c \in Commands, AlreadyRunning(c) PROVE ReadyIsAlone' /\ Lasting
  BY <1>14 DEF AlreadyRunning, FindsRunning, Alive, Releases, files, Typed,
     CommandStates, ControlOK, PlaceOK, LockIsHeld, Holding, HasSpawned, Running,
     ReadyIsAlone, Lasting, AllAlone, NoneKilled, LockIsLost
<1>15. ASSUME NEW c \in Commands, Spawn(c) PROVE ReadyIsAlone' /\ Lasting
  BY <1>15 DEF Spawn, Unused, Running, files, Typed, CommandStates, ControlOK,
     PlaceOK, LockIsHeld, Holding, HasSpawned, ReadyIsAlone, Lasting, AllAlone,
     NoneKilled, LockIsLost
<1>16. ASSUME NEW c \in Commands, SpawnFails(c) PROVE ReadyIsAlone' /\ Lasting
  BY <1>16 DEF SpawnFails, Releases, files, Typed, CommandStates, ControlOK,
     PlaceOK, LockIsHeld, Holding, HasSpawned, Running, ReadyIsAlone, Lasting,
     AllAlone, NoneKilled, LockIsLost
<1>17. ASSUME NEW c \in Commands, WritePid(c) PROVE ReadyIsAlone' /\ Lasting
  BY <1>17 DEF WritePid, Goes, files, Typed, CommandStates, ControlOK,
     PlaceOK, LockIsHeld, Holding, HasSpawned, Running, ReadyIsAlone, Lasting,
     AllAlone, NoneKilled, LockIsLost
<1>18. ASSUME NEW c \in Commands, WriteState(c) PROVE ReadyIsAlone' /\ Lasting
  BY <1>18 DEF WriteState, files, Typed, CommandStates, ControlOK, PlaceOK,
     LockIsHeld, Holding, HasSpawned, Running, ReadyIsAlone, Lasting, AllAlone,
     NoneKilled, LockIsLost
<1>19. ASSUME NEW c \in Commands, Poll(c) PROVE ReadyIsAlone' /\ Lasting
  BY <1>19 DEF Poll, Alive, Goes, files, Typed, CommandStates, ControlOK,
     PlaceOK, LockIsHeld, Holding, HasSpawned, Running, ReadyIsAlone, Lasting,
     AllAlone, NoneKilled, LockIsLost
<1>20. ASSUME NEW c \in Commands, PollFails(c) PROVE ReadyIsAlone' /\ Lasting
  BY <1>20 DEF PollFails, GivenUp, Terminates, Ends, Freed, Ports, files,
     Typed, CommandStates, ControlOK, PlaceOK, LockIsHeld, Holding, HasSpawned,
     Running, ReadyIsAlone, Lasting, AllAlone, NoneKilled, LockIsLost
<1>21. ASSUME NEW c \in Commands, Release(c) PROVE ReadyIsAlone' /\ Lasting
  BY <1>21 DEF Release, Goes, files, Typed, CommandStates, ControlOK, PlaceOK,
     LockIsHeld, Holding, HasSpawned, Running, ReadyIsAlone, Lasting, AllAlone,
     NoneKilled, LockIsLost, Finishes, Leaving
<1>22. ASSUME NEW c \in Commands, Inspect(c) PROVE ReadyIsAlone' /\ Lasting
  BY <1>22 DEF Inspect, FindsRunning, Alive, LooksManaged, Goes, Finishes,
     files, Typed, CommandStates, ControlOK, PlaceOK, LockIsHeld, Holding,
     HasSpawned, Running, ReadyIsAlone, Lasting, AllAlone, NoneKilled,
     LockIsLost, Leaving
<1>23. ASSUME NEW c \in Commands, SignalStop(c) PROVE ReadyIsAlone' /\ Lasting
  <2>1. /\ cmd[c].at = "signal" /\ UNCHANGED files
        /\ Goes(c, "wait") \/ Finishes(c, FALSE)
    BY <1>23 DEF SignalStop
  <2>2. /\ OthersStay(c) /\ cmd'[c].alone = cmd[c].alone
        /\ cmd'[c].at \in {"wait", "done"}
    <3>1. CASE Goes(c, "wait")
      BY <3>1 DEF Goes, OthersStay, Typed, CommandStates
    <3>2. CASE Finishes(c, FALSE)
      BY <3>2, LeavingFields DEF Finishes, Gone
    <3> QED
      BY <2>1, <3>1, <3>2
  <2> QED
    BY <2>1, <2>2 DEF OthersStay, files, Typed, ReadyIsAlone, Lasting, AllAlone,
       NoneKilled, LockIsLost
<1>24. ASSUME NEW c \in Commands, HasStopped(c) PROVE ReadyIsAlone' /\ Lasting
  BY <1>24 DEF HasStopped, Alive, Goes, files, Typed, CommandStates,
     ControlOK, PlaceOK, LockIsHeld, Holding, HasSpawned, Running, ReadyIsAlone,
     Lasting, AllAlone, NoneKilled, LockIsLost
<1>25. ASSUME NEW c \in Commands, StopTimesOut(c) PROVE ReadyIsAlone' /\ Lasting
  BY <1>25 DEF StopTimesOut, Alive, Finishes, Goes, Ends, Freed, Ports, files,
     Typed, CommandStates, ControlOK, PlaceOK, LockIsHeld, Holding, HasSpawned,
     Running, ReadyIsAlone, Lasting, AllAlone, NoneKilled, LockIsLost, Leaving
<1>26. ASSUME NEW c \in Commands, Kill(c) PROVE ReadyIsAlone' /\ Lasting
  BY <1>26 DEF Kill, Running, Disturbs, Goes, Freed, Ports, files, Typed,
     CommandStates, ControlOK, PlaceOK, LockIsHeld, Holding, HasSpawned,
     ReadyIsAlone, Lasting, AllAlone, NoneKilled, LockIsLost, Leaving
<1>27. ASSUME NEW p \in Pids, BindWs(p) PROVE ReadyIsAlone' /\ Lasting
  BY <1>27 DEF BindWs, Ends, Freed, Ports, files, Typed, CommandStates,
     ControlOK, PlaceOK, LockIsHeld, Holding, HasSpawned, Running, ReadyIsAlone,
     Lasting, AllAlone, NoneKilled, LockIsLost
<1>28. ASSUME NEW p \in Pids, BindHttp(p) PROVE ReadyIsAlone' /\ Lasting
  BY <1>28 DEF BindHttp, Ends, Freed, Ports, files, Typed, CommandStates,
     ControlOK, PlaceOK, LockIsHeld, Holding, HasSpawned, Running, ReadyIsAlone,
     Lasting, AllAlone, NoneKilled, LockIsLost
<1>29. ASSUME NEW p \in Pids, StopHttp(p) PROVE ReadyIsAlone' /\ Lasting
  BY <1>29 DEF StopHttp, files, Typed, CommandStates, ControlOK, PlaceOK,
     LockIsHeld, Holding, HasSpawned, Running, ReadyIsAlone, Lasting, AllAlone,
     NoneKilled, LockIsLost
<1>30. ASSUME NEW p \in Pids, Exit(p) PROVE ReadyIsAlone' /\ Lasting
  BY <1>30 DEF Exit, Ends, Freed, Ports, files, Typed, CommandStates,
     ControlOK, PlaceOK, LockIsHeld, Holding, HasSpawned, Running, ReadyIsAlone,
     Lasting, AllAlone, NoneKilled, LockIsLost
<1>31. ASSUME NEW p \in Pids, Crash(p) PROVE ReadyIsAlone' /\ Lasting
  BY <1>31 DEF Crash, Up, Disturbs, Ends, Freed, Ports, files, Typed,
     CommandStates, ControlOK, PlaceOK, LockIsHeld, Holding, HasSpawned, Running,
     ReadyIsAlone, Lasting, AllAlone, NoneKilled, LockIsLost
<1>32. ASSUME NEW p \in Pids, Reuse(p) PROVE ReadyIsAlone' /\ Lasting
  BY <1>32 DEF Reuse, Running, Disturbs, files, Typed, CommandStates,
     ControlOK, PlaceOK, LockIsHeld, Holding, HasSpawned, ReadyIsAlone, Lasting,
     AllAlone, NoneKilled, LockIsLost, Strangers
<1> QED
  BY <1>1, <1>2, <1>3, <1>4, <1>5, <1>6, <1>7, <1>8, <1>9, <1>10, <1>11, <1>12,
     <1>13, <1>14, <1>15, <1>16, <1>17, <1>18, <1>19, <1>20, <1>21, <1>22,
     <1>23, <1>24, <1>25, <1>26, <1>27, <1>28, <1>29, <1>30, <1>31, <1>32 DEF
     Next

\* A command that runs alone stays alone, and nobody writes what it has read.
LEMMA AloneStep ==
  ASSUME Typed, ControlOK, ReadyIsAlone, AloneInv, Next
  PROVE  AloneInv'
<1>1. ASSUME NEW c \in Commands, Invoke(c) PROVE AloneInv'
  <2>1. Begins(c) /\ \A d \in Commands \ {c} : Stays(d)
    BY <1>1, Invoked
  <2>2. cmd[c].at = "ready" /\ UNCHANGED <<files, proc, port>>
    BY <1>1 DEF Invoke, files
  <2>3. AllAlone' => NoneRuns
    BY <1>1, InvokedAlone DEF AllAlone
  <2> QED
    BY <2>1, <2>2, <2>3 DEF Begins, Stays, AloneInv, NoneRuns, OneRuns, ReadsTrue, Running
<1>2. ASSUME NEW c \in Commands, ReadState(c) PROVE AloneInv'
  BY <1>2, DaemonAssumption DEF DaemonAssumption, ReadState, files, Typed,
     CommandStates, ControlOK, PlaceOK, HasSpawned, Running, AllAlone,
     AloneInv, OneRuns, ReadsTrue
<1>3. ASSUME NEW c \in Commands, ReadPid(c) PROVE AloneInv'
  BY <1>3, DaemonAssumption DEF DaemonAssumption, ReadPid, files, Typed,
     CommandStates, ControlOK, PlaceOK, HasSpawned, Running, AllAlone,
     AloneInv, OneRuns, ReadsTrue
<1>4. ASSUME NEW c \in Commands, NotRunning(c) PROVE AloneInv'
  BY <1>4, DaemonAssumption DEF DaemonAssumption, NotRunning, FindsRunning,
     Alive, Goes, files, Typed, CommandStates, ControlOK, PlaceOK, HasSpawned,
     Running, AllAlone, AloneInv, OneRuns, ReadsTrue
<1>5. ASSUME NEW c \in Commands, Clean(c) PROVE AloneInv'
  BY <1>5, DaemonAssumption DEF DaemonAssumption, Clean, Goes, files, Typed,
     CommandStates, ControlOK, PlaceOK, HasSpawned, Running, AllAlone,
     AloneInv, OneRuns, ReadsTrue
<1>6. ASSUME NEW c \in Commands, CleanState(c) PROVE AloneInv'
  BY SMTT(20), <1>6, DaemonAssumption DEF DaemonAssumption, CleanState, Goes,
     Releases, Finishes, files, Typed, CommandStates, ControlOK, PlaceOK,
     HasSpawned, Running, AllAlone, AloneInv, OneRuns, ReadsTrue, Leaving
<1>7. ASSUME NEW c \in Commands, NEW x \in Ports, ProbeBinds(c, x) PROVE AloneInv'
  BY <1>7, DaemonAssumption DEF DaemonAssumption, ProbeBinds, Goes, files,
     Ports, Typed, CommandStates, ControlOK, PlaceOK, HasSpawned, Running,
     AllAlone, AloneInv, OneRuns, ReadsTrue
<1>8. ASSUME NEW c \in Commands, HttpWasFree(c) PROVE AloneInv'
  BY <1>8, DaemonAssumption DEF DaemonAssumption, HttpWasFree, files, Typed,
     CommandStates, ControlOK, PlaceOK, HasSpawned, Running, AllAlone,
     AloneInv, OneRuns, ReadsTrue
<1>9. ASSUME NEW c \in Commands, WsWasFree(c) PROVE AloneInv'
  BY SMTT(20), <1>9, DaemonAssumption DEF DaemonAssumption, WsWasFree, Goes,
     Finishes, files, Typed, CommandStates, ControlOK, PlaceOK, HasSpawned,
     Running, AllAlone, AloneInv, OneRuns, ReadsTrue, Leaving
<1>10. ASSUME NEW c \in Commands, HttpIsBusy(c) PROVE AloneInv'
  BY <1>10, DaemonAssumption DEF DaemonAssumption, HttpIsBusy, Releases,
     files, Typed, CommandStates, ControlOK, PlaceOK, HasSpawned, Running,
     AllAlone, AloneInv, OneRuns, ReadsTrue
<1>11. ASSUME NEW c \in Commands, WsIsBusy(c) PROVE AloneInv'
  <2>1. /\ \A d \in Commands \ {c} : cmd'[d].at = cmd[d].at
        /\ \A d \in Commands : cmd'[d].alone = cmd[d].alone
    BY <1>11 DEF WsIsBusy, Goes, Finishes, Releases, Typed, CommandStates,
       Leaving
  <2>2. cmd[c].at = "ws" /\ cmd'[c].at \in {"release", "poll", "done"} /\ UNCHANGED files
    BY <1>11 DEF WsIsBusy, Goes, Finishes, Releases, Typed, CommandStates,
       Leaving
  <2> QED
    BY <2>1, <2>2 DEF files, AloneInv, AllAlone, OneRuns, ReadsTrue, Running
<1>12. ASSUME NEW c \in Commands, AcquireLock(c) PROVE AloneInv'
  BY <1>12, DaemonAssumption DEF DaemonAssumption, AcquireLock, Goes, files,
     Typed, CommandStates, ControlOK, PlaceOK, HasSpawned, Running, AllAlone,
     AloneInv, OneRuns, ReadsTrue
<1>13. ASSUME NEW c \in Commands, LockTaken(c) PROVE AloneInv'
  <2>1. OthersStay(c) /\ Gone(c, "done") /\ UNCHANGED files
    BY <1>13, Refused DEF LockTaken
  <2> QED
    BY <2>1 DEF Gone, OthersStay, files, AloneInv, AllAlone, OneRuns, ReadsTrue, Running
<1>14. ASSUME NEW c \in Commands, AlreadyRunning(c) PROVE AloneInv'
  BY <1>14, DaemonAssumption DEF DaemonAssumption, AlreadyRunning,
     FindsRunning, Alive, Releases, files, Typed, CommandStates, ControlOK,
     PlaceOK, HasSpawned, Running, AllAlone, AloneInv, OneRuns, ReadsTrue
<1>15. ASSUME NEW c \in Commands, Spawn(c) PROVE AloneInv'
  BY <1>15, DaemonAssumption DEF DaemonAssumption, Spawn, Unused, Running,
     files, Typed, CommandStates, ControlOK, PlaceOK, HasSpawned, AllAlone,
     AloneInv, OneRuns, ReadsTrue
<1>16. ASSUME NEW c \in Commands, SpawnFails(c) PROVE AloneInv'
  BY <1>16, DaemonAssumption DEF DaemonAssumption, SpawnFails, Releases,
     files, Typed, CommandStates, ControlOK, PlaceOK, HasSpawned, Running,
     AllAlone, AloneInv, OneRuns, ReadsTrue
<1>17. ASSUME NEW c \in Commands, WritePid(c) PROVE AloneInv'
  BY <1>17, DaemonAssumption DEF DaemonAssumption, WritePid, Goes, files,
     Typed, CommandStates, ControlOK, PlaceOK, HasSpawned, Running, AllAlone,
     AloneInv, OneRuns, ReadsTrue
<1>18. ASSUME NEW c \in Commands, WriteState(c) PROVE AloneInv'
  BY <1>18, DaemonAssumption DEF DaemonAssumption, WriteState, files, Typed,
     CommandStates, ControlOK, PlaceOK, HasSpawned, Running, AllAlone,
     AloneInv, OneRuns, ReadsTrue
<1>19. ASSUME NEW c \in Commands, Poll(c) PROVE AloneInv'
  BY <1>19, DaemonAssumption DEF DaemonAssumption, Poll, Alive, Goes, files,
     Typed, CommandStates, ControlOK, PlaceOK, HasSpawned, Running, AllAlone,
     AloneInv, OneRuns, ReadsTrue
<1>20. ASSUME NEW c \in Commands, PollFails(c) PROVE AloneInv'
  BY <1>20, DaemonAssumption DEF DaemonAssumption, PollFails, GivenUp,
     Terminates, Ends, Freed, Ports, files, Typed, CommandStates, ControlOK,
     PlaceOK, HasSpawned, Running, AllAlone, AloneInv, OneRuns, ReadsTrue
<1>21. ASSUME NEW c \in Commands, Release(c) PROVE AloneInv'
  BY <1>21, DaemonAssumption DEF DaemonAssumption, Release, Goes, files,
     Typed, CommandStates, ControlOK, PlaceOK, HasSpawned, Running, AllAlone,
     AloneInv, OneRuns, ReadsTrue, Finishes, Leaving
<1>22. ASSUME NEW c \in Commands, Inspect(c) PROVE AloneInv'
  BY <1>22, DaemonAssumption DEF DaemonAssumption, Inspect, FindsRunning,
     Alive, LooksManaged, Goes, Finishes, files, Typed, CommandStates, ControlOK,
     PlaceOK, HasSpawned, Running, AllAlone, AloneInv, OneRuns, ReadsTrue,
     Leaving
<1>23. ASSUME NEW c \in Commands, SignalStop(c) PROVE AloneInv'
  BY SMTT(20), <1>23, DaemonAssumption DEF DaemonAssumption, SignalStop,
     Alive, Terminates, Ends, Freed, Ports, Goes, Finishes, files, Typed,
     CommandStates, ControlOK, PlaceOK, HasSpawned, Running, AllAlone, AloneInv,
     OneRuns, ReadsTrue, Leaving
<1>24. ASSUME NEW c \in Commands, HasStopped(c) PROVE AloneInv'
  BY <1>24, DaemonAssumption DEF DaemonAssumption, HasStopped, Alive, Goes,
     files, Typed, CommandStates, ControlOK, PlaceOK, HasSpawned, Running,
     AllAlone, AloneInv, OneRuns, ReadsTrue
<1>25. ASSUME NEW c \in Commands, StopTimesOut(c) PROVE AloneInv'
  BY <1>25, DaemonAssumption DEF DaemonAssumption, StopTimesOut, Alive,
     Finishes, Goes, Ends, Freed, Ports, files, Typed, CommandStates, ControlOK,
     PlaceOK, HasSpawned, Running, AllAlone, AloneInv, OneRuns, ReadsTrue,
     Leaving
<1>26. ASSUME NEW c \in Commands, Kill(c) PROVE AloneInv'
  BY <1>26, DaemonAssumption DEF DaemonAssumption, Kill, Running, Disturbs,
     Goes, Freed, Ports, files, Typed, CommandStates, ControlOK, PlaceOK,
     HasSpawned, AllAlone, AloneInv, OneRuns, ReadsTrue, Leaving
<1>27. ASSUME NEW p \in Pids, BindWs(p) PROVE AloneInv'
  BY <1>27, DaemonAssumption DEF DaemonAssumption, BindWs, Ends, Freed, Ports,
     files, Typed, CommandStates, ControlOK, PlaceOK, HasSpawned, Running,
     AllAlone, AloneInv, OneRuns, ReadsTrue
<1>28. ASSUME NEW p \in Pids, BindHttp(p) PROVE AloneInv'
  BY <1>28, DaemonAssumption DEF DaemonAssumption, BindHttp, Ends, Freed,
     Ports, files, Typed, CommandStates, ControlOK, PlaceOK, HasSpawned,
     Running, AllAlone, AloneInv, OneRuns, ReadsTrue
<1>29. ASSUME NEW p \in Pids, StopHttp(p) PROVE AloneInv'
  BY <1>29, DaemonAssumption DEF DaemonAssumption, StopHttp, files, Typed,
     CommandStates, ControlOK, PlaceOK, HasSpawned, Running, AllAlone,
     AloneInv, OneRuns, ReadsTrue
<1>30. ASSUME NEW p \in Pids, Exit(p) PROVE AloneInv'
  BY <1>30, DaemonAssumption DEF DaemonAssumption, Exit, Ends, Freed, Ports,
     files, Typed, CommandStates, ControlOK, PlaceOK, HasSpawned, Running,
     AllAlone, AloneInv, OneRuns, ReadsTrue
<1>31. ASSUME NEW p \in Pids, Crash(p) PROVE AloneInv'
  BY <1>31, DaemonAssumption DEF DaemonAssumption, Crash, Up, Disturbs, Ends,
     Freed, Ports, files, Typed, CommandStates, ControlOK, PlaceOK,
     HasSpawned, Running, AllAlone, AloneInv, OneRuns, ReadsTrue
<1>32. ASSUME NEW p \in Pids, Reuse(p) PROVE AloneInv'
  BY <1>32, DaemonAssumption DEF DaemonAssumption, Reuse, Running, Disturbs,
     files, Typed, CommandStates, ControlOK, PlaceOK, HasSpawned, AllAlone,
     AloneInv, OneRuns, ReadsTrue, Strangers
<1> QED
  BY <1>1, <1>2, <1>3, <1>4, <1>5, <1>6, <1>7, <1>8, <1>9, <1>10, <1>11, <1>12,
     <1>13, <1>14, <1>15, <1>16, <1>17, <1>18, <1>19, <1>20, <1>21, <1>22,
     <1>23, <1>24, <1>25, <1>26, <1>27, <1>28, <1>29, <1>30, <1>31, <1>32 DEF
     Next

\* While nobody has been killed with the lock, it knows the server that is up.
LEMMA KnownStep ==
  ASSUME Typed, ControlOK, LockIsHeld, Lasting, AloneInv, KnownInv, Next
  PROVE  KnownInv'
<1>1. ASSUME NEW c \in Commands, Invoke(c) PROVE KnownInv'
  <2>1. Begins(c) /\ \A d \in Commands \ {c} : Stays(d)
    BY <1>1, Invoked
  <2>2. cmd[c].at = "ready" /\ UNCHANGED <<files, proc, port>>
    BY <1>1 DEF Invoke, files
  <2>3. AllAlone' => NoneRuns
    BY <1>1, InvokedAlone DEF AllAlone
  <2>4. AllAlone' /\ ~LockIsLost' => Recorded
    BY <2>3 DEF Lasting, KnownInv
  <2> QED
    BY <2>1, <2>2, <2>3, <2>4 DEF Begins, Stays, files, KnownInv, Knows, NoneRuns, Recorded,
       HasSpawned, Running, Up, ControlOK, PlaceOK
<1>2. ASSUME NEW c \in Commands, ReadState(c) PROVE KnownInv'
  BY SMTT(20), <1>2, DaemonAssumption DEF DaemonAssumption, ReadState, files, Typed,
     CommandStates, ControlOK, PlaceOK, LockIsHeld, Holding, HasSpawned,
     Running, AllAlone, AloneInv, OneRuns, ReadsTrue, Lasting, KnownInv,
     LockIsLost, Knows, NoneRuns, Recorded, Up, Alive
<1>3. ASSUME NEW c \in Commands, ReadPid(c) PROVE KnownInv'
  BY SMTT(20), <1>3, DaemonAssumption DEF DaemonAssumption, ReadPid, files, Typed,
     CommandStates, ControlOK, PlaceOK, LockIsHeld, Holding, HasSpawned,
     Running, AllAlone, AloneInv, OneRuns, ReadsTrue, Lasting, KnownInv,
     LockIsLost, Knows, NoneRuns, Recorded, Up, Alive
\* The one server there could be is on record, and that one has ended.
<1>4. ASSUME NEW c \in Commands, NotRunning(c) PROVE KnownInv'
  BY <1>4, DaemonAssumption DEF DaemonAssumption, NotRunning, FindsRunning,
     Alive, Goes, files, Typed, CommandStates, ControlOK, PlaceOK, LockIsHeld,
     Holding, HasSpawned, Running, AllAlone, AloneInv, OneRuns, ReadsTrue,
     Lasting, KnownInv, LockIsLost, Knows, NoneRuns, Recorded, Up
<1>5. ASSUME NEW c \in Commands, Clean(c) PROVE KnownInv'
  BY <1>5, DaemonAssumption DEF DaemonAssumption, Clean, Goes, files, Typed,
     CommandStates, ControlOK, PlaceOK, LockIsHeld, Holding, HasSpawned,
     Running, AllAlone, AloneInv, OneRuns, ReadsTrue, Lasting, KnownInv,
     LockIsLost, Knows, NoneRuns, Recorded, Up, Alive
<1>6. ASSUME NEW c \in Commands, CleanState(c) PROVE KnownInv'
  BY <1>6, DaemonAssumption DEF DaemonAssumption, CleanState, Goes, Releases,
     Finishes, files, Typed, CommandStates, ControlOK, PlaceOK, LockIsHeld,
     Holding, HasSpawned, Running, AllAlone, AloneInv, OneRuns, ReadsTrue,
     Lasting, KnownInv, LockIsLost, Knows, NoneRuns, Recorded, Up, Alive, Leaving
<1>7. ASSUME NEW c \in Commands, NEW x \in Ports, ProbeBinds(c, x) PROVE KnownInv'
  BY <1>7, DaemonAssumption DEF DaemonAssumption, ProbeBinds, Goes, files,
     Ports, Typed, CommandStates, ControlOK, PlaceOK, LockIsHeld, Holding,
     HasSpawned, Running, AllAlone, AloneInv, OneRuns, ReadsTrue, Lasting,
     KnownInv, LockIsLost, Knows, NoneRuns, Recorded, Up, Alive
<1>8. ASSUME NEW c \in Commands, HttpWasFree(c) PROVE KnownInv'
  BY <1>8, DaemonAssumption DEF DaemonAssumption, HttpWasFree, files, Typed,
     CommandStates, ControlOK, PlaceOK, LockIsHeld, Holding, HasSpawned,
     Running, AllAlone, AloneInv, OneRuns, ReadsTrue, Lasting, KnownInv,
     LockIsLost, Knows, NoneRuns, Recorded, Up, Alive
<1>9. ASSUME NEW c \in Commands, WsWasFree(c) PROVE KnownInv'
  BY <1>9, DaemonAssumption DEF DaemonAssumption, WsWasFree, Goes, Finishes,
     files, Typed, CommandStates, ControlOK, PlaceOK, LockIsHeld, Holding,
     HasSpawned, Running, AllAlone, AloneInv, OneRuns, ReadsTrue, Lasting,
     KnownInv, LockIsLost, Knows, NoneRuns, Recorded, Up, Alive, Leaving
<1>10. ASSUME NEW c \in Commands, HttpIsBusy(c) PROVE KnownInv'
  BY <1>10, DaemonAssumption DEF DaemonAssumption, HttpIsBusy, Releases,
     files, Typed, CommandStates, ControlOK, PlaceOK, LockIsHeld, Holding,
     HasSpawned, Running, AllAlone, AloneInv, OneRuns, ReadsTrue, Lasting,
     KnownInv, LockIsLost, Knows, NoneRuns, Recorded, Up, Alive
<1>11. ASSUME NEW c \in Commands, WsIsBusy(c) PROVE KnownInv'
  BY <1>11, DaemonAssumption DEF DaemonAssumption, WsIsBusy, Releases,
     BothBusy, Goes, Finishes, files, Typed, CommandStates, ControlOK, PlaceOK,
     LockIsHeld, Holding, HasSpawned, Running, AllAlone, AloneInv, OneRuns,
     ReadsTrue, Lasting, KnownInv, LockIsLost, Knows, NoneRuns, Recorded, Up,
     Alive, Leaving
<1>12. ASSUME NEW c \in Commands, AcquireLock(c) PROVE KnownInv'
  BY <1>12, DaemonAssumption DEF DaemonAssumption, AcquireLock, Goes, files,
     Typed, CommandStates, ControlOK, PlaceOK, LockIsHeld, Holding,
     HasSpawned, Running, AllAlone, AloneInv, OneRuns, ReadsTrue, Lasting,
     KnownInv, LockIsLost, Knows, NoneRuns, Recorded, Up, Alive
<1>13. ASSUME NEW c \in Commands, LockTaken(c) PROVE KnownInv'
  BY <1>13, DaemonAssumption DEF DaemonAssumption, LockTaken, Finishes, files,
     Typed, CommandStates, ControlOK, PlaceOK, LockIsHeld, Holding, HasSpawned,
     Running, AllAlone, AloneInv, OneRuns, ReadsTrue, Lasting, KnownInv,
     LockIsLost, Knows, NoneRuns, Recorded, Up, Alive, Leaving
<1>14. ASSUME NEW c \in Commands, AlreadyRunning(c) PROVE KnownInv'
  BY <1>14, DaemonAssumption DEF DaemonAssumption, AlreadyRunning,
     FindsRunning, Alive, Releases, files, Typed, CommandStates, ControlOK,
     PlaceOK, LockIsHeld, Holding, HasSpawned, Running, AllAlone, AloneInv,
     OneRuns, ReadsTrue, Lasting, KnownInv, LockIsLost, Knows, NoneRuns,
     Recorded, Up
\* No server was up, so the new one is all there is.
<1>15. ASSUME NEW c \in Commands, Spawn(c) PROVE KnownInv'
  BY <1>15, DaemonAssumption DEF DaemonAssumption, Spawn, Unused, Running,
     files, Typed, CommandStates, ControlOK, PlaceOK, LockIsHeld, Holding,
     HasSpawned, AllAlone, AloneInv, OneRuns, ReadsTrue, Lasting, KnownInv,
     LockIsLost, Knows, NoneRuns, Recorded, Up, Alive
<1>16. ASSUME NEW c \in Commands, SpawnFails(c) PROVE KnownInv'
  BY <1>16, DaemonAssumption DEF DaemonAssumption, SpawnFails, Releases,
     files, Typed, CommandStates, ControlOK, PlaceOK, LockIsHeld, Holding,
     HasSpawned, Running, AllAlone, AloneInv, OneRuns, ReadsTrue, Lasting,
     KnownInv, LockIsLost, Knows, NoneRuns, Recorded, Up, Alive
<1>17. ASSUME NEW c \in Commands, WritePid(c) PROVE KnownInv'
  BY <1>17, DaemonAssumption DEF DaemonAssumption, WritePid, Goes, files,
     Typed, CommandStates, ControlOK, PlaceOK, LockIsHeld, Holding,
     HasSpawned, Running, AllAlone, AloneInv, OneRuns, ReadsTrue, Lasting,
     KnownInv, LockIsLost, Knows, NoneRuns, Recorded, Up, Alive
<1>18. ASSUME NEW c \in Commands, WriteState(c) PROVE KnownInv'
  BY <1>18, DaemonAssumption DEF DaemonAssumption, WriteState, files, Typed,
     CommandStates, ControlOK, PlaceOK, LockIsHeld, Holding, HasSpawned,
     Running, AllAlone, AloneInv, OneRuns, ReadsTrue, Lasting, KnownInv,
     LockIsLost, Knows, NoneRuns, Recorded, Up, Alive
<1>19. ASSUME NEW c \in Commands, Poll(c) PROVE KnownInv'
  BY <1>19, DaemonAssumption DEF DaemonAssumption, Poll, Alive, Goes, files,
     Typed, CommandStates, ControlOK, PlaceOK, LockIsHeld, Holding,
     HasSpawned, Running, AllAlone, AloneInv, OneRuns, ReadsTrue, Lasting,
     KnownInv, LockIsLost, Knows, NoneRuns, Recorded, Up
<1>20. ASSUME NEW c \in Commands, PollFails(c) PROVE KnownInv'
  BY <1>20, DaemonAssumption DEF DaemonAssumption, PollFails, GivenUp,
     Terminates, Ends, Freed, Ports, files, Typed, CommandStates, ControlOK,
     PlaceOK, LockIsHeld, Holding, HasSpawned, Running, AllAlone, AloneInv,
     OneRuns, ReadsTrue, Lasting, KnownInv, LockIsLost, Knows, NoneRuns,
     Recorded, Up, Alive
\* The record was written before the server was waited for.
<1>21. ASSUME NEW c \in Commands, Release(c) PROVE KnownInv'
  <2>1. OthersStay(c) /\ Gone(c, "done")
    BY <1>21, Released
  <2>2. cmd[c].at = "release" /\ lock' = None /\ UNCHANGED <<pidFile, stateFile, proc>>
    BY <1>21 DEF Release
  <2> QED
    BY <2>1, <2>2 DEF Gone, OthersStay, AllAlone, AloneInv, OneRuns, KnownInv,
       LockIsLost, LockIsHeld, ControlOK, PlaceOK, Holding, HasSpawned, Knows,
       NoneRuns, Recorded, Up, Running
<1>22. ASSUME NEW c \in Commands, Inspect(c) PROVE KnownInv'
  BY <1>22, DaemonAssumption DEF DaemonAssumption, Inspect, FindsRunning,
     Alive, LooksManaged, Goes, Finishes, files, Typed, CommandStates, ControlOK,
     PlaceOK, LockIsHeld, Holding, HasSpawned, Running, AllAlone, AloneInv,
     OneRuns, ReadsTrue, Lasting, KnownInv, LockIsLost, Knows, NoneRuns,
     Recorded, Up, Leaving
<1>23. ASSUME NEW c \in Commands, SignalStop(c) PROVE KnownInv'
  BY <1>23, DaemonAssumption DEF DaemonAssumption, SignalStop, Alive,
     Terminates, Ends, Freed, Ports, Goes, Finishes, files, Typed, CommandStates,
     ControlOK, PlaceOK, LockIsHeld, Holding, HasSpawned, Running, AllAlone,
     AloneInv, OneRuns, ReadsTrue, Lasting, KnownInv, LockIsLost, Knows,
     NoneRuns, Recorded, Up, Leaving
<1>24. ASSUME NEW c \in Commands, HasStopped(c) PROVE KnownInv'
  BY <1>24, DaemonAssumption DEF DaemonAssumption, HasStopped, Alive, Goes,
     files, Typed, CommandStates, ControlOK, PlaceOK, LockIsHeld, Holding,
     HasSpawned, Running, AllAlone, AloneInv, OneRuns, ReadsTrue, Lasting,
     KnownInv, LockIsLost, Knows, NoneRuns, Recorded, Up
<1>25. ASSUME NEW c \in Commands, StopTimesOut(c) PROVE KnownInv'
  BY <1>25, DaemonAssumption DEF DaemonAssumption, StopTimesOut, Alive,
     Finishes, Goes, Ends, Freed, Ports, files, Typed, CommandStates, ControlOK,
     PlaceOK, LockIsHeld, Holding, HasSpawned, Running, AllAlone, AloneInv,
     OneRuns, ReadsTrue, Lasting, KnownInv, LockIsLost, Knows, NoneRuns,
     Recorded, Up, Leaving
\* A start that is killed leaves its lock file; any other command had the server
\* on record.
<1>26. ASSUME NEW c \in Commands, Kill(c) PROVE KnownInv'
  <2>1. OthersStay(c) /\ Gone(c, "killed")
    BY <1>26, Killed
  <2>2. Running(c) /\ UNCHANGED <<lock, pidFile, stateFile, proc>>
    BY <1>26 DEF Kill, files
  <2> QED
    BY <2>1, <2>2, DaemonAssumption DEF DaemonAssumption, Typed, Gone, OthersStay, AllAlone, AloneInv, OneRuns, KnownInv,
       LockIsLost, LockIsHeld, ControlOK, PlaceOK, Holding, HasSpawned, Knows,
       NoneRuns, Recorded, Up, Running
<1>27. ASSUME NEW p \in Pids, BindWs(p) PROVE KnownInv'
  BY <1>27, DaemonAssumption DEF DaemonAssumption, BindWs, Ends, Freed, Ports,
     files, Typed, CommandStates, ControlOK, PlaceOK, LockIsHeld, Holding,
     HasSpawned, Running, AllAlone, AloneInv, OneRuns, ReadsTrue, Lasting,
     KnownInv, LockIsLost, Knows, NoneRuns, Recorded, Up, Alive
<1>28. ASSUME NEW p \in Pids, BindHttp(p) PROVE KnownInv'
  BY <1>28, DaemonAssumption DEF DaemonAssumption, BindHttp, Ends, Freed,
     Ports, files, Typed, CommandStates, ControlOK, PlaceOK, LockIsHeld,
     Holding, HasSpawned, Running, AllAlone, AloneInv, OneRuns, ReadsTrue,
     Lasting, KnownInv, LockIsLost, Knows, NoneRuns, Recorded, Up, Alive
<1>29. ASSUME NEW p \in Pids, StopHttp(p) PROVE KnownInv'
  BY <1>29, DaemonAssumption DEF DaemonAssumption, StopHttp, files, Typed,
     CommandStates, ControlOK, PlaceOK, LockIsHeld, Holding, HasSpawned,
     Running, AllAlone, AloneInv, OneRuns, ReadsTrue, Lasting, KnownInv,
     LockIsLost, Knows, NoneRuns, Recorded, Up, Alive
<1>30. ASSUME NEW p \in Pids, Exit(p) PROVE KnownInv'
  BY <1>30, DaemonAssumption DEF DaemonAssumption, Exit, Ends, Freed, Ports,
     files, Typed, CommandStates, ControlOK, PlaceOK, LockIsHeld, Holding,
     HasSpawned, Running, AllAlone, AloneInv, OneRuns, ReadsTrue, Lasting,
     KnownInv, LockIsLost, Knows, NoneRuns, Recorded, Up, Alive
<1>31. ASSUME NEW p \in Pids, Crash(p) PROVE KnownInv'
  BY <1>31, DaemonAssumption DEF DaemonAssumption, Crash, Up, Disturbs, Ends,
     Freed, Ports, files, Typed, CommandStates, ControlOK, PlaceOK,
     LockIsHeld, Holding, HasSpawned, Running, AllAlone, AloneInv, OneRuns,
     ReadsTrue, Lasting, KnownInv, LockIsLost, Knows, NoneRuns, Recorded,
     Alive
<1>32. ASSUME NEW p \in Pids, Reuse(p) PROVE KnownInv'
  BY <1>32, DaemonAssumption DEF DaemonAssumption, Reuse, Running, Disturbs,
     files, Typed, CommandStates, ControlOK, PlaceOK, LockIsHeld, Holding,
     HasSpawned, AllAlone, AloneInv, OneRuns, ReadsTrue, Lasting, KnownInv,
     LockIsLost, Knows, NoneRuns, Recorded, Up, Alive, Strangers
<1> QED
  BY <1>1, <1>2, <1>3, <1>4, <1>5, <1>6, <1>7, <1>8, <1>9, <1>10, <1>11, <1>12,
     <1>13, <1>14, <1>15, <1>16, <1>17, <1>18, <1>19, <1>20, <1>21, <1>22,
     <1>23, <1>24, <1>25, <1>26, <1>27, <1>28, <1>29, <1>30, <1>31, <1>32 DEF
     Next

\* While nobody has been killed, it waits for no other program to end.
LEMMA SparedStep ==
  ASSUME Typed, ControlOK, LockIsHeld, Lasting, LeavesNothing, AloneInv, SparedInv, Next
  PROVE  SparedInv'
<1>1. ASSUME NEW c \in Commands, Invoke(c) PROVE SparedInv'
  <2>1. Begins(c) /\ \A d \in Commands \ {c} : Stays(d)
    BY <1>1, Invoked
  <2>2. cmd[c].at = "ready" /\ UNCHANGED <<files, proc, port>>
    BY <1>1 DEF Invoke, files
  <2>3. AllAlone' => NoneRuns
    BY <1>1, InvokedAlone DEF AllAlone
  <2> QED
    BY <2>1, <2>2, <2>3 DEF Begins, Stays, files, Lasting, SparedInv, Spares,
       NoneRuns, NoneWrites, NoneKilled, Running
<1>2. ASSUME NEW c \in Commands, ReadState(c) PROVE SparedInv'
  BY <1>2, DaemonAssumption DEF DaemonAssumption, ReadState, files, Typed,
     CommandStates, ControlOK, PlaceOK, LockIsHeld, Holding, HasSpawned, Running,
     AllAlone, AloneInv, OneRuns, ReadsTrue, Lasting, LeavesNothing, Leaves,
     SparedInv, Spares, NoneKilled, NoneWrites, Alive, Strangers
\* There was no state file, so there is no pid file either.
<1>3. ASSUME NEW c \in Commands, ReadPid(c) PROVE SparedInv'
  BY <1>3, DaemonAssumption DEF DaemonAssumption, ReadPid, files, Typed,
     CommandStates, ControlOK, PlaceOK, LockIsHeld, Holding, HasSpawned, Running,
     AllAlone, AloneInv, OneRuns, ReadsTrue, Lasting, LeavesNothing, Leaves,
     SparedInv, Spares, NoneKilled, NoneWrites, Alive, Strangers
<1>4. ASSUME NEW c \in Commands, NotRunning(c) PROVE SparedInv'
  BY <1>4, DaemonAssumption DEF DaemonAssumption, NotRunning, FindsRunning,
     Alive, Goes, files, Typed, CommandStates, ControlOK, PlaceOK, LockIsHeld,
     Holding, HasSpawned, Running, AllAlone, AloneInv, OneRuns, ReadsTrue,
     Lasting, LeavesNothing, Leaves, SparedInv, Spares, NoneKilled, NoneWrites,
     Strangers
<1>5. ASSUME NEW c \in Commands, Clean(c) PROVE SparedInv'
  BY <1>5, DaemonAssumption DEF DaemonAssumption, Clean, Goes, files, Typed,
     CommandStates, ControlOK, PlaceOK, LockIsHeld, Holding, HasSpawned, Running,
     AllAlone, AloneInv, OneRuns, ReadsTrue, Lasting, LeavesNothing, Leaves,
     SparedInv, Spares, NoneKilled, NoneWrites, Alive, Strangers
\* The pid file has been removed before.
<1>6. ASSUME NEW c \in Commands, CleanState(c) PROVE SparedInv'
  BY <1>6, DaemonAssumption DEF DaemonAssumption, CleanState, Goes, Releases,
     Finishes, files, Typed, CommandStates, ControlOK, PlaceOK, LockIsHeld,
     Holding, HasSpawned, Running, AllAlone, AloneInv, OneRuns, ReadsTrue,
     Lasting, LeavesNothing, Leaves, SparedInv, Spares, NoneKilled, NoneWrites,
     Alive, Leaving, Strangers
<1>7. ASSUME NEW c \in Commands, NEW x \in Ports, ProbeBinds(c, x) PROVE SparedInv'
  BY <1>7, DaemonAssumption DEF DaemonAssumption, ProbeBinds, Goes, files,
     Ports, Typed, CommandStates, ControlOK, PlaceOK, LockIsHeld, Holding,
     HasSpawned, Running, AllAlone, AloneInv, OneRuns, ReadsTrue, Lasting,
     LeavesNothing, Leaves, SparedInv, Spares, NoneKilled, NoneWrites, Alive,
     Strangers
<1>8. ASSUME NEW c \in Commands, HttpWasFree(c) PROVE SparedInv'
  BY SMTT(20), <1>8, DaemonAssumption DEF DaemonAssumption, HttpWasFree,
     files, Typed, CommandStates, ControlOK, PlaceOK, LockIsHeld, Holding,
     HasSpawned, Running, AllAlone, AloneInv, OneRuns, ReadsTrue, Lasting,
     LeavesNothing, Leaves, SparedInv, Spares, NoneKilled, NoneWrites, Alive,
     Strangers
<1>9. ASSUME NEW c \in Commands, WsWasFree(c) PROVE SparedInv'
  BY <1>9, DaemonAssumption DEF DaemonAssumption, WsWasFree, Goes, Finishes,
     files, Typed, CommandStates, ControlOK, PlaceOK, LockIsHeld, Holding,
     HasSpawned, Running, AllAlone, AloneInv, OneRuns, ReadsTrue, Lasting,
     LeavesNothing, Leaves, SparedInv, Spares, NoneKilled, NoneWrites, Alive,
     Leaving, Strangers
<1>10. ASSUME NEW c \in Commands, HttpIsBusy(c) PROVE SparedInv'
  BY <1>10, DaemonAssumption DEF DaemonAssumption, HttpIsBusy, Releases,
     files, Typed, CommandStates, ControlOK, PlaceOK, LockIsHeld, Holding,
     HasSpawned, Running, AllAlone, AloneInv, OneRuns, ReadsTrue, Lasting,
     LeavesNothing, Leaves, SparedInv, Spares, NoneKilled, NoneWrites, Alive,
     Strangers
<1>11. ASSUME NEW c \in Commands, WsIsBusy(c) PROVE SparedInv'
  BY SMTT(20), <1>11, DaemonAssumption DEF DaemonAssumption, WsIsBusy,
     Releases, BothBusy, Goes, Finishes, files, Typed, CommandStates, ControlOK,
     PlaceOK, LockIsHeld, Holding, HasSpawned, Running, AllAlone, AloneInv,
     OneRuns, ReadsTrue, Lasting, LeavesNothing, Leaves, SparedInv, Spares,
     NoneKilled, NoneWrites, Alive, Leaving, Strangers
<1>12. ASSUME NEW c \in Commands, AcquireLock(c) PROVE SparedInv'
  BY <1>12, DaemonAssumption DEF DaemonAssumption, AcquireLock, Goes, files,
     Typed, CommandStates, ControlOK, PlaceOK, LockIsHeld, Holding, HasSpawned,
     Running, AllAlone, AloneInv, OneRuns, ReadsTrue, Lasting, LeavesNothing,
     Leaves, SparedInv, Spares, NoneKilled, NoneWrites, Alive, Strangers
<1>13. ASSUME NEW c \in Commands, LockTaken(c) PROVE SparedInv'
  BY <1>13, DaemonAssumption DEF DaemonAssumption, LockTaken, Finishes, files,
     Typed, CommandStates, ControlOK, PlaceOK, LockIsHeld, Holding, HasSpawned,
     Running, AllAlone, AloneInv, OneRuns, ReadsTrue, Lasting, LeavesNothing,
     Leaves, SparedInv, Spares, NoneKilled, NoneWrites, Alive, Leaving, Strangers
<1>14. ASSUME NEW c \in Commands, AlreadyRunning(c) PROVE SparedInv'
  BY <1>14, DaemonAssumption DEF DaemonAssumption, AlreadyRunning,
     FindsRunning, Alive, Releases, files, Typed, CommandStates, ControlOK,
     PlaceOK, LockIsHeld, Holding, HasSpawned, Running, AllAlone, AloneInv,
     OneRuns, ReadsTrue, Lasting, LeavesNothing, Leaves, SparedInv, Spares,
     NoneKilled, NoneWrites, Strangers
<1>15. ASSUME NEW c \in Commands, Spawn(c) PROVE SparedInv'
  BY <1>15, DaemonAssumption DEF DaemonAssumption, Spawn, Unused, Running,
     files, Typed, CommandStates, ControlOK, PlaceOK, LockIsHeld, Holding,
     HasSpawned, AllAlone, AloneInv, OneRuns, ReadsTrue, Lasting, LeavesNothing,
     Leaves, SparedInv, Spares, NoneKilled, NoneWrites, Alive, Strangers
<1>16. ASSUME NEW c \in Commands, SpawnFails(c) PROVE SparedInv'
  BY SMTT(20), <1>16, DaemonAssumption DEF DaemonAssumption, SpawnFails,
     Releases, files, Typed, CommandStates, ControlOK, PlaceOK, LockIsHeld,
     Holding, HasSpawned, Running, AllAlone, AloneInv, OneRuns, ReadsTrue,
     Lasting, LeavesNothing, Leaves, SparedInv, Spares, NoneKilled, NoneWrites,
     Alive, Strangers
<1>17. ASSUME NEW c \in Commands, WritePid(c) PROVE SparedInv'
  BY <1>17, DaemonAssumption DEF DaemonAssumption, WritePid, Goes, files,
     Typed, CommandStates, ControlOK, PlaceOK, LockIsHeld, Holding, HasSpawned,
     Running, AllAlone, AloneInv, OneRuns, ReadsTrue, Lasting, LeavesNothing,
     Leaves, SparedInv, Spares, NoneKilled, NoneWrites, Alive, Strangers
<1>18. ASSUME NEW c \in Commands, WriteState(c) PROVE SparedInv'
  BY <1>18, DaemonAssumption DEF DaemonAssumption, WriteState, files, Typed,
     CommandStates, ControlOK, PlaceOK, LockIsHeld, Holding, HasSpawned, Running,
     AllAlone, AloneInv, OneRuns, ReadsTrue, Lasting, LeavesNothing, Leaves,
     SparedInv, Spares, NoneKilled, NoneWrites, Alive, Strangers
<1>19. ASSUME NEW c \in Commands, Poll(c) PROVE SparedInv'
  BY <1>19, DaemonAssumption DEF DaemonAssumption, Poll, Alive, Goes, files,
     Typed, CommandStates, ControlOK, PlaceOK, LockIsHeld, Holding, HasSpawned,
     Running, AllAlone, AloneInv, OneRuns, ReadsTrue, Lasting, LeavesNothing,
     Leaves, SparedInv, Spares, NoneKilled, NoneWrites, Strangers
<1>20. ASSUME NEW c \in Commands, PollFails(c) PROVE SparedInv'
  BY <1>20, DaemonAssumption DEF DaemonAssumption, PollFails, GivenUp,
     Terminates, Ends, Freed, Ports, files, Typed, CommandStates, ControlOK,
     PlaceOK, LockIsHeld, Holding, HasSpawned, Running, AllAlone, AloneInv,
     OneRuns, ReadsTrue, Lasting, LeavesNothing, Leaves, SparedInv, Spares,
     NoneKilled, NoneWrites, Alive, Strangers
<1>21. ASSUME NEW c \in Commands, Release(c) PROVE SparedInv'
  <2>1. OthersStay(c) /\ Gone(c, "done") /\ cmd[c].at = "release"
    BY <1>21, Released DEF Release
  <2>2. UNCHANGED <<pidFile, stateFile, proc>>
    BY <1>21 DEF Release
  <2> QED
    BY <2>1, <2>2 DEF Gone, OthersStay, Lasting, AllAlone, NoneKilled, SparedInv, Spares,
       NoneWrites, Running, Alive
\* What runs under the pid has the entry point in its command line.
<1>22. ASSUME NEW c \in Commands, Inspect(c) PROVE SparedInv'
  BY <1>22, DaemonAssumption DEF DaemonAssumption, Inspect, FindsRunning,
     Alive, LooksManaged, Goes, Finishes, files, Typed, CommandStates, ControlOK,
     PlaceOK, LockIsHeld, Holding, HasSpawned, Running, AllAlone, AloneInv,
     OneRuns, ReadsTrue, Lasting, LeavesNothing, Leaves, SparedInv, Spares,
     NoneKilled, NoneWrites, Leaving, Strangers
<1>23. ASSUME NEW c \in Commands, SignalStop(c) PROVE SparedInv'
  BY <1>23, DaemonAssumption DEF DaemonAssumption, SignalStop, Alive,
     Terminates, Ends, Freed, Ports, Goes, Finishes, files, Typed, CommandStates,
     ControlOK, PlaceOK, LockIsHeld, Holding, HasSpawned, Running, AllAlone,
     AloneInv, OneRuns, ReadsTrue, Lasting, LeavesNothing, Leaves, SparedInv,
     Spares, NoneKilled, NoneWrites, Leaving, Strangers
<1>24. ASSUME NEW c \in Commands, HasStopped(c) PROVE SparedInv'
  BY <1>24, DaemonAssumption DEF DaemonAssumption, HasStopped, Alive, Goes,
     files, Typed, CommandStates, ControlOK, PlaceOK, LockIsHeld, Holding,
     HasSpawned, Running, AllAlone, AloneInv, OneRuns, ReadsTrue, Lasting,
     LeavesNothing, Leaves, SparedInv, Spares, NoneKilled, NoneWrites, Strangers
<1>25. ASSUME NEW c \in Commands, StopTimesOut(c) PROVE SparedInv'
  BY <1>25, DaemonAssumption DEF DaemonAssumption, StopTimesOut, Alive,
     Finishes, Goes, Ends, Freed, Ports, files, Typed, CommandStates, ControlOK,
     PlaceOK, LockIsHeld, Holding, HasSpawned, Running, AllAlone, AloneInv,
     OneRuns, ReadsTrue, Lasting, LeavesNothing, Leaves, SparedInv, Spares,
     NoneKilled, NoneWrites, Leaving, Strangers
<1>26. ASSUME NEW c \in Commands, Kill(c) PROVE SparedInv'
  BY <1>26, DaemonAssumption DEF DaemonAssumption, Kill, Running, Disturbs,
     Goes, Freed, Ports, files, Typed, CommandStates, ControlOK, PlaceOK,
     LockIsHeld, Holding, HasSpawned, AllAlone, AloneInv, OneRuns, ReadsTrue,
     Lasting, LeavesNothing, Leaves, SparedInv, Spares, NoneKilled, NoneWrites,
     Alive, Leaving, Strangers
<1>27. ASSUME NEW p \in Pids, BindWs(p) PROVE SparedInv'
  <2>1. /\ \A q \in Pids : proc[q] # "other" => proc'[q] # "other"
        /\ UNCHANGED <<files, cmd>>
    BY <1>27 DEF BindWs, Ends, files, Typed
  <2> QED
    BY <2>1 DEF files, SparedInv, Spares, AllAlone, NoneKilled, NoneWrites,
       Running
<1>28. ASSUME NEW p \in Pids, BindHttp(p) PROVE SparedInv'
  <2>1. /\ \A q \in Pids : proc[q] # "other" => proc'[q] # "other"
        /\ UNCHANGED <<files, cmd>>
    BY <1>28 DEF BindHttp, Ends, files, Typed
  <2> QED
    BY <2>1 DEF files, SparedInv, Spares, AllAlone, NoneKilled, NoneWrites,
       Running
<1>29. ASSUME NEW p \in Pids, StopHttp(p) PROVE SparedInv'
  BY <1>29, DaemonAssumption DEF DaemonAssumption, StopHttp, files, Typed,
     CommandStates, ControlOK, PlaceOK, LockIsHeld, Holding, HasSpawned, Running,
     AllAlone, AloneInv, OneRuns, ReadsTrue, Lasting, LeavesNothing, Leaves,
     SparedInv, Spares, NoneKilled, NoneWrites, Alive, Strangers
<1>30. ASSUME NEW p \in Pids, Exit(p) PROVE SparedInv'
  BY <1>30, DaemonAssumption DEF DaemonAssumption, Exit, Ends, Freed, Ports,
     files, Typed, CommandStates, ControlOK, PlaceOK, LockIsHeld, Holding,
     HasSpawned, Running, AllAlone, AloneInv, OneRuns, ReadsTrue, Lasting,
     LeavesNothing, Leaves, SparedInv, Spares, NoneKilled, NoneWrites, Alive,
     Strangers
<1>31. ASSUME NEW p \in Pids, Crash(p) PROVE SparedInv'
  BY <1>31, DaemonAssumption DEF DaemonAssumption, Crash, Up, Disturbs, Ends,
     Freed, Ports, files, Typed, CommandStates, ControlOK, PlaceOK, LockIsHeld,
     Holding, HasSpawned, Running, AllAlone, AloneInv, OneRuns, ReadsTrue,
     Lasting, LeavesNothing, Leaves, SparedInv, Spares, NoneKilled, NoneWrites,
     Alive, Strangers
<1>32. ASSUME NEW p \in Pids, Reuse(p) PROVE SparedInv'
  BY <1>32, DaemonAssumption DEF DaemonAssumption, Reuse, Running, Disturbs,
     files, Typed, CommandStates, ControlOK, PlaceOK, LockIsHeld, Holding,
     HasSpawned, AllAlone, AloneInv, OneRuns, ReadsTrue, Lasting, LeavesNothing,
     Leaves, SparedInv, Spares, NoneKilled, NoneWrites, Alive, Strangers
<1> QED
  BY <1>1, <1>2, <1>3, <1>4, <1>5, <1>6, <1>7, <1>8, <1>9, <1>10, <1>11, <1>12,
     <1>13, <1>14, <1>15, <1>16, <1>17, <1>18, <1>19, <1>20, <1>21, <1>22,
     <1>23, <1>24, <1>25, <1>26, <1>27, <1>28, <1>29, <1>30, <1>31, <1>32 DEF
     Next

\* Where a start reports success, and where a stop does.
Successes(c) ==
    /\ cmd[c].for = "wait" /\ cmd[c].at # "release" /\ cmd'[c].at = "release"
          => cmd[c].at = "ws" /\ cmd[c].busy
    /\ StopSucceeds(c) => cmd[c].at = "cleanState" /\ cmd[c].for = "stop"

\* Nothing else reports success.
LEMMA SuccessStep ==
  ASSUME Typed, ControlOK, Next
  PROVE  \A e \in Commands : Successes(e)
<1>1. ASSUME NEW c \in Commands, Invoke(c) PROVE \A e \in Commands : Successes(e)
  <2>1. Begins(c) /\ \A d \in Commands \ {c} : Stays(d)
    BY <1>1, Invoked
  <2>2. cmd[c].at = "ready" /\ UNCHANGED <<files, proc, port>>
    BY <1>1 DEF Invoke, files
  <2> QED
    BY <2>1, <2>2 DEF Begins, Stays, ControlOK, PlaceOK, Successes, StopSucceeds, Running
<1>2. ASSUME NEW c \in Commands, ReadState(c) PROVE \A e \in Commands : Successes(e)
  BY <1>2 DEF ReadState, files, Typed, CommandStates, ControlOK, PlaceOK,
     HasSpawned, Running, Successes, StopSucceeds
<1>3. ASSUME NEW c \in Commands, ReadPid(c) PROVE \A e \in Commands : Successes(e)
  BY <1>3 DEF ReadPid, files, Typed, CommandStates, ControlOK, PlaceOK,
     HasSpawned, Running, Successes, StopSucceeds
<1>4. ASSUME NEW c \in Commands, NotRunning(c)
      PROVE  \A e \in Commands : Successes(e)
  BY <1>4 DEF NotRunning, FindsRunning, Alive, Goes, files, Typed,
     CommandStates, ControlOK, PlaceOK, HasSpawned, Running, Successes,
     StopSucceeds
<1>5. ASSUME NEW c \in Commands, Clean(c) PROVE \A e \in Commands : Successes(e)
  BY <1>5 DEF Clean, Goes, Typed, CommandStates, ControlOK, PlaceOK,
     HasSpawned, Running, Successes, StopSucceeds
<1>6. ASSUME NEW c \in Commands, CleanState(c)
      PROVE  \A e \in Commands : Successes(e)
  BY <1>6 DEF CleanState, Goes, Releases, Finishes, Typed, CommandStates,
     ControlOK, PlaceOK, HasSpawned, Running, Successes, StopSucceeds, Leaving
<1>7. ASSUME NEW c \in Commands, NEW x \in Ports, ProbeBinds(c, x)
      PROVE  \A e \in Commands : Successes(e)
  BY <1>7 DEF ProbeBinds, Goes, files, Ports, Typed, CommandStates, ControlOK,
     PlaceOK, HasSpawned, Running, Successes, StopSucceeds
<1>8. ASSUME NEW c \in Commands, HttpWasFree(c)
      PROVE  \A e \in Commands : Successes(e)
  BY <1>8 DEF HttpWasFree, files, Typed, CommandStates, ControlOK, PlaceOK,
     HasSpawned, Running, Successes, StopSucceeds
<1>9. ASSUME NEW c \in Commands, WsWasFree(c) PROVE \A e \in Commands : Successes(e)
  BY <1>9 DEF WsWasFree, Goes, Finishes, files, Typed, CommandStates,
     ControlOK, PlaceOK, HasSpawned, Running, Successes, StopSucceeds, Leaving
<1>10. ASSUME NEW c \in Commands, HttpIsBusy(c)
      PROVE  \A e \in Commands : Successes(e)
  BY <1>10 DEF HttpIsBusy, Releases, files, Typed, CommandStates, ControlOK,
     PlaceOK, HasSpawned, Running, Successes, StopSucceeds
\* The start that waits found both ports occupied.
<1>11. ASSUME NEW c \in Commands, WsIsBusy(c) PROVE \A e \in Commands : Successes(e)
  BY <1>11 DEF WsIsBusy, Releases, BothBusy, Goes, Finishes, files, Typed,
     CommandStates, ControlOK, PlaceOK, HasSpawned, Running, Successes,
     StopSucceeds, Leaving
<1>12. ASSUME NEW c \in Commands, AcquireLock(c)
      PROVE  \A e \in Commands : Successes(e)
  BY <1>12 DEF AcquireLock, Goes, Typed, CommandStates, ControlOK, PlaceOK,
     HasSpawned, Running, Successes, StopSucceeds
<1>13. ASSUME NEW c \in Commands, LockTaken(c)
      PROVE  \A e \in Commands : Successes(e)
  BY <1>13 DEF LockTaken, Finishes, files, Typed, CommandStates, ControlOK,
     PlaceOK, HasSpawned, Running, Successes, StopSucceeds, Leaving
<1>14. ASSUME NEW c \in Commands, AlreadyRunning(c)
      PROVE  \A e \in Commands : Successes(e)
  BY <1>14 DEF AlreadyRunning, FindsRunning, Alive, Releases, files, Typed,
     CommandStates, ControlOK, PlaceOK, HasSpawned, Running, Successes,
     StopSucceeds
<1>15. ASSUME NEW c \in Commands, Spawn(c) PROVE \A e \in Commands : Successes(e)
  BY <1>15 DEF Spawn, Unused, Running, files, Typed, CommandStates, ControlOK,
     PlaceOK, HasSpawned, Successes, StopSucceeds
<1>16. ASSUME NEW c \in Commands, SpawnFails(c)
      PROVE  \A e \in Commands : Successes(e)
  BY <1>16 DEF SpawnFails, Releases, files, Typed, CommandStates, ControlOK,
     PlaceOK, HasSpawned, Running, Successes, StopSucceeds
<1>17. ASSUME NEW c \in Commands, WritePid(c) PROVE \A e \in Commands : Successes(e)
  BY <1>17 DEF WritePid, Goes, Typed, CommandStates, ControlOK, PlaceOK,
     HasSpawned, Running, Successes, StopSucceeds
<1>18. ASSUME NEW c \in Commands, WriteState(c)
      PROVE  \A e \in Commands : Successes(e)
  BY <1>18 DEF WriteState, Typed, CommandStates, ControlOK, PlaceOK,
     HasSpawned, Running, Successes, StopSucceeds
<1>19. ASSUME NEW c \in Commands, Poll(c) PROVE \A e \in Commands : Successes(e)
  BY <1>19 DEF Poll, Alive, Goes, files, Typed, CommandStates, ControlOK,
     PlaceOK, HasSpawned, Running, Successes, StopSucceeds
<1>20. ASSUME NEW c \in Commands, PollFails(c)
      PROVE  \A e \in Commands : Successes(e)
  BY <1>20 DEF PollFails, GivenUp, Terminates, Ends, Freed, Ports, files,
     Typed, CommandStates, ControlOK, PlaceOK, HasSpawned, Running, Successes,
     StopSucceeds
<1>21. ASSUME NEW c \in Commands, Release(c) PROVE \A e \in Commands : Successes(e)
  BY <1>21 DEF Release, Goes, Typed, CommandStates, ControlOK, PlaceOK,
     HasSpawned, Running, Successes, StopSucceeds, Finishes, Leaving
<1>22. ASSUME NEW c \in Commands, Inspect(c) PROVE \A e \in Commands : Successes(e)
  BY <1>22 DEF Inspect, FindsRunning, Alive, LooksManaged, Goes, Finishes,
     files, Typed, CommandStates, ControlOK, PlaceOK, HasSpawned, Running,
     Successes, StopSucceeds, Leaving
<1>23. ASSUME NEW c \in Commands, SignalStop(c)
      PROVE  \A e \in Commands : Successes(e)
  BY <1>23 DEF SignalStop, Alive, Terminates, Ends, Freed, Ports, Goes,
     Finishes, files, Typed, CommandStates, ControlOK, PlaceOK, HasSpawned,
     Running, Successes, StopSucceeds, Leaving
<1>24. ASSUME NEW c \in Commands, HasStopped(c)
      PROVE  \A e \in Commands : Successes(e)
  BY <1>24 DEF HasStopped, Alive, Goes, files, Typed, CommandStates,
     ControlOK, PlaceOK, HasSpawned, Running, Successes, StopSucceeds
<1>25. ASSUME NEW c \in Commands, StopTimesOut(c)
      PROVE  \A e \in Commands : Successes(e)
  BY <1>25 DEF StopTimesOut, Alive, Finishes, Goes, Ends, Freed, Ports, files,
     Typed, CommandStates, ControlOK, PlaceOK, HasSpawned, Running, Successes,
     StopSucceeds, Leaving
<1>26. ASSUME NEW c \in Commands, Kill(c) PROVE \A e \in Commands : Successes(e)
  BY <1>26 DEF Kill, Running, Disturbs, Goes, Freed, Ports, files, Typed,
     CommandStates, ControlOK, PlaceOK, HasSpawned, Successes, StopSucceeds,
     Leaving
<1>27. ASSUME NEW p \in Pids, BindWs(p) PROVE \A e \in Commands : Successes(e)
  BY <1>27 DEF BindWs, Ends, Freed, Ports, files, Typed, CommandStates,
     ControlOK, PlaceOK, HasSpawned, Running, Successes, StopSucceeds
<1>28. ASSUME NEW p \in Pids, BindHttp(p) PROVE \A e \in Commands : Successes(e)
  BY <1>28 DEF BindHttp, Ends, Freed, Ports, files, Typed, CommandStates,
     ControlOK, PlaceOK, HasSpawned, Running, Successes, StopSucceeds
<1>29. ASSUME NEW p \in Pids, StopHttp(p) PROVE \A e \in Commands : Successes(e)
  BY <1>29 DEF StopHttp, files, Typed, CommandStates, ControlOK, PlaceOK,
     HasSpawned, Running, Successes, StopSucceeds
<1>30. ASSUME NEW p \in Pids, Exit(p) PROVE \A e \in Commands : Successes(e)
  BY <1>30 DEF Exit, Ends, Freed, Ports, files, Typed, CommandStates,
     ControlOK, PlaceOK, HasSpawned, Running, Successes, StopSucceeds
<1>31. ASSUME NEW p \in Pids, Crash(p) PROVE \A e \in Commands : Successes(e)
  BY <1>31 DEF Crash, Up, Disturbs, Ends, Freed, Ports, files, Typed,
     CommandStates, ControlOK, PlaceOK, HasSpawned, Running, Successes,
     StopSucceeds
<1>32. ASSUME NEW p \in Pids, Reuse(p) PROVE \A e \in Commands : Successes(e)
  BY <1>32 DEF Reuse, Running, Disturbs, files, Typed, CommandStates,
     ControlOK, PlaceOK, HasSpawned, Successes, StopSucceeds, Strangers
<1> QED
  BY <1>1, <1>2, <1>3, <1>4, <1>5, <1>6, <1>7, <1>8, <1>9, <1>10, <1>11, <1>12,
     <1>13, <1>14, <1>15, <1>16, <1>17, <1>18, <1>19, <1>20, <1>21, <1>22,
     <1>23, <1>24, <1>25, <1>26, <1>27, <1>28, <1>29, <1>30, <1>31, <1>32 DEF
     Next

\* What runs under another program's pid goes on.
Spared ==
    \A q \in Pids : proc[q] = "other" /\ proc'[q] # "other"
       => Overlapping \/ Blindly(q)

\* A command signals the pid it knows, which is none of another program unless
\* it could not tell.
LEMMA OthersStep ==
  ASSUME Typed, ControlOK, LeavesNothing, SparedInv, Next
  PROVE  Spared
<1>1. ASSUME NEW c \in Commands, Invoke(c) PROVE Spared
  BY <1>1 DEF Invoke, Spared, Overlapping, Blindly
<1>2. ASSUME NEW c \in Commands, ReadState(c) PROVE Spared
  BY <1>2 DEF ReadState, files, Typed, CommandStates, ControlOK, PlaceOK,
     HasSpawned, Running, LeavesNothing, Leaves, SparedInv, Spares, AllAlone,
     NoneKilled, Up, Alive, Spared, Strangers, Overlapping, Blindly
<1>3. ASSUME NEW c \in Commands, ReadPid(c) PROVE Spared
  BY <1>3 DEF ReadPid, files, Typed, CommandStates, ControlOK, PlaceOK,
     HasSpawned, Running, LeavesNothing, Leaves, SparedInv, Spares, AllAlone,
     NoneKilled, Up, Alive, Spared, Strangers, Overlapping, Blindly
<1>4. ASSUME NEW c \in Commands, NotRunning(c) PROVE Spared
  BY <1>4 DEF NotRunning, FindsRunning, Alive, Goes, files, Typed,
     CommandStates, ControlOK, PlaceOK, HasSpawned, Running, LeavesNothing,
     Leaves, SparedInv, Spares, AllAlone, NoneKilled, Up, Spared, Strangers,
     Overlapping, Blindly
<1>5. ASSUME NEW c \in Commands, Clean(c) PROVE Spared
  BY <1>5 DEF Clean, Goes, Typed, files, CommandStates, ControlOK, PlaceOK,
     HasSpawned, Running, LeavesNothing, Leaves, SparedInv, Spares, AllAlone,
     NoneKilled, Up, Alive, Spared, Strangers, Overlapping, Blindly
<1>6. ASSUME NEW c \in Commands, CleanState(c) PROVE Spared
  BY <1>6 DEF CleanState, Goes, Releases, Finishes, Typed, files,
     CommandStates, ControlOK, PlaceOK, HasSpawned, Running, LeavesNothing,
     Leaves, SparedInv, Spares, AllAlone, NoneKilled, Up, Alive, Spared, Leaving,
     Strangers, Overlapping, Blindly
<1>7. ASSUME NEW c \in Commands, NEW x \in Ports, ProbeBinds(c, x) PROVE Spared
  BY <1>7 DEF ProbeBinds, Goes, files, Ports, Typed, CommandStates, ControlOK,
     PlaceOK, HasSpawned, Running, LeavesNothing, Leaves, SparedInv, Spares,
     AllAlone, NoneKilled, Up, Alive, Spared, Strangers, Overlapping, Blindly
<1>8. ASSUME NEW c \in Commands, HttpWasFree(c) PROVE Spared
  BY <1>8 DEF HttpWasFree, files, Typed, CommandStates, ControlOK, PlaceOK,
     HasSpawned, Running, LeavesNothing, Leaves, SparedInv, Spares, AllAlone,
     NoneKilled, Up, Alive, Spared, Strangers, Overlapping, Blindly
<1>9. ASSUME NEW c \in Commands, WsWasFree(c) PROVE Spared
  BY <1>9 DEF WsWasFree, Goes, Finishes, files, Typed, CommandStates,
     ControlOK, PlaceOK, HasSpawned, Running, LeavesNothing, Leaves, SparedInv,
     Spares, AllAlone, NoneKilled, Up, Alive, Spared, Leaving, Strangers,
     Overlapping, Blindly
<1>10. ASSUME NEW c \in Commands, HttpIsBusy(c) PROVE Spared
  BY <1>10 DEF HttpIsBusy, Releases, files, Typed, CommandStates, ControlOK,
     PlaceOK, HasSpawned, Running, LeavesNothing, Leaves, SparedInv, Spares,
     AllAlone, NoneKilled, Up, Alive, Spared, Strangers, Overlapping, Blindly
<1>11. ASSUME NEW c \in Commands, WsIsBusy(c) PROVE Spared
  BY <1>11 DEF WsIsBusy, Releases, BothBusy, Goes, Finishes, files, Typed,
     CommandStates, ControlOK, PlaceOK, HasSpawned, Running, LeavesNothing,
     Leaves, SparedInv, Spares, AllAlone, NoneKilled, Up, Alive, Spared, Leaving,
     Strangers, Overlapping, Blindly
<1>12. ASSUME NEW c \in Commands, AcquireLock(c) PROVE Spared
  BY <1>12 DEF AcquireLock, Goes, Typed, files, CommandStates, ControlOK,
     PlaceOK, HasSpawned, Running, LeavesNothing, Leaves, SparedInv, Spares,
     AllAlone, NoneKilled, Up, Alive, Spared, Strangers, Overlapping, Blindly
<1>13. ASSUME NEW c \in Commands, LockTaken(c) PROVE Spared
  BY <1>13 DEF LockTaken, Finishes, files, Typed, CommandStates, ControlOK,
     PlaceOK, HasSpawned, Running, LeavesNothing, Leaves, SparedInv, Spares,
     AllAlone, NoneKilled, Up, Alive, Spared, Leaving, Strangers, Overlapping,
     Blindly
<1>14. ASSUME NEW c \in Commands, AlreadyRunning(c) PROVE Spared
  BY <1>14 DEF AlreadyRunning, FindsRunning, Alive, Releases, files, Typed,
     CommandStates, ControlOK, PlaceOK, HasSpawned, Running, LeavesNothing,
     Leaves, SparedInv, Spares, AllAlone, NoneKilled, Up, Spared, Strangers,
     Overlapping, Blindly
<1>15. ASSUME NEW c \in Commands, Spawn(c) PROVE Spared
  BY <1>15 DEF Spawn, Unused, Running, files, Typed, CommandStates, ControlOK,
     PlaceOK, HasSpawned, LeavesNothing, Leaves, SparedInv, Spares, AllAlone,
     NoneKilled, Up, Alive, Spared, Strangers, Overlapping, Blindly
<1>16. ASSUME NEW c \in Commands, SpawnFails(c) PROVE Spared
  BY <1>16 DEF SpawnFails, Releases, files, Typed, CommandStates, ControlOK,
     PlaceOK, HasSpawned, Running, LeavesNothing, Leaves, SparedInv, Spares,
     AllAlone, NoneKilled, Up, Alive, Spared, Strangers, Overlapping, Blindly
<1>17. ASSUME NEW c \in Commands, WritePid(c) PROVE Spared
  BY <1>17 DEF WritePid, Goes, Typed, files, CommandStates, ControlOK,
     PlaceOK, HasSpawned, Running, LeavesNothing, Leaves, SparedInv, Spares,
     AllAlone, NoneKilled, Up, Alive, Spared, Strangers, Overlapping, Blindly
<1>18. ASSUME NEW c \in Commands, WriteState(c) PROVE Spared
  BY <1>18 DEF WriteState, Typed, files, CommandStates, ControlOK, PlaceOK,
     HasSpawned, Running, LeavesNothing, Leaves, SparedInv, Spares, AllAlone,
     NoneKilled, Up, Alive, Spared, Strangers, Overlapping, Blindly
<1>19. ASSUME NEW c \in Commands, Poll(c) PROVE Spared
  BY <1>19 DEF Poll, Alive, Goes, files, Typed, CommandStates, ControlOK,
     PlaceOK, HasSpawned, Running, LeavesNothing, Leaves, SparedInv, Spares,
     AllAlone, NoneKilled, Up, Spared, Strangers, Overlapping, Blindly
<1>20. ASSUME NEW c \in Commands, PollFails(c) PROVE Spared
  BY <1>20 DEF PollFails, GivenUp, Terminates, Ends, Freed, Ports, files,
     Typed, CommandStates, ControlOK, PlaceOK, HasSpawned, Running,
     LeavesNothing, Leaves, SparedInv, Spares, AllAlone, NoneKilled, Up, Alive,
     Spared, Strangers, Overlapping, Blindly
<1>21. ASSUME NEW c \in Commands, Release(c) PROVE Spared
  BY <1>21 DEF Release, Goes, Typed, files, CommandStates, ControlOK, PlaceOK,
     HasSpawned, Running, LeavesNothing, Leaves, SparedInv, Spares, AllAlone,
     NoneKilled, Up, Alive, Spared, Finishes, Leaving, Strangers, Overlapping,
     Blindly
<1>22. ASSUME NEW c \in Commands, Inspect(c) PROVE Spared
  BY <1>22 DEF Inspect, FindsRunning, Alive, LooksManaged, Goes, Finishes,
     files, Typed, CommandStates, ControlOK, PlaceOK, HasSpawned, Running,
     LeavesNothing, Leaves, SparedInv, Spares, AllAlone, NoneKilled, Up, Spared,
     Leaving, Strangers, Overlapping, Blindly
<1>23. ASSUME NEW c \in Commands, SignalStop(c) PROVE Spared
  BY <1>23 DEF SignalStop, Alive, Terminates, Ends, Freed, Ports, Goes,
     Finishes, files, Typed, CommandStates, ControlOK, PlaceOK, HasSpawned,
     Running, LeavesNothing, Leaves, SparedInv, Spares, AllAlone, NoneKilled, Up,
     Spared, Leaving, Strangers, Overlapping, Blindly
<1>24. ASSUME NEW c \in Commands, HasStopped(c) PROVE Spared
  BY <1>24 DEF HasStopped, Alive, Goes, files, Typed, CommandStates,
     ControlOK, PlaceOK, HasSpawned, Running, LeavesNothing, Leaves, SparedInv,
     Spares, AllAlone, NoneKilled, Up, Spared, Strangers, Overlapping, Blindly
<1>25. ASSUME NEW c \in Commands, StopTimesOut(c) PROVE Spared
  BY <1>25 DEF StopTimesOut, Alive, Finishes, Goes, Ends, Freed, Ports, files,
     Typed, CommandStates, ControlOK, PlaceOK, HasSpawned, Running,
     LeavesNothing, Leaves, SparedInv, Spares, AllAlone, NoneKilled, Up, Spared,
     Leaving, Strangers, Overlapping, Blindly
<1>26. ASSUME NEW c \in Commands, Kill(c) PROVE Spared
  BY <1>26 DEF Kill, Running, Disturbs, Goes, Freed, Ports, files, Typed,
     CommandStates, ControlOK, PlaceOK, HasSpawned, LeavesNothing, Leaves,
     SparedInv, Spares, AllAlone, NoneKilled, Up, Alive, Spared, Leaving,
     Strangers, Overlapping, Blindly
<1>27. ASSUME NEW p \in Pids, BindWs(p) PROVE Spared
  BY <1>27 DEF BindWs, Ends, Freed, Ports, files, Typed, CommandStates,
     ControlOK, PlaceOK, HasSpawned, Running, LeavesNothing, Leaves, SparedInv,
     Spares, AllAlone, NoneKilled, Up, Alive, Spared, Strangers, Overlapping,
     Blindly
<1>28. ASSUME NEW p \in Pids, BindHttp(p) PROVE Spared
  BY <1>28 DEF BindHttp, Ends, Freed, Ports, files, Typed, CommandStates,
     ControlOK, PlaceOK, HasSpawned, Running, LeavesNothing, Leaves, SparedInv,
     Spares, AllAlone, NoneKilled, Up, Alive, Spared, Strangers, Overlapping,
     Blindly
<1>29. ASSUME NEW p \in Pids, StopHttp(p) PROVE Spared
  BY <1>29 DEF StopHttp, files, Typed, CommandStates, ControlOK, PlaceOK,
     HasSpawned, Running, LeavesNothing, Leaves, SparedInv, Spares, AllAlone,
     NoneKilled, Up, Alive, Spared, Strangers, Overlapping, Blindly
<1>30. ASSUME NEW p \in Pids, Exit(p) PROVE Spared
  BY <1>30 DEF Exit, Ends, Freed, Ports, files, Typed, CommandStates,
     ControlOK, PlaceOK, HasSpawned, Running, LeavesNothing, Leaves, SparedInv,
     Spares, AllAlone, NoneKilled, Up, Alive, Spared, Strangers, Overlapping,
     Blindly
<1>31. ASSUME NEW p \in Pids, Crash(p) PROVE Spared
  BY <1>31 DEF Crash, Up, Disturbs, Ends, Freed, Ports, files, Typed,
     CommandStates, ControlOK, PlaceOK, HasSpawned, Running, LeavesNothing,
     Leaves, SparedInv, Spares, AllAlone, NoneKilled, Alive, Spared, Strangers,
     Overlapping, Blindly
<1>32. ASSUME NEW p \in Pids, Reuse(p) PROVE Spared
  BY <1>32 DEF Reuse, Running, Disturbs, files, Typed, CommandStates,
     ControlOK, PlaceOK, HasSpawned, LeavesNothing, Leaves, SparedInv, Spares,
     AllAlone, NoneKilled, Up, Alive, Spared, Strangers, Overlapping, Blindly
<1> QED
  BY <1>1, <1>2, <1>3, <1>4, <1>5, <1>6, <1>7, <1>8, <1>9, <1>10, <1>11, <1>12,
     <1>13, <1>14, <1>15, <1>16, <1>17, <1>18, <1>19, <1>20, <1>21, <1>22,
     <1>23, <1>24, <1>25, <1>26, <1>27, <1>28, <1>29, <1>30, <1>31, <1>32 DEF
     Next

LEMMA InitRest == Init => RestInv
<1> SUFFICES ASSUME Init PROVE RestInv
  OBVIOUS
<1>1. NoneRuns /\ Up = {} /\ stateFile = None /\ pidFile = None
  BY DEF Init, NoneRuns, Running, Up
<1>2. ReadyIsAlone
  BY DEF Init, ReadyIsAlone
<1>3. LeavesNothing /\ AloneInv
  BY <1>1 DEF NoneRuns, LeavesNothing, AloneInv, OneRuns
<1>4. KnownInv /\ SparedInv
  BY <1>1 DEF NoneRuns, KnownInv, SparedInv, Recorded
<1> QED
  BY <1>2, <1>3, <1>4 DEF RestInv

LEMMA StepRest == DaemonInv /\ RestInv /\ [Next]_vars => RestInv'
<1>1. ASSUME DaemonInv, RestInv, Next PROVE RestInv'
  <2>1. Typed /\ ControlOK /\ LockIsHeld
    BY <1>1 DEF DaemonInv
  <2>2. LeavesNothing /\ ReadyIsAlone /\ AloneInv /\ KnownInv /\ SparedInv
    BY <1>1 DEF RestInv
  <2>3. LeavesNothing'
    BY <1>1, <2>1, <2>2, LeavesStep
  <2>4. ReadyIsAlone' /\ Lasting
    BY <1>1, <2>1, <2>2, HistoryStep
  <2>5. AloneInv'
    BY <1>1, <2>1, <2>2, AloneStep
  <2>6. KnownInv'
    BY <1>1, <2>1, <2>2, <2>4, KnownStep
  <2>7. SparedInv'
    BY <1>1, <2>1, <2>2, <2>4, SparedStep
  <2> QED
    BY <2>3, <2>4, <2>5, <2>6, <2>7 DEF RestInv
<1>2. ASSUME RestInv, UNCHANGED vars PROVE RestInv'
  <2>1. LeavesNothing' /\ ReadyIsAlone' /\ AloneInv'
    BY <1>2 DEF vars, RestInv, LeavesNothing, Leaves, ReadyIsAlone, AloneInv,
       AllAlone, OneRuns, ReadsTrue, HasSpawned, Running, Up, Alive, Strangers
  <2>2. KnownInv' /\ SparedInv'
    BY <1>2 DEF vars, RestInv, KnownInv, Knows, SparedInv, Spares, AllAlone,
       LockIsLost, NoneRuns, NoneKilled, NoneWrites, Recorded, HasSpawned,
       Running, Up
  <2> QED
    BY <2>1, <2>2 DEF RestInv
<1> QED
  BY <1>1, <1>2

\* The inductive invariant about what commands leave behind and what those that
\* come one after the other find.
THEOREM RestInvHolds == Spec => [](DaemonInv /\ RestInv)
  BY InitInv, StepInv, InitRest, StepRest, PTL DEF Spec

\* While commands come one after the other and none was killed with the lock, the
\* server that runs is the one in the pid file and in the state file
\* (writeDaemonState, cleanupStaleState).
THEOREM ServerIsRecorded == Spec => []RecordedAtRest
<1>1. RestInv => RecordedAtRest
  BY DEF RestInv, KnownInv, LockIsLost, NoneRuns, Recorded, RecordedAtRest
<1> QED
  BY <1>1, RestInvHolds, PTL

\* Where no status command interferes, a start that has waited reports success
\* only for a server that serves, or did and was ended since (startDaemon,
\* waitForDaemonReady).
THEOREM StartsServe == Spec => StartedServes
<1> DEFINE Serves(c) ==
             cmd[c].for = "wait" /\ cmd[c].at # "release" /\ cmd'[c].at = "release" /\ NoStatus
                => proc[cmd[c].pid] \notin {"starting", "halfway"} \cup Strangers
<1>1. ASSUME DaemonInv, RestInv, Next, NEW c \in Commands PROVE Serves(c)
  <2> SUFFICES ASSUME cmd[c].for = "wait", cmd[c].at # "release", cmd'[c].at = "release", NoStatus
               PROVE  proc[cmd[c].pid] \notin {"starting", "halfway"} \cup Strangers
    OBVIOUS
  <2>1. cmd[c].at = "ws" /\ cmd[c].busy
    BY <1>1, SuccessStep DEF DaemonInv, Successes
  <2>2. Holding(c) /\ HasSpawned(c)
    BY <2>1 DEF Holding, HasSpawned, Running
  <2>3. cmd[c].pid \in Pids \ Hatching
    BY <1>1, <2>1, <2>2 DEF DaemonInv, ControlOK, PlaceOK, HatchingIsHeld,
       Holding
  <2>4. proc[cmd[c].pid] \notin Strangers
    BY <1>1, <2>2 DEF RestInv, LeavesNothing, Leaves, Holding, Strangers
  <2> QED
    BY <2>3, <2>4 DEF Hatching, Strangers
<1>2. DaemonInv /\ RestInv /\ [Next]_vars => [\A c \in Commands : Serves(c)]_vars
  BY <1>1
<1> QED
  BY <1>2, RestInvHolds, PTL DEF Spec, StartedServes

\* A start that fails after it spawned has ended its server and removed both
\* records of it before it releases the lock (the catch block of startDaemon).
THEOREM FailuresLeaveNothing == Spec => FailedLeavesNothing
<1>1. ASSUME DaemonInv, RestInv, NEW c \in Commands, cmd[c].for = "fail", cmd[c].at = "release"
      PROVE  cmd[c].pid \notin Up \cup {pidFile, stateFile}
  BY <1>1 DEF RestInv, LeavesNothing, Leaves, Running, Strangers
<1>2. DaemonInv /\ RestInv /\ [Next]_vars
         => [\A c \in Commands :
                cmd[c].for = "fail" /\ cmd[c].at = "release" /\ cmd'[c].at = "done"
                   => cmd[c].pid \notin Up \cup {pidFile, stateFile}]_vars
  BY <1>1
<1> QED
  BY <1>2, RestInvHolds, PTL DEF Spec, FailedLeavesNothing

\* When a stop succeeds, the server it found on record has ended, and if commands
\* come one after the other there is no other (stopDaemon).
THEOREM StopsStop == Spec => StopStops
<1>1. ASSUME DaemonInv, RestInv, Next, NEW c \in Commands, StopSucceeds(c)
      PROVE  /\ cmd[c].pid # None => ~Alive(cmd[c].pid)
             /\ AllAlone => Up = {} \/ lock # None
  <2>1. cmd[c].at = "cleanState" /\ cmd[c].for = "stop"
    BY <1>1, SuccessStep DEF DaemonInv, Successes
  <2>2. Running(c)
    BY <2>1 DEF Running
  <2>3. cmd[c].pid # None => ~Alive(cmd[c].pid)
    BY <1>1, <2>1, <2>2 DEF RestInv, LeavesNothing, Leaves, Strangers
  <2>4. AllAlone => Up = {} \/ LockIsLost
    BY <1>1, <2>1, <2>2 DEF RestInv, KnownInv, Knows
  <2> QED
    BY <2>3, <2>4 DEF LockIsLost
<1>2. DaemonInv /\ RestInv /\ [Next]_vars
         => [\A c \in Commands : StopSucceeds(c) =>
                /\ cmd[c].pid # None => ~Alive(cmd[c].pid)
                /\ AllAlone => Up = {} \/ lock # None]_vars
  BY <1>1
<1> QED
  BY <1>2, RestInvHolds, PTL DEF Spec, StopStops

\* Unless commands overlap or are killed, a program that has got the pid of a
\* server and whose command line does not hold the name of the entry point is
\* signalled only by a stop that could not read that command line
\* (assertManagedProcess).
THEOREM OthersStaySpared == Spec => OthersAreSpared
<1>1. DaemonInv /\ RestInv /\ [Next]_vars
         => [\A p \in Pids : proc[p] = "other" /\ proc'[p] # "other"
               => Overlapping \/ Blindly(p)]_vars
  BY OthersStep DEF DaemonInv, RestInv, Spared, Overlapping, Blindly
<1> QED
  BY <1>1, RestInvHolds, PTL DEF Spec, OthersAreSpared
=============================================================================
