------------------------------ MODULE McpSessions ------------------------------
(***************************************************************************)
(* The server process as its callers see it: the MCP sessions of the HTTP  *)
(* server (http-server.ts), the process's start and shutdown (index.ts,    *)
(* shutdown.ts) and the three kinds of callers: agents, which keep their   *)
(* session, commands of the command line, which make one for one call and  *)
(* end with it (mcp-server-client.ts), and the desktop extension's proxy,  *)
(* which makes one for every call it forwards (mcpb .../server/index.js).  *)
(* The steps of a session in the MCP SDK are external.                     *)
(***************************************************************************)
EXTENDS Naturals

CONSTANTS
    Agents, Commands, Proxies,  \* the callers
    None,
    MaxSessions,                \* bound: sessions made
    MaxStarts                   \* bound: starts of the process

Callers == Agents \cup Commands \cup Proxies
Sessions == [by : Callers, number : 1..MaxSessions]

ASSUME CallersAssumption ==
    /\ Agents \cap Commands = {} /\ Agents \cap Proxies = {} /\ Commands \cap Proxies = {}
    /\ None \notin Callers \cup Sessions \cup {0, 1}
    /\ MaxSessions \in Nat /\ MaxStarts \in Nat \ {0}

VARIABLES
    phase,          \* how far the process is
    transports,     \* the sessions, numbered in the order they were made
    kept,           \* those whose close has failed
    timer,          \* the shutdown timer is running
    exitCode,       \* of the last exit
    callers,        \* Callers -> what each is at, and its session
    issued,         \* sessions made
    starts
vars == <<phase, transports, kept, timer, exitCode, callers, issued, starts>>
process == <<phase, kept, timer, exitCode, starts>>

Phases == {"down", "starting", "up", "closing sessions", "closing http", "closing ws"}
Stopping == {"closing sessions", "closing http", "closing ws"}
(* A command that has failed and an agent that was killed are gone for good. *)
Stations == {"idle", "connected", "calling", "answered", "failed", "gone"}

TypeOK ==
    /\ phase \in Phases
    /\ transports \in SUBSET Sessions /\ kept \in SUBSET transports
    /\ \A s, t \in transports : s.number = t.number => s = t
    /\ \A s \in transports : s.number <= issued
    /\ timer \in BOOLEAN /\ (timer => phase \in Stopping)
    /\ exitCode \in {None, 0, 1}
    /\ callers \in [Callers -> [at : Stations, session : Sessions \cup {None}]]
    /\ issued \in 0..MaxSessions /\ starts \in 0..MaxStarts

Init ==
    /\ phase = "down"
    /\ transports = {}
    /\ kept = {}
    /\ timer = FALSE
    /\ exitCode = None
    /\ callers = [c \in Callers |-> [at |-> "idle", session |-> None]]
    /\ issued = 0 /\ starts = 0

-----------------------------------------------------------------------------
(* The HTTP server. *)

(* It takes new connections until its close. *)
Listening == phase \in {"up", "closing sessions"}

IsOpen(session) == session \in transports

Becomes(c, at, session) == callers' = [callers EXCEPT ![c] = [at |-> at, session |-> session]]

(* initializeNewSession; the caller opens the session's stream at once. *)
initializeNewSession(c) ==
    LET session == [by |-> c, number |-> issued + 1]
    IN  /\ transports' = transports \cup {session}
        /\ issued' = issued + 1
        /\ Becomes(c, "connected", session)

(* The transport's onclose, after a DELETE as after a close. *)
onclose(session) ==
    /\ transports' = transports \ {session}
    /\ kept' = kept \ {session}

-----------------------------------------------------------------------------
(* The callers. *)

Connect(c) ==
    /\ callers[c].at = "idle"
    /\ Listening /\ issued < MaxSessions
    /\ initializeNewSession(c)
    /\ UNCHANGED process

(* No server: a command exits, the others report it and stay as they are. *)
ConnectFails(c) ==
    /\ callers[c].at = "idle" /\ ~Listening
    /\ c \in Commands
    /\ Becomes(c, "failed", None)
    /\ UNCHANGED <<process, transports, issued>>

(* A request with a session: answered by it, or refused as invalidated. *)
CallTool(c) ==
    /\ callers[c].at = "connected"
    /\ Listening /\ IsOpen(callers[c].session)
    /\ Becomes(c, "calling", callers[c].session)
    /\ UNCHANGED <<process, transports, issued>>

(* The agent is told to initialize again. *)
SessionInvalidated(c) ==
    /\ callers[c].at = "connected" /\ c \in Agents
    /\ Listening /\ ~IsOpen(callers[c].session)
    /\ Becomes(c, "idle", None)
    /\ UNCHANGED <<process, transports, issued>>

(* A faulty variant: the proxy gives up its session only after a success. *)
AfterFailureForgetful(c) ==
    IF c \in Commands THEN "failed" ELSE IF c \in Proxies THEN "idle" ELSE "connected"

(* process.exit comes before the finally that would close the client: the *)
(* session stays.  The proxy's finally is run.                            *)
AfterFailure(c) ==
    IF c \in Commands THEN "failed" ELSE IF c \in Proxies THEN "answered" ELSE "connected"

ToolAnswers(c) ==
    /\ callers[c].at = "calling" /\ IsOpen(callers[c].session)
    /\ Becomes(c, IF c \in Agents THEN "connected" ELSE "answered", callers[c].session)
    /\ UNCHANGED <<process, transports, issued>>

(* An error result, or a session closed under the call. *)
CallFails(c) ==
    /\ \/ callers[c].at = "calling"
       \/ callers[c].at = "connected" /\ c \notin Agents /\ ~IsOpen(callers[c].session)
    /\ Becomes(c, AfterFailure(c), callers[c].session)
    /\ UNCHANGED <<process, transports, issued>>

(* terminateSession and close, best effort, when the call is over. *)
closeBestEffort(c) ==
    /\ callers[c].at = "answered"
    /\ IF Listening THEN onclose(callers[c].session) ELSE UNCHANGED <<transports, kept>>
    /\ Becomes(c, "idle", None)
    /\ UNCHANGED <<phase, timer, exitCode, starts, issued>>

(* An agent ends its session, or is killed and leaves it. *)
Terminate(c) ==
    /\ c \in Agents /\ callers[c].at = "connected" /\ Listening
    /\ onclose(callers[c].session)
    /\ Becomes(c, "idle", None)
    /\ UNCHANGED <<phase, timer, exitCode, starts, issued>>

Killed(c) ==
    /\ c \in Agents /\ callers[c].at \in {"connected", "calling"}
    /\ Becomes(c, "gone", callers[c].session)
    /\ UNCHANGED <<process, transports, issued>>

-----------------------------------------------------------------------------
(* The process. *)

Start ==
    /\ phase = "down" /\ starts < MaxStarts
    /\ phase' = "starting"
    /\ starts' = starts + 1
    /\ UNCHANGED <<transports, kept, timer, exitCode, callers, issued>>

(* The bridge's server, the HTTP server, the handlers of the signals. *)
Started ==
    /\ phase = "starting"
    /\ phase' = "up"
    /\ UNCHANGED <<transports, kept, timer, exitCode, callers, issued, starts>>

(* process.exit: sessions, streams and calls go with the process. *)
Exit(code) ==
    /\ phase' = "down"
    /\ exitCode' = code
    /\ transports' = {} /\ kept' = {}
    /\ timer' = FALSE
    /\ UNCHANGED <<callers, issued, starts>>

(* A port is taken, or a signal comes before the handlers are set. *)
StartFails == phase = "starting" /\ Exit(1)

(* A faulty variant: the handler does not arm the timer. *)
SignalUntimed ==
    \/ /\ phase = "up"
       /\ phase' = "closing sessions"
       /\ UNCHANGED <<transports, kept, timer, exitCode, callers, issued, starts>>
    \/ phase \in Stopping /\ Exit(1)

(* SIGINT or SIGTERM: the first starts the cleanup, a second one forces the exit. *)
Signal ==
    \/ /\ phase = "up"
       /\ phase' = "closing sessions"
       /\ timer' = TRUE
       /\ UNCHANGED <<transports, kept, exitCode, callers, issued, starts>>
    \/ phase \in Stopping /\ Exit(1)

(* stop() walks the live map in its order, with an await at every session. *)
ToClose == transports \ kept

CloseSession ==
    /\ phase = "closing sessions"
    /\ \E session \in ToClose :
        /\ \A other \in ToClose : session.number <= other.number
        /\ \/ onclose(session)
           \/ kept' = kept \cup {session} /\ UNCHANGED transports
    /\ UNCHANGED <<phase, timer, exitCode, callers, issued, starts>>

(* A faulty variant: the sessions there at the signal are not waited for. *)
CloseHttpAtOnce ==
    /\ phase = "closing sessions"
    /\ phase' = "closing ws"
    /\ UNCHANGED <<transports, kept, timer, exitCode, callers, issued, starts>>

CloseHttp ==
    /\ phase = "closing sessions" /\ ToClose = {}
    /\ phase' = "closing http"
    /\ UNCHANGED <<transports, kept, timer, exitCode, callers, issued, starts>>

(* The streams and calls of open sessions hold the HTTP server's close. *)
Holds(c) == callers[c].at \in {"connected", "calling", "answered"} /\ IsOpen(callers[c].session)

HttpServerStopped ==
    /\ phase = "closing http"
    /\ \A c \in Callers : ~Holds(c)
    /\ phase' = "closing ws"
    /\ UNCHANGED <<transports, kept, timer, exitCode, callers, issued, starts>>

(* wss.close ends once every socket has gone; one that is not the bridge's holds it. *)
WebSocketServerStopped == phase = "closing ws" /\ Exit(0)

ShutdownTimesOut == timer /\ Exit(1)

Next ==
    \/ \E c \in Callers :
        \/ Connect(c) \/ ConnectFails(c) \/ CallTool(c) \/ SessionInvalidated(c)
        \/ ToolAnswers(c) \/ CallFails(c) \/ closeBestEffort(c) \/ Terminate(c) \/ Killed(c)
    \/ Start \/ Started \/ StartFails \/ Signal \/ CloseSession \/ CloseHttp
    \/ HttpServerStopped \/ WebSocketServerStopped \/ ShutdownTimesOut

Spec == Init /\ [][Next]_vars
(* Node's timer fires; nothing is assumed of the sockets, nor of the callers. *)
FairSpec == Spec /\ WF_vars(ShutdownTimesOut)

-----------------------------------------------------------------------------
(* Properties. *)

(* While the server is up no session is left behind but by an agent or by a    *)
(* command that failed: the proxy returns every session it makes, also when    *)
(* the forwarded call fails, and a command that succeeds does.                 *)
SessionsAreReturned ==
    phase = "up" => \A s \in transports : LET c == s.by IN
        /\ callers[c].session = s
        /\ c \in Proxies => callers[c].at \in {"connected", "calling", "answered"}
        /\ c \in Commands => callers[c].at \in {"connected", "calling", "answered", "failed"}

(* A process that was told to stop and exits with 0 cuts no call off: whoever   *)
(* was being answered has had its session closed first.                         *)
CleanExitCutsNothing ==
    [][phase # "down" /\ phase' = "down" /\ exitCode' = 0 =>
        \A c \in Callers : ~Holds(c)]_vars

(* Whatever the callers and the sockets do, a process told to stop exits. *)
StoppingEnds == phase \in Stopping ~> phase = "down"
=============================================================================
