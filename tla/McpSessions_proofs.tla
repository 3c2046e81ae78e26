--------------------------- MODULE McpSessions_proofs ---------------------------
(***************************************************************************)
(* Theorems about the sessions of the server process, for any agents,      *)
(* commands and proxies and any numbers of sessions and starts: sessions   *)
(* are returned, and an exit with 0 cuts no call off.                      *)
(***************************************************************************)
EXTENDS McpSessions, TLAPS

(***************************************************************************)
(* The inductive invariant: a process that is down or starting has no      *)
(* sessions and an idle caller none either, so whoever makes one has no    *)
(* other; and once the HTTP server has stopped nobody is being answered,   *)
(* since no session is made and no call taken after that.                  *)
(***************************************************************************)
NoneWhileDown == phase \in {"down", "starting"} => transports = {}

IdleHasNone == \A c \in Callers : callers[c].at = "idle" => callers[c].session = None

StoppedHoldsNone == phase = "closing ws" => \A c \in Callers : ~Holds(c)

SessionsInv ==
    /\ TypeOK
    /\ NoneWhileDown
    /\ IdleHasNone
    /\ SessionsAreReturned
    /\ StoppedHoldsNone

LEMMA SessionFacts ==
    /\ None \notin Sessions
    /\ \A s \in Sessions : s.by \in Callers /\ s.number \in Nat /\ s.number <= MaxSessions
    /\ \A c \in Callers, n \in 1..MaxSessions :
          [by |-> c, number |-> n] \in Sessions
  BY CallersAssumption DEF Sessions

LEMMA InitSessionsInv == Init => SessionsInv
<1> SUFFICES ASSUME Init PROVE SessionsInv
  OBVIOUS
<1>1. callers \in [Callers -> [at : Stations, session : Sessions \cup {None}]]
  BY DEF Init, Stations
<1>2. TypeOK
  <2>1. issued \in 0..MaxSessions /\ starts \in 0..MaxStarts
    BY CallersAssumption DEF Init
  <2> QED BY <1>1, <2>1 DEF Init, TypeOK, Phases
<1> QED
  BY <1>2 DEF Init, SessionsInv, NoneWhileDown, IdleHasNone, SessionsAreReturned,
     StoppedHoldsNone

\* What a caller becomes leaves the others as they are.
LEMMA BecomesTyped ==
    ASSUME TypeOK, NEW c \in Callers, NEW at \in Stations,
           NEW session \in Sessions \cup {None}, Becomes(c, at, session)
    PROVE  /\ callers' \in [Callers -> [at : Stations, session : Sessions \cup {None}]]
           /\ callers'[c].at = at /\ callers'[c].session = session
           /\ \A d \in Callers \ {c} : callers'[d] = callers[d]
<1>1. [at |-> at, session |-> session] \in [at : Stations, session : Sessions \cup {None}]
  OBVIOUS
<1> QED BY <1>1 DEF TypeOK, Becomes

LEMMA ConnectKeeps ==
    ASSUME SessionsInv, NEW c \in Callers, Connect(c) PROVE SessionsInv'
<1> USE DEF SessionsInv
<1> DEFINE at == "connected"
<1> DEFINE session == [by |-> c, number |-> issued + 1]
<1>1. at \in Stations
  BY DEF Stations, AfterFailure
<1>2. session \in Sessions \cup {None}
  <2>1. issued + 1 \in 1..MaxSessions
    BY CallersAssumption DEF Connect, TypeOK
  <2> QED BY <2>1, SessionFacts
<1>3. Becomes(c, at, session)
  BY DEF Connect, Listening, initializeNewSession
<1>4. /\ callers' \in [Callers -> [at : Stations, session : Sessions \cup {None}]]
      /\ callers'[c].at = at /\ callers'[c].session = session
      /\ \A d \in Callers \ {c} : callers'[d] = callers[d]
  <2> HIDE DEF at, session
  <2> QED BY <1>1, <1>2, <1>3, BecomesTyped
<1>5. TypeOK'
  <2>1. issued + 1 \in 1..MaxSessions /\ issued \in Nat
    BY CallersAssumption DEF Connect, TypeOK
  <2>2. session \in Sessions /\ session.number = issued + 1
    BY <2>1, SessionFacts
  <2>3. transports' = transports \cup {session} /\ issued' = issued + 1
    BY DEF Connect, initializeNewSession
  <2> HIDE DEF session
  <2>4. transports' \in SUBSET Sessions /\ kept' \in SUBSET transports'
    BY <2>2, <2>3 DEF Connect, TypeOK, process
  <2>5. \A s \in transports : s.number \in Nat /\ s.number <= issued
    BY SessionFacts DEF TypeOK
  <2>6. \A s \in transports' : s.number <= issued'
    BY <2>1, <2>2, <2>3, <2>5
  <2>7. \A s, t \in transports' : s.number = t.number => s = t
    BY <2>1, <2>2, <2>3, <2>5 DEF TypeOK
  <2>8. issued' \in 0..MaxSessions
    BY <2>1, <2>3, CallersAssumption
  <2> QED BY <1>4, <2>4, <2>6, <2>7, <2>8 DEF Connect, TypeOK, process
<1>6. NoneWhileDown' /\ IdleHasNone'
  BY <1>4 DEF Connect, Listening, initializeNewSession, NoneWhileDown, IdleHasNone, process
<1>7. SessionsAreReturned'
  BY <1>4, SessionFacts, CallersAssumption DEF Connect, Listening, initializeNewSession, TypeOK, NoneWhileDown, IdleHasNone, SessionsAreReturned, IsOpen, process
<1>8. StoppedHoldsNone'
  BY <1>4 DEF Connect, Listening, initializeNewSession, StoppedHoldsNone, Holds, IsOpen, process
<1> QED BY <1>5, <1>6, <1>7, <1>8

LEMMA ConnectFailsKeeps ==
    ASSUME SessionsInv, NEW c \in Callers, ConnectFails(c) PROVE SessionsInv'
<1> USE DEF SessionsInv
<1> DEFINE at == "failed"
<1> DEFINE session == None
<1>1. at \in Stations
  BY DEF Stations, AfterFailure
<1>2. session \in Sessions \cup {None}
  BY SessionFacts, CallersAssumption DEF ConnectFails, Listening, TypeOK
<1>3. Becomes(c, at, session)
  BY DEF ConnectFails, Listening
<1>4. /\ callers' \in [Callers -> [at : Stations, session : Sessions \cup {None}]]
      /\ callers'[c].at = at /\ callers'[c].session = session
      /\ \A d \in Callers \ {c} : callers'[d] = callers[d]
  <2> HIDE DEF at, session
  <2> QED BY <1>1, <1>2, <1>3, BecomesTyped
<1>5. TypeOK'
  BY <1>4, SessionFacts, CallersAssumption DEF ConnectFails, Listening, TypeOK, process, Stopping
<1>6. NoneWhileDown' /\ IdleHasNone'
  BY <1>4 DEF ConnectFails, Listening, NoneWhileDown, IdleHasNone, process
<1>7. SessionsAreReturned'
  BY <1>4, SessionFacts, CallersAssumption DEF ConnectFails, Listening, TypeOK, NoneWhileDown, IdleHasNone, SessionsAreReturned, IsOpen, process
<1>8. StoppedHoldsNone'
  BY <1>4 DEF ConnectFails, Listening, StoppedHoldsNone, Holds, IsOpen, process
<1> QED BY <1>5, <1>6, <1>7, <1>8

LEMMA CallToolKeeps ==
    ASSUME SessionsInv, NEW c \in Callers, CallTool(c) PROVE SessionsInv'
<1> USE DEF SessionsInv
<1> DEFINE at == "calling"
<1> DEFINE session == callers[c].session
<1>1. at \in Stations
  BY DEF Stations, AfterFailure
<1>2. session \in Sessions \cup {None}
  BY SessionFacts, CallersAssumption DEF CallTool, Listening, TypeOK
<1>3. Becomes(c, at, session)
  BY DEF CallTool, Listening
<1>4. /\ callers' \in [Callers -> [at : Stations, session : Sessions \cup {None}]]
      /\ callers'[c].at = at /\ callers'[c].session = session
      /\ \A d \in Callers \ {c} : callers'[d] = callers[d]
  <2> HIDE DEF at, session
  <2> QED BY <1>1, <1>2, <1>3, BecomesTyped
<1>5. TypeOK'
  BY <1>4, SessionFacts, CallersAssumption DEF CallTool, Listening, TypeOK, process, Stopping
<1>6. NoneWhileDown' /\ IdleHasNone'
  BY <1>4 DEF CallTool, Listening, NoneWhileDown, IdleHasNone, process
<1>7. SessionsAreReturned'
  BY <1>4, SessionFacts, CallersAssumption DEF CallTool, Listening, TypeOK, NoneWhileDown, IdleHasNone, SessionsAreReturned, IsOpen, process
<1>8. StoppedHoldsNone'
  BY <1>4 DEF CallTool, Listening, StoppedHoldsNone, Holds, IsOpen, process
<1> QED BY <1>5, <1>6, <1>7, <1>8

LEMMA SessionInvalidatedKeeps ==
    ASSUME SessionsInv, NEW c \in Callers, SessionInvalidated(c) PROVE SessionsInv'
<1> USE DEF SessionsInv
<1> DEFINE at == "idle"
<1> DEFINE session == None
<1>1. at \in Stations
  BY DEF Stations, AfterFailure
<1>2. session \in Sessions \cup {None}
  BY SessionFacts, CallersAssumption DEF SessionInvalidated, Listening, TypeOK
<1>3. Becomes(c, at, session)
  BY DEF SessionInvalidated, Listening
<1>4. /\ callers' \in [Callers -> [at : Stations, session : Sessions \cup {None}]]
      /\ callers'[c].at = at /\ callers'[c].session = session
      /\ \A d \in Callers \ {c} : callers'[d] = callers[d]
  <2> HIDE DEF at, session
  <2> QED BY <1>1, <1>2, <1>3, BecomesTyped
<1>5. TypeOK'
  BY <1>4, SessionFacts, CallersAssumption DEF SessionInvalidated, Listening, TypeOK, process, Stopping
<1>6. NoneWhileDown' /\ IdleHasNone'
  BY <1>4 DEF SessionInvalidated, Listening, NoneWhileDown, IdleHasNone, process
<1>7. SessionsAreReturned'
  BY <1>4, SessionFacts, CallersAssumption DEF SessionInvalidated, Listening, TypeOK, NoneWhileDown, IdleHasNone, SessionsAreReturned, IsOpen, process
<1>8. StoppedHoldsNone'
  BY <1>4 DEF SessionInvalidated, Listening, StoppedHoldsNone, Holds, IsOpen, process
<1> QED BY <1>5, <1>6, <1>7, <1>8

LEMMA ToolAnswersKeeps ==
    ASSUME SessionsInv, NEW c \in Callers, ToolAnswers(c) PROVE SessionsInv'
<1> USE DEF SessionsInv
<1> DEFINE at == IF c \in Agents THEN "connected" ELSE "answered"
<1> DEFINE session == callers[c].session
<1>1. at \in Stations
  BY DEF Stations, AfterFailure
<1>2. session \in Sessions \cup {None}
  BY SessionFacts, CallersAssumption DEF ToolAnswers, TypeOK
<1>3. Becomes(c, at, session)
  BY DEF ToolAnswers
<1>4. /\ callers' \in [Callers -> [at : Stations, session : Sessions \cup {None}]]
      /\ callers'[c].at = at /\ callers'[c].session = session
      /\ \A d \in Callers \ {c} : callers'[d] = callers[d]
  <2> HIDE DEF at, session
  <2> QED BY <1>1, <1>2, <1>3, BecomesTyped
<1>5. TypeOK'
  BY <1>4, SessionFacts, CallersAssumption DEF ToolAnswers, TypeOK, process, Stopping
<1>6. NoneWhileDown' /\ IdleHasNone'
  BY <1>4 DEF ToolAnswers, NoneWhileDown, IdleHasNone, process
<1>7. SessionsAreReturned'
  BY <1>4, SessionFacts, CallersAssumption DEF ToolAnswers, TypeOK, NoneWhileDown, IdleHasNone, SessionsAreReturned, IsOpen, process
<1>8. StoppedHoldsNone'
  BY <1>4 DEF ToolAnswers, StoppedHoldsNone, Holds, IsOpen, process
<1> QED BY <1>5, <1>6, <1>7, <1>8

LEMMA CallFailsKeeps ==
    ASSUME SessionsInv, NEW c \in Callers, CallFails(c) PROVE SessionsInv'
<1> USE DEF SessionsInv
<1> DEFINE at == AfterFailure(c)
<1> DEFINE session == callers[c].session
<1>1. at \in Stations
  BY DEF Stations, AfterFailure
<1>2. session \in Sessions \cup {None}
  BY SessionFacts, CallersAssumption DEF CallFails, AfterFailure, TypeOK
<1>3. Becomes(c, at, session)
  BY DEF CallFails, AfterFailure
<1>4. /\ callers' \in [Callers -> [at : Stations, session : Sessions \cup {None}]]
      /\ callers'[c].at = at /\ callers'[c].session = session
      /\ \A d \in Callers \ {c} : callers'[d] = callers[d]
  <2> HIDE DEF at, session
  <2> QED BY <1>1, <1>2, <1>3, BecomesTyped
<1>5. TypeOK'
  BY <1>4, SessionFacts, CallersAssumption DEF CallFails, AfterFailure, TypeOK, process, Stopping
<1>6. NoneWhileDown' /\ IdleHasNone'
  BY <1>4 DEF CallFails, AfterFailure, NoneWhileDown, IdleHasNone, process
<1>7. SessionsAreReturned'
  BY <1>4, SessionFacts, CallersAssumption DEF CallFails, AfterFailure, TypeOK, NoneWhileDown, IdleHasNone, SessionsAreReturned, IsOpen, process
<1>8. StoppedHoldsNone'
  BY <1>4 DEF CallFails, AfterFailure, StoppedHoldsNone, Holds, IsOpen, process
<1> QED BY <1>5, <1>6, <1>7, <1>8

LEMMA CloseBestEffortKeeps ==
    ASSUME SessionsInv, NEW c \in Callers, closeBestEffort(c) PROVE SessionsInv'
<1> USE DEF SessionsInv
<1> DEFINE at == "idle"
<1> DEFINE session == None
<1>1. at \in Stations
  BY DEF Stations, AfterFailure
<1>2. session \in Sessions \cup {None}
  BY SessionFacts, CallersAssumption DEF closeBestEffort, onclose, Listening, TypeOK
<1>3. Becomes(c, at, session)
  BY DEF closeBestEffort, onclose, Listening
<1>4. /\ callers' \in [Callers -> [at : Stations, session : Sessions \cup {None}]]
      /\ callers'[c].at = at /\ callers'[c].session = session
      /\ \A d \in Callers \ {c} : callers'[d] = callers[d]
  <2> HIDE DEF at, session
  <2> QED BY <1>1, <1>2, <1>3, BecomesTyped
<1>5. TypeOK'
  <2>1. /\ transports' \in SUBSET Sessions /\ transports' \in SUBSET transports
        /\ kept' \in SUBSET transports'
    BY DEF closeBestEffort, onclose, Listening, TypeOK
  <2> QED BY <1>4, <2>1 DEF closeBestEffort, onclose, Listening, TypeOK
<1>6. NoneWhileDown' /\ IdleHasNone'
  BY <1>4 DEF closeBestEffort, onclose, Listening, NoneWhileDown, IdleHasNone, process
<1>7. SessionsAreReturned'
  BY <1>4, SessionFacts, CallersAssumption DEF closeBestEffort, onclose, Listening, TypeOK, NoneWhileDown, IdleHasNone, SessionsAreReturned, IsOpen, process
<1>8. StoppedHoldsNone'
  BY <1>4 DEF closeBestEffort, onclose, Listening, StoppedHoldsNone, Holds, IsOpen, process
<1> QED BY <1>5, <1>6, <1>7, <1>8

LEMMA TerminateKeeps ==
    ASSUME SessionsInv, NEW c \in Callers, Terminate(c) PROVE SessionsInv'
<1> USE DEF SessionsInv
<1> DEFINE at == "idle"
<1> DEFINE session == None
<1>1. at \in Stations
  BY DEF Stations, AfterFailure
<1>2. session \in Sessions \cup {None}
  BY SessionFacts, CallersAssumption DEF Terminate, onclose, Listening, TypeOK
<1>3. Becomes(c, at, session)
  BY DEF Terminate, onclose, Listening
<1>4. /\ callers' \in [Callers -> [at : Stations, session : Sessions \cup {None}]]
      /\ callers'[c].at = at /\ callers'[c].session = session
      /\ \A d \in Callers \ {c} : callers'[d] = callers[d]
  <2> HIDE DEF at, session
  <2> QED BY <1>1, <1>2, <1>3, BecomesTyped
<1>5. TypeOK'
  <2>1. /\ transports' \in SUBSET Sessions /\ transports' \in SUBSET transports
        /\ kept' \in SUBSET transports'
    BY DEF Terminate, onclose, Listening, TypeOK
  <2> QED BY <1>4, <2>1 DEF Terminate, onclose, Listening, TypeOK
<1>6. NoneWhileDown' /\ IdleHasNone'
  BY <1>4 DEF Terminate, onclose, Listening, NoneWhileDown, IdleHasNone, process
<1>7. SessionsAreReturned'
  BY <1>4, SessionFacts, CallersAssumption DEF Terminate, onclose, Listening, TypeOK, NoneWhileDown, IdleHasNone, SessionsAreReturned, IsOpen, process
<1>8. StoppedHoldsNone'
  BY <1>4 DEF Terminate, onclose, Listening, StoppedHoldsNone, Holds, IsOpen, process
<1> QED BY <1>5, <1>6, <1>7, <1>8

LEMMA KilledKeeps ==
    ASSUME SessionsInv, NEW c \in Callers, Killed(c) PROVE SessionsInv'
<1> USE DEF SessionsInv
<1> DEFINE at == "gone"
<1> DEFINE session == callers[c].session
<1>1. at \in Stations
  BY DEF Stations, AfterFailure
<1>2. session \in Sessions \cup {None}
  BY SessionFacts, CallersAssumption DEF Killed, TypeOK
<1>3. Becomes(c, at, session)
  BY DEF Killed
<1>4. /\ callers' \in [Callers -> [at : Stations, session : Sessions \cup {None}]]
      /\ callers'[c].at = at /\ callers'[c].session = session
      /\ \A d \in Callers \ {c} : callers'[d] = callers[d]
  <2> HIDE DEF at, session
  <2> QED BY <1>1, <1>2, <1>3, BecomesTyped
<1>5. TypeOK'
  BY <1>4, SessionFacts, CallersAssumption DEF Killed, TypeOK, process, Stopping
<1>6. NoneWhileDown' /\ IdleHasNone'
  BY <1>4 DEF Killed, NoneWhileDown, IdleHasNone, process
<1>7. SessionsAreReturned'
  BY <1>4, SessionFacts, CallersAssumption DEF Killed, TypeOK, NoneWhileDown, IdleHasNone, SessionsAreReturned, IsOpen, process
<1>8. StoppedHoldsNone'
  BY <1>4 DEF Killed, StoppedHoldsNone, Holds, IsOpen, process
<1> QED BY <1>5, <1>6, <1>7, <1>8

LEMMA ProcessKeeps ==
    ASSUME SessionsInv,
           \/ Start \/ Started \/ StartFails \/ Signal \/ CloseSession \/ CloseHttp
           \/ HttpServerStopped \/ WebSocketServerStopped \/ ShutdownTimesOut
    PROVE  SessionsInv'
<1> USE DEF SessionsInv
<1>1. callers' = callers
  BY DEF Start, Started, StartFails, Signal, CloseSession, CloseHttp, HttpServerStopped,
     WebSocketServerStopped, ShutdownTimesOut, Exit
<1>2. TypeOK'
  <2>1. CASE Start
    BY <1>1, <2>1, CallersAssumption DEF Start, TypeOK, Phases, Stopping
  <2>2. CASE Started
    BY <1>1, <2>2, CallersAssumption DEF Started, TypeOK, Phases, Stopping
  <2>3. CASE StartFails
    BY <1>1, <2>3, CallersAssumption DEF StartFails, Exit, TypeOK, Phases, Stopping
  <2>4. CASE Signal
    BY ZenonT(30), <1>1, <2>4, CallersAssumption DEF Signal, Exit, TypeOK, Phases, Stopping
  <2>5. CASE CloseSession
    BY <1>1, <2>5, CallersAssumption DEF CloseSession, ToClose, onclose, TypeOK, Phases, Stopping
  <2>6. CASE CloseHttp
    BY <1>1, <2>6, CallersAssumption DEF CloseHttp, ToClose, TypeOK, Phases, Stopping
  <2>7. CASE HttpServerStopped
    BY <1>1, <2>7, CallersAssumption DEF HttpServerStopped, TypeOK, Phases, Stopping
  <2>8. CASE WebSocketServerStopped
    BY <1>1, <2>8, CallersAssumption DEF WebSocketServerStopped, Exit, TypeOK, Phases, Stopping
  <2>9. CASE ShutdownTimesOut
    BY <1>1, <2>9, CallersAssumption DEF ShutdownTimesOut, Exit, TypeOK, Phases, Stopping
  <2> QED BY <2>1, <2>2, <2>3, <2>4, <2>5, <2>6, <2>7, <2>8, <2>9
<1>3. NoneWhileDown' /\ IdleHasNone' /\ SessionsAreReturned'
  <2>1. CASE Start
    BY <1>1, <2>1 DEF Start, NoneWhileDown, IdleHasNone, SessionsAreReturned
  <2>2. CASE Started
    BY <1>1, <2>2 DEF Started, NoneWhileDown, IdleHasNone, SessionsAreReturned
  <2>3. CASE StartFails
    BY <1>1, <2>3 DEF StartFails, Exit, NoneWhileDown, IdleHasNone, SessionsAreReturned
  <2>4. CASE Signal
    BY <1>1, <2>4 DEF Signal, Exit, NoneWhileDown, IdleHasNone, SessionsAreReturned
  <2>5. CASE CloseSession
    BY <1>1, <2>5 DEF CloseSession, ToClose, onclose, NoneWhileDown, IdleHasNone, SessionsAreReturned
  <2>6. CASE CloseHttp
    BY <1>1, <2>6 DEF CloseHttp, ToClose, NoneWhileDown, IdleHasNone, SessionsAreReturned
  <2>7. CASE HttpServerStopped
    BY <1>1, <2>7 DEF HttpServerStopped, NoneWhileDown, IdleHasNone, SessionsAreReturned
  <2>8. CASE WebSocketServerStopped
    BY <1>1, <2>8 DEF WebSocketServerStopped, Exit, NoneWhileDown, IdleHasNone, SessionsAreReturned
  <2>9. CASE ShutdownTimesOut
    BY <1>1, <2>9 DEF ShutdownTimesOut, Exit, NoneWhileDown, IdleHasNone, SessionsAreReturned
  <2> QED BY <2>1, <2>2, <2>3, <2>4, <2>5, <2>6, <2>7, <2>8, <2>9
<1>4. StoppedHoldsNone'
  <2>1. CASE Start
    BY <1>1, <2>1 DEF Start, StoppedHoldsNone, Holds, IsOpen
  <2>2. CASE Started
    BY <1>1, <2>2 DEF Started, StoppedHoldsNone, Holds, IsOpen
  <2>3. CASE StartFails
    BY <1>1, <2>3 DEF StartFails, Exit, StoppedHoldsNone, Holds, IsOpen
  <2>4. CASE Signal
    BY <1>1, <2>4 DEF Signal, Exit, StoppedHoldsNone, Holds, IsOpen
  <2>5. CASE CloseSession
    BY <1>1, <2>5 DEF CloseSession, ToClose, onclose, StoppedHoldsNone, Holds, IsOpen
  <2>6. CASE CloseHttp
    BY <1>1, <2>6 DEF CloseHttp, ToClose, StoppedHoldsNone, Holds, IsOpen
  <2>7. CASE HttpServerStopped
    BY <1>1, <2>7 DEF HttpServerStopped, StoppedHoldsNone, Holds, IsOpen
  <2>8. CASE WebSocketServerStopped
    BY <1>1, <2>8 DEF WebSocketServerStopped, Exit, StoppedHoldsNone, Holds, IsOpen
  <2>9. CASE ShutdownTimesOut
    BY <1>1, <2>9 DEF ShutdownTimesOut, Exit, StoppedHoldsNone, Holds, IsOpen
  <2> QED BY <2>1, <2>2, <2>3, <2>4, <2>5, <2>6, <2>7, <2>8, <2>9
<1> QED BY <1>2, <1>3, <1>4

LEMMA NextKeeps == SessionsInv /\ [Next]_vars => SessionsInv'
<1> SUFFICES ASSUME SessionsInv, [Next]_vars PROVE SessionsInv'
  OBVIOUS
<1>1. CASE UNCHANGED vars
  BY <1>1 DEF vars, SessionsInv, TypeOK, NoneWhileDown, IdleHasNone, SessionsAreReturned,
     StoppedHoldsNone, Holds, IsOpen
<1>2. ASSUME NEW c \in Callers,
             \/ Connect(c) \/ ConnectFails(c) \/ CallTool(c) \/ SessionInvalidated(c)
             \/ ToolAnswers(c) \/ CallFails(c) \/ closeBestEffort(c) \/ Terminate(c) \/ Killed(c)
      PROVE  SessionsInv'
  BY <1>2, ConnectKeeps, ConnectFailsKeeps, CallToolKeeps, SessionInvalidatedKeeps,
     ToolAnswersKeeps, CallFailsKeeps, CloseBestEffortKeeps, TerminateKeeps, KilledKeeps
<1> QED BY <1>1, <1>2, ProcessKeeps DEF Next

\* At all times the invariant holds.
THEOREM SessionsInvHolds == Spec => []SessionsInv
  BY InitSessionsInv, NextKeeps, PTL DEF Spec

\* The variables keep their types; no shutdown timer outlives its process.
THEOREM TypeCorrect == Spec => []TypeOK
<1>1. SessionsInv => TypeOK
  BY DEF SessionsInv
<1> QED BY <1>1, SessionsInvHolds, PTL

\* Only an agent, or a command that failed, leaves its session with a server
\* that is up.
THEOREM AlwaysReturned == Spec => []SessionsAreReturned
<1>1. SessionsInv => SessionsAreReturned
  BY DEF SessionsInv
<1> QED BY <1>1, SessionsInvHolds, PTL

\* A process told to stop that exits with 0 has cut no call off.
THEOREM CleanExitAlwaysCutsNothing == Spec => CleanExitCutsNothing
<1> DEFINE Cuts == phase # "down" /\ phase' = "down" /\ exitCode' = 0 =>
                     \A c \in Callers : ~Holds(c)
<1>1. SessionsInv /\ [Next]_vars => [Cuts]_vars
  <2> SUFFICES ASSUME SessionsInv, Next, phase # "down", phase' = "down", exitCode' = 0
               PROVE  \A c \in Callers : ~Holds(c)
    OBVIOUS
  <2>1. ~\E c \in Callers :
           \/ Connect(c) \/ ConnectFails(c) \/ CallTool(c) \/ SessionInvalidated(c)
           \/ ToolAnswers(c) \/ CallFails(c) \/ closeBestEffort(c) \/ Terminate(c) \/ Killed(c)
    BY DEF Connect, ConnectFails, CallTool, SessionInvalidated, ToolAnswers, CallFails,
       closeBestEffort, Terminate, Killed, process
  <2>2. ~(Start \/ Started \/ CloseSession \/ CloseHttp \/ HttpServerStopped)
    BY DEF Start, Started, CloseSession, CloseHttp, HttpServerStopped
  <2>3. ~(StartFails \/ Signal \/ ShutdownTimesOut)
    BY DEF StartFails, Signal, ShutdownTimesOut, Exit
  <2>4. phase = "closing ws"
    BY <2>1, <2>2, <2>3 DEF Next, WebSocketServerStopped
  <2> QED BY <2>4 DEF SessionsInv, StoppedHoldsNone
<1> QED BY <1>1, SessionsInvHolds, PTL DEF Spec, CleanExitCutsNothing
=============================================================================
