---------------------------- MODULE Requests_proofs ----------------------------
(***************************************************************************)
(* Proofs about module Requests: its invariants by induction, its action   *)
(* property, and that it implements RequestService, for all sets of        *)
(* requests and of connections.                                            *)
(***************************************************************************)
EXTENDS Requests, TLAPS

\* The empty log with one outcome appended holds just that outcome.
LEMMA FirstEntry == ASSUME NEW x PROVE Append(<<>>, x) = <<x>>
  OBVIOUS

\* What is in transit has the type of a request or of a response.
LEMMA InTransitTyped ==
  ASSUME TypeOK, NEW s \in Sockets
  PROVE  /\ \A i \in 1..Len(down[s]) : down[s][i] \in Reqs
         /\ \A i \in 1..Len(up[s]) : up[s][i].id \in Reqs
<1>1. down[s] \in Seq(Reqs) /\ up[s] \in Seq(Replies)
  BY DEF TypeOK
<1>2. ASSUME NEW i \in 1..Len(up[s]) PROVE up[s][i] \in Replies
  BY <1>1
<1> QED BY <1>1, <1>2 DEF Replies

-----------------------------------------------------------------------------
(* Type correctness *)

LEMMA InitTypeOK == Init => TypeOK
<1> SUFFICES ASSUME Init PROVE TypeOK
  OBVIOUS
<1>1. /\ client \in Sockets \cup {None} /\ accepted \in BOOLEAN
      /\ pending \in SUBSET Reqs /\ timers \in SUBSET Reqs
      /\ ws \in Sockets \cup {None}
  BY DEF Init
<1>2. /\ srv \in [Sockets -> {"none", "open", "closing", "closed"}]
      /\ status \in [Reqs -> Statuses] /\ effect \in [Reqs -> Effects]
      /\ handling \in [Reqs -> {"none", "racing", "answered"}]
      /\ sentOn \in [Reqs -> Sockets \cup {None}]
      /\ from \in [Reqs -> Sockets \cup {None}]
  BY DEF Init, Statuses, Effects
<1>3. /\ audit \in [Reqs -> Seq(Outcomes)]
      /\ down \in [Sockets -> Seq(Reqs)] /\ up \in [Sockets -> Seq(Replies)]
  BY DEF Init
<1> QED BY <1>1, <1>2, <1>3 DEF TypeOK

LEMMA AuditTyped ==
  ASSUME TypeOK, NEW R \in SUBSET Reqs, NEW outcome \in Outcomes,
         AppendAudit(R, outcome)
  PROVE  audit' \in [Reqs -> Seq(Outcomes)]
  BY DEF TypeOK, AppendAudit

LEMMA SettleTyped ==
  ASSUME TypeOK, NEW R \in SUBSET Reqs, NEW outcome \in Outcomes,
         Settle(R, outcome)
  PROVE  status' \in [Reqs -> Statuses]
  BY DEF TypeOK, Settle, Statuses

LEMMA ReplyTyped ==
  ASSUME TypeOK, NEW r \in Reqs, NEW ok \in BOOLEAN, Reply(r, ok)
  PROVE  up' \in [Sockets -> Seq(Replies)]
<1>1. [id |-> r, ok |-> ok] \in Replies
  BY DEF Replies
<1>2. CASE from[r] = ws /\ ws # None
  <2>1. ws \in Sockets /\ up[ws] \in Seq(Replies)
    BY <1>2 DEF TypeOK
  <2>2. Append(up[ws], [id |-> r, ok |-> ok]) \in Seq(Replies)
    BY <1>1, <2>1
  <2> QED BY <1>2, <2>1, <2>2 DEF TypeOK, Reply
<1> QED BY <1>2 DEF TypeOK, Reply

LEMMA NextTypeOK == TypeOK /\ [Next]_vars => TypeOK'
<1> SUFFICES ASSUME TypeOK, [Next]_vars PROVE TypeOK'
  OBVIOUS
<1> USE RequestsAssumption
<1>1. ASSUME NEW s \in Sockets, HandleConnection(s) PROVE TypeOK'
  BY <1>1 DEF HandleConnection, TypeOK
<1>2. ASSUME NEW s \in Sockets, StartsClosing(s) PROVE TypeOK'
  BY <1>2 DEF StartsClosing, TypeOK, bridgeVars
<1>3. ASSUME NEW s \in Sockets, HandleClose(s) PROVE TypeOK'
  <2>1. status' \in [Reqs -> Statuses]
    BY <1>3, SettleTyped DEF HandleClose, TypeOK, Outcomes, Failures
  <2>2. audit' \in [Reqs -> Seq(Outcomes)]
    BY <1>3, AuditTyped DEF HandleClose, TypeOK, Outcomes, Failures
  <2>3. down' \in [Sockets -> Seq(Reqs)] /\ up' \in [Sockets -> Seq(Replies)]
    BY <1>3 DEF HandleClose, TypeOK
  <2>4. /\ client' \in Sockets \cup {None} /\ accepted' \in BOOLEAN
        /\ srv' \in [Sockets -> {"none", "open", "closing", "closed"}]
        /\ pending' \in SUBSET Reqs /\ timers' \in SUBSET Reqs
    BY <1>3 DEF HandleClose, TypeOK, Forget
  <2>5. UNCHANGED <<sentOn, ws, handling, from, effect>>
    BY <1>3 DEF HandleClose, bridgeVars
  <2> QED BY <2>1, <2>2, <2>3, <2>4, <2>5 DEF TypeOK
<1>4. ASSUME NEW s \in Sockets, IgnoreResponse(s) PROVE TypeOK'
  BY <1>4 DEF IgnoreResponse, TypeOK, serverVars, bridgeVars
<1>5. CASE AcceptBridge
  BY <1>5 DEF AcceptBridge, TypeOK, bridgeVars
<1>6. CASE BridgeDisconnects
  BY <1>6 DEF BridgeDisconnects, TypeOK, serverVars
<1>7. CASE DropClient
  BY <1>7 DEF DropClient, TypeOK, bridgeVars
<1>8. ASSUME NEW r \in Reqs, Refuse(r) PROVE TypeOK'
  BY <1>8 DEF Refuse, TypeOK, bridgeVars, Statuses
<1>9. ASSUME NEW r \in Reqs, Send(r) PROVE TypeOK'
  BY <1>9 DEF Send, TypeOK, bridgeVars, Statuses, IsConnected, ClientIsOpen
<1>10. ASSUME NEW r \in Reqs, SendFails(r) PROVE TypeOK'
  <2>1. audit' \in [Reqs -> Seq(Outcomes)]
    BY <1>10, AuditTyped DEF SendFails, Outcomes, Failures
  <2> QED BY <1>10, <2>1 DEF SendFails, TypeOK, bridgeVars, Statuses, Outcomes, Failures
<1>11. ASSUME NEW r \in Reqs, RequestTimeout(r) PROVE TypeOK'
  <2>1. status' \in [Reqs -> Statuses]
    BY <1>11, SettleTyped DEF RequestTimeout, Outcomes, Failures
  <2>2. audit' \in [Reqs -> Seq(Outcomes)]
    BY <1>11, AuditTyped DEF RequestTimeout, Outcomes, Failures
  <2> QED BY <1>11, <2>1, <2>2 DEF RequestTimeout, TypeOK, bridgeVars, Forget
<1>12. CASE HandleResponse
  <2> DEFINE reply   == Head(up[client])
             outcome == IF reply.ok THEN "success" ELSE "error"
             found   == {reply.id} \cap pending
  <2>1. outcome \in Outcomes /\ found \in SUBSET Reqs
    BY DEF TypeOK, Outcomes, Failures
  <2>2. /\ up' = [up EXCEPT ![client] = Tail(@)]
        /\ client \in Sockets /\ up[client] # <<>>
        /\ UNCHANGED <<client, accepted, sentOn, down, bridgeVars>>
    BY <1>12 DEF HandleResponse, TypeOK
  <2>3. up' \in [Sockets -> Seq(Replies)]
    BY <2>2 DEF TypeOK
  <2>4. CASE accepted
    <3>1. Forget(found) /\ Settle(found, outcome) /\ AppendAudit(found, outcome) /\ UNCHANGED srv
      BY <1>12, <2>4 DEF HandleResponse
    <3>2. status' \in [Reqs -> Statuses] /\ audit' \in [Reqs -> Seq(Outcomes)]
      BY <2>1, <3>1, SettleTyped, AuditTyped
    <3> QED BY <2>2, <2>3, <3>1, <3>2 DEF TypeOK, Forget, bridgeVars
  <2>5. CASE ~accepted
    <3>1. /\ srv' = [srv EXCEPT ![client] = IF @ = "open" THEN "closing" ELSE @]
          /\ UNCHANGED <<pending, timers, status, audit>>
      BY <1>12, <2>5 DEF HandleResponse
    <3> QED BY <2>2, <2>3, <3>1 DEF TypeOK, bridgeVars
  <2> QED BY <2>4, <2>5
<1>13. CASE BridgeReceives
  <2> DEFINE r == Head(down[ws])
  <2>1. ws \in Sockets /\ down[ws] # <<>> /\ r \in Reqs
    BY <1>13 DEF BridgeReceives, TypeOK
  <2>2. up' = up \/ up' = [up EXCEPT ![ws] = Append(@, [id |-> r, ok |-> FALSE])]
    BY <1>13 DEF BridgeReceives
  <2>3. up' \in [Sockets -> Seq(Replies)]
    <3>1. [id |-> r, ok |-> FALSE] \in Replies /\ up[ws] \in Seq(Replies)
      BY <2>1 DEF TypeOK, Replies
    <3>2. Append(up[ws], [id |-> r, ok |-> FALSE]) \in Seq(Replies)
      BY <3>1
    <3> HIDE DEF r
    <3> QED BY <2>1, <2>2, <3>2 DEF TypeOK
  <2>4. handling' \in [Reqs -> {"none", "racing", "answered"}] /\ effect' \in [Reqs -> Effects]
    BY <1>13, <2>1 DEF BridgeReceives, TypeOK, Effects
  <2>5. down' \in [Sockets -> Seq(Reqs)] /\ from' \in [Reqs -> Sockets \cup {None}]
    BY <1>13, <2>1 DEF BridgeReceives, TypeOK
  <2>6. UNCHANGED <<client, accepted, srv, pending, timers, status, audit, sentOn, ws>>
    BY <1>13 DEF BridgeReceives, serverVars
  <2> QED BY <2>3, <2>4, <2>5, <2>6 DEF TypeOK
<1>14. ASSUME NEW r \in Reqs, ActionTimeout(r) PROVE TypeOK'
  <2>1. up' \in [Sockets -> Seq(Replies)]
    BY <1>14, ReplyTyped DEF ActionTimeout
  <2> QED BY <1>14, <2>1 DEF ActionTimeout, TypeOK, serverVars
<1>15. ASSUME NEW r \in Reqs, NEW ok \in BOOLEAN, HandlerEnds(r, ok) PROVE TypeOK'
  <2>1. up' \in [Sockets -> Seq(Replies)]
    BY <1>15, ReplyTyped DEF HandlerEnds, TypeOK
  <2> QED BY <1>15, <2>1 DEF HandlerEnds, TypeOK, serverVars, Effects
<1>16. CASE UNCHANGED vars
  BY <1>16 DEF TypeOK, vars, serverVars, bridgeVars
<1> QED
  BY <1>1, <1>2, <1>3, <1>4, <1>5, <1>6, <1>7, <1>8, <1>9, <1>10, <1>11, <1>12,
     <1>13, <1>14, <1>15, <1>16 DEF Next

\* Every variable of the server, the bridge and the connections keeps its type
\* whatever the numbers of requests and connections.
THEOREM TypeCorrect == Spec => []TypeOK
  BY InitTypeOK, NextTypeOK, PTL DEF Spec
-----------------------------------------------------------------------------
(* What is pending is timed, and is audited when it is settled             *)

\* A step that lets go of no request and settles none keeps both invariants.
LEMMA NothingSettled ==
  ASSUME PendingIsTimed, AuditedOnce, UNCHANGED <<pending, timers, status, audit>>
  PROVE  PendingIsTimed' /\ AuditedOnce'
  BY DEF PendingIsTimed, AuditedOnce

\* Requests that are pending, forgotten, settled and audited together.
LEMMA SettledTogether ==
  ASSUME TypeOK, PendingIsTimed, AuditedOnce,
         NEW R \in SUBSET pending, NEW outcome \in Outcomes,
         Forget(R), Settle(R, outcome), AppendAudit(R, outcome)
  PROVE  PendingIsTimed' /\ AuditedOnce'
<1> USE RequestsAssumption
<1>1. \A r \in Reqs : status'[r] = IF r \in R THEN outcome ELSE status[r]
  BY DEF TypeOK, PendingIsTimed, Settle
<1>2. pending' = pending \ R /\ timers' = timers \ R
  BY DEF Forget
<1>3. outcome # "pending"
  BY DEF Outcomes, Failures
<1>4. PendingIsTimed'
  BY <1>1, <1>2, <1>3 DEF PendingIsTimed
<1>5. PICK W \in SUBSET R :
         /\ W = R \/ AuditMayFail
         /\ audit' = [r \in Reqs |-> IF r \in W THEN Append(audit[r], outcome)
                                               ELSE audit[r]]
  BY DEF AppendAudit
<1>6. ASSUME NEW r \in Reqs
      PROVE  \/ status'[r] \in Outcomes /\ audit'[r] = <<status'[r]>>
             \/ audit'[r] = <<>> /\ (status'[r] \in Outcomes => AuditMayFail)
  <2>1. CASE r \in R
    <3>1. status[r] = "pending" /\ "pending" \notin Outcomes
      BY <2>1 DEF PendingIsTimed, Outcomes, Failures
    <3>2. audit[r] = <<>>
      BY <3>1 DEF AuditedOnce
    <3>3. CASE r \in W
      <4>1. audit'[r] = <<outcome>>
        BY <1>5, <3>2, <3>3, FirstEntry
      <4> QED BY <1>1, <2>1, <4>1
    <3>4. CASE r \notin W
      BY <1>1, <1>5, <2>1, <3>2, <3>4
    <3> QED BY <3>3, <3>4
  <2>2. CASE r \notin R
    <3>1. status'[r] = status[r] /\ audit'[r] = audit[r]
      BY <1>1, <1>5, <2>2
    <3> QED BY <3>1 DEF AuditedOnce
  <2> QED BY <2>1, <2>2
<1> QED BY <1>4, <1>6 DEF AuditedOnce

LEMMA NextSettles ==
  ASSUME TypeOK, PendingIsTimed, AuditedOnce, [Next]_vars
  PROVE  PendingIsTimed' /\ AuditedOnce'
<1> USE RequestsAssumption
<1>1. ASSUME NEW s \in Sockets, HandleConnection(s) \/ StartsClosing(s) \/ IgnoreResponse(s)
      PROVE  PendingIsTimed' /\ AuditedOnce'
  BY <1>1, NothingSettled DEF HandleConnection, StartsClosing, IgnoreResponse, serverVars
<1>2. ASSUME NEW s \in Sockets, HandleClose(s)
      PROVE  PendingIsTimed' /\ AuditedOnce'
  <2>1. CASE s = client
    BY <1>2, <2>1, SettledTogether DEF HandleClose, Outcomes, Failures
  <2>2. CASE s # client
    BY <1>2, <2>2, NothingSettled DEF HandleClose
  <2> QED BY <2>1, <2>2
<1>3. CASE AcceptBridge \/ BridgeDisconnects \/ DropClient \/ BridgeReceives
  BY <1>3, NothingSettled
     DEF AcceptBridge, BridgeDisconnects, DropClient, BridgeReceives, serverVars
<1>4. ASSUME NEW r \in Reqs, Refuse(r)
      PROVE  PendingIsTimed' /\ AuditedOnce'
  BY <1>4 DEF Refuse, PendingIsTimed, AuditedOnce, TypeOK, Outcomes, Failures
<1>5. ASSUME NEW r \in Reqs, Send(r)
      PROVE  PendingIsTimed' /\ AuditedOnce'
  BY <1>5 DEF Send, PendingIsTimed, AuditedOnce, TypeOK, Outcomes, Failures
<1>6. ASSUME NEW r \in Reqs, SendFails(r)
      PROVE  PendingIsTimed' /\ AuditedOnce'
  <2>1. /\ status[r] = "idle" /\ status' = [status EXCEPT ![r] = "transport_error"]
        /\ AppendAudit({r}, "transport_error") /\ UNCHANGED <<pending, timers>>
    BY <1>6 DEF SendFails
  <2>2. PendingIsTimed'
    BY <2>1 DEF PendingIsTimed, TypeOK
  <2>3. audit[r] = <<>>
    BY <2>1 DEF AuditedOnce, Outcomes, Failures
  <2>4. PICK W \in SUBSET {r} :
           /\ W = {r} \/ AuditMayFail
           /\ audit' = [q \in Reqs |-> IF q \in W THEN Append(audit[q], "transport_error")
                                                 ELSE audit[q]]
    BY <2>1 DEF AppendAudit
  <2>5. \/ audit'[r] = <<"transport_error">>
        \/ audit'[r] = <<>> /\ AuditMayFail
    <3>1. CASE r \in W
      <4>1. audit'[r] = Append(audit[r], "transport_error")
        BY <2>4, <3>1
      <4>2. Append(<<>>, "transport_error") = <<"transport_error">>
        BY FirstEntry
      <4>3. audit'[r] = <<"transport_error">>
        BY <2>3, <4>1, <4>2
      <4> QED BY <4>3
    <3>2. CASE r \notin W
      <4>1. audit'[r] = audit[r] /\ W # {r}
        BY <2>4, <3>2
      <4> QED BY <2>3, <2>4, <4>1
    <3> QED BY <3>1, <3>2
  <2>6. status'[r] = "transport_error" /\ "transport_error" \in Outcomes
    BY <2>1 DEF TypeOK, Outcomes, Failures
  <2>7. \A q \in Reqs \ {r} : status'[q] = status[q] /\ audit'[q] = audit[q]
    BY <2>1, <2>4 DEF TypeOK
  <2> QED BY <2>2, <2>5, <2>6, <2>7 DEF AuditedOnce
<1>7. ASSUME NEW r \in Reqs, RequestTimeout(r)
      PROVE  PendingIsTimed' /\ AuditedOnce'
  <2>1. {r} \in SUBSET pending
    BY <1>7 DEF RequestTimeout, PendingIsTimed
  <2> QED BY <1>7, <2>1, SettledTogether DEF RequestTimeout, Outcomes, Failures
<1>8. CASE HandleResponse
  <2>1. CASE accepted
    <3> DEFINE reply   == Head(up[client])
               outcome == IF reply.ok THEN "success" ELSE "error"
               found   == {reply.id} \cap pending
    <3>1. Forget(found) /\ Settle(found, outcome) /\ AppendAudit(found, outcome)
      BY <1>8, <2>1 DEF HandleResponse
    <3>2. outcome \in Outcomes /\ found \in SUBSET pending
      BY DEF Outcomes, Failures
    <3> HIDE DEF found, outcome
    <3> QED BY <3>1, <3>2, SettledTogether
  <2>2. CASE ~accepted
    BY <1>8, <2>2, NothingSettled DEF HandleResponse
  <2> QED BY <2>1, <2>2
<1>9. ASSUME NEW r \in Reqs, NEW ok \in BOOLEAN, ActionTimeout(r) \/ HandlerEnds(r, ok)
      PROVE  PendingIsTimed' /\ AuditedOnce'
  BY <1>9, NothingSettled DEF ActionTimeout, HandlerEnds, serverVars
<1>10. CASE UNCHANGED vars
  BY <1>10, NothingSettled DEF vars, serverVars
<1> QED
  BY <1>1, <1>2, <1>3, <1>4, <1>5, <1>6, <1>7, <1>8, <1>9, <1>10 DEF Next

LEMMA InitSettles == Init => PendingIsTimed /\ AuditedOnce
  BY DEF Init, PendingIsTimed, AuditedOnce, Outcomes, Failures

\* However requests, connections and timeouts interleave, exactly the pending
\* requests are timed.
THEOREM PendingAlwaysTimed == Spec => []PendingIsTimed
  BY InitTypeOK, NextTypeOK, InitSettles, NextSettles, PTL DEF Spec

\* However a request is settled, that is audited once, with the outcome its
\* caller sees, unless the append failed.
THEOREM AlwaysAuditedOnce == Spec => []AuditedOnce
  BY InitTypeOK, NextTypeOK, InitSettles, NextSettles, PTL DEF Spec
-----------------------------------------------------------------------------
(* A success was earned, on the request's own connection                   *)

InFlightInv == InTransitIsNew /\ TakenUpWasSent /\ ResponseIsTrue /\ SuccessIsDone

LEMMA InitInFlight == Init => InFlightInv
  BY DEF Init, InFlightInv, InTransitIsNew, TakenUpWasSent, ResponseIsTrue, SuccessIsDone

\* Nothing but messages is lost, and nothing is taken up or answered.
StatusKept ==
    \A r \in Reqs :
       /\ status[r] \notin Unsent => status'[r] \notin Unsent
       /\ status'[r] = "success" => status[r] = "success" \/ effect[r] = "done"

MessagesKept ==
    /\ UNCHANGED <<sentOn, handling, from, effect>>
    /\ \A s \in Sockets :
          /\ down'[s] = down[s] \/ down'[s] = <<>>
          /\ \/ up'[s] = up[s]
             \/ up'[s] = <<>>
             \/ up[s] # <<>> /\ up'[s] = Tail(up[s])

LEMMA OnlyLosing ==
  ASSUME TypeOK, InFlightInv, StatusKept, MessagesKept
  PROVE  InFlightInv'
<1> USE DEF StatusKept, MessagesKept
<1>1. ASSUME NEW s \in Sockets
      PROVE  /\ \A i \in 1..Len(down'[s]) :
                  /\ sentOn'[down'[s][i]] = s /\ status'[down'[s][i]] \notin Unsent
                  /\ handling'[down'[s][i]] = "none"
             /\ \A i, j \in 1..Len(down'[s]) : down'[s][i] = down'[s][j] => i = j
  <2>1. CASE down'[s] = down[s]
    <3>1. \A i \in 1..Len(down[s]) : down[s][i] \in Reqs
      BY DEF TypeOK
    <3> QED BY <2>1, <3>1 DEF InFlightInv, InTransitIsNew
  <2>2. CASE down'[s] = <<>>
    BY <2>2
  <2> QED BY <2>1, <2>2
<1>2. TakenUpWasSent'
  BY DEF InFlightInv, TakenUpWasSent
<1>3. ASSUME NEW s \in Sockets, NEW i \in 1..Len(up'[s])
      PROVE  /\ sentOn'[up'[s][i].id] = s /\ handling'[up'[s][i].id] = "answered"
             /\ up'[s][i].ok => effect'[up'[s][i].id] = "done"
  <2>1. CASE up'[s] = up[s]
    BY <1>3, <2>1 DEF InFlightInv, ResponseIsTrue
  <2>2. CASE up[s] # <<>> /\ up'[s] = Tail(up[s])
    <3>1. i + 1 \in 1..Len(up[s]) /\ up'[s][i] = up[s][i + 1]
      BY <1>3, <2>2 DEF TypeOK
    <3> QED BY <3>1 DEF InFlightInv, ResponseIsTrue
  <2>3. CASE up'[s] = <<>>
    BY <1>3, <2>3
  <2> QED BY <2>1, <2>2, <2>3
<1>4. SuccessIsDone'
  BY DEF InFlightInv, SuccessIsDone
<1> QED BY <1>1, <1>2, <1>3, <1>4 DEF InFlightInv, InTransitIsNew, ResponseIsTrue

\* A response that has been taken up and answered joins those in transit.
LEMMA ReplyIsTrue ==
  ASSUME TypeOK, ResponseIsTrue, NEW r \in Reqs, NEW ok \in BOOLEAN,
         Reply(r, ok), UNCHANGED sentOn,
         from[r] = sentOn[r], handling'[r] = "answered", ok => effect'[r] = "done",
         \A q \in Reqs \ {r} : handling'[q] = handling[q],
         \A q \in Reqs : effect[q] = "done" => effect'[q] = "done"
  PROVE  ResponseIsTrue'
<1> DEFINE m == [id |-> r, ok |-> ok]
<1> SUFFICES ASSUME NEW s \in Sockets, NEW i \in 1..Len(up'[s])
             PROVE  /\ sentOn'[up'[s][i].id] = s /\ handling'[up'[s][i].id] = "answered"
                    /\ up'[s][i].ok => effect'[up'[s][i].id] = "done"
  BY DEF ResponseIsTrue
<1>1. ASSUME i \in 1..Len(up[s]), up'[s][i] = up[s][i]
      PROVE  /\ sentOn'[up'[s][i].id] = s /\ handling'[up'[s][i].id] = "answered"
             /\ up'[s][i].ok => effect'[up'[s][i].id] = "done"
  <2>1. up[s][i].id \in Reqs
    BY <1>1, InTransitTyped
  <2> QED BY <1>1, <2>1 DEF ResponseIsTrue
<1>2. CASE from[r] = ws /\ ws # None /\ s = ws
  <2>1. s = sentOn[r] /\ up'[s] = Append(up[s], m) /\ up[s] \in Seq(Replies)
    BY <1>2 DEF Reply, TypeOK
  <2>2. m \in Replies
    BY DEF Replies
  <2> HIDE DEF m
  <2>3. \/ i \in 1..Len(up[s]) /\ up'[s][i] = up[s][i]
        \/ up'[s][i] = m
    BY <2>1, <2>2
  <2>4. CASE up'[s][i] = m
    BY <2>1, <2>4 DEF m
  <2> QED BY <1>1, <2>3, <2>4
<1>3. CASE ~(from[r] = ws /\ ws # None /\ s = ws)
  <2>1. up'[s] = up[s]
    BY <1>3 DEF Reply, TypeOK
  <2> QED BY <1>1, <2>1
<1> QED BY <1>2, <1>3

LEMMA NextInFlight ==
  ASSUME TypeOK, PendingIsTimed, InFlightInv, [Next]_vars
  PROVE  InFlightInv'
<1> USE RequestsAssumption
<1>1. ASSUME NEW s \in Sockets, HandleConnection(s) \/ StartsClosing(s) \/ IgnoreResponse(s)
      PROVE  InFlightInv'
  <2>1. StatusKept
    BY <1>1 DEF HandleConnection, StartsClosing, IgnoreResponse, serverVars, StatusKept
  <2>2. MessagesKept
    <3>1. CASE HandleConnection(s) \/ StartsClosing(s)
      BY <3>1 DEF HandleConnection, StartsClosing, bridgeVars, MessagesKept
    <3>2. CASE IgnoreResponse(s)
      BY <3>2 DEF IgnoreResponse, serverVars, bridgeVars, TypeOK, MessagesKept
    <3> QED BY <1>1, <3>1, <3>2
  <2> QED BY <2>1, <2>2, OnlyLosing
<1>2. ASSUME NEW s \in Sockets, HandleClose(s)
      PROVE  InFlightInv'
  <2>1. \A r \in Reqs : status'[r] = status[r] \/ status'[r] = "error"
    <3>1. CASE s = client
      <4>1. Settle(pending, "error")
        BY <1>2, <3>1 DEF HandleClose
      <4> QED BY <4>1 DEF Settle
    <3>2. CASE s # client
      <4>1. status' = status
        BY <1>2, <3>2 DEF HandleClose
      <4> QED BY <4>1
    <3> QED BY <3>1, <3>2
  <2>2. StatusKept
    BY <2>1 DEF StatusKept, Unsent
  <2>3. MessagesKept
    BY <1>2 DEF HandleClose, bridgeVars, TypeOK, MessagesKept
  <2> QED BY <2>2, <2>3, OnlyLosing
<1>3. CASE AcceptBridge \/ BridgeDisconnects \/ DropClient
  <2>1. StatusKept
    BY <1>3 DEF AcceptBridge, BridgeDisconnects, DropClient, serverVars, StatusKept
  <2>2. MessagesKept
    BY <1>3 DEF AcceptBridge, BridgeDisconnects, DropClient, serverVars, bridgeVars,
                TypeOK, MessagesKept
  <2> QED BY <2>1, <2>2, OnlyLosing
<1>4. ASSUME NEW r \in Reqs, Refuse(r) \/ SendFails(r)
      PROVE  InFlightInv'
  <2>1. /\ status[r] = "idle" /\ status'[r] \in {"refused", "transport_error"}
        /\ \A q \in Reqs \ {r} : status'[q] = status[q]
    BY <1>4 DEF Refuse, SendFails, TypeOK
  <2>2. StatusKept
    BY <2>1 DEF StatusKept, Unsent
  <2>3. MessagesKept
    BY <1>4 DEF Refuse, SendFails, bridgeVars, MessagesKept
  <2> QED BY <2>2, <2>3, OnlyLosing
<1>5. ASSUME NEW r \in Reqs, Send(r)
      PROVE  InFlightInv'
  <2>1. /\ status[r] = "idle" /\ status' = [status EXCEPT ![r] = "pending"]
        /\ client \in Sockets /\ sentOn' = [sentOn EXCEPT ![r] = client]
        /\ down' = IF ws = client THEN [down EXCEPT ![client] = Append(@, r)] ELSE down
        /\ UNCHANGED <<up, handling, from, effect>>
    BY <1>5 DEF Send, IsConnected, ClientIsOpen, TypeOK, bridgeVars
  <2>2. /\ status'[r] = "pending" /\ sentOn'[r] = client
        /\ \A q \in Reqs \ {r} : status'[q] = status[q] /\ sentOn'[q] = sentOn[q]
    BY <2>1 DEF TypeOK
  <2>3. handling[r] = "none" /\ effect[r] = "none"
    BY <2>1 DEF InFlightInv, TakenUpWasSent, Unsent, TypeOK
  <2>4. TakenUpWasSent'
    BY <2>1, <2>2, <2>3 DEF InFlightInv, TakenUpWasSent, Unsent
  <2>5. ResponseIsTrue'
    <3>1. \A s \in Sockets : \A i \in 1..Len(up[s]) : up[s][i].id \in Reqs
      BY InTransitTyped
    <3> QED BY <2>1, <2>2, <2>3, <3>1 DEF InFlightInv, ResponseIsTrue
  <2>6. SuccessIsDone'
    BY <2>1, <2>2 DEF InFlightInv, SuccessIsDone
  <2>7. ASSUME NEW s \in Sockets
        PROVE  /\ \A i \in 1..Len(down'[s]) :
                    /\ sentOn'[down'[s][i]] = s /\ status'[down'[s][i]] \notin Unsent
                    /\ handling'[down'[s][i]] = "none"
               /\ \A i, j \in 1..Len(down'[s]) : down'[s][i] = down'[s][j] => i = j
    <3>1. \A i \in 1..Len(down[s]) : down[s][i] \in Reqs /\ down[s][i] # r
      BY <2>1 DEF InFlightInv, InTransitIsNew, Unsent, TypeOK
    <3>2. CASE down'[s] = down[s]
      <4>1. \A i \in 1..Len(down[s]) :
               /\ sentOn[down[s][i]] = s /\ status[down[s][i]] \notin Unsent
               /\ handling[down[s][i]] = "none"
        BY DEF InFlightInv, InTransitIsNew
      <4>2. \A i, j \in 1..Len(down[s]) : down[s][i] = down[s][j] => i = j
        BY DEF InFlightInv, InTransitIsNew
      <4>3. handling' = handling
        BY <2>1
      <4> QED BY <2>2, <3>1, <3>2, <4>1, <4>2, <4>3
    <3>3. CASE s = client /\ down'[s] = Append(down[s], r)
      <4>1. /\ Len(down'[s]) = Len(down[s]) + 1 /\ Len(down[s]) \in Nat
            /\ \A i \in 1..Len(down[s]) : down'[s][i] = down[s][i]
            /\ down'[s][Len(down[s]) + 1] = r
        BY <3>3 DEF TypeOK
      <4>2. \A i \in 1..Len(down'[s]) : i \in 1..Len(down[s]) \/ i = Len(down[s]) + 1
        BY <4>1
      <4> QED BY <2>1, <2>2, <2>3, <3>1, <3>3, <4>1, <4>2 DEF InFlightInv, InTransitIsNew, Unsent
    <3> QED BY <2>1, <3>2, <3>3 DEF TypeOK
  <2> QED BY <2>4, <2>5, <2>6, <2>7 DEF InFlightInv, InTransitIsNew
<1>6. ASSUME NEW r \in Reqs, RequestTimeout(r)
      PROVE  InFlightInv'
  <2>1. \A q \in Reqs : status'[q] = status[q] \/ status'[q] = "timeout"
    BY <1>6 DEF RequestTimeout, Settle, TypeOK
  <2>2. StatusKept
    BY <2>1 DEF StatusKept, Unsent
  <2>3. MessagesKept
    BY <1>6 DEF RequestTimeout, bridgeVars, MessagesKept
  <2> QED BY <2>2, <2>3, OnlyLosing
<1>7. CASE HandleResponse
  <2> DEFINE reply == Head(up[client])
  <2>1. /\ client \in Sockets /\ up[client] # <<>> /\ up' = [up EXCEPT ![client] = Tail(@)]
        /\ UNCHANGED <<sentOn, down, ws, handling, from, effect>>
    BY <1>7 DEF HandleResponse, bridgeVars, TypeOK
  <2>2. reply.ok => effect[reply.id] = "done"
    <3>1. reply = up[client][1] /\ 1 \in 1..Len(up[client])
      BY <2>1 DEF TypeOK
    <3> HIDE DEF reply
    <3> QED BY <2>1, <3>1 DEF InFlightInv, ResponseIsTrue
  <2>3. \A r \in Reqs : \/ status'[r] = status[r]
                        \/ status'[r] = "error"
                        \/ status'[r] = "success" /\ reply.ok /\ r = reply.id
    BY <1>7 DEF HandleResponse, Settle, TypeOK
  <2> HIDE DEF reply
  <2>4. StatusKept
    BY <2>2, <2>3 DEF StatusKept, Unsent
  <2>5. MessagesKept
    BY <2>1 DEF TypeOK, MessagesKept
  <2> QED BY <2>4, <2>5, OnlyLosing
<1>8. CASE BridgeReceives
  <2> DEFINE r == Head(down[ws])
  <2>1. /\ ws \in Sockets /\ down[ws] # <<>> /\ r \in Reqs
        /\ r = down[ws][1] /\ 1 \in 1..Len(down[ws])
        /\ down' = [down EXCEPT ![ws] = Tail(@)]
        /\ from' = [from EXCEPT ![r] = ws]
        /\ UNCHANGED <<sentOn, status, ws>>
    BY <1>8 DEF BridgeReceives, TypeOK, serverVars
  <2>2. \/ /\ handling' = [handling EXCEPT ![r] = "racing"]
           /\ effect' = [effect EXCEPT ![r] = "running"]
           /\ up' = up
        \/ /\ handling' = [handling EXCEPT ![r] = "answered"]
           /\ up' = [up EXCEPT ![ws] = Append(@, [id |-> r, ok |-> FALSE])]
           /\ effect' = effect
    BY <1>8 DEF BridgeReceives
  <2> HIDE DEF r
  <2>3. /\ sentOn[r] = ws /\ status[r] \notin Unsent /\ handling[r] = "none"
        /\ effect[r] = "none"
    BY <2>1 DEF InFlightInv, InTransitIsNew, TakenUpWasSent
  <2>4. /\ \A q \in Reqs \ {r} : handling'[q] = handling[q] /\ effect'[q] = effect[q]
        /\ handling'[r] \in {"racing", "answered"}
        /\ handling'[r] = "racing" => effect'[r] = "running"
    BY <2>1, <2>2 DEF TypeOK
  <2>5. TakenUpWasSent'
    BY <2>1, <2>3, <2>4 DEF InFlightInv, TakenUpWasSent, TypeOK
  <2>6. SuccessIsDone'
    BY <2>1, <2>3, <2>4 DEF InFlightInv, SuccessIsDone
  <2>7. ResponseIsTrue'
    <3>1. CASE up' = up
      <4>1. \A s \in Sockets : \A i \in 1..Len(up[s]) :
               up[s][i].id \in Reqs /\ up[s][i].id # r
        BY <2>3, InTransitTyped DEF InFlightInv, ResponseIsTrue
      <4> QED BY <2>1, <2>4, <3>1, <4>1 DEF InFlightInv, ResponseIsTrue
    <3>2. CASE /\ handling' = [handling EXCEPT ![r] = "answered"]
               /\ up' = [up EXCEPT ![ws] = Append(@, [id |-> r, ok |-> FALSE])]
               /\ effect' = effect
      <4> DEFINE m == [id |-> r, ok |-> FALSE]
      <4> SUFFICES ASSUME NEW s \in Sockets, NEW i \in 1..Len(up'[s])
                   PROVE  /\ sentOn'[up'[s][i].id] = s
                          /\ handling'[up'[s][i].id] = "answered"
                          /\ up'[s][i].ok => effect'[up'[s][i].id] = "done"
        BY DEF ResponseIsTrue
      <4>1. m \in Replies /\ m.id = r /\ m.ok = FALSE
        BY <2>1 DEF Replies
      <4>2. handling'[r] = "answered"
        BY <2>1, <3>2 DEF TypeOK
      <4>3. up'[s] = IF s = ws THEN Append(up[s], m) ELSE up[s]
        BY <2>1, <3>2 DEF TypeOK
      <4> HIDE DEF m
      <4>4. \/ i \in 1..Len(up[s]) /\ up'[s][i] = up[s][i]
            \/ s = ws /\ up'[s][i] = m
        <5>1. up[s] \in Seq(Replies)
          BY DEF TypeOK
        <5> QED BY <4>1, <4>3, <5>1
      <4>5. CASE i \in 1..Len(up[s]) /\ up'[s][i] = up[s][i]
        <5>1. up[s][i].id \in Reqs
          BY <4>5, InTransitTyped
        <5> QED BY <2>1, <2>4, <3>2, <4>2, <4>5, <5>1 DEF InFlightInv, ResponseIsTrue
      <4>6. CASE s = ws /\ up'[s][i] = m
        BY <2>1, <2>3, <4>1, <4>2, <4>6
      <4> QED BY <4>4, <4>5, <4>6
    <3> QED BY <2>2, <3>1, <3>2
  <2>8. ASSUME NEW s \in Sockets
        PROVE  /\ \A i \in 1..Len(down'[s]) :
                    /\ sentOn'[down'[s][i]] = s /\ status'[down'[s][i]] \notin Unsent
                    /\ handling'[down'[s][i]] = "none"
               /\ \A i, j \in 1..Len(down'[s]) : down'[s][i] = down'[s][j] => i = j
    <3>1. CASE s = ws
      <4>1. /\ Len(down[s]) \in Nat /\ Len(down'[s]) = Len(down[s]) - 1
            /\ \A i \in 1..Len(down'[s]) :
                  /\ i + 1 \in 1..Len(down[s]) /\ down'[s][i] = down[s][i + 1]
                  /\ down[s][i + 1] \in Reqs
        BY <2>1, <3>1 DEF TypeOK
      <4>2. \A i \in 1..Len(down'[s]) : down[s][i + 1] # r
        BY SMTT(20), <2>1, <3>1, <4>1 DEF InFlightInv, InTransitIsNew
      <4>3. \A i \in 1..Len(down[s]) :
               sentOn[down[s][i]] = s /\ status[down[s][i]] \notin Unsent
                 /\ handling[down[s][i]] = "none"
        BY DEF InFlightInv, InTransitIsNew
      <4>4. \A i, j \in 1..Len(down[s]) : down[s][i] = down[s][j] => i = j
        BY DEF InFlightInv, InTransitIsNew
      <4>5. \A i, j \in 1..Len(down'[s]) : down'[s][i] = down'[s][j] => i = j
        <5> SUFFICES ASSUME NEW i \in 1..Len(down'[s]), NEW j \in 1..Len(down'[s]),
                            down'[s][i] = down'[s][j]
                     PROVE  i = j
          OBVIOUS
        <5>1. i + 1 \in 1..Len(down[s]) /\ j + 1 \in 1..Len(down[s])
          BY <4>1
        <5>2. down[s][i + 1] = down[s][j + 1]
          BY <4>1
        <5>3. i + 1 = j + 1
          BY <4>4, <5>1, <5>2
        <5> QED BY <5>3
      <4>6. ASSUME NEW i \in 1..Len(down'[s])
            PROVE  /\ sentOn'[down'[s][i]] = s /\ status'[down'[s][i]] \notin Unsent
                   /\ handling'[down'[s][i]] = "none"
        <5>1. down'[s][i] = down[s][i + 1] /\ i + 1 \in 1..Len(down[s])
              /\ down[s][i + 1] \in Reqs \ {r}
          BY <4>1, <4>2
        <5>2. sentOn[down'[s][i]] = s /\ status[down'[s][i]] \notin Unsent
                /\ handling[down'[s][i]] = "none"
          BY <4>3, <5>1
        <5> QED BY <2>1, <2>4, <5>1, <5>2
      <4> QED BY <4>5, <4>6
    <3>2. CASE s # ws
      <4>1. down'[s] = down[s]
        BY <2>1, <3>2 DEF TypeOK
      <4>2. \A i \in 1..Len(down[s]) : down[s][i] \in Reqs /\ down[s][i] # r
        BY <2>3, <3>2, InTransitTyped DEF InFlightInv, InTransitIsNew
      <4>3. \A i \in 1..Len(down[s]) :
               sentOn[down[s][i]] = s /\ status[down[s][i]] \notin Unsent
                 /\ handling[down[s][i]] = "none"
        BY DEF InFlightInv, InTransitIsNew
      <4>4. \A i, j \in 1..Len(down[s]) : down[s][i] = down[s][j] => i = j
        BY DEF InFlightInv, InTransitIsNew
      <4> QED BY <2>1, <2>4, <4>1, <4>2, <4>3, <4>4
    <3> QED BY <3>1, <3>2
  <2> QED BY <2>5, <2>6, <2>7, <2>8 DEF InFlightInv, InTransitIsNew
<1>9. ASSUME NEW r \in Reqs, NEW ok \in BOOLEAN, HandlerEnds(r, ok)
      PROVE  InFlightInv'
  <2>1. /\ effect[r] = "running" /\ effect'[r] = "done"
        /\ \A q \in Reqs \ {r} : effect'[q] = effect[q] /\ handling'[q] = handling[q]
        /\ handling'[r] \in {handling[r], "answered"} /\ handling'[r] # "racing"
        /\ handling[r] # "none"
        /\ UNCHANGED <<sentOn, status, from, down>>
    BY <1>9 DEF HandlerEnds, serverVars, TypeOK, InFlightInv, TakenUpWasSent
  <2>2. TakenUpWasSent'
    BY <2>1 DEF InFlightInv, TakenUpWasSent, TypeOK
  <2>3. InTransitIsNew'
    <3>1. \A s \in Sockets : \A i \in 1..Len(down[s]) :
             down[s][i] \in Reqs /\ down[s][i] # r
      BY <2>1, InTransitTyped DEF InFlightInv, InTransitIsNew
    <3> QED BY <2>1, <3>1 DEF InFlightInv, InTransitIsNew
  <2>4. SuccessIsDone'
    BY <2>1 DEF InFlightInv, SuccessIsDone
  <2>5. CASE handling[r] = "racing"
    <3>1. Reply(r, ok) /\ handling'[r] = "answered" /\ from[r] = sentOn[r]
      BY <1>9, <2>5 DEF HandlerEnds, InFlightInv, TakenUpWasSent, TypeOK
    <3>2. ResponseIsTrue'
      BY <2>1, <3>1, ReplyIsTrue DEF InFlightInv
    <3> QED BY <2>2, <2>3, <2>4, <3>2 DEF InFlightInv
  <2>6. CASE handling[r] # "racing"
    <3>1. UNCHANGED <<handling, up>>
      BY <1>9, <2>6 DEF HandlerEnds
    <3>2. \A s \in Sockets : \A i \in 1..Len(up[s]) : up[s][i].id \in Reqs
      BY InTransitTyped
    <3>3. ResponseIsTrue'
      BY <2>1, <3>1, <3>2 DEF InFlightInv, ResponseIsTrue
    <3> QED BY <2>2, <2>3, <2>4, <3>3 DEF InFlightInv
  <2> QED BY <2>5, <2>6
<1>10. ASSUME NEW r \in Reqs, ActionTimeout(r)
       PROVE  InFlightInv'
  <2>1. /\ handling[r] = "racing" /\ handling'[r] = "answered" /\ Reply(r, FALSE)
        /\ \A q \in Reqs \ {r} : handling'[q] = handling[q]
        /\ UNCHANGED <<sentOn, status, from, down, effect>>
    BY <1>10 DEF ActionTimeout, serverVars, TypeOK
  <2>2. from[r] = sentOn[r]
    BY <2>1 DEF InFlightInv, TakenUpWasSent
  <2>3. TakenUpWasSent'
    BY <2>1 DEF InFlightInv, TakenUpWasSent, TypeOK
  <2>4. InTransitIsNew'
    <3>1. \A s \in Sockets : \A i \in 1..Len(down[s]) :
             down[s][i] \in Reqs /\ down[s][i] # r
      BY <2>1, InTransitTyped DEF InFlightInv, InTransitIsNew
    <3> QED BY <2>1, <3>1 DEF InFlightInv, InTransitIsNew
  <2>5. SuccessIsDone'
    BY <2>1 DEF InFlightInv, SuccessIsDone
  <2>6. ResponseIsTrue'
    BY <2>1, <2>2, ReplyIsTrue DEF InFlightInv
  <2> QED BY <2>3, <2>4, <2>5, <2>6 DEF InFlightInv
<1>11. CASE UNCHANGED vars
  <2>1. StatusKept /\ MessagesKept
    BY <1>11 DEF vars, serverVars, bridgeVars, StatusKept, MessagesKept
  <2> QED BY <2>1, OnlyLosing
<1> QED
  BY <1>1, <1>2, <1>3, <1>4, <1>5, <1>6, <1>7, <1>8, <1>9, <1>10, <1>11 DEF Next

\* A tool told of success was told the truth: the bridge's handler has ended,
\* however late, reordered or lost the responses of other requests are.
THEOREM SuccessAlwaysDone == Spec => []SuccessIsDone
<1>1. Init => TypeOK /\ PendingIsTimed /\ AuditedOnce /\ InFlightInv
  BY InitTypeOK, InitSettles, InitInFlight
<1>2. TypeOK /\ PendingIsTimed /\ AuditedOnce /\ InFlightInv /\ [Next]_vars
        => (TypeOK /\ PendingIsTimed /\ AuditedOnce /\ InFlightInv)'
  BY NextTypeOK, NextSettles, NextInFlight
<1>3. InFlightInv => SuccessIsDone
  BY DEF InFlightInv
<1> QED BY <1>1, <1>2, <1>3, PTL DEF Spec
-----------------------------------------------------------------------------
(* The whole invariant                                                     *)

LEMMA InitInv == Init => RequestInv
  BY InitTypeOK, InitSettles, InitInFlight DEF RequestInv, InFlightInv

LEMMA NextInv == RequestInv /\ [Next]_vars => RequestInv'
  BY NextTypeOK, NextSettles, NextInFlight DEF RequestInv, InFlightInv

\* What is in transit, in the bridge's hands and answered stays consistent, in
\* every order of sends, closes, timeouts and answers.
THEOREM RequestInvHolds == Spec => []RequestInv
  BY InitInv, NextInv, PTL DEF Spec

-----------------------------------------------------------------------------
(* Success comes through the request's own connection                      *)

AnswersOnOwn == \A r \in Reqs : status[r] = "pending" /\ status'[r] = "success"
                                  => client = sentOn[r]

\* Steps that make no request succeed.
LEMMA NoSuccess ==
  ASSUME \A r \in Reqs : status'[r] = "success" => status[r] = "success"
  PROVE  AnswersOnOwn
  BY DEF AnswersOnOwn

LEMMA OtherStepsNoSuccess ==
  ASSUME RequestInv, [Next]_vars, ~HandleResponse
  PROVE  \A r \in Reqs : status'[r] = "success" => status[r] = "success"
<1> USE DEF RequestInv, TypeOK
<1>1. ASSUME NEW s \in Sockets,
             HandleConnection(s) \/ StartsClosing(s) \/ IgnoreResponse(s)
      PROVE  status' = status
  BY <1>1 DEF HandleConnection, StartsClosing, IgnoreResponse, serverVars
<1>2. ASSUME NEW R, NEW outcome \in {"error", "timeout"}, Settle(R, outcome),
             NEW r \in Reqs, status'[r] = "success"
      PROVE  status[r] = "success"
  BY <1>2 DEF Settle
<1>3. ASSUME NEW s \in Sockets, HandleClose(s)
      PROVE  status' = status \/ Settle(pending, "error")
  BY <1>3 DEF HandleClose
<1>4. CASE AcceptBridge \/ BridgeDisconnects \/ DropClient \/ BridgeReceives
  BY <1>4 DEF AcceptBridge, BridgeDisconnects, DropClient, BridgeReceives, serverVars
<1>5. ASSUME NEW r \in Reqs, Refuse(r) \/ Send(r) \/ SendFails(r),
             NEW q \in Reqs, status'[q] = "success"
      PROVE  status[q] = "success"
  BY <1>5 DEF Refuse, Send, SendFails
<1>6. ASSUME NEW r \in Reqs, RequestTimeout(r)
      PROVE  Settle({r}, "timeout")
  BY <1>6 DEF RequestTimeout
<1>7. ASSUME NEW r \in Reqs, NEW ok \in BOOLEAN, ActionTimeout(r) \/ HandlerEnds(r, ok)
      PROVE  status' = status
  BY <1>7 DEF ActionTimeout, HandlerEnds, serverVars
<1>8. CASE UNCHANGED vars
  BY <1>8 DEF vars, serverVars
<1> HIDE DEF RequestInv, TypeOK
<1> QED BY <1>1, <1>2, <1>3, <1>4, <1>5, <1>6, <1>7, <1>8 DEF Next

LEMMA NextAnswersOnOwn == RequestInv /\ [Next]_vars => AnswersOnOwn
<1> SUFFICES ASSUME RequestInv, [Next]_vars PROVE AnswersOnOwn
  OBVIOUS
<1>1. CASE HandleResponse
  <2> DEFINE reply == Head(up[client])
  <2>1. client \in Sockets /\ up[client] # <<>>
    BY <1>1 DEF HandleResponse, RequestInv, TypeOK
  <2>2. sentOn[reply.id] = client
    <3>1. reply = up[client][1] /\ 1 \in 1..Len(up[client])
      BY <2>1 DEF RequestInv, TypeOK
    <3> HIDE DEF reply
    <3> QED BY <2>1, <3>1 DEF RequestInv, ResponseIsTrue
  <2>3. \A r \in Reqs : status'[r] = status[r] \/ r = reply.id
    BY <1>1 DEF HandleResponse, Settle
  <2> HIDE DEF reply
  <2> QED BY <2>2, <2>3 DEF AnswersOnOwn
<1>2. CASE ~HandleResponse
  BY <1>2, OtherStepsNoSuccess, NoSuccess
<1> QED BY <1>1, <1>2

\* A response that arrives on another connection than the request's, before or
\* after a reconnect, never makes that request succeed.
THEOREM AlwaysOnOwnConnection == Spec => AnsweredOnOwnConnection
<1>1. RequestInv /\ [Next]_vars => [AnswersOnOwn]_vars
  BY NextAnswersOnOwn
<1>2. AnsweredOnOwnConnection <=> [][AnswersOnOwn]_vars
  BY DEF AnsweredOnOwnConnection, AnswersOnOwn
<1> QED BY <1>1, <1>2, RequestInvHolds, PTL DEF Spec

-----------------------------------------------------------------------------
(* Requests implements RequestService                                      *)

LEMMA InitImplements == Init => Service!Init
  BY DEF Init, Service!Init

\* Settling pending requests with a failure is the service's Fail.
LEMMA FailureImplements ==
  ASSUME RequestInv, NEW R \in SUBSET pending, NEW failure \in {"error", "timeout"},
         Settle(R, failure), UNCHANGED effect
  PROVE  Service!Next
<1>1. R \in SUBSET Reqs /\ \A r \in R : status[r] = "pending"
  BY DEF RequestInv, TypeOK, PendingIsTimed
<1>2. status' = [r \in Reqs |-> IF r \in R THEN failure ELSE status[r]]
  BY <1>1 DEF Settle
<1>3. Service!Fail(R)
  BY <1>1, <1>2 DEF Service!Fail
<1> QED BY <1>1, <1>3 DEF Service!Next

LEMMA NextImplements == RequestInv /\ [Next]_vars => [Service!Next]_<<status, effect>>
<1> SUFFICES ASSUME RequestInv, [Next]_vars PROVE [Service!Next]_<<status, effect>>
  OBVIOUS
<1> USE RequestsAssumption
<1>1. ASSUME NEW s \in Sockets,
             HandleConnection(s) \/ StartsClosing(s) \/ IgnoreResponse(s)
      PROVE  UNCHANGED <<status, effect>>
  BY <1>1 DEF HandleConnection, StartsClosing, IgnoreResponse, serverVars, bridgeVars
<1>2. ASSUME NEW s \in Sockets, HandleClose(s)
      PROVE  [Service!Next]_<<status, effect>>
  <2>1. UNCHANGED effect
    BY <1>2 DEF HandleClose, bridgeVars
  <2>2. CASE s = client
    BY <1>2, <2>1, <2>2, FailureImplements DEF HandleClose
  <2>3. CASE s # client
    BY <1>2, <2>1, <2>3 DEF HandleClose
  <2> QED BY <2>2, <2>3
<1>3. CASE AcceptBridge \/ BridgeDisconnects \/ DropClient
  BY <1>3 DEF AcceptBridge, BridgeDisconnects, DropClient, serverVars, bridgeVars
<1>4. ASSUME NEW r \in Reqs, Refuse(r) \/ Send(r) \/ SendFails(r)
      PROVE  Service!Next
  <2>1. /\ status[r] = "idle" /\ UNCHANGED effect
        /\ \E outcome \in {"pending", "refused", "transport_error"} :
              status' = [status EXCEPT ![r] = outcome]
    BY <1>4 DEF Refuse, Send, SendFails, bridgeVars
  <2>2. Service!Submit(r)
    BY <2>1 DEF Service!Submit
  <2> QED BY <2>2 DEF Service!Next
<1>5. ASSUME NEW r \in Reqs, RequestTimeout(r)
      PROVE  Service!Next
  <2>1. {r} \in SUBSET pending /\ Settle({r}, "timeout") /\ UNCHANGED effect
    BY <1>5 DEF RequestTimeout, RequestInv, PendingIsTimed, bridgeVars
  <2> QED BY <2>1, FailureImplements
<1>6. CASE HandleResponse
  <2> DEFINE reply   == Head(up[client])
             found   == {reply.id} \cap pending
             outcome == IF reply.ok THEN "success" ELSE "error"
  <2>1. UNCHANGED effect
    BY <1>6 DEF HandleResponse, bridgeVars
  <2>2. CASE ~accepted
    BY <1>6, <2>1, <2>2 DEF HandleResponse
  <2>3. CASE accepted
    <3>1. Settle(found, outcome)
      BY <1>6, <2>3 DEF HandleResponse
    <3>2. CASE ~reply.ok
      <4>1. Settle(found, "error") /\ found \in SUBSET pending
        BY <3>1, <3>2
      <4> HIDE DEF found
      <4> QED BY <2>1, <4>1, FailureImplements
    <3>3. CASE reply.ok /\ reply.id \notin pending
      <4>1. status' = [r \in Reqs |-> status[r]]
        BY <3>1, <3>3 DEF Settle
      <4>2. status' = status
        BY <4>1 DEF RequestInv, TypeOK
      <4> QED BY <2>1, <4>2
    <3>4. CASE reply.ok /\ reply.id \in pending
      <4>1. reply.id \in Reqs /\ status[reply.id] = "pending"
        BY <3>4 DEF RequestInv, TypeOK, PendingIsTimed
      <4>2. effect[reply.id] = "done"
        <5>1. client \in Sockets /\ up[client] # <<>>
          BY <1>6 DEF HandleResponse, RequestInv, TypeOK
        <5>2. reply = up[client][1] /\ 1 \in 1..Len(up[client])
          BY <5>1 DEF RequestInv, TypeOK
        <5> HIDE DEF reply
        <5> QED BY <3>4, <5>1, <5>2 DEF RequestInv, ResponseIsTrue
      <4>3. Settle({reply.id}, "success")
        BY <3>1, <3>4
      <4> HIDE DEF reply
      <4>4. status' = [status EXCEPT ![reply.id] = "success"]
        BY <4>1, <4>3 DEF Settle, RequestInv, TypeOK
      <4>5. Service!Succeed(reply.id)
        BY <2>1, <4>1, <4>2, <4>4 DEF Service!Succeed
      <4> QED BY <4>1, <4>5 DEF Service!Next
    <3> QED BY <3>2, <3>3, <3>4
  <2> QED BY <2>2, <2>3
<1>7. CASE BridgeReceives
  <2> DEFINE r == Head(down[ws])
  <2>1. /\ ws \in Sockets /\ r \in Reqs /\ r = down[ws][1] /\ 1 \in 1..Len(down[ws])
        /\ UNCHANGED status
        /\ effect' = [effect EXCEPT ![r] = "running"] \/ effect' = effect
    BY <1>7 DEF BridgeReceives, RequestInv, TypeOK, serverVars
  <2> HIDE DEF r
  <2>2. effect[r] = "none" /\ status[r] \notin Unsent
    BY <2>1 DEF RequestInv, InTransitIsNew, TakenUpWasSent
  <2>3. effect' = [effect EXCEPT ![r] = "running"] => Service!Begin(r)
    BY <2>1, <2>2 DEF Service!Begin, Unsent
  <2> QED BY <2>1, <2>3 DEF Service!Next
<1>8. ASSUME NEW r \in Reqs, ActionTimeout(r)
      PROVE  UNCHANGED <<status, effect>>
  BY <1>8 DEF ActionTimeout, serverVars
<1>9. ASSUME NEW r \in Reqs, NEW ok \in BOOLEAN, HandlerEnds(r, ok)
      PROVE  Service!Next
  <2>1. Service!Complete(r)
    BY <1>9 DEF HandlerEnds, serverVars, Service!Complete
  <2> QED BY <2>1 DEF Service!Next
<1>10. CASE UNCHANGED vars
  BY <1>10 DEF vars, serverVars, bridgeVars
<1> QED
  BY <1>1, <1>2, <1>3, <1>4, <1>5, <1>6, <1>7, <1>8, <1>9, <1>10 DEF Next

\* Whatever happens to the connections, what a tool sees of its requests, and
\* what the bridge does for them, is what RequestService promises.
THEOREM RequestsImplementService == Spec => ImplementsService
<1>1. Spec => Service!Init /\ [][Service!Next]_<<status, effect>>
  BY InitImplements, NextImplements, RequestInvHolds, PTL DEF Spec
<1> QED BY <1>1 DEF ImplementsService, Service!Spec, Service!svars
=============================================================================
