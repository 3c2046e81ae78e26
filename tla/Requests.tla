------------------------------- MODULE Requests -------------------------------
(***************************************************************************)
(* The life of a bridge request: WebSocketServer.sendRequest, its pending  *)
(* map, timeouts and audit entries (packages/server/src/websocket-         *)
(* server.ts), and WebSocketClient.handleRequest with its action timeout   *)
(* (packages/bridge/src/bridge/websocket-client.ts), over connections that *)
(* close, are replaced or are dropped by a pairing reset or a stop while   *)
(* requests are in flight.                                                 *)
(*                                                                         *)
(*   - How a connection becomes authenticated is module BridgeSession's    *)
(*     subject; here it is one step, AcceptBridge.                         *)
(*   - A request's id and operationId are both fresh: one identifier r.    *)
(*     The server sends each once, so the bridge's cache of responses is   *)
(*     never consulted, and the operationId it echoes always agrees.       *)
(*   - A socket stands for one connection: Sockets bounds their number.    *)
(*   - Delays are abstracted: a timeout fires at any time.                 *)
(***************************************************************************)
EXTENDS Naturals, Sequences, FiniteSets

CONSTANTS
    Reqs,           \* the requests tools make, one call of sendRequest each
    Denied,         \* those whose arguments, scope or capability are refused
    Unsendable,     \* those whose send may throw
    Sockets,        \* the connections of the bridge, each used once
    None,           \* no socket
    AuditMayFail    \* whether appending to audit.jsonl may fail

ASSUME RequestsAssumption ==
    /\ Denied \subseteq Reqs /\ Unsendable \subseteq Reqs
    /\ None \notin Sockets
    /\ AuditMayFail \in BOOLEAN

VARIABLES
    client,     \* server: this.client
    accepted,   \* server: this.clientAccepted
    srv,        \* server: readyState of each socket
    pending,    \* server: the keys of pendingRequests
    timers,     \* server: the requests whose timeout is armed
    status,     \* what sendRequest's promise has become, for each request
    audit,      \* the outcomes audit.jsonl holds for each request
    sentOn,     \* history: the socket each request was sent on
    down, up,   \* requests and responses in transit on each socket
    ws,         \* bridge: this.ws, None when it is not open
    handling,   \* bridge: the state of handleRequest for each request
    from,       \* bridge: requestSocket of each handleRequest
    effect      \* bridge: how far the action handler has got

serverVars == <<client, accepted, srv, pending, timers, status, audit, sentOn>>
bridgeVars == <<ws, handling, from, effect>>
vars == <<serverVars, bridgeVars, down, up>>

Failures == {"error", "timeout", "transport_error"}
Outcomes == Failures \cup {"success"}
Statuses == {"idle", "refused", "pending"} \cup Outcomes
Effects  == {"none", "running", "done"}
Replies  == [id : Reqs, ok : BOOLEAN]

TypeOK ==
    /\ client \in Sockets \cup {None}
    /\ accepted \in BOOLEAN
    /\ srv \in [Sockets -> {"none", "open", "closing", "closed"}]
    /\ pending \in SUBSET Reqs
    /\ timers \in SUBSET Reqs
    /\ status \in [Reqs -> Statuses]
    /\ audit \in [Reqs -> Seq(Outcomes)]
    /\ sentOn \in [Reqs -> Sockets \cup {None}]
    /\ down \in [Sockets -> Seq(Reqs)]
    /\ up \in [Sockets -> Seq(Replies)]
    /\ ws \in Sockets \cup {None}
    /\ handling \in [Reqs -> {"none", "racing", "answered"}]
    /\ from \in [Reqs -> Sockets \cup {None}]
    /\ effect \in [Reqs -> Effects]

Init ==
    /\ client = None /\ accepted = FALSE
    /\ srv = [s \in Sockets |-> "none"]
    /\ pending = {} /\ timers = {}
    /\ status = [r \in Reqs |-> "idle"]
    /\ audit = [r \in Reqs |-> <<>>]
    /\ sentOn = [r \in Reqs |-> None]
    /\ down = [s \in Sockets |-> <<>>] /\ up = [s \in Sockets |-> <<>>]
    /\ ws = None
    /\ handling = [r \in Reqs |-> "none"]
    /\ from = [r \in Reqs |-> None]
    /\ effect = [r \in Reqs |-> "none"]

-----------------------------------------------------------------------------
(* Helpers of the server *)

ClientIsOpen == client # None /\ srv[client] = "open"

IsConnected == ClientIsOpen /\ accepted

\* appendAudit for every request of R: a failure to write is swallowed.
AppendAudit(R, outcome) ==
    \E W \in SUBSET R :
       /\ W = R \/ AuditMayFail
       /\ audit' = [r \in Reqs |-> IF r \in W THEN Append(audit[r], outcome)
                                             ELSE audit[r]]

\* The promises of R that are still pending are settled; a promise settles once.
Settle(R, outcome) ==
    status' = [r \in Reqs |-> IF r \in R /\ status[r] = "pending"
                              THEN outcome ELSE status[r]]

\* A request leaves the pending map, its timeout cleared.
Forget(R) == pending' = pending \ R /\ timers' = timers \ R

-----------------------------------------------------------------------------
(* Connections *)

\* handleConnection takes the socket when the present client is not open.
\* Messages of the replaced client are ignored from now on.
HandleConnection(s) ==
    /\ srv[s] = "none" /\ ws = None
    /\ ~ClientIsOpen
    /\ srv' = [srv EXCEPT ![s] = "open"]
    /\ client' = s /\ accepted' = FALSE
    /\ ws' = s
    /\ UNCHANGED <<pending, timers, status, audit, sentOn, down, up,
                   handling, from, effect>>

AcceptBridge ==
    /\ ClientIsOpen /\ ~accepted
    /\ accepted' = TRUE
    /\ UNCHANGED <<client, srv, pending, timers, status, audit, sentOn, down, up,
                   bridgeVars>>

\* The bridge closes its socket, or finds it broken.
BridgeDisconnects ==
    /\ ws # None
    /\ ws' = None
    /\ down' = [down EXCEPT ![ws] = <<>>]
    /\ UNCHANGED <<serverVars, up, handling, from, effect>>

\* The close frame of either side: the socket is CLOSING at the server.
StartsClosing(s) ==
    /\ srv[s] = "open"
    /\ srv' = [srv EXCEPT ![s] = "closing"]
    /\ UNCHANGED <<client, accepted, pending, timers, status, audit, sentOn, down, up,
                   bridgeVars>>

\* The 'close' event.  Only the present client's ends the pending requests.
HandleClose(s) ==
    /\ srv[s] \in {"open", "closing"} /\ ws # s
    /\ srv' = [srv EXCEPT ![s] = "closed"]
    /\ down' = [down EXCEPT ![s] = <<>>] /\ up' = [up EXCEPT ![s] = <<>>]
    /\ IF s = client
       THEN /\ client' = None /\ accepted' = FALSE
            /\ Settle(pending, "error") /\ AppendAudit(pending, "error")
            /\ Forget(pending)
       ELSE UNCHANGED <<client, accepted, status, audit, pending, timers>>
    /\ UNCHANGED <<sentOn, bridgeVars>>

\* resetPairing() and stop() close the client and forget it at once, so that
\* its 'close' event finds another client.
DropClient ==
    /\ client # None
    /\ srv' = IF srv[client] = "open" THEN [srv EXCEPT ![client] = "closing"] ELSE srv
    /\ client' = None /\ accepted' = FALSE
    /\ UNCHANGED <<pending, timers, status, audit, sentOn, down, up, bridgeVars>>

-----------------------------------------------------------------------------
(* sendRequest *)

Refuse(r) ==
    /\ status[r] = "idle"
    /\ ~IsConnected \/ r \in Denied
    /\ status' = [status EXCEPT ![r] = "refused"]
    /\ UNCHANGED <<client, accepted, srv, pending, timers, audit, sentOn, down, up,
                   bridgeVars>>

\* Faulty variant: no timeout is armed.
SendUntimed(r) ==
    /\ status[r] = "idle"
    /\ IsConnected /\ r \notin Denied
    /\ pending' = pending \cup {r}
    /\ status' = [status EXCEPT ![r] = "pending"]
    /\ sentOn' = [sentOn EXCEPT ![r] = client]
    /\ down' = IF ws = client THEN [down EXCEPT ![client] = Append(@, r)] ELSE down
    /\ UNCHANGED <<client, accepted, srv, timers, audit, up, bridgeVars>>

Send(r) ==
    /\ status[r] = "idle"
    /\ IsConnected /\ r \notin Denied
    /\ pending' = pending \cup {r} /\ timers' = timers \cup {r}
    /\ status' = [status EXCEPT ![r] = "pending"]
    /\ sentOn' = [sentOn EXCEPT ![r] = client]
    \* a bridge that is gone receives nothing
    /\ down' = IF ws = client THEN [down EXCEPT ![client] = Append(@, r)] ELSE down
    /\ UNCHANGED <<client, accepted, srv, audit, up, bridgeVars>>

\* The send throws: the entry just made is taken back.
SendFails(r) ==
    /\ status[r] = "idle"
    /\ IsConnected /\ r \notin Denied /\ r \in Unsendable
    /\ status' = [status EXCEPT ![r] = "transport_error"]
    /\ AppendAudit({r}, "transport_error")
    /\ UNCHANGED <<client, accepted, srv, pending, timers, sentOn, down, up, bridgeVars>>

\* Faulty variant: the request stays pending when it times out.
TimeoutKeepsPending(r) ==
    /\ r \in timers
    /\ timers' = timers \ {r}
    /\ AppendAudit({r}, "timeout")
    /\ Settle({r}, "timeout")
    /\ UNCHANGED <<client, accepted, srv, pending, sentOn, down, up, bridgeVars>>

RequestTimeout(r) ==
    /\ r \in timers
    /\ Forget({r})
    /\ AppendAudit({r}, "timeout")
    /\ Settle({r}, "timeout")
    /\ UNCHANGED <<client, accepted, srv, sentOn, down, up, bridgeVars>>

\* handleMessage ignores a socket that is not the client.
IgnoreResponse(s) ==
    /\ up[s] # <<>> /\ s # client
    /\ up' = [up EXCEPT ![s] = Tail(@)]
    /\ UNCHANGED <<serverVars, down, bridgeVars>>

\* handleResponse: before authentication it costs the connection (this bridge
\* sends none then), an unknown id changes nothing, a pending one is settled.
HandleResponse ==
    /\ client # None /\ up[client] # <<>>
    /\ up' = [up EXCEPT ![client] = Tail(@)]
    /\ LET reply   == Head(up[client])
           outcome == IF reply.ok THEN "success" ELSE "error"
           found   == {reply.id} \cap pending
       IN IF accepted
          THEN /\ Forget(found)
               /\ Settle(found, outcome) /\ AppendAudit(found, outcome)
               /\ UNCHANGED srv
          ELSE /\ srv' = [srv EXCEPT ![client] = IF @ = "open" THEN "closing" ELSE @]
               /\ UNCHANGED <<pending, timers, status, audit>>
    /\ UNCHANGED <<client, accepted, sentOn, down, bridgeVars>>

-----------------------------------------------------------------------------
(* handleRequest in the bridge *)

\* Faulty variants: a response without its outcome, and one that leaves on
\* whatever socket is open.
ReplyWithoutOutcome(r, ok) ==
    up' = IF from[r] = ws /\ ws # None
          THEN [up EXCEPT ![ws] = Append(@, [id |-> r])] ELSE up
ReplyAnywhere(r, ok) ==
    up' = IF ws # None
          THEN [up EXCEPT ![ws] = Append(@, [id |-> r, ok |-> ok])] ELSE up

\* The response leaves only on the socket the request came on, if that is
\* still the open one.
Reply(r, ok) ==
    up' = IF from[r] = ws /\ ws # None
          THEN [up EXCEPT ![ws] = Append(@, [id |-> r, ok |-> ok])] ELSE up

\* Faulty variant: the request is answered before its handler has run.
ReceivesAndAnswers ==
    /\ ws # None /\ down[ws] # <<>>
    /\ LET r == Head(down[ws])
       IN /\ down' = [down EXCEPT ![ws] = Tail(@)]
          /\ from' = [from EXCEPT ![r] = ws]
          /\ handling' = [handling EXCEPT ![r] = "answered"]
          /\ effect' = [effect EXCEPT ![r] = "running"]
          /\ up' = [up EXCEPT ![ws] = Append(@, [id |-> r, ok |-> TRUE])]
    /\ UNCHANGED <<serverVars, ws>>

BridgeReceives ==
    /\ ws # None /\ down[ws] # <<>>
    /\ LET r == Head(down[ws])
       IN /\ down' = [down EXCEPT ![ws] = Tail(@)]
          /\ from' = [from EXCEPT ![r] = ws]
          /\ \/ /\ handling' = [handling EXCEPT ![r] = "racing"]
                /\ effect' = [effect EXCEPT ![r] = "running"]
                /\ UNCHANGED up
             \* not authenticated, not granted, unavailable: answered at once
             \/ /\ handling' = [handling EXCEPT ![r] = "answered"]
                /\ up' = [up EXCEPT ![ws] = Append(@, [id |-> r, ok |-> FALSE])]
                /\ UNCHANGED effect
    /\ UNCHANGED <<serverVars, ws>>

\* The action handler returns or throws; if the race is over, nobody listens.
HandlerEnds(r, ok) ==
    /\ effect[r] = "running"
    /\ effect' = [effect EXCEPT ![r] = "done"]
    /\ IF handling[r] = "racing"
       THEN /\ handling' = [handling EXCEPT ![r] = "answered"]
            /\ Reply(r, ok)
       ELSE UNCHANGED <<handling, up>>
    /\ UNCHANGED <<serverVars, ws, from, down>>

\* The bridge's own timeout answers for a handler that goes on running.
ActionTimeout(r) ==
    /\ handling[r] = "racing"
    /\ handling' = [handling EXCEPT ![r] = "answered"]
    /\ Reply(r, FALSE)
    /\ UNCHANGED <<serverVars, ws, from, effect, down>>

-----------------------------------------------------------------------------
Next ==
    \/ \E s \in Sockets : HandleConnection(s) \/ StartsClosing(s)
                            \/ HandleClose(s) \/ IgnoreResponse(s)
    \/ AcceptBridge \/ BridgeDisconnects \/ DropClient
    \/ \E r \in Reqs : Refuse(r) \/ Send(r) \/ SendFails(r) \/ RequestTimeout(r)
    \/ HandleResponse
    \/ BridgeReceives
    \/ \E r \in Reqs : ActionTimeout(r) \/ \E ok \in BOOLEAN : HandlerEnds(r, ok)

Spec == Init /\ [][Next]_vars

(***************************************************************************)
(* The timeout of a pending request fires in the end.  Nothing else is     *)
(* assumed: no connection need close, be answered on or be made, and no    *)
(* handler of the bridge need end.                                         *)
(***************************************************************************)
Fairness == \A r \in Reqs : WF_vars(RequestTimeout(r))

FairSpec == Spec /\ Fairness

-----------------------------------------------------------------------------
(* Properties *)

\* Every pending request has its timeout armed and nothing but pending
\* requests has one: what sendRequest waits for can always still end.
PendingIsTimed ==
    /\ pending = timers
    /\ \A r \in Reqs : r \in pending <=> status[r] = "pending"

\* A settled request has its outcome in the audit log, once, and no other
\* request has an entry; an append that fails leaves none.
AuditedOnce ==
    \A r \in Reqs :
       \/ status[r] \in Outcomes /\ audit[r] = <<status[r]>>
       \/ audit[r] = <<>> /\ (status[r] \in Outcomes => AuditMayFail)

\* A tool is told of success only when the bridge's handler has ended.
SuccessIsDone == \A r \in Reqs : status[r] = "success" => effect[r] = "done"

\* A request succeeds only through the connection it was sent on, even where
\* it outlives that connection in the pending map.
AnsweredOnOwnConnection ==
    [][\A r \in Reqs : status[r] = "pending" /\ status'[r] = "success"
                          => client = sentOn[r]]_vars

\* Every request that is sent is settled in the end.
EverySentIsSettled == \A r \in Reqs : status[r] = "pending" ~> status[r] \in Outcomes

(***************************************************************************)
(* The inductive invariant behind these properties: what a request in      *)
(* transit, in the bridge's hands or answered implies.                     *)
(***************************************************************************)
Unsent == {"idle", "refused", "transport_error"}

\* A request in transit is one the server sent on that very connection, the
\* bridge has not seen it, and it is there once.
InTransitIsNew ==
    \A s \in Sockets :
       /\ \A i \in 1..Len(down[s]) :
             /\ sentOn[down[s][i]] = s /\ status[down[s][i]] \notin Unsent
             /\ handling[down[s][i]] = "none"
       /\ \A i, j \in 1..Len(down[s]) : down[s][i] = down[s][j] => i = j

\* What the bridge has taken up was sent, on the socket it notes, and its
\* effect has started where the race of handler and timeout has.
TakenUpWasSent ==
    \A r \in Reqs :
       /\ handling[r] # "none" => from[r] = sentOn[r] /\ status[r] \notin Unsent
       /\ handling[r] = "none" => effect[r] = "none"
       /\ handling[r] = "racing" => effect[r] = "running"

\* A response in transit is on its request's connection, and a success was
\* earned.
ResponseIsTrue ==
    \A s \in Sockets : \A i \in 1..Len(up[s]) :
       /\ sentOn[up[s][i].id] = s /\ handling[up[s][i].id] = "answered"
       /\ up[s][i].ok => effect[up[s][i].id] = "done"

\* What holds of every request between its sending and its settling: together
\* these survive every step of the server, the bridge and the connections.
RequestInv ==
    /\ TypeOK
    /\ PendingIsTimed
    /\ AuditedOnce
    /\ InTransitIsNew
    /\ TakenUpWasSent
    /\ ResponseIsTrue
    /\ SuccessIsDone

Service == INSTANCE RequestService WITH
    Reqs <- Reqs, status <- status, effect <- effect

\* Requests keeps the promises of the abstract service.
ImplementsService == Service!Spec
=============================================================================
