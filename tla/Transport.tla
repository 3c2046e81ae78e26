------------------------------ MODULE Transport ------------------------------
(***************************************************************************)
(* The WebSocket connections between RemNote bridges and the companion     *)
(* server: the browser's WebSocket on the bridge's side, the `ws' library  *)
(* on the server's.  Neither is part of the repository; what is modelled   *)
(* here is what its code relies on:                                        *)
(*                                                                         *)
(*   - each connection is two first-in first-out channels;                 *)
(*   - close() sends a close frame behind the data already sent, the peer  *)
(*     answers it with its own, and only later does each side get its      *)
(*     'close' event: readyState is CLOSING in between, and nothing sent   *)
(*     in that state leaves;                                               *)
(*   - a browser drops data that arrives while it is CLOSING, `ws' hands   *)
(*     it to the message handler all the same;                             *)
(*   - a connection that breaks loses what is in flight, and each side     *)
(*     gets its 'close' event when it notices.                             *)
(*                                                                         *)
(* A socket identifier is used again once both sides have closed it and    *)
(* nothing refers to it any more, so the number of connections is not      *)
(* bounded, only the number of simultaneous ones.                          *)
(***************************************************************************)
EXTENDS Sequences, FiniteSets

CONSTANTS
    Sockets,    \* identifiers of simultaneous connections
    Bridges,    \* RemNote installations that run the bridge plugin
    None        \* "no socket, no bridge, no value"

ASSUME NoneAssumption == None \notin Sockets \cup Bridges

VARIABLE net    \* the connections, one record per socket

CliStates == {"none", "connecting", "open", "closing", "ending", "closed"}
SrvStates == {"none", "open", "closing", "ending", "closed"}

CloseFrame == [type |-> "close"]

Unused == [owner |-> None, cli |-> "none", srv |-> "none",
           up |-> <<>>, down |-> <<>>, lost |-> FALSE]

(***************************************************************************)
(* "closing" has sent its close frame and waits for the peer's; "ending"   *)
(* has seen both and waits for the 'close' event.  readyState is CLOSING   *)
(* in both.                                                                *)
(***************************************************************************)
CliOpen(s) == net[s].cli = "open"
SrvOpen(s) == net[s].srv = "open"

Gone(c) == c.cli = "closed" /\ c.srv \in {"none", "closed"}

-----------------------------------------------------------------------------
(* What each side does to a connection record. *)

CliSend(c, m) ==
    IF c.cli = "open" /\ ~c.lost THEN [c EXCEPT !.up = Append(@, m)] ELSE c

\* Data sent to a browser that is no longer open is dropped there.
SrvSend(c, m) ==
    IF c.srv = "open" /\ ~c.lost /\ c.cli \in {"connecting", "open"}
    THEN [c EXCEPT !.down = Append(@, m)] ELSE c

IsClose(m) == m.type = "close"

\* The close frame is the last frame of its side.
OnlyClose(q) ==
    IF \E i \in DOMAIN q : IsClose(q[i]) THEN <<CloseFrame>> ELSE <<>>

\* Closing a socket that is still connecting fails the connection.
CliClose(c) ==
    CASE c.cli = "open" ->
            [c EXCEPT !.cli = "closing", !.down = OnlyClose(@),
                      !.up = IF c.lost THEN @ ELSE Append(@, CloseFrame)]
      [] c.cli = "connecting" ->
            [c EXCEPT !.cli = "closing", !.lost = TRUE, !.up = <<>>, !.down = <<>>]
      [] OTHER -> c

SrvClose(c) ==
    IF c.srv = "open"
    THEN [c EXCEPT !.srv = "closing",
                   !.down = IF c.lost THEN @ ELSE Append(@, CloseFrame)]
    ELSE c

Dial(b)   == [Unused EXCEPT !.owner = b, !.cli = "connecting"]
Broken(c) == [c EXCEPT !.lost = TRUE, !.up = <<>>, !.down = <<>>]

\* A side that has seen its 'close' event; the socket is forgotten when the
\* other side has seen its own (or never knew of it).
CliEnded(c) == LET d == [c EXCEPT !.cli = "closed", !.down = <<>>]
               IN IF Gone(d) THEN Unused ELSE d
SrvEnded(c) == LET d == [c EXCEPT !.srv = "closed", !.up = <<>>]
               IN IF Gone(d) THEN Unused ELSE d

-----------------------------------------------------------------------------
(* When the events of each side happen. *)

DataUp(s)   == net[s].srv \in {"open", "closing"} /\ net[s].up # <<>>
                 /\ ~IsClose(Head(net[s].up))
DataDown(s) == net[s].cli = "open" /\ net[s].down # <<>>
                 /\ ~IsClose(Head(net[s].down))

TakenUp(s)   == [net[s] EXCEPT !.up = Tail(@)]
TakenDown(s) == [net[s] EXCEPT !.down = Tail(@)]

CliCloseEvent(s) ==
    \/ net[s].cli = "ending"
    \/ net[s].cli \in {"connecting", "open", "closing"} /\ net[s].lost

SrvCloseEvent(s) ==
    \/ net[s].srv = "ending"
    \/ net[s].srv \in {"open", "closing"} /\ net[s].lost

\* The close frame reaches the browser, which answers it and is CLOSING.
CliReceivesClose(s) ==
    /\ net[s].cli \in {"open", "closing"} /\ net[s].down # <<>>
    /\ IsClose(Head(net[s].down))
    /\ net' = [net EXCEPT ![s] = [CliClose(@) EXCEPT !.cli = "ending", !.down = <<>>]]

\* The close frame reaches the server, which answers it and is CLOSING.
SrvReceivesClose(s) ==
    /\ net[s].srv \in {"open", "closing"} /\ net[s].up # <<>>
    /\ IsClose(Head(net[s].up))
    /\ net' = [net EXCEPT ![s] = [SrvClose(@) EXCEPT !.srv = "ending", !.up = <<>>]]

\* The connection is refused, or breaks.
Breaks(s) ==
    /\ net[s].cli \in {"connecting", "open", "closing"}
    /\ net[s].srv \in {"none", "open", "closing"}
    /\ ~net[s].lost
    /\ net' = [net EXCEPT ![s] = Broken(@)]

TransportEvent(s) == CliReceivesClose(s) \/ SrvReceivesClose(s)

NetTypeOK(UpMessages, DownMessages) ==
    net \in [Sockets -> [owner : Bridges \cup {None}, cli : CliStates, srv : SrvStates,
                         up : Seq(UpMessages), down : Seq(DownMessages),
                         lost : BOOLEAN]]
=============================================================================
