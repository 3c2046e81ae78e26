----------------------------- MODULE BridgeClient -----------------------------
(***************************************************************************)
(* The RemNote plugin's end of the bridge: class WebSocketClient           *)
(* (packages/bridge/src/bridge/websocket-client.ts) as BridgeRuntime-      *)
(* Controller (runtime.ts) drives it, one for every installation.          *)
(*                                                                         *)
(* The event handlers of a socket are closures that never ask whether the  *)
(* socket is still this.ws: what they do to the client, a socket that has  *)
(* been replaced does too.  Handlers that await (createProof, the storage  *)
(* of the pairing secret) are cut in two steps there, and anything may     *)
(* happen in between.                                                      *)
(*                                                                         *)
(*   - this.ws is None once its socket is closed: every use of a closed    *)
(*     WebSocket in the code does what it does with null.                  *)
(*   - Delays are abstracted: a retry timer fires at any time.  Attempts,  *)
(*     back-off and the retry phase are not part of this module.           *)
(*   - The server's URL is one the WebSocket constructor accepts.          *)
(***************************************************************************)
EXTENDS BridgeServer, Naturals

CONSTANTS
    MaxTimers,      \* bound: live retry timers of a bridge
    MaxUnsent       \* bound: messages in flight when the user submits a code

ASSUME ClientAssumption == MaxTimers \in Nat \ {0} /\ MaxUnsent \in Nat \ {0}

VARIABLES
    cl,     \* per bridge, the fields of WebSocketClient
    proofs, \* per bridge, the proofs createProof is still computing
    writes, \* per bridge, the pairing secrets still to be stored, in order
    stored  \* per bridge, the pairing secret in RemNote's local storage

clientVars == <<cl, proofs, writes, stored>>

RuntimeStates == {"new", "running", "down"}
Statuses     == {"disconnected", "connecting", "connected"}
AuthStatuses == {"disconnected", "authenticating", "pairing-required",
                 "authenticated", "rejected"}
MaybeSecret  == Secrets \cup {None}

ClientTypeOK ==
    /\ cl \in [Bridges -> [runtime : RuntimeStates, ws : Sockets \cup {None}, status : Statuses,
                           auth : AuthStatuses, granted : BOOLEAN,
                           pairingId : PairingIds \cup {None}, secret : MaybeSecret,
                           shutting : BOOLEAN, live : 0..MaxTimers, tracked : BOOLEAN]]
    /\ proofs \in [Bridges -> SUBSET Proofs]
    /\ writes \in [Bridges -> Seq([secret : MaybeSecret, rejects : BOOLEAN])]
    /\ stored \in [Bridges -> MaybeSecret]

\* A new client, with the secret found in storage.
NewClient(k) ==
    [runtime |-> "new", ws |-> None, status |-> "disconnected", auth |-> "disconnected",
     granted |-> FALSE, pairingId |-> None, secret |-> k,
     shutting |-> FALSE, live |-> 0, tracked |-> FALSE]

ClientInit ==
    /\ cl = [b \in Bridges |-> NewClient(None)]
    /\ proofs = [b \in Bridges |-> {}]
    /\ writes = [b \in Bridges |-> <<>>]
    /\ stored = [b \in Bridges |-> None]

-----------------------------------------------------------------------------
(* Helpers.  `live' counts the retry timers that will fire; `tracked' says *)
(* whether this.reconnectTimeout still holds the latest.  scheduleReconnect*)
(* overwrites the handle without clearing the timer, and any firing sets   *)
(* it to null.                                                             *)

\* Faulty variants: cancelling with no timer to cancel, and not at all.
CanceledUntracked(c) == [c EXCEPT !.live = @ - 1, !.tracked = FALSE]
NotCanceled(c)       == c

Canceled(c) ==
    IF c.tracked THEN [c EXCEPT !.live = @ - 1, !.tracked = FALSE] ELSE c

\* Faulty variant: a closed socket is not dialled again.
NotScheduled(c) == c

Scheduled(c) ==
    IF c.shutting THEN c
    ELSE [c EXCEPT !.live = IF @ < MaxTimers THEN @ + 1 ELSE @, !.tracked = TRUE]

Offline(c) == [c EXCEPT !.auth = "disconnected", !.status = "disconnected"]

Dialing(c, s) ==
    [c EXCEPT !.ws = s, !.shutting = FALSE, !.status = "connecting",
              !.auth = "authenticating"]

Disconnected(c) == Offline([Canceled(c) EXCEPT !.shutting = TRUE, !.ws = None])

IsLive(s) == s # None /\ net[s].cli \in {"connecting", "open"}

NetAfterDisconnect(b) ==
    IF cl[b].ws = None THEN net ELSE [net EXCEPT ![cl[b].ws] = CliClose(@)]

\* Nothing refers to the identifier of a socket that is dialled.
InTransit == UNION {{net[s].up[i] : i \in 1..Len(net[s].up)} : s \in Sockets}

FreeSocket(s) ==
    /\ net[s] = Unused
    /\ \A b \in Bridges : \A p \in proofs[b] : p.nonce # s
    /\ \A m \in InTransit : m.type = "client_hello" /\ m.proof # None
                               => m.proof.nonce # s

\* connect(), from client state c and connections n, when the client's
\* socket is not live in them
Connect(b, c, n) ==
    \E s \in Sockets :
       /\ FreeSocket(s)
       /\ cl' = [cl EXCEPT ![b] = Dialing(c, s)]
       /\ net' = [n EXCEPT ![s] = Dial(b)]

\* this.ws?.send(m): dropped unless the socket is open
SendOn(n, b, m) ==
    IF cl[b].ws = None THEN n ELSE [n EXCEPT ![cl[b].ws] = CliSend(@, m)]

Hello(b, proof) == [type |-> "client_hello", inst |-> b, proof |-> proof]

-----------------------------------------------------------------------------
(* What calls connect() and disconnect() *)

Running(b) == cl[b].runtime = "running"

\* The runtime starts and connects, once.
Start(b) ==
    /\ cl[b].runtime = "new"
    /\ Connect(b, [cl[b] EXCEPT !.runtime = "running"], net)
    /\ UNCHANGED <<proofs, writes, stored>>

\* reconnect(): disconnect() and connect() in one go
Reconnect(b) ==
    /\ Running(b)
    /\ Connect(b, Disconnected(cl[b]), NetAfterDisconnect(b))
    /\ UNCHANGED <<proofs, writes, stored>>

\* nudgeReconnect and wakeReconnect differ in the retry phase only.
NudgeReconnect(b) ==
    /\ Running(b) /\ ~cl[b].shutting /\ cl[b].status = "disconnected"
    /\ IF IsLive(cl[b].ws)
       THEN cl' = [cl EXCEPT ![b] = Canceled(@)] /\ UNCHANGED net
       ELSE Connect(b, Canceled(cl[b]), net)
    /\ UNCHANGED <<proofs, writes, stored>>

\* The callback of a retry timer, tracked or not.
RetryTimerFires(b) ==
    LET c == [cl[b] EXCEPT !.live = @ - 1, !.tracked = FALSE]
    IN /\ cl[b].live > 0
       /\ IF IsLive(cl[b].ws)
          THEN cl' = [cl EXCEPT ![b] = c] /\ UNCHANGED net
          ELSE Connect(b, c, net)
       /\ UNCHANGED <<proofs, writes, stored>>

\* The runtime shuts down, its listeners and commands with it.
Shutdown(b) ==
    /\ Running(b)
    /\ cl' = [cl EXCEPT ![b] = [Disconnected(@) EXCEPT !.runtime = "down"]]
    /\ net' = NetAfterDisconnect(b)
    /\ UNCHANGED <<proofs, writes, stored>>

\* RemNote reloads the plugin, which finds in storage what was written.
Reload(b) ==
    /\ cl' = [cl EXCEPT ![b] = NewClient(stored[b])]
    /\ proofs' = [proofs EXCEPT ![b] = {}]
    /\ writes' = [writes EXCEPT ![b] = <<>>]
    /\ net' = [s \in Sockets |->
                 IF net[s].owner = b /\ net[s].cli # "closed"
                 THEN CliEnded(Broken(net[s])) ELSE net[s]]
    /\ UNCHANGED stored

-----------------------------------------------------------------------------
(* The events of a socket s of bridge b *)

OnOpen(b, s) ==
    /\ net[s].owner = b /\ net[s].cli = "connecting" /\ net[s].srv # "none"
    /\ ~net[s].lost
    /\ net' = [net EXCEPT ![s].cli = "open"]
    /\ UNCHANGED clientVars

OnClose(b, s) ==
    LET c == Offline([cl[b] EXCEPT !.ws = IF @ = s THEN None ELSE @,
                                   !.pairingId = None, !.granted = FALSE])
    IN /\ net[s].owner = b /\ CliCloseEvent(s)
       /\ net' = [net EXCEPT ![s] = CliEnded(@)]
       /\ cl' = [cl EXCEPT ![b] = Scheduled(c)]
       /\ UNCHANGED <<proofs, writes, stored>>

Receives(b, s, type) ==
    net[s].owner = b /\ DataDown(s) /\ Head(net[s].down).type = type

Takes(s) == [net EXCEPT ![s] = TakenDown(s)]

\* With a secret, the proof is computed in the background; without one the
\* hello leaves at once.
HandleServerChallenge(b, s) ==
    /\ Receives(b, s, "server_challenge")
    /\ LET nonce == Head(net[s].down).nonce
       IN IF cl[b].secret = None
          THEN /\ net' = SendOn(Takes(s), b, Hello(b, None))
               /\ UNCHANGED proofs
          ELSE /\ net' = Takes(s)
               /\ proofs' = [proofs EXCEPT ![b] =
                               @ \cup {[secret |-> cl[b].secret, nonce |-> nonce]}]
    /\ UNCHANGED <<cl, writes, stored>>

\* The rest of handleServerChallenge: whatever this.ws is by now gets it.
ProofReady(b, p) ==
    /\ p \in proofs[b]
    /\ proofs' = [proofs EXCEPT ![b] = @ \ {p}]
    /\ net' = SendOn(net, b, Hello(b, p))
    /\ UNCHANGED <<cl, writes, stored>>

HandlePairingRequired(b, s) ==
    /\ Receives(b, s, "pairing_required")
    /\ cl' = [cl EXCEPT ![b].pairingId = Head(net[s].down).id,
                        ![b].auth = "pairing-required"]
    /\ net' = Takes(s)
    /\ UNCHANGED <<proofs, writes, stored>>

HandlePairingComplete(b, s) ==
    /\ Receives(b, s, "pairing_complete")
    /\ LET k == Head(net[s].down).secret
       IN /\ cl' = [cl EXCEPT ![b].secret = k, ![b].granted = TRUE]
          /\ writes' = [writes EXCEPT ![b] = Append(@, [secret |-> k, rejects |-> FALSE])]
    /\ net' = Takes(s)
    /\ UNCHANGED <<proofs, stored>>

HandleAuthAccepted(b, s) ==
    /\ Receives(b, s, "auth_accepted")
    /\ cl' = [cl EXCEPT ![b].pairingId = None, ![b].granted = TRUE,
                        ![b].auth = "authenticated", ![b].status = "connected"]
    /\ net' = Takes(s)
    /\ UNCHANGED <<proofs, writes, stored>>

\* A rejection that resets the pairing is shown once the removal is stored.
HandleAuthRejected(b, s) ==
    /\ Receives(b, s, "auth_rejected")
    /\ IF Head(net[s].down).reset
       THEN /\ cl' = [cl EXCEPT ![b].secret = None]
            /\ writes' = [writes EXCEPT ![b] = Append(@, [secret |-> None, rejects |-> TRUE])]
       ELSE /\ cl' = [cl EXCEPT ![b].auth = "rejected"]
            /\ UNCHANGED writes
    /\ net' = Takes(s)
    /\ UNCHANGED <<proofs, stored>>

\* onPairingSecretChange has written; the handler that awaited it goes on.
SecretStored(b) ==
    /\ writes[b] # <<>>
    /\ stored' = [stored EXCEPT ![b] = Head(writes[b]).secret]
    /\ writes' = [writes EXCEPT ![b] = Tail(@)]
    /\ cl' = IF Head(writes[b]).rejects THEN [cl EXCEPT ![b].auth = "rejected"] ELSE cl
    /\ UNCHANGED <<net, proofs>>

\* The user submits the code of challenge `code', or mistypes it.
ConfirmPairing(b, code) ==
    /\ Running(b) /\ cl[b].pairingId # None
    /\ cl[b].ws # None /\ CliOpen(cl[b].ws)
    /\ Len(net[cl[b].ws].up) < MaxUnsent
    /\ net' = SendOn(net, b, [type |-> "pairing_confirm", inst |-> b,
                              id |-> cl[b].pairingId, code |-> code])
    /\ cl' = [cl EXCEPT ![b].auth = "authenticating"]
    /\ UNCHANGED <<proofs, writes, stored>>

HandleServerMessage(b, s) ==
    \/ HandleServerChallenge(b, s)
    \/ HandlePairingRequired(b, s)
    \/ HandlePairingComplete(b, s)
    \/ HandleAuthAccepted(b, s)
    \/ HandleAuthRejected(b, s)
=============================================================================
