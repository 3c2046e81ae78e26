----------------------------- MODULE BridgeServer -----------------------------
(***************************************************************************)
(* The companion server's end of the bridge: the connection handling of    *)
(* class WebSocketServer (packages/server/src/websocket-server.ts) and the *)
(* pairing state of class AuthStore (packages/server/src/auth-store.ts).   *)
(* Requests are the subject of module Requests.                            *)
(*                                                                         *)
(*   - The nonce of a server_challenge is fresh for every connection, so   *)
(*     it is represented by the socket: this.serverNonce is sv.client.     *)
(*   - A proof is the HMAC of the nonce under the pairing secret: the      *)
(*     record [secret, nonce], which only a holder of the secret builds.   *)
(*   - completePairing grants every capability scope, so scopes are        *)
(*     granted or not: sv.granted.                                         *)
(*   - The identifiers \E picks here (secrets, pairing ids) are random in   *)
(*     the code; module BridgeSession requires them to be fresh.           *)
(*   - companion_info, ping and pong change no state modelled here.        *)
(***************************************************************************)
EXTENDS Transport

CONSTANTS
    Secrets,            \* pairing secrets
    PairingIds,         \* pairing challenges, each with its six-digit code
    WrongCode,          \* a mistyped code, the code of no challenge
    CompatibleBridges,  \* bridges whose version matches the server's
    PersistFailures     \* the operations whose write of auth.json may fail

Pairings == [inst : Bridges, secret : Secrets]
Proofs   == [secret : Secrets, nonce : Sockets]

ASSUME ServerAssumption ==
    /\ None \notin Secrets \cup PairingIds \cup Pairings \cup Proofs
    /\ WrongCode \notin PairingIds
    /\ CompatibleBridges \subseteq Bridges
    /\ PersistFailures \subseteq {"pairing", "reset"}

VARIABLES
    sv,     \* the fields of WebSocketServer
    store   \* the AuthStore: pairing and challenge in memory, pairing on disk

serverVars == <<sv, store>>

Challenges == [id : PairingIds, inst : Bridges, expired : BOOLEAN]

HelloMessages   == [type : {"client_hello"}, inst : Bridges,
                    proof : Proofs \cup {None}]
ConfirmMessages == [type : {"pairing_confirm"}, inst : Bridges, id : PairingIds,
                    code : PairingIds \cup {WrongCode}]
UpMessages      == HelloMessages \cup ConfirmMessages \cup {CloseFrame}

ServerChallenge(s)  == [type |-> "server_challenge", nonce |-> s]
PairingRequired(id) == [type |-> "pairing_required", id |-> id]
PairingComplete(k)  == [type |-> "pairing_complete", secret |-> k]
AuthAccepted        == [type |-> "auth_accepted"]
AuthRejected(reset) == [type |-> "auth_rejected", reset |-> reset]

DownMessages == {ServerChallenge(s) : s \in Sockets}
                  \cup {PairingRequired(id) : id \in PairingIds}
                  \cup {PairingComplete(k) : k \in Secrets}
                  \cup {AuthRejected(r) : r \in BOOLEAN}
                  \cup {AuthAccepted, CloseFrame}

ServerTypeOK ==
    /\ sv \in [client : Sockets \cup {None}, accepted : BOOLEAN,
               hello : Bridges \cup {None}, granted : BOOLEAN, helloTimer : BOOLEAN]
    /\ store \in [paired : Pairings \cup {None}, challenge : Challenges \cup {None},
                  disk : Pairings \cup {None}]

NoClient == [client |-> None, accepted |-> FALSE, hello |-> None,
             granted |-> FALSE, helloTimer |-> FALSE]

ServerInit ==
    /\ sv = NoClient
    /\ store = [paired |-> None, challenge |-> None, disk |-> None]

-----------------------------------------------------------------------------
(* Helpers of WebSocketServer.  A bridge is turned away by a close, or by  *)
(* an auth_rejected and a close.                                           *)

ClearClientState == NoClient

Rejecting(c)                   == SrvClose(c)
RejectingAuthentication(c, reset) == SrvClose(SrvSend(c, AuthRejected(reset)))

\* Faulty variant: the bridge is not told that it is accepted.
AcceptingSilently(c) == c

\* acceptBridge, after what the caller has sent
Accepting(c)   == SrvSend(c, AuthAccepted)
AcceptedBy(v)  == [v EXCEPT !.granted = TRUE, !.accepted = TRUE]

CanServe(s) == sv.accepted /\ sv.client = s /\ SrvOpen(s)

-----------------------------------------------------------------------------
(* Helpers of AuthStore *)

\* persist() throws when the file cannot be written: memory has changed
\* already, the disk has not.
PersistResults(operation) ==
    IF operation \in PersistFailures THEN BOOLEAN ELSE {TRUE}
Persist(st, ok) == IF ok THEN [st EXCEPT !.disk = st.paired] ELSE st

NeedsNewChallenge(b) ==
    \/ store.challenge = None
    \/ store.challenge.expired
    \/ store.challenge.inst # b

EnsurePairingChallenge(b, fresh) ==
    IF NeedsNewChallenge(b)
    THEN [store EXCEPT !.challenge = [id |-> fresh, inst |-> b, expired |-> FALSE]]
    ELSE store

\* Faulty variant: the installation is that of an earlier hello.
VerifyEarlierHello(b, proof) ==
    /\ store.paired # None
    /\ store.paired.inst = sv.hello
    /\ proof = [secret |-> store.paired.secret, nonce |-> sv.client]

VerifyBridgeProof(b, proof) ==
    /\ store.paired # None
    /\ store.paired.inst = b
    /\ proof = [secret |-> store.paired.secret, nonce |-> sv.client]

ChallengeUsable == store.challenge # None /\ ~store.challenge.expired

CodeMatches(m) ==
    /\ store.challenge.id = m.id
    /\ store.challenge.inst = m.inst
    /\ store.challenge.id = m.code

-----------------------------------------------------------------------------
(* handleConnection: one client; a second one is closed at once, unless the *)
(* first is no longer open, which is then replaced.                         *)

RejectsSecondClient(s) ==
    /\ sv.client # None /\ SrvOpen(sv.client)
    /\ net' = [net EXCEPT ![s] = SrvClose([@ EXCEPT !.srv = "open"])]
    /\ UNCHANGED serverVars

\* Faulty variant: the new client inherits what the old one was granted.
TakesClientOver(s) ==
    /\ ~(sv.client # None /\ SrvOpen(sv.client))
    /\ sv' = [sv EXCEPT !.client = s, !.hello = None, !.helloTimer = TRUE]
    /\ net' = [net EXCEPT ![s] = SrvSend([@ EXCEPT !.srv = "open"], ServerChallenge(s))]
    /\ UNCHANGED store

TakesClient(s) ==
    /\ ~(sv.client # None /\ SrvOpen(sv.client))
    /\ sv' = [sv EXCEPT !.client = s, !.accepted = FALSE, !.hello = None,
                        !.helloTimer = TRUE]
    /\ net' = [net EXCEPT ![s] = SrvSend([@ EXCEPT !.srv = "open"], ServerChallenge(s))]
    /\ UNCHANGED store

HandleConnection(s) ==
    /\ net[s].cli = "connecting" /\ net[s].srv = "none" /\ ~net[s].lost
    /\ RejectsSecondClient(s) \/ TakesClient(s)

\* The two-second timer of handleConnection.
HelloTimeout ==
    /\ sv.helloTimer /\ sv.hello = None /\ SrvOpen(sv.client)
    /\ sv' = [sv EXCEPT !.helloTimer = FALSE]
    /\ net' = [net EXCEPT ![sv.client] = Rejecting(@)]
    /\ UNCHANGED store

\* handleMessage: a message of any other socket than the client's is dropped.
IgnoresMessage(s) ==
    /\ DataUp(s) /\ s # sv.client
    /\ net' = [net EXCEPT ![s] = TakenUp(s)]
    /\ UNCHANGED serverVars

ReceivesFromClient(type) ==
    sv.client # None /\ DataUp(sv.client) /\ Head(net[sv.client].up).type = type

Received == Head(net[sv.client].up)

ClientNet(c) == net' = [net EXCEPT ![sv.client] = c]

-----------------------------------------------------------------------------
(* handleClientHello, one action per way out *)

Greeted(m) == [sv EXCEPT !.hello = m.inst, !.helloTimer = FALSE]

HelloIncompatible ==
    /\ ReceivesFromClient("client_hello")
    /\ Received.inst \notin CompatibleBridges
    /\ sv' = [sv EXCEPT !.helloTimer = FALSE]
    /\ ClientNet(Rejecting(TakenUp(sv.client)))
    /\ UNCHANGED store

CompatibleHello ==
    ReceivesFromClient("client_hello") /\ Received.inst \in CompatibleBridges

\* Faulty variant: pairing is offered to a bridge while another is paired.
HelloAlwaysPairs ==
    /\ CompatibleHello
    /\ sv' = Greeted(Received)
    /\ \E fresh \in PairingIds : store' = EnsurePairingChallenge(Received.inst, fresh)
    /\ ClientNet(SrvSend(TakenUp(sv.client), PairingRequired(store'.challenge.id)))

HelloUnpaired ==
    /\ CompatibleHello
    /\ store.paired = None
    /\ sv' = Greeted(Received)
    /\ \E fresh \in PairingIds : store' = EnsurePairingChallenge(Received.inst, fresh)
    /\ ClientNet(SrvSend(TakenUp(sv.client), PairingRequired(store'.challenge.id)))

HelloWithoutProof ==
    /\ CompatibleHello
    /\ store.paired # None /\ Received.proof = None
    /\ sv' = Greeted(Received)
    /\ ClientNet(RejectingAuthentication(TakenUp(sv.client), FALSE))
    /\ UNCHANGED store

HelloBadProof ==
    /\ CompatibleHello
    /\ store.paired # None /\ Received.proof # None
    /\ ~VerifyBridgeProof(Received.inst, Received.proof)
    /\ sv' = Greeted(Received)
    /\ ClientNet(RejectingAuthentication(TakenUp(sv.client), TRUE))
    /\ UNCHANGED store

HelloAccepted ==
    /\ CompatibleHello
    /\ store.paired # None /\ Received.proof # None
    /\ VerifyBridgeProof(Received.inst, Received.proof)
    /\ sv' = AcceptedBy(Greeted(Received))
    /\ ClientNet(Accepting(TakenUp(sv.client)))
    /\ UNCHANGED store

HandleClientHello ==
    \/ HelloIncompatible \/ HelloUnpaired \/ HelloWithoutProof
    \/ HelloBadProof \/ HelloAccepted

-----------------------------------------------------------------------------
(* handlePairingConfirm with AuthStore.completePairing *)

ConfirmMismatch ==
    /\ ReceivesFromClient("pairing_confirm")
    /\ sv.hello # Received.inst
    /\ sv' = [sv EXCEPT !.helloTimer = FALSE]
    /\ ClientNet(RejectingAuthentication(TakenUp(sv.client), FALSE))
    /\ UNCHANGED store

MatchingConfirm ==
    ReceivesFromClient("pairing_confirm") /\ sv.hello = Received.inst

\* completePairing throws: the reason goes to the bridge, the socket stays.
ConfirmRefused ==
    /\ MatchingConfirm
    /\ ~(ChallengeUsable /\ CodeMatches(Received))
    /\ store' = IF ChallengeUsable THEN store ELSE [store EXCEPT !.challenge = None]
    /\ ClientNet(SrvSend(TakenUp(sv.client), AuthRejected(FALSE)))
    /\ UNCHANGED sv

Paired(b, k) ==
    [store EXCEPT !.paired = [inst |-> b, secret |-> k], !.challenge = None]

\* The pairing is in memory before persist(), which may throw.
ConfirmCompletes ==
    /\ MatchingConfirm
    /\ ChallengeUsable /\ CodeMatches(Received)
    /\ \E k \in Secrets, ok \in PersistResults("pairing") :
          /\ store' = Persist(Paired(Received.inst, k), ok)
          /\ \/ /\ ok
                /\ sv' = AcceptedBy(sv)
                /\ ClientNet(Accepting(SrvSend(TakenUp(sv.client), PairingComplete(k))))
             \/ /\ ~ok
                /\ ClientNet(SrvSend(TakenUp(sv.client), AuthRejected(FALSE)))
                /\ UNCHANGED sv

HandlePairingConfirm == ConfirmMismatch \/ ConfirmRefused \/ ConfirmCompletes

-----------------------------------------------------------------------------
(* The other events of the server *)

HandleClose(s) ==
    /\ SrvCloseEvent(s)
    /\ net' = [net EXCEPT ![s] = SrvEnded(@)]
    /\ sv' = IF sv.client = s THEN ClearClientState ELSE sv
    /\ UNCHANGED store

\* Called by the operator through the reset-pairing tool.  When persist()
\* throws, nothing after it runs.
ResetPairing ==
    \E ok \in PersistResults("reset") :
       /\ store' = Persist([store EXCEPT !.paired = None, !.challenge = None], ok)
       /\ \/ /\ ok
             /\ sv' = ClearClientState
             /\ net' = IF sv.client = None THEN net
                       ELSE [net EXCEPT ![sv.client] = SrvClose(@)]
          \/ ~ok /\ UNCHANGED <<sv, net>>

\* Ten minutes after it was made, a pairing code is of no use.
ChallengeExpires ==
    /\ ChallengeUsable
    /\ store' = [store EXCEPT !.challenge.expired = TRUE]
    /\ UNCHANGED <<sv, net>>

\* The server process ends, by a crash or not, and a new one loads auth.json.
ServerRestart ==
    /\ sv' = NoClient
    /\ store' = [store EXCEPT !.paired = store.disk, !.challenge = None]
    /\ net' = [s \in Sockets |->
                 IF net[s].srv \in {"open", "closing", "ending"}
                 THEN SrvEnded(Broken(net[s])) ELSE net[s]]

HandleMessage ==
    \/ \E s \in Sockets : IgnoresMessage(s)
    \/ HandleClientHello
    \/ HandlePairingConfirm
=============================================================================
