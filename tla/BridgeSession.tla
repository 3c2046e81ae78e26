----------------------------- MODULE BridgeSession -----------------------------
(***************************************************************************)
(* The companion server, the bridges and the connections between them:     *)
(* connecting, the challenge and its proof, pairing, rejection, closing    *)
(* and reconnecting, with everything that can come in between.             *)
(*                                                                         *)
(* What the environment does to the session (a broken connection, a user   *)
(* who reconnects, resets the pairing or reloads the plugin, a server that *)
(* restarts, a code that expires or is submitted in haste, a hello that    *)
(* takes two seconds, a proof that outlasts its connection, a plugin that  *)
(* shuts down) happens at most MaxDisturbances times, and only if it is    *)
(* one of Disturbances.                                                    *)
(***************************************************************************)
EXTENDS BridgeClient

CONSTANTS
    Disturbances,       \* the kinds of disturbance that may happen
    MaxDisturbances     \* bound: how often one happens

DisturbanceKinds == {"break", "reconnect", "reset", "reload", "restart",
                     "expire", "slow", "shutdown", "hasty",
                     "late proof"}

ASSUME SessionAssumption ==
    Disturbances \subseteq DisturbanceKinds /\ MaxDisturbances \in Nat

VARIABLE left   \* disturbances that may still happen

vars == <<net, sv, store, cl, proofs, writes, stored, left>>

TypeOK ==
    /\ NetTypeOK(UpMessages, DownMessages)
    /\ ServerTypeOK
    /\ ClientTypeOK
    /\ left \in 0..MaxDisturbances

Init ==
    /\ net = [s \in Sockets |-> Unused]
    /\ ServerInit
    /\ ClientInit
    /\ left = MaxDisturbances

-----------------------------------------------------------------------------
(* Fresh identifiers: a new challenge or secret differs from every one that *)
(* something still refers to.                                              *)

InTransitDown == UNION {{net[s].down[i] : i \in 1..Len(net[s].down)} : s \in Sockets}

HeldIds ==
    {cl[b].pairingId : b \in Bridges}
      \cup {m.id : m \in {n \in InTransit : n.type = "pairing_confirm"}}
      \cup {m.id : m \in {n \in InTransitDown : n.type = "pairing_required"}}
      \cup (IF store.challenge = None THEN {} ELSE {store.challenge.id})

HeldSecrets ==
    {p.secret : p \in {store.paired, store.disk} \ {None}}
      \cup (UNION {{cl[b].secret, stored[b]} : b \in Bridges})
      \cup (UNION {{p.secret : p \in proofs[b]} : b \in Bridges})
      \cup (UNION {{writes[b][i].secret : i \in 1..Len(writes[b])} : b \in Bridges})
      \cup {m.proof.secret : m \in {n \in InTransit : n.type = "client_hello"
                                                       /\ n.proof # None}}
      \cup {m.secret : m \in {n \in InTransitDown : n.type = "pairing_complete"}}

FreshIdentifiers ==
    /\ store'.challenge \notin {None, store.challenge} =>
          \/ store.challenge # None /\ store'.challenge.id = store.challenge.id
          \/ store'.challenge.id \notin HeldIds
    /\ store'.paired \notin {None, store.paired, store.disk} =>
          store'.paired.secret \notin HeldSecrets

-----------------------------------------------------------------------------
(* Steps *)

Calm == UNCHANGED left

Disturbs(kind) == kind \in Disturbances /\ left > 0 /\ left' = left - 1

\* The hello the server waits for has not been lost: the timer that fires
\* all the same is early.
HelloUnderWay ==
    LET s == sv.client
    IN \/ DataUp(s)
       \/ net[s].down # <<>>
       \/ \E b \in Bridges : \E p \in proofs[b] : cl[b].ws = s /\ p.nonce = s

HelloTimerFires ==
    HelloTimeout /\ IF HelloUnderWay THEN Disturbs("slow") ELSE Calm

\* The user types the code the server's status tool shows, or mistypes it.
ShownCodes ==
    {WrongCode} \cup (IF store.challenge = None THEN {} ELSE {store.challenge.id})

\* The plugin asks for the code, and has stored what it learned before.
Awaited(b) == cl[b].auth = "pairing-required" /\ writes[b] = <<>>

ServerStep ==
    /\ \/ \E s \in Sockets : HandleConnection(s) /\ Calm
       \/ HelloTimerFires
       \/ HandleMessage /\ FreshIdentifiers /\ Calm
       \/ \E s \in Sockets : HandleClose(s) /\ Calm
       \/ ResetPairing /\ Disturbs("reset")
       \/ ChallengeExpires /\ Disturbs("expire")
       \/ ServerRestart /\ Disturbs("restart")
    /\ UNCHANGED clientVars

ClientStep(b) ==
    /\ \/ Start(b) /\ Calm
       \/ Reconnect(b) /\ Disturbs("reconnect")
       \/ NudgeReconnect(b) /\ Calm
       \/ RetryTimerFires(b) /\ Calm
       \/ Shutdown(b) /\ Disturbs("shutdown")
       \/ Reload(b) /\ Disturbs("reload")
       \/ \E s \in Sockets : OnOpen(b, s) /\ Calm
       \/ \E s \in Sockets : OnClose(b, s) /\ Calm
       \/ \E s \in Sockets : HandleServerMessage(b, s) /\ Calm
       \/ \E p \in proofs[b] :
             /\ ProofReady(b, p)
             /\ IF cl[b].ws \in {None, p.nonce} THEN Calm ELSE Disturbs("late proof")
       \/ SecretStored(b) /\ Calm
       \/ \E code \in ShownCodes :
             /\ ConfirmPairing(b, code)
             /\ IF Awaited(b) THEN Calm ELSE Disturbs("hasty")
    /\ UNCHANGED serverVars

TransportStep ==
    /\ \/ \E s \in Sockets : TransportEvent(s) /\ Calm
       \/ \E s \in Sockets : Breaks(s) /\ Disturbs("break")
    /\ UNCHANGED <<serverVars, clientVars>>

Next == ServerStep \/ (\E b \in Bridges : ClientStep(b)) \/ TransportStep

Spec == Init /\ [][Next]_vars

(***************************************************************************)
(* Fairness: event loops deliver what has arrived, timers fire, awaited    *)
(* work completes and broken or closed connections are noticed.  Nothing   *)
(* is assumed of the user or of the disturbances.                          *)
(***************************************************************************)
ServerCalm(A)    == A /\ Calm /\ UNCHANGED clientVars
ClientCalm(A)    == A /\ Calm /\ UNCHANGED serverVars
TransportCalm(A) == A /\ Calm /\ UNCHANGED <<serverVars, clientVars>>

Fairness ==
    /\ WF_vars(ServerCalm(HandleMessage /\ FreshIdentifiers))
    /\ WF_vars(ServerCalm(HelloTimerFires))
    /\ \A s \in Sockets :
          /\ WF_vars(ServerCalm(HandleConnection(s)))
          /\ WF_vars(ServerCalm(HandleClose(s)))
          /\ WF_vars(TransportCalm(TransportEvent(s)))
    /\ \A b \in Bridges :
          /\ WF_vars(ClientCalm(Start(b)))
          /\ WF_vars(ClientCalm(RetryTimerFires(b)))
          /\ WF_vars(ClientCalm(\E p \in proofs[b] : ProofReady(b, p)))
          /\ WF_vars(ClientCalm(SecretStored(b)))
          /\ \A s \in Sockets :
                /\ WF_vars(ClientCalm(OnOpen(b, s)))
                /\ WF_vars(ClientCalm(OnClose(b, s)))
                /\ WF_vars(ClientCalm(HandleServerMessage(b, s)))

FairSpec == Spec /\ Fairness

-----------------------------------------------------------------------------
(* Properties *)

\* While the server serves a connection, the bridge at its other end holds
\* the secret of the pairing, or has it in transit on that connection.
SharesSecret ==
    \A s \in Sockets : CanServe(s) /\ CliOpen(s) /\ ~net[s].lost =>
       \/ cl[net[s].owner].secret = store.paired.secret
       \/ PairingComplete(store.paired.secret)
             \in {net[s].down[i] : i \in 1..Len(net[s].down)}

\* The connection the server serves is one of the installation it is paired
\* with.
ServedIsPaired ==
    sv.accepted =>
       /\ store.paired # None
       /\ sv.hello = store.paired.inst
       /\ sv.client # None /\ net[sv.client].owner = store.paired.inst

\* The server serves only the installation it is paired with, and shares its
\* secret with it: resetting the pairing, or another installation's pairing,
\* ends the accepted connection.
AcceptedIsPaired == ServedIsPaired /\ SharesSecret

\* A pairing is not taken over: another one is made only after a reset, or
\* after a restart has found the disk without it.  completePairing does not
\* look at the present pairing; that no challenge outlives it must suffice.
PairingIsNotStolen ==
    [][store.paired # None /\ store'.paired # store.paired
         => store'.paired = None]_vars

\* Nothing is on its way on socket s or in the background of its bridge.
Settled(s) ==
    /\ net[s].up = <<>> /\ net[s].down = <<>> /\ ~net[s].lost
    /\ proofs[net[s].owner] = {} /\ writes[net[s].owner] = <<>>

\* Once everything in flight has arrived, a connection the server serves is
\* one the plugin shows as connected and answers requests on.
ConnectedAgreement ==
    \A s \in Sockets : CanServe(s) /\ CliOpen(s) /\ Settled(s) =>
       LET c == cl[net[s].owner]
       IN c.ws = s /\ c.status = "connected" /\ c.auth = "authenticated" /\ c.granted

\* A bridge discards its secret on the server's word only when the server is
\* no longer paired with that secret.
SecretDroppedOnlyWhenRevoked ==
    [][\A b \in Bridges :
         cl[b].secret # None /\ cl'[b].secret = None /\ left' = left
            => store.paired # [inst |-> b, secret |-> cl[b].secret]]_vars

\* A client that has been told to shut down opens no connection until the
\* plugin is loaded again.
ShutdownStaysDown ==
    [][\A b \in Bridges : cl[b].shutting /\ left' = left => cl'[b].ws = None]_vars

\* The bridge and the server hold the same secret, and both have stored it.
InSync(b) ==
    /\ store.paired # None /\ store.disk = store.paired
    /\ store.paired = [inst |-> b, secret |-> cl[b].secret]
    /\ stored[b] = cl[b].secret

Connected(b) ==
    /\ cl[b].status = "connected" /\ cl[b].auth = "authenticated"
    /\ cl[b].ws # None /\ CanServe(cl[b].ws)

\* A paired bridge gets back to a served connection without anyone's help,
\* whatever broke, restarted or was reloaded before, unless the pairing is
\* reset or the plugin shut down meanwhile.
PairedReconnects ==
    \A b \in Bridges : InSync(b) ~> Connected(b) \/ store.paired = None \/ cl[b].shutting
=============================================================================
