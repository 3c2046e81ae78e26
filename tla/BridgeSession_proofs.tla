-------------------------- MODULE BridgeSession_proofs --------------------------
(***************************************************************************)
(* Theorems about the bridge session, for any installations, connections,  *)
(* secrets and disturbances: types, that a pairing is not taken over, that *)
(* the server serves only the installation it is paired with and shares    *)
(* its secret, that a client told to shut down stays down, that a bridge   *)
(* gives up its secret only when it is of no use, and that a connection    *)
(* the server serves is one the plugin shows.                              *)
(***************************************************************************)
EXTENDS BridgeSession, TLAPS

\* The two writes of auth.json do not both fail: after a reset whose write
\* failed and a pairing whose write failed, a restart would bring back the
\* pairing that was reset.
OneWriteIsSafe == ~({"pairing", "reset"} \subseteq PersistFailures)

\* What the AuthStore keeps to: while there is a pairing there is no
\* challenge, which is all that stands between a code and the pairing, and the
\* disk has that pairing or none.
StoreInv ==
    /\ store = [paired |-> store.paired, challenge |-> store.challenge, disk |-> store.disk]
    /\ store.paired # None => store.challenge = None /\ store.disk \in {None, store.paired}
    /\ "pairing" \in PersistFailures /\ store.paired = None => store.disk = None

NotStolen ==
    store.paired # None /\ store'.paired # store.paired => store'.paired = None

LEMMA StoreKept ==
    ASSUME OneWriteIsSafe, StoreInv, [Next]_vars
    PROVE  StoreInv' /\ NotStolen
<1> USE DEF StoreInv, NotStolen
<1>1. CASE UNCHANGED store
  BY <1>1
<1>2. CASE HelloUnpaired
  <2>1. store.paired = None
    BY <1>2 DEF HelloUnpaired
  <2>2. PICK fresh \in PairingIds : store' = EnsurePairingChallenge(Received.inst, fresh)
    BY <1>2 DEF HelloUnpaired
  <2>3. /\ store'.paired = None /\ store'.disk = store.disk
        /\ store' = [paired |-> store'.paired, challenge |-> store'.challenge, disk |-> store'.disk]
    BY <2>1, <2>2 DEF EnsurePairingChallenge
  <2> QED BY <2>1, <2>3
<1>3. CASE ConfirmRefused
  <2>1. store' = store \/ store' = [store EXCEPT !.challenge = None]
    BY <1>3 DEF ConfirmRefused
  <2> QED BY <2>1
<1>4. CASE ConfirmCompletes
  <2>1. store.challenge # None
    BY <1>4 DEF ConfirmCompletes, ChallengeUsable
  <2>2. store.paired = None
    BY <2>1
  <2>3. PICK k \in Secrets, ok \in PersistResults("pairing") :
           store' = Persist(Paired(Received.inst, k), ok)
    BY <1>4 DEF ConfirmCompletes
  <2>4. store'.challenge = None
    BY <2>3 DEF Persist, Paired
  <2>5. store'.disk = IF ok THEN store'.paired ELSE store.disk
    BY <2>3 DEF Persist, Paired
  <2>6. ~ok => "pairing" \in PersistFailures
    BY <2>3 DEF PersistResults
  <2>7. store' = [paired |-> store'.paired, challenge |-> store'.challenge, disk |-> store'.disk]
    BY <2>3 DEF Persist, Paired
  <2> QED BY <2>2, <2>4, <2>5, <2>6, <2>7
<1>5. CASE ResetPairing
  <2>1. PICK ok \in PersistResults("reset") :
           store' = Persist([store EXCEPT !.paired = None, !.challenge = None], ok)
    BY <1>5 DEF ResetPairing
  <2>2. store'.paired = None
    BY <2>1 DEF Persist
  <2>3. store'.disk = IF ok THEN None ELSE store.disk
    BY <2>1 DEF Persist
  <2>4. ~ok => "pairing" \notin PersistFailures
    BY <2>1 DEF PersistResults, OneWriteIsSafe
  <2>5. store' = [paired |-> store'.paired, challenge |-> store'.challenge, disk |-> store'.disk]
    BY <2>1 DEF Persist
  <2> QED BY <2>2, <2>3, <2>4, <2>5
<1>6. CASE ChallengeExpires
  <2>1. store' = [store EXCEPT !.challenge.expired = TRUE] /\ store.challenge # None
    BY <1>6 DEF ChallengeExpires, ChallengeUsable
  <2> QED BY <2>1
<1>7. CASE ServerRestart
  <2>1. store' = [store EXCEPT !.paired = store.disk, !.challenge = None]
    BY <1>7 DEF ServerRestart
  <2> QED BY <2>1
<1>8. CASE ServerStep
  <2>1. CASE \E s \in Sockets : HandleConnection(s)
    BY <2>1, <1>1 DEF HandleConnection, RejectsSecondClient, TakesClient, serverVars
  <2>2. CASE HelloTimerFires
    BY <2>2, <1>1 DEF HelloTimerFires, HelloTimeout
  <2>3. CASE HandleMessage
    <3>1. CASE \E s \in Sockets : IgnoresMessage(s)
      BY <3>1, <1>1 DEF IgnoresMessage, serverVars
    <3>2. CASE HandleClientHello
      BY <3>2, <1>1, <1>2 DEF HandleClientHello, HelloIncompatible, HelloWithoutProof,
         HelloBadProof, HelloAccepted
    <3>3. CASE HandlePairingConfirm
      BY <3>3, <1>1, <1>3, <1>4 DEF HandlePairingConfirm, ConfirmMismatch
    <3> QED BY <2>3, <3>1, <3>2, <3>3 DEF HandleMessage
  <2>4. CASE \E s \in Sockets : HandleClose(s)
    BY <2>4, <1>1 DEF HandleClose
  <2> QED BY <1>8, <2>1, <2>2, <2>3, <2>4, <1>5, <1>6, <1>7 DEF ServerStep
<1>9. CASE \E b \in Bridges : ClientStep(b)
  BY <1>9, <1>1 DEF ClientStep, serverVars
<1>10. CASE TransportStep
  BY <1>10, <1>1 DEF TransportStep, serverVars
<1> QED BY <1>1, <1>8, <1>9, <1>10 DEF Next, vars

\* However installations hello, confirm, expire, restart and are reset, none is
\* paired in the place of another.
THEOREM PairingNeverStolen == ASSUME OneWriteIsSafe PROVE Spec => PairingIsNotStolen
<1>1. Init => StoreInv
  BY DEF Init, ServerInit, StoreInv
<1>2. StoreInv /\ [Next]_vars => StoreInv' /\ [NotStolen]_vars
  BY StoreKept
<1> QED BY <1>1, <1>2, PTL DEF Spec, PairingIsNotStolen, NotStolen

-----------------------------------------------------------------------------
(* What each side does to a connection record keeps its owner, and keeps    *)
(* what is on its way to the server the owner's.                            *)

UpOwned(c) ==
    /\ \E S : c.up \in Seq(S)
    /\ \A i \in 1..Len(c.up) : ~IsClose(c.up[i]) => c.up[i].inst = c.owner

Conns(U, D) ==
    [owner : Bridges \cup {None}, cli : CliStates, srv : SrvStates, up : U, down : D,
     lost : BOOLEAN]

ConnOK(c) == (\E U, D : c \in Conns(U, D)) /\ UpOwned(c)

\* d is c with its two ends in the states cli and srv.
Same(c, d, cli, srv) ==
    ConnOK(d) /\ d.owner = c.owner /\ d.cli = cli /\ d.srv = srv

LEMMA AppendOwned ==
    ASSUME NEW c, UpOwned(c), NEW m, ~IsClose(m) => m.inst = c.owner
    PROVE  /\ \E S : Append(c.up, m) \in Seq(S)
           /\ \A i \in 1..Len(Append(c.up, m)) :
                 ~IsClose(Append(c.up, m)[i]) => Append(c.up, m)[i].inst = c.owner
<1>1. PICK S : c.up \in Seq(S)
  BY DEF UpOwned
<1>2. c.up \in Seq(S \cup {m})
  BY <1>1
<1>3. Append(c.up, m) \in Seq(S \cup {m})
  BY <1>2
<1>4. /\ Len(Append(c.up, m)) = Len(c.up) + 1 /\ Len(c.up) \in Nat
      /\ Append(c.up, m)[Len(c.up) + 1] = m
      /\ \A i \in 1..Len(c.up) : Append(c.up, m)[i] = c.up[i]
  BY <1>2
<1>5. ASSUME NEW i \in 1..Len(Append(c.up, m)), ~IsClose(Append(c.up, m)[i])
      PROVE  Append(c.up, m)[i].inst = c.owner
  <2>1. CASE i = Len(c.up) + 1
    BY <2>1, <1>4, <1>5
  <2>2. CASE i \in 1..Len(c.up)
    BY <2>2, <1>4, <1>5 DEF UpOwned
  <2> QED BY <2>1, <2>2, <1>4
<1> QED BY <1>3, <1>5

LEMMA TailOwned ==
    ASSUME NEW c, UpOwned(c), c.up # <<>>
    PROVE  /\ \E S : Tail(c.up) \in Seq(S)
           /\ \A i \in 1..Len(Tail(c.up)) :
                 ~IsClose(Tail(c.up)[i]) => Tail(c.up)[i].inst = c.owner
<1>1. PICK S : c.up \in Seq(S)
  BY DEF UpOwned
<1>2. /\ Tail(c.up) \in Seq(S) /\ Len(c.up) \in Nat /\ Len(Tail(c.up)) = Len(c.up) - 1
      /\ \A i \in 1..Len(Tail(c.up)) : Tail(c.up)[i] = c.up[i + 1]
  BY <1>1
<1> QED BY <1>2 DEF UpOwned

LEMMA EmptyOwned ==
    /\ \E S : <<>> \in Seq(S)
    /\ Len(<<>>) = 0 /\ 1..Len(<<>>) = {}
<1>1. <<>> \in Seq({})
  OBVIOUS
<1> QED BY <1>1

LEMMA UnusedOK ==
    ConnOK(Unused) /\ Unused.owner = None /\ Unused.cli = "none" /\ Unused.srv = "none"
<1>1. Unused \in Conns({<<>>}, {<<>>})
  BY DEF Conns, Unused, CliStates, SrvStates
<1> QED BY <1>1, EmptyOwned DEF ConnOK, UpOwned, Unused

LEMMA DialOK ==
    ASSUME NEW b \in Bridges
    PROVE  ConnOK(Dial(b)) /\ Dial(b).owner = b /\ Dial(b).cli = "connecting"
<1>1. Unused \in Conns({<<>>}, {<<>>})
  BY DEF Conns, Unused, CliStates, SrvStates
<1>2. Dial(b) \in Conns({<<>>}, {<<>>})
  BY <1>1 DEF Conns, Dial, CliStates
<1>3. Dial(b).owner = b /\ Dial(b).cli = "connecting" /\ Dial(b).up = <<>>
  BY DEF Dial, Unused
<1> QED BY <1>2, <1>3, EmptyOwned DEF ConnOK, UpOwned

\* A record that differs in its ends and in what is on its way.
LEMMA ChangedOK ==
    ASSUME NEW c, ConnOK(c), NEW d, \E U, D : d \in Conns(U, D), d.owner = c.owner,
           d.up = c.up \/ d.up = <<>>
    PROVE  ConnOK(d)
<1>1. CASE d.up = c.up
  BY <1>1 DEF ConnOK, UpOwned
<1>2. CASE d.up = <<>>
  BY <1>2, EmptyOwned DEF ConnOK, UpOwned
<1> QED BY <1>1, <1>2

LEMMA SentOK ==
    ASSUME NEW c, ConnOK(c), NEW d, \E U, D : d \in Conns(U, D), d.owner = c.owner,
           NEW m, ~IsClose(m) => m.inst = c.owner, d.up = Append(c.up, m)
    PROVE  ConnOK(d)
<1>1. UpOwned(d)
  BY AppendOwned DEF ConnOK, UpOwned
<1> QED BY <1>1 DEF ConnOK

LEMMA CliSendOK ==
    ASSUME NEW c, ConnOK(c), NEW m, ~IsClose(m) => m.inst = c.owner
    PROVE  Same(c, CliSend(c, m), c.cli, c.srv)
<1>1. PICK U, D : c \in Conns(U, D)
  BY DEF ConnOK
<1> DEFINE d == [c EXCEPT !.up = Append(@, m)]
<1>2. d \in Conns(U \cup {Append(c.up, m)}, D)
  BY <1>1 DEF Conns, CliStates, SrvStates
<1>3. d.owner = c.owner /\ d.cli = c.cli /\ d.srv = c.srv /\ d.up = Append(c.up, m)
  BY <1>1 DEF Conns
<1> HIDE DEF d
<1>4. Same(c, d, c.cli, c.srv)
  <2>1. \E V, W : d \in Conns(V, W)
    BY <1>2
  <2>2. ConnOK(d)
    BY <2>1, <1>3, SentOK
  <2> QED BY <2>2, <1>3 DEF Same
<1>5. CliSend(c, m) = c \/ CliSend(c, m) = d
  BY DEF CliSend, d
<1> QED BY <1>4, <1>5 DEF Same

LEMMA SrvSendOK ==
    ASSUME NEW c, ConnOK(c), NEW m
    PROVE  Same(c, SrvSend(c, m), c.cli, c.srv)
<1>1. PICK U, D : c \in Conns(U, D)
  BY DEF ConnOK
<1> DEFINE d == [c EXCEPT !.down = Append(@, m)]
<1>2. d \in Conns(U, D \cup {Append(c.down, m)})
  BY <1>1 DEF Conns, CliStates, SrvStates
<1>3. d.owner = c.owner /\ d.cli = c.cli /\ d.srv = c.srv /\ d.up = c.up
  BY <1>1 DEF Conns
<1> HIDE DEF d
<1>4. Same(c, d, c.cli, c.srv)
  <2>1. \E V, W : d \in Conns(V, W)
    BY <1>2
  <2>2. ConnOK(d)
    BY <2>1, <1>3, ChangedOK
  <2> QED BY <2>2, <1>3 DEF Same
<1>5. SrvSend(c, m) = c \/ SrvSend(c, m) = d
  BY DEF SrvSend, d
<1> QED BY <1>4, <1>5 DEF Same

LEMMA CliCloseOK ==
    ASSUME NEW c, ConnOK(c)
    PROVE  Same(c, CliClose(c), IF c.cli \in {"open", "connecting"} THEN "closing" ELSE c.cli,
                c.srv)
<1>1. PICK U, D : c \in Conns(U, D)
  BY DEF ConnOK
<1>2. CASE c.cli = "open"
  <2> DEFINE sent == IF c.lost THEN c.up ELSE Append(c.up, CloseFrame)
  <2> DEFINE left_ == OnlyClose(c.down)
  <2>1. CliClose(c) = [c EXCEPT !.cli = "closing", !.down = left_, !.up = sent]
    BY <1>1, <1>2 DEF CliClose, Conns
  <2> HIDE DEF sent, left_
  <2>2. CliClose(c) \in Conns(U \cup {sent}, D \cup {left_})
    BY <1>1, <2>1 DEF Conns, CliStates, SrvStates
  <2>3. /\ CliClose(c).owner = c.owner /\ CliClose(c).cli = "closing" /\ CliClose(c).srv = c.srv
        /\ CliClose(c).up = sent
    BY <1>1, <2>1 DEF Conns
  <2>4. IsClose(CloseFrame)
    BY DEF IsClose, CloseFrame
  <2>5. sent = c.up \/ sent = Append(c.up, CloseFrame)
    BY DEF sent
  <2>6. \E V, W : CliClose(c) \in Conns(V, W)
    BY <2>2
  <2>7. ConnOK(CliClose(c))
    BY <2>3, <2>4, <2>5, <2>6, ChangedOK, SentOK
  <2> QED BY <1>2, <2>3, <2>7 DEF Same
<1>3. CASE c.cli = "connecting"
  <2>1. CliClose(c) = [c EXCEPT !.cli = "closing", !.lost = TRUE, !.up = <<>>, !.down = <<>>]
    BY <1>3 DEF CliClose
  <2>2. CliClose(c) \in Conns(U \cup {<<>>}, D \cup {<<>>})
    BY <1>1, <2>1 DEF Conns, CliStates, SrvStates
  <2>3. /\ CliClose(c).owner = c.owner /\ CliClose(c).cli = "closing" /\ CliClose(c).srv = c.srv
        /\ CliClose(c).up = <<>>
    BY <1>1, <2>1 DEF Conns
  <2>4. \E V, W : CliClose(c) \in Conns(V, W)
    BY <2>2
  <2>5. ConnOK(CliClose(c))
    BY <2>3, <2>4, ChangedOK
  <2> QED BY <1>3, <2>3, <2>5 DEF Same
<1>4. CASE c.cli \notin {"open", "connecting"}
  BY <1>4 DEF Same, CliClose
<1> QED BY <1>2, <1>3, <1>4

LEMMA SrvCloseOK ==
    ASSUME NEW c, ConnOK(c)
    PROVE  Same(c, SrvClose(c), c.cli, IF c.srv = "open" THEN "closing" ELSE c.srv)
<1>1. PICK U, D : c \in Conns(U, D)
  BY DEF ConnOK
<1> DEFINE rest == IF c.lost THEN c.down ELSE Append(c.down, CloseFrame)
<1> DEFINE d == [c EXCEPT !.srv = "closing", !.down = rest]
<1>2. SrvClose(c) = IF c.srv = "open" THEN d ELSE c
  BY <1>1 DEF SrvClose, Conns
<1> HIDE DEF rest
<1>3. d \in Conns(U, D \cup {rest})
  BY <1>1 DEF Conns, CliStates, SrvStates
<1>4. d.owner = c.owner /\ d.cli = c.cli /\ d.srv = "closing" /\ d.up = c.up
  BY <1>1 DEF Conns
<1> HIDE DEF d
<1>5. \E V, W : d \in Conns(V, W)
  BY <1>3
<1>6. ConnOK(d)
  BY <1>4, <1>5, ChangedOK
<1> QED BY <1>2, <1>4, <1>6 DEF Same

LEMMA BrokenOK ==
    ASSUME NEW c, ConnOK(c)
    PROVE  Same(c, Broken(c), c.cli, c.srv)
<1>1. PICK U, D : c \in Conns(U, D)
  BY DEF ConnOK
<1>2. Broken(c) \in Conns(U \cup {<<>>}, D \cup {<<>>})
  BY <1>1 DEF Broken, Conns
<1>3. /\ Broken(c).owner = c.owner /\ Broken(c).cli = c.cli /\ Broken(c).srv = c.srv
      /\ Broken(c).up = <<>>
  BY <1>1 DEF Broken, Conns
<1>4. \E V, W : Broken(c) \in Conns(V, W)
  BY <1>2
<1>5. ConnOK(Broken(c))
  BY <1>3, <1>4, ChangedOK
<1> QED BY <1>3, <1>5 DEF Same

LEMMA CliEndedOK ==
    ASSUME NEW c, ConnOK(c)
    PROVE  IF c.srv \in {"none", "closed"} THEN CliEnded(c) = Unused
           ELSE Same(c, CliEnded(c), "closed", c.srv)
<1>1. PICK U, D : c \in Conns(U, D)
  BY DEF ConnOK
<1> DEFINE d == [c EXCEPT !.cli = "closed", !.down = <<>>]
<1>2. CliEnded(c) = IF Gone(d) THEN Unused ELSE d
  BY DEF CliEnded
<1>3. d \in Conns(U, D \cup {<<>>})
  BY <1>1 DEF Conns, CliStates, SrvStates
<1>4. d.owner = c.owner /\ d.cli = "closed" /\ d.srv = c.srv /\ d.up = c.up
  BY <1>1 DEF Conns
<1> HIDE DEF d
<1>5. \E V, W : d \in Conns(V, W)
  BY <1>3
<1>6. ConnOK(d)
  BY <1>4, <1>5, ChangedOK
<1> QED BY <1>2, <1>4, <1>6 DEF Same, Gone

LEMMA SrvEndedOK ==
    ASSUME NEW c, ConnOK(c)
    PROVE  IF c.cli = "closed" THEN SrvEnded(c) = Unused
           ELSE Same(c, SrvEnded(c), c.cli, "closed")
<1>1. PICK U, D : c \in Conns(U, D)
  BY DEF ConnOK
<1> DEFINE d == [c EXCEPT !.srv = "closed", !.up = <<>>]
<1>2. SrvEnded(c) = IF Gone(d) THEN Unused ELSE d
  BY DEF SrvEnded
<1>3. d \in Conns(U \cup {<<>>}, D)
  BY <1>1 DEF Conns, CliStates, SrvStates
<1>4. d.owner = c.owner /\ d.cli = c.cli /\ d.srv = "closed" /\ d.up = <<>>
  BY <1>1 DEF Conns
<1> HIDE DEF d
<1>5. \E V, W : d \in Conns(V, W)
  BY <1>3
<1>6. ConnOK(d)
  BY <1>4, <1>5, ChangedOK
<1> QED BY <1>2, <1>4, <1>6 DEF Same, Gone

LEMMA TakenOK ==
    ASSUME NEW s, ConnOK(net[s])
    PROVE  /\ net[s].up # <<>> => Same(net[s], TakenUp(s), net[s].cli, net[s].srv)
           /\ Same(net[s], TakenDown(s), net[s].cli, net[s].srv)
<1>1. PICK U, D : net[s] \in Conns(U, D)
  BY DEF ConnOK
<1>2. /\ TakenUp(s) \in Conns(U \cup {Tail(net[s].up)}, D)
      /\ TakenDown(s) \in Conns(U, D \cup {Tail(net[s].down)})
  BY <1>1 DEF TakenUp, TakenDown, Conns
<1>3. /\ TakenUp(s).owner = net[s].owner /\ TakenUp(s).cli = net[s].cli
      /\ TakenUp(s).srv = net[s].srv /\ TakenUp(s).up = Tail(net[s].up)
  BY <1>1 DEF TakenUp, Conns
<1>4. /\ TakenDown(s).owner = net[s].owner /\ TakenDown(s).cli = net[s].cli
      /\ TakenDown(s).srv = net[s].srv /\ TakenDown(s).up = net[s].up
  BY <1>1 DEF TakenDown, Conns
<1>5. /\ \E V, W : TakenUp(s) \in Conns(V, W)
      /\ \E V, W : TakenDown(s) \in Conns(V, W)
  BY <1>2
<1>6. net[s].up # <<>> => UpOwned(TakenUp(s))
  BY <1>3, TailOwned DEF ConnOK, UpOwned
<1>7. ConnOK(TakenDown(s))
  BY <1>4, <1>5, ChangedOK
<1> QED BY <1>3, <1>4, <1>5, <1>6, <1>7 DEF Same, ConnOK

LEMMA HeadOwned ==
    ASSUME NEW c, UpOwned(c), c.up # <<>>, ~IsClose(Head(c.up))
    PROVE  Head(c.up).inst = c.owner
<1>1. PICK S : c.up \in Seq(S)
  BY DEF UpOwned
<1>2. 1 \in 1..Len(c.up) /\ Head(c.up) = c.up[1]
  BY <1>1
<1> QED BY <1>2 DEF UpOwned

Attached(c) == c.srv \in {"open", "closing", "ending"}

\* d is what a step that neither dials nor forgets a socket leaves of c.
Keeps(c, d) ==
    /\ ConnOK(d) /\ d.owner = c.owner
    /\ c.cli # "closed" => d.cli # "closed"
    /\ d.cli # "none" => c.cli # "none"
    /\ Attached(c) => Attached(d)

LEMMA KeepsTransitive ==
    ASSUME NEW c, NEW d, NEW e, Keeps(c, d), Keeps(d, e) PROVE Keeps(c, e)
  BY DEF Keeps

LEMMA SentKeeps ==
    ASSUME NEW c, ConnOK(c)
    PROVE  /\ Keeps(c, c)
           /\ \A m : Keeps(c, SrvSend(c, m))
           /\ \A m : (~IsClose(m) => m.inst = c.owner) => Keeps(c, CliSend(c, m))
           /\ Keeps(c, SrvClose(c)) /\ Keeps(c, CliClose(c)) /\ Keeps(c, Broken(c))
<1>1. \A m : Keeps(c, SrvSend(c, m))
  BY SrvSendOK DEF Same, Keeps, Attached
<1>2. \A m : (~IsClose(m) => m.inst = c.owner) => Keeps(c, CliSend(c, m))
  BY CliSendOK DEF Same, Keeps, Attached
<1>3. Keeps(c, SrvClose(c))
  BY SrvCloseOK DEF Same, Keeps, Attached
<1>4. Keeps(c, CliClose(c))
  BY CliCloseOK DEF Same, Keeps, Attached
<1>5. Keeps(c, Broken(c))
  BY BrokenOK DEF Same, Keeps, Attached
<1> QED BY <1>1, <1>2, <1>3, <1>4, <1>5 DEF Keeps

LEMMA TakenKeeps ==
    ASSUME NEW s, ConnOK(net[s])
    PROVE  /\ net[s].up # <<>> => Keeps(net[s], TakenUp(s))
           /\ Keeps(net[s], TakenDown(s))
  BY TakenOK DEF Same, Keeps, Attached

\* The server's answers to a message it has taken up.
LEMMA AnsweredKeeps ==
    ASSUME NEW s, ConnOK(net[s]), DataUp(s)
    PROVE  /\ Keeps(net[s], TakenUp(s))
           /\ \A m : Keeps(net[s], SrvSend(TakenUp(s), m))
           /\ \A m : Keeps(net[s], Accepting(SrvSend(TakenUp(s), m)))
           /\ Keeps(net[s], Accepting(TakenUp(s)))
           /\ Keeps(net[s], Rejecting(TakenUp(s)))
           /\ \A r : Keeps(net[s], RejectingAuthentication(TakenUp(s), r))
<1>1. Keeps(net[s], TakenUp(s))
  BY TakenKeeps DEF DataUp
<1>2. \A m : Keeps(net[s], SrvSend(TakenUp(s), m))
  BY <1>1, SentKeeps, KeepsTransitive DEF Keeps
<1>3. \A m : Keeps(net[s], Accepting(SrvSend(TakenUp(s), m)))
  BY <1>2, SentKeeps, KeepsTransitive DEF Keeps, Accepting
<1>4. Keeps(net[s], Accepting(TakenUp(s)))
  BY <1>2 DEF Accepting
<1>5. Keeps(net[s], Rejecting(TakenUp(s)))
  BY <1>1, SentKeeps, KeepsTransitive DEF Keeps, Rejecting
<1>6. \A r : Keeps(net[s], RejectingAuthentication(TakenUp(s), r))
  BY <1>2, SentKeeps, KeepsTransitive DEF Keeps, RejectingAuthentication
<1> QED BY <1>1, <1>2, <1>3, <1>4, <1>5, <1>6

\* A side that answers a close frame, and one that opens.
LEMMA EndingKeeps ==
    ASSUME NEW c, ConnOK(c)
    PROVE  /\ c.cli # "none" => Keeps(c, [CliClose(c) EXCEPT !.cli = "ending", !.down = <<>>])
           /\ Keeps(c, [SrvClose(c) EXCEPT !.srv = "ending", !.up = <<>>])
           /\ c.cli # "none" => Keeps(c, [c EXCEPT !.cli = "open"])
           /\ ~Attached(c) =>
                 Keeps(c, [c EXCEPT !.srv = "open"]) /\ Attached([c EXCEPT !.srv = "open"])
<1>1. c.cli # "none" => Keeps(c, [CliClose(c) EXCEPT !.cli = "ending", !.down = <<>>])
  <2> DEFINE e == CliClose(c)
  <2> DEFINE d == [e EXCEPT !.cli = "ending", !.down = <<>>]
  <2>1. Keeps(c, e)
    BY SentKeeps
  <2> HIDE DEF e
  <2>2. PICK U, D : e \in Conns(U, D)
    BY <2>1 DEF Keeps, ConnOK
  <2>3. d \in Conns(U, D \cup {<<>>})
    BY <2>2 DEF Conns, CliStates
  <2>4. d.owner = e.owner /\ d.cli = "ending" /\ d.srv = e.srv /\ d.up = e.up
    BY <2>2 DEF Conns
  <2> HIDE DEF d
  <2>5. \E V, W : d \in Conns(V, W)
    BY <2>3
  <2>6. ConnOK(d)
    BY <2>1, <2>4, <2>5, ChangedOK DEF Keeps
  <2>7. c.cli # "none" => Keeps(c, d)
    BY <2>1, <2>4, <2>6 DEF Keeps, Attached
  <2> QED BY <2>7 DEF d, e
<1>2. Keeps(c, [SrvClose(c) EXCEPT !.srv = "ending", !.up = <<>>])
  <2> DEFINE e == SrvClose(c)
  <2> DEFINE d == [e EXCEPT !.srv = "ending", !.up = <<>>]
  <2>1. Keeps(c, e)
    BY SentKeeps
  <2> HIDE DEF e
  <2>2. PICK U, D : e \in Conns(U, D)
    BY <2>1 DEF Keeps, ConnOK
  <2>3. d \in Conns(U \cup {<<>>}, D)
    BY <2>2 DEF Conns, SrvStates
  <2>4. d.owner = e.owner /\ d.cli = e.cli /\ d.srv = "ending" /\ d.up = <<>>
    BY <2>2 DEF Conns
  <2> HIDE DEF d
  <2>5. \E V, W : d \in Conns(V, W)
    BY <2>3
  <2>6. ConnOK(d)
    BY <2>1, <2>4, <2>5, ChangedOK DEF Keeps
  <2>7. Keeps(c, d)
    BY <2>1, <2>4, <2>6 DEF Keeps, Attached
  <2> QED BY <2>7 DEF d, e
<1>3. PICK U, D : c \in Conns(U, D)
  BY DEF ConnOK
<1>4. c.cli # "none" => Keeps(c, [c EXCEPT !.cli = "open"])
  <2> DEFINE d == [c EXCEPT !.cli = "open"]
  <2>1. d \in Conns(U, D)
    BY <1>3 DEF Conns, CliStates
  <2>2. d.owner = c.owner /\ d.cli = "open" /\ d.srv = c.srv /\ d.up = c.up
    BY <1>3 DEF Conns
  <2> HIDE DEF d
  <2>3. \E V, W : d \in Conns(V, W)
    BY <2>1
  <2>4. ConnOK(d)
    BY <2>2, <2>3, ChangedOK
  <2>5. c.cli # "none" => Keeps(c, d)
    BY <2>2, <2>4 DEF Keeps, Attached
  <2> QED BY <2>5 DEF d
<1>5. ~Attached(c) =>
         Keeps(c, [c EXCEPT !.srv = "open"]) /\ Attached([c EXCEPT !.srv = "open"])
  <2> DEFINE d == [c EXCEPT !.srv = "open"]
  <2>1. d \in Conns(U, D)
    BY <1>3 DEF Conns, SrvStates
  <2>2. d.owner = c.owner /\ d.cli = c.cli /\ d.srv = "open" /\ d.up = c.up
    BY <1>3 DEF Conns
  <2> HIDE DEF d
  <2>3. \E V, W : d \in Conns(V, W)
    BY <2>1
  <2>4. ConnOK(d)
    BY <2>2, <2>3, ChangedOK
  <2>5. Keeps(c, d) /\ Attached(d)
    BY <2>2, <2>4 DEF Keeps, Attached
  <2> QED BY <2>5 DEF d
<1> QED BY <1>1, <1>2, <1>4, <1>5
-----------------------------------------------------------------------------
(* The server serves the installation it is paired with.  The invariant     *)
(* adds what makes a hello and a code belong to the connection they come    *)
(* on: clients send on connections of their own, and what is on its way up  *)
(* a connection names its owner, who changes only when both ends have let   *)
(* go of it.                                                                *)

NetOK ==
    /\ \E N : net \in [Sockets -> N]
    /\ \A s \in Sockets : ConnOK(net[s]) /\ (net[s].cli # "none" => net[s].owner \in Bridges)

\* The connection w may be this.ws of bridge b.
MayHold(b, w, n) ==
    w \in Sockets \cup {None} /\ (w # None => n[w].owner = b /\ n[w].cli # "closed")

ClientsOK ==
    /\ \E C : cl \in [Bridges -> C]
    /\ \A b \in Bridges : "ws" \in DOMAIN cl[b] /\ MayHold(b, cl[b].ws, net)

ServerOK ==
    /\ {"client", "accepted", "hello", "granted", "helloTimer"} \subseteq DOMAIN sv
    /\ sv.accepted \in BOOLEAN
    /\ sv.client \in Sockets \cup {None}
    /\ sv.client # None => Attached(net[sv.client]) /\ net[sv.client].owner \in Bridges
    /\ ServedIsPaired

SessionInv == StoreInv /\ NetOK /\ ClientsOK /\ ServerOK

\* The connections n are what a step without dialling or ending leaves.
KeptIn(n) == (\E N : n \in [Sockets -> N]) /\ \A s \in Sockets : Keeps(net[s], n[s])

\* What the steps of the clients leave of the server's connection, and the
\* steps of the server of the clients'.
ServerSees ==
    \A s \in Sockets : Attached(net[s]) =>
        Attached(net'[s]) /\ net'[s].owner = net[s].owner
ClientsSee ==
    \A s \in Sockets : net[s].cli # "closed" /\ net[s].owner # None =>
        net'[s].cli # "closed" /\ net'[s].owner = net[s].owner

LEMMA KeptIsSeen ==
    ASSUME NetOK, KeptIn(net') PROVE NetOK' /\ ServerSees /\ ClientsSee
  BY DEF KeptIn, Keeps, NetOK, ServerSees, ClientsSee

LEMMA ServerStays ==
    ASSUME ServerOK, ServerSees, UNCHANGED <<sv, store>> PROVE ServerOK'
  BY NoneAssumption DEF ServerOK, ServerSees, ServedIsPaired

LEMMA ClientsStay ==
    ASSUME ClientsOK, ClientsSee, \E C : cl' \in [Bridges -> C],
           \A b \in Bridges : "ws" \in DOMAIN cl'[b] /\ cl'[b].ws \in {cl[b].ws, None}
    PROVE  ClientsOK'
<1>1. ASSUME NEW b \in Bridges
      PROVE  "ws" \in DOMAIN cl'[b] /\ MayHold(b, cl'[b].ws, net')
  <2>1. b # None
    BY NoneAssumption
  <2>2. MayHold(b, cl[b].ws, net')
    BY <2>1 DEF ClientsOK, ClientsSee, MayHold
  <2> QED BY <2>2 DEF MayHold
<1> QED BY <1>1 DEF ClientsOK

LEMMA NetKept == ASSUME NetOK PROVE KeptIn(net)
  BY SentKeeps DEF NetOK, KeptIn

LEMMA OneKept ==
    ASSUME NetOK, NEW n, KeptIn(n), NEW s, NEW d, s \in Sockets => Keeps(net[s], d)
    PROVE  KeptIn([n EXCEPT ![s] = d])
<1>1. PICK N : n \in [Sockets -> N]
  BY DEF KeptIn
<1>2. [n EXCEPT ![s] = d] \in [Sockets -> N \cup {d}]
  BY <1>1
<1>3. \A t \in Sockets : [n EXCEPT ![s] = d][t] = IF t = s THEN d ELSE n[t]
  BY <1>1
<1> QED BY <1>2, <1>3 DEF KeptIn

\* The steps of the clients.

LEMMA SendOnKept ==
    ASSUME NetOK, NEW n, KeptIn(n), NEW b \in Bridges, MayHold(b, cl[b].ws, net),
           NEW m, m.inst = b
    PROVE  KeptIn(SendOn(n, b, m))
<1>1. CASE cl[b].ws = None
  BY <1>1 DEF SendOn
<1>2. CASE cl[b].ws # None
  <2> DEFINE w == cl[b].ws
  <2>1. w \in Sockets /\ net[w].owner = b
    BY <1>2 DEF MayHold
  <2>2. Keeps(net[w], n[w])
    BY <2>1 DEF KeptIn
  <2>3. Keeps(n[w], CliSend(n[w], m))
    BY <2>1, <2>2, SentKeeps DEF Keeps
  <2>4. Keeps(net[w], CliSend(n[w], m))
    BY <2>2, <2>3, KeepsTransitive
  <2>5. SendOn(n, b, m) = [n EXCEPT ![w] = CliSend(n[w], m)]
    BY <1>2 DEF SendOn
  <2> HIDE DEF w
  <2>6. KeptIn([n EXCEPT ![w] = CliSend(n[w], m)])
    BY <2>4, OneKept
  <2> QED BY <2>5, <2>6
<1> QED BY <1>1, <1>2

LEMMA DisconnectKept ==
    ASSUME NetOK, NEW b \in Bridges, MayHold(b, cl[b].ws, net)
    PROVE  KeptIn(NetAfterDisconnect(b))
<1>1. CASE cl[b].ws = None
  BY <1>1, NetKept DEF NetAfterDisconnect
<1>2. CASE cl[b].ws # None
  <2>1. cl[b].ws \in Sockets
    BY <1>2 DEF MayHold
  <2>2. Keeps(net[cl[b].ws], CliClose(net[cl[b].ws]))
    BY <2>1, SentKeeps DEF NetOK
  <2>3. NetAfterDisconnect(b) = [net EXCEPT ![cl[b].ws] = CliClose(net[cl[b].ws])]
    BY <1>2 DEF NetAfterDisconnect
  <2>4. KeptIn([net EXCEPT ![cl[b].ws] = CliClose(net[cl[b].ws])])
    BY <2>2, NetKept, OneKept
  <2> QED BY <2>3, <2>4
<1> QED BY <1>1, <1>2

LEMMA ConnectSafe ==
    ASSUME NetOK, ClientsOK, NEW b \in Bridges, NEW c, "ws" \in DOMAIN c,
           NEW n, KeptIn(n), Connect(b, c, n)
    PROVE  NetOK' /\ ServerSees /\ ClientsOK'
<1>1. PICK s \in Sockets : /\ net[s] = Unused
                           /\ cl' = [cl EXCEPT ![b] = Dialing(c, s)]
                           /\ net' = [n EXCEPT ![s] = Dial(b)]
  BY DEF Connect, FreeSocket
<1>2. PICK N, C : n \in [Sockets -> N] /\ cl \in [Bridges -> C]
  BY DEF KeptIn, ClientsOK
<1>3. /\ net' \in [Sockets -> N \cup {Dial(b)}]
      /\ \A t \in Sockets : net'[t] = IF t = s THEN Dial(b) ELSE n[t]
  BY <1>1, <1>2
<1>4. /\ cl' \in [Bridges -> C \cup {Dialing(c, s)}]
      /\ \A a \in Bridges : cl'[a] = IF a = b THEN Dialing(c, s) ELSE cl[a]
  BY <1>1, <1>2
<1>5. ~Attached(net[s]) /\ net[s].owner = None
  BY <1>1, UnusedOK DEF Attached
<1>6. NetOK' /\ ServerSees
  BY ZenonT(30), <1>3, <1>5, DialOK DEF NetOK, ServerSees, KeptIn, Keeps
<1>7. Dialing(c, s).ws = s /\ "ws" \in DOMAIN Dialing(c, s)
  BY DEF Dialing
<1>8. ASSUME NEW a \in Bridges
      PROVE  "ws" \in DOMAIN cl'[a] /\ MayHold(a, cl'[a].ws, net')
  <2>1. CASE a = b
    BY <2>1, <1>3, <1>4, <1>7, DialOK DEF MayHold
  <2>2. CASE a # b
    <3>1. cl'[a] = cl[a]
      BY <2>2, <1>4
    <3>2. cl[a].ws # None => cl[a].ws # s
      BY <1>5, NoneAssumption DEF ClientsOK, MayHold
    <3> QED BY <3>1, <3>2, <1>3 DEF ClientsOK, MayHold, KeptIn, Keeps
  <2> QED BY <2>1, <2>2
<1> QED BY <1>4, <1>6, <1>8 DEF ClientsOK
LEMMA UnchangedSafe ==
    ASSUME NetOK, ClientsOK, KeptIn(net'), UNCHANGED cl
    PROVE  NetOK' /\ ServerSees /\ ClientsOK'
<1>1. \E C : cl' \in [Bridges -> C]
  BY DEF ClientsOK
<1>2. \A b \in Bridges : "ws" \in DOMAIN cl'[b] /\ cl'[b].ws \in {cl[b].ws, None}
  BY DEF ClientsOK
<1> QED BY <1>1, <1>2, KeptIsSeen, ClientsStay

LEMMA ChangedSafe ==
    ASSUME NetOK, ClientsOK, KeptIn(net'), NEW b \in Bridges, NEW c, "ws" \in DOMAIN c,
           c.ws \in {cl[b].ws, None}, cl' = [cl EXCEPT ![b] = c]
    PROVE  NetOK' /\ ServerSees /\ ClientsOK'
<1>1. PICK C : cl \in [Bridges -> C]
  BY DEF ClientsOK
<1>2. cl' \in [Bridges -> C \cup {c}] /\ \A a \in Bridges : cl'[a] = IF a = b THEN c ELSE cl[a]
  BY <1>1
<1>3. \A a \in Bridges : "ws" \in DOMAIN cl'[a] /\ cl'[a].ws \in {cl[a].ws, None}
  BY <1>2 DEF ClientsOK
<1> QED BY <1>2, <1>3, KeptIsSeen, ClientsStay

LEMMA RecordsKeepSocket ==
    ASSUME NEW c, "ws" \in DOMAIN c
    PROVE  /\ "ws" \in DOMAIN Canceled(c) /\ Canceled(c).ws = c.ws
           /\ "ws" \in DOMAIN Scheduled(c) /\ Scheduled(c).ws = c.ws
           /\ "ws" \in DOMAIN Disconnected(c) /\ Disconnected(c).ws = None
<1>1. "ws" \in DOMAIN Canceled(c) /\ Canceled(c).ws = c.ws
  BY DEF Canceled
<1>2. "ws" \in DOMAIN Scheduled(c) /\ Scheduled(c).ws = c.ws
  BY DEF Scheduled
<1>3. "ws" \in DOMAIN Disconnected(c) /\ Disconnected(c).ws = None
  BY <1>1 DEF Disconnected, Offline
<1> QED BY <1>1, <1>2, <1>3

LEMMA OnCloseSafe ==
    ASSUME NetOK, ClientsOK, NEW b \in Bridges, NEW s \in Sockets, OnClose(b, s)
    PROVE  NetOK' /\ ServerSees /\ ClientsOK'
<1> DEFINE e == [cl[b] EXCEPT !.ws = IF @ = s THEN None ELSE @,
                              !.pairingId = None, !.granted = FALSE]
<1> DEFINE c == Scheduled(Offline(e))
<1>1. net' = [net EXCEPT ![s] = CliEnded(net[s])] /\ net[s].owner = b
  BY DEF OnClose
<1>2. cl' = [cl EXCEPT ![b] = c]
  BY DEF OnClose
<1>3. "ws" \in DOMAIN c /\ c.ws = IF cl[b].ws = s THEN None ELSE cl[b].ws
  <2>1. "ws" \in DOMAIN e /\ e.ws = IF cl[b].ws = s THEN None ELSE cl[b].ws
    BY DEF ClientsOK
  <2> HIDE DEF e
  <2>2. "ws" \in DOMAIN Offline(e) /\ Offline(e).ws = e.ws
    BY <2>1 DEF Offline
  <2> QED BY <2>1, <2>2, RecordsKeepSocket
<1> HIDE DEF c
<1>4. PICK N, C : net \in [Sockets -> N] /\ cl \in [Bridges -> C]
  BY DEF NetOK, ClientsOK
<1>5. /\ net' \in [Sockets -> N \cup {CliEnded(net[s])}]
      /\ \A t \in Sockets : net'[t] = IF t = s THEN CliEnded(net[s]) ELSE net[t]
  BY <1>1, <1>4
<1>6. /\ cl' \in [Bridges -> C \cup {c}]
      /\ \A a \in Bridges : cl'[a] = IF a = b THEN c ELSE cl[a]
  BY <1>2, <1>4
<1>7. /\ ConnOK(CliEnded(net[s]))
      /\ CliEnded(net[s]).cli # "none" => CliEnded(net[s]).owner \in Bridges
      /\ Attached(net[s]) => Attached(CliEnded(net[s])) /\ CliEnded(net[s]).owner = net[s].owner
  BY <1>1, CliEndedOK, UnusedOK DEF NetOK, Same, Attached
<1>8. NetOK' /\ ServerSees
  BY <1>5, <1>7 DEF NetOK, ServerSees
<1>9. ASSUME NEW a \in Bridges
      PROVE  "ws" \in DOMAIN cl'[a] /\ MayHold(a, cl'[a].ws, net')
  <2>1. cl'[a].ws # s
    BY <1>1, <1>3, <1>6, NoneAssumption DEF ClientsOK, MayHold
  <2> QED BY <2>1, <1>3, <1>5, <1>6 DEF ClientsOK, MayHold
<1> QED BY <1>6, <1>8, <1>9 DEF ClientsOK

LEMMA ReloadSafe ==
    ASSUME NetOK, ClientsOK, NEW b \in Bridges, Reload(b)
    PROVE  NetOK' /\ ServerSees /\ ClientsOK'
<1> DEFINE c == NewClient(stored[b])
<1> DEFINE E(s) == CliEnded(Broken(net[s]))
<1>1. /\ cl' = [cl EXCEPT ![b] = c]
      /\ net' = [s \in Sockets |-> IF net[s].owner = b /\ net[s].cli # "closed"
                                  THEN E(s) ELSE net[s]]
  BY DEF Reload
<1>2. "ws" \in DOMAIN c /\ c.ws = None
  BY DEF NewClient
<1> HIDE DEF c
<1>3. PICK C : cl \in [Bridges -> C]
  BY DEF ClientsOK
<1>4. /\ cl' \in [Bridges -> C \cup {c}]
      /\ \A a \in Bridges : cl'[a] = IF a = b THEN c ELSE cl[a]
  BY <1>1, <1>3
<1>5. \A s \in Sockets :
         /\ ConnOK(E(s))
         /\ E(s).cli # "none" => E(s).owner = net[s].owner
         /\ Attached(net[s]) => Attached(E(s)) /\ E(s).owner = net[s].owner
  BY BrokenOK, CliEndedOK, UnusedOK DEF NetOK, Same, Attached
<1> HIDE DEF E
<1>6. \A s \in Sockets : net'[s] = IF net[s].owner = b /\ net[s].cli # "closed"
                                 THEN E(s) ELSE net[s]
  BY <1>1
<1>7. \E N : net' \in [Sockets -> N]
  <2>1. net' \in [Sockets -> {net'[s] : s \in Sockets}]
    BY <1>1
  <2> QED BY <2>1
<1>8. NetOK' /\ ServerSees
  BY <1>5, <1>6, <1>7 DEF NetOK, ServerSees
<1>9. ASSUME NEW a \in Bridges
      PROVE  "ws" \in DOMAIN cl'[a] /\ MayHold(a, cl'[a].ws, net')
  BY <1>2, <1>4, <1>6 DEF ClientsOK, MayHold
<1> QED BY <1>4, <1>8, <1>9 DEF ClientsOK
LEMMA TakesKept ==
    ASSUME NetOK, NEW s \in Sockets PROVE KeptIn(Takes(s))
<1>1. Keeps(net[s], TakenDown(s))
  BY TakenKeeps DEF NetOK
<1> QED BY <1>1, NetKept, OneKept DEF Takes

LEMMA ServerMessageSafe ==
    ASSUME NetOK, ClientsOK, NEW b \in Bridges, NEW s \in Sockets, HandleServerMessage(b, s)
    PROVE  NetOK' /\ ServerSees /\ ClientsOK'
<1>1. "ws" \in DOMAIN cl[b] /\ MayHold(b, cl[b].ws, net)
  BY DEF ClientsOK
<1>2. CASE HandleServerChallenge(b, s)
  <2>1. Hello(b, None).inst = b
    BY DEF Hello
  <2>2. KeptIn(SendOn(Takes(s), b, Hello(b, None)))
    BY <1>1, <2>1, TakesKept, SendOnKept
  <2>3. KeptIn(net') /\ UNCHANGED cl
    BY <1>2, <2>2, TakesKept DEF HandleServerChallenge
  <2> QED BY <2>3, UnchangedSafe
<1>3. CASE ~HandleServerChallenge(b, s)
  <2>1. KeptIn(net')
    BY <1>3, TakesKept DEF HandleServerMessage, HandlePairingRequired, HandlePairingComplete,
       HandleAuthAccepted, HandleAuthRejected
  <2>2. PICK c : cl' = [cl EXCEPT ![b] = c] /\ "ws" \in DOMAIN c /\ c.ws = cl[b].ws
    <3>1. CASE HandlePairingRequired(b, s)
      <4> DEFINE c == [cl[b] EXCEPT !.pairingId = Head(net[s].down).id, !.auth = "pairing-required"]
      <4>1. cl' = [cl EXCEPT ![b] = c]
        BY <3>1 DEF HandlePairingRequired
      <4>2. "ws" \in DOMAIN c /\ c.ws = cl[b].ws
        BY <1>1
      <4> QED BY <4>1, <4>2
    <3>2. CASE HandlePairingComplete(b, s)
      <4> DEFINE c == [cl[b] EXCEPT !.secret = Head(net[s].down).secret, !.granted = TRUE]
      <4>1. cl' = [cl EXCEPT ![b] = c]
        BY <3>2 DEF HandlePairingComplete
      <4>2. "ws" \in DOMAIN c /\ c.ws = cl[b].ws
        BY <1>1
      <4> QED BY <4>1, <4>2
    <3>3. CASE HandleAuthAccepted(b, s)
      <4> DEFINE c == [cl[b] EXCEPT !.pairingId = None, !.granted = TRUE,
                                    !.auth = "authenticated", !.status = "connected"]
      <4>1. cl' = [cl EXCEPT ![b] = c]
        BY <3>3 DEF HandleAuthAccepted
      <4>2. "ws" \in DOMAIN c /\ c.ws = cl[b].ws
        BY <1>1
      <4> QED BY <4>1, <4>2
    <3>4. CASE HandleAuthRejected(b, s)
      <4>1. \/ cl' = [cl EXCEPT ![b] = [cl[b] EXCEPT !.secret = None]]
            \/ cl' = [cl EXCEPT ![b] = [cl[b] EXCEPT !.auth = "rejected"]]
        BY <3>4 DEF HandleAuthRejected
      <4>2. /\ "ws" \in DOMAIN [cl[b] EXCEPT !.secret = None]
            /\ [cl[b] EXCEPT !.secret = None].ws = cl[b].ws
            /\ "ws" \in DOMAIN [cl[b] EXCEPT !.auth = "rejected"]
            /\ [cl[b] EXCEPT !.auth = "rejected"].ws = cl[b].ws
        BY <1>1
      <4> QED BY <4>1, <4>2
    <3> QED BY <1>3, <3>1, <3>2, <3>3, <3>4 DEF HandleServerMessage
  <2> QED BY <2>1, <2>2, ChangedSafe
<1> QED BY <1>2, <1>3

LEMMA ClientStepSafe ==
    ASSUME NetOK, ClientsOK, NEW b \in Bridges, ClientStep(b)
    PROVE  NetOK' /\ ServerSees /\ ClientsOK'
<1>1. "ws" \in DOMAIN cl[b] /\ MayHold(b, cl[b].ws, net)
  BY DEF ClientsOK
<1>2. CASE Start(b)
  <2>1. Connect(b, [cl[b] EXCEPT !.runtime = "running"], net)
    BY <1>2 DEF Start
  <2>2. "ws" \in DOMAIN [cl[b] EXCEPT !.runtime = "running"]
    BY <1>1
  <2> QED BY <2>1, <2>2, NetKept, ConnectSafe
<1>3. CASE Reconnect(b)
  <2>1. Connect(b, Disconnected(cl[b]), NetAfterDisconnect(b))
    BY <1>3 DEF Reconnect
  <2>2. KeptIn(NetAfterDisconnect(b)) /\ "ws" \in DOMAIN Disconnected(cl[b])
    BY <1>1, DisconnectKept, RecordsKeepSocket
  <2> QED BY <2>1, <2>2, ConnectSafe
<1>4. CASE NudgeReconnect(b)
  <2>1. "ws" \in DOMAIN Canceled(cl[b]) /\ Canceled(cl[b]).ws = cl[b].ws
    BY <1>1, RecordsKeepSocket
  <2>2. CASE Connect(b, Canceled(cl[b]), net)
    BY <2>1, <2>2, NetKept, ConnectSafe
  <2>3. CASE cl' = [cl EXCEPT ![b] = Canceled(cl[b])] /\ UNCHANGED net
    <3>1. KeptIn(net')
      BY <2>3, NetKept
    <3> QED BY <2>1, <2>3, <3>1, ChangedSafe
  <2> QED BY <1>4, <2>2, <2>3 DEF NudgeReconnect
<1>5. CASE RetryTimerFires(b)
  <2> DEFINE c == [cl[b] EXCEPT !.live = @ - 1, !.tracked = FALSE]
  <2>1. "ws" \in DOMAIN c /\ c.ws = cl[b].ws
    BY <1>1
  <2>2. \/ cl' = [cl EXCEPT ![b] = c] /\ UNCHANGED net
        \/ Connect(b, c, net)
    BY <1>5 DEF RetryTimerFires
  <2> HIDE DEF c
  <2>3. CASE cl' = [cl EXCEPT ![b] = c] /\ UNCHANGED net
    <3>1. KeptIn(net')
      BY <2>3, NetKept
    <3> QED BY <2>1, <2>3, <3>1, ChangedSafe
  <2>4. CASE Connect(b, c, net)
    BY <2>1, <2>4, NetKept, ConnectSafe
  <2> QED BY <2>2, <2>3, <2>4
<1>6. CASE Shutdown(b)
  <2> DEFINE c == [Disconnected(cl[b]) EXCEPT !.runtime = "down"]
  <2>1. "ws" \in DOMAIN c /\ c.ws = None
    BY <1>1, RecordsKeepSocket
  <2>2. cl' = [cl EXCEPT ![b] = c]
    BY <1>6 DEF Shutdown
  <2>3. KeptIn(net')
    BY <1>1, <1>6, DisconnectKept DEF Shutdown
  <2> HIDE DEF c
  <2> QED BY <2>1, <2>2, <2>3, ChangedSafe
<1>7. CASE Reload(b)
  BY <1>7, ReloadSafe
<1>8. CASE \E s \in Sockets : OnOpen(b, s)
  <2>1. PICK s \in Sockets : OnOpen(b, s)
    BY <1>8
  <2>2. net' = [net EXCEPT ![s] = [net[s] EXCEPT !.cli = "open"]] /\ UNCHANGED cl
    BY <2>1 DEF OnOpen, clientVars
  <2>3. Keeps(net[s], [net[s] EXCEPT !.cli = "open"])
    BY <2>1, EndingKeeps DEF NetOK, OnOpen
  <2>4. KeptIn(net')
    BY <2>2, <2>3, NetKept, OneKept
  <2> QED BY <2>2, <2>4, UnchangedSafe
<1>9. CASE \E s \in Sockets : OnClose(b, s)
  BY <1>9, OnCloseSafe
<1>10. CASE \E s \in Sockets : HandleServerMessage(b, s)
  BY <1>10, ServerMessageSafe
<1>11. CASE \E p \in proofs[b] : ProofReady(b, p)
  <2>1. PICK p : net' = SendOn(net, b, Hello(b, p)) /\ UNCHANGED cl
    BY <1>11 DEF ProofReady
  <2>2. Hello(b, p).inst = b
    BY DEF Hello
  <2>3. KeptIn(net')
    BY <1>1, <2>1, <2>2, NetKept, SendOnKept
  <2> QED BY <2>1, <2>3, UnchangedSafe
<1>12. CASE SecretStored(b)
  <2>1. KeptIn(net')
    BY <1>12, NetKept DEF SecretStored
  <2>2. UNCHANGED cl \/ cl' = [cl EXCEPT ![b] = [cl[b] EXCEPT !.auth = "rejected"]]
    BY <1>12 DEF SecretStored
  <2>3. /\ "ws" \in DOMAIN [cl[b] EXCEPT !.auth = "rejected"]
        /\ [cl[b] EXCEPT !.auth = "rejected"].ws = cl[b].ws
    BY <1>1
  <2> QED BY <2>1, <2>2, <2>3, UnchangedSafe, ChangedSafe
<1>13. CASE \E code \in ShownCodes : ConfirmPairing(b, code)
  <2>1. PICK code : ConfirmPairing(b, code)
    BY <1>13
  <2> DEFINE m == [type |-> "pairing_confirm", inst |-> b, id |-> cl[b].pairingId, code |-> code]
  <2>2. net' = SendOn(net, b, m) /\ m.inst = b
    BY <2>1 DEF ConfirmPairing
  <2>3. cl' = [cl EXCEPT ![b] = [cl[b] EXCEPT !.auth = "authenticating"]]
    BY <2>1 DEF ConfirmPairing
  <2> HIDE DEF m
  <2>4. KeptIn(net')
    BY <1>1, <2>2, NetKept, SendOnKept
  <2>5. /\ "ws" \in DOMAIN [cl[b] EXCEPT !.auth = "authenticating"]
        /\ [cl[b] EXCEPT !.auth = "authenticating"].ws = cl[b].ws
    BY <1>1
  <2> QED BY <2>3, <2>4, <2>5, ChangedSafe
<1> QED BY <1>2, <1>3, <1>4, <1>5, <1>6, <1>7, <1>8, <1>9, <1>10, <1>11, <1>12, <1>13
       DEF ClientStep

LEMMA TransportStepSafe ==
    ASSUME NetOK, ClientsOK, TransportStep
    PROVE  NetOK' /\ ServerSees /\ ClientsOK'
<1>1. PICK s \in Sockets : TransportEvent(s) \/ Breaks(s)
  BY DEF TransportStep
<1>2. ConnOK(net[s])
  BY DEF NetOK
<1>3. PICK d : net' = [net EXCEPT ![s] = d] /\ Keeps(net[s], d)
  <2>1. CASE CliReceivesClose(s)
    <3>1. /\ net' = [net EXCEPT ![s] = [CliClose(net[s]) EXCEPT !.cli = "ending", !.down = <<>>]]
           /\ net[s].cli # "none"
      BY <2>1 DEF CliReceivesClose
    <3> QED BY <1>2, <3>1, EndingKeeps
  <2>2. CASE SrvReceivesClose(s)
    <3>1. net' = [net EXCEPT ![s] = [SrvClose(net[s]) EXCEPT !.srv = "ending", !.up = <<>>]]
      BY <2>2 DEF SrvReceivesClose
    <3> QED BY <1>2, <3>1, EndingKeeps
  <2>3. CASE Breaks(s)
    <3>1. net' = [net EXCEPT ![s] = Broken(net[s])]
      BY <2>3 DEF Breaks
    <3> QED BY <1>2, <3>1, SentKeeps
  <2> QED BY <1>1, <2>1, <2>2, <2>3 DEF TransportEvent
<1>4. KeptIn([net EXCEPT ![s] = d])
  BY <1>3, NetKept, OneKept
<1> QED BY <1>3, <1>4, UnchangedSafe DEF TransportStep, clientVars
-----------------------------------------------------------------------------
(* The steps of the server *)

\* A step that changes the server's own connection, or none.
LEMMA KeptByServer ==
    ASSUME NetOK, ClientsOK, KeptIn(net'), UNCHANGED cl
    PROVE  NetOK' /\ ClientsSee /\ ServerSees /\ ClientsOK'
<1>1. NetOK' /\ ServerSees /\ ClientsSee
  BY KeptIsSeen
<1> QED BY <1>1, UnchangedSafe

LEMMA ReceivedIsOwners ==
    ASSUME NetOK, ServerOK, NEW type, ReceivesFromClient(type), type # "close"
    PROVE  /\ sv.client \in Sockets /\ ConnOK(net[sv.client]) /\ DataUp(sv.client)
           /\ Received.inst = net[sv.client].owner
<1>1. sv.client \in Sockets /\ ConnOK(net[sv.client]) /\ DataUp(sv.client)
  BY DEF ReceivesFromClient, ServerOK, NetOK
<1>2. Received.inst = net[sv.client].owner
  BY <1>1, HeadOwned DEF DataUp, ConnOK, Received
<1> QED BY <1>1, <1>2

LEMMA HandleConnectionSafe ==
    ASSUME NetOK, ServerOK, NEW s \in Sockets, HandleConnection(s)
    PROVE  KeptIn(net') /\ ServerOK'
<1> DEFINE o == [net[s] EXCEPT !.srv = "open"]
<1>1. Keeps(net[s], o) /\ Attached(o) /\ o.owner \in Bridges
  BY ZenonT(30), EndingKeeps DEF Keeps, NetOK, HandleConnection, Attached
<1> HIDE DEF o
<1>2. CASE RejectsSecondClient(s)
  <2>1. net' = [net EXCEPT ![s] = SrvClose(o)] /\ UNCHANGED <<sv, store>>
    BY <1>2 DEF RejectsSecondClient, serverVars, o
  <2>2. Keeps(net[s], SrvClose(o))
    BY <1>1, SentKeeps, KeepsTransitive DEF Keeps
  <2>3. KeptIn(net')
    BY <2>1, <2>2, NetKept, OneKept
  <2> QED BY <2>1, <2>3, KeptIsSeen, ServerStays
<1>3. CASE TakesClient(s)
  <2> DEFINE d == SrvSend(o, ServerChallenge(s))
  <2>1. net' = [net EXCEPT ![s] = d]
    BY <1>3 DEF TakesClient, o
  <2>2. Keeps(o, d)
    BY <1>1, SentKeeps DEF Keeps
  <2> HIDE DEF d
  <2>3. Keeps(net[s], d) /\ Attached(d) /\ d.owner \in Bridges
    BY <1>1, <2>2, KeepsTransitive DEF Keeps
  <2>4. KeptIn([net EXCEPT ![s] = d])
    BY <2>3, NetKept, OneKept
  <2>5. net'[s] = d
    BY <2>1 DEF NetOK
  <2>6. sv' = [sv EXCEPT !.client = s, !.accepted = FALSE, !.hello = None, !.helloTimer = TRUE]
    BY <1>3 DEF TakesClient
  <2>7. /\ {"client", "accepted", "hello", "granted", "helloTimer"} \subseteq DOMAIN sv'
        /\ sv'.client = s /\ sv'.accepted = FALSE
    BY <2>6 DEF ServerOK
  <2>8. ServerOK'
    BY <2>3, <2>5, <2>7 DEF ServerOK, ServedIsPaired
  <2> QED BY <2>1, <2>4, <2>8
<1> QED BY <1>2, <1>3 DEF HandleConnection

\* The server stays on its connection, and neither accepts nor unpairs.
LEMMA StillServed ==
    ASSUME ServerOK, ServerSees, UNCHANGED <<sv, store>> \/ 
              /\ {"client", "accepted", "hello", "granted", "helloTimer"} \subseteq DOMAIN sv'
              /\ sv'.client = sv.client /\ sv'.accepted = sv.accepted
              /\ store'.paired = store.paired \/ ~sv.accepted
              /\ sv'.hello = sv.hello \/ sv'.hello = net[sv.client].owner
    PROVE  ServerOK'
<1>1. CASE UNCHANGED <<sv, store>>
  BY <1>1, ServerStays
<1>2. CASE ~UNCHANGED <<sv, store>>
  <2>1. /\ sv'.client \in Sockets \cup {None} /\ sv'.accepted \in BOOLEAN
        /\ sv'.client # None => Attached(net'[sv'.client]) /\ net'[sv'.client].owner \in Bridges
    BY <1>2 DEF ServerOK, ServerSees
  <2>2. CASE sv.accepted
    <3>1. /\ store.paired # None /\ sv.client \in Sockets /\ sv.client # None
          /\ sv.hello = store.paired.inst /\ net[sv.client].owner = store.paired.inst
          /\ Attached(net[sv.client])
      BY <2>2 DEF ServerOK, ServedIsPaired
    <3>2. net'[sv.client].owner = net[sv.client].owner
      BY <3>1 DEF ServerSees
    <3>3. ServedIsPaired'
      BY <1>2, <2>2, <3>1, <3>2 DEF ServedIsPaired
    <3> QED BY <1>2, <2>1, <3>3 DEF ServerOK
  <2>3. CASE ~sv.accepted
    <3>1. ServedIsPaired'
      BY <1>2, <2>3 DEF ServedIsPaired
    <3> QED BY <1>2, <2>1, <3>1 DEF ServerOK
  <2> QED BY <2>2, <2>3
<1> QED BY <1>1, <1>2
LEMMA HelloSafe ==
    ASSUME StoreInv, NetOK, ServerOK, HandleClientHello
    PROVE  KeptIn(net') /\ ServerOK'
<1> DEFINE v == Greeted(Received)
<1>1. /\ ReceivesFromClient("client_hello")
      /\ UNCHANGED store \/ store.paired = None
  BY DEF HandleClientHello, HelloIncompatible, HelloUnpaired, HelloWithoutProof, HelloBadProof,
     HelloAccepted, CompatibleHello
<1>2. /\ sv.client \in Sockets /\ ConnOK(net[sv.client]) /\ DataUp(sv.client)
      /\ Received.inst = net[sv.client].owner
  BY <1>1, ReceivedIsOwners
<1>3. PICK d : net' = [net EXCEPT ![sv.client] = d] /\ Keeps(net[sv.client], d)
  BY ZenonT(30), <1>2, AnsweredKeeps DEF HandleClientHello, HelloIncompatible, HelloUnpaired,
     HelloWithoutProof, HelloBadProof, HelloAccepted, ClientNet
<1>4. KeptIn([net EXCEPT ![sv.client] = d])
  BY <1>3, NetKept, OneKept
<1>5. KeptIn(net') /\ ServerSees
  BY <1>3, <1>4, KeptIsSeen
<1>6. /\ {"client", "accepted", "hello", "granted", "helloTimer"} \subseteq DOMAIN v
      /\ v.client = sv.client /\ v.accepted = sv.accepted /\ v.hello = net[sv.client].owner
  BY <1>2 DEF Greeted, ServerOK
<1> HIDE DEF v
<1>7. CASE HelloIncompatible
  <2>1. sv' = [sv EXCEPT !.helloTimer = FALSE] /\ UNCHANGED store
    BY <1>7 DEF HelloIncompatible
  <2>2. /\ {"client", "accepted", "hello", "granted", "helloTimer"} \subseteq DOMAIN sv'
        /\ sv'.client = sv.client /\ sv'.accepted = sv.accepted /\ sv'.hello = sv.hello
    BY <2>1 DEF ServerOK
  <2> QED BY <1>5, <2>1, <2>2, StillServed
<1>8. CASE HelloUnpaired \/ HelloWithoutProof \/ HelloBadProof
  <2>1. sv' = v
    BY <1>8 DEF HelloUnpaired, HelloWithoutProof, HelloBadProof, v
  <2>2. store.paired = None => ~sv.accepted
    BY DEF ServerOK, ServedIsPaired
  <2> QED BY <1>1, <1>5, <1>6, <2>1, <2>2, StillServed
<1>9. CASE HelloAccepted
  <2>1. sv' = AcceptedBy(v) /\ UNCHANGED store
    BY <1>9 DEF HelloAccepted, v
  <2>2. store.paired # None /\ store.paired.inst = Received.inst
    BY <1>9 DEF HelloAccepted, VerifyBridgeProof
  <2>3. /\ {"client", "accepted", "hello", "granted", "helloTimer"} \subseteq DOMAIN sv'
        /\ sv'.client = sv.client /\ sv'.accepted = TRUE /\ sv'.hello = net[sv.client].owner
    BY <1>6, <2>1 DEF AcceptedBy
  <2>4. /\ sv.client # None /\ Attached(net'[sv.client])
        /\ net'[sv.client].owner = net[sv.client].owner
        /\ net[sv.client].owner \in Bridges
    BY <1>1, <1>2, <1>5 DEF ReceivesFromClient, ServerOK, ServerSees
  <2>5. ServedIsPaired'
    BY <1>2, <2>1, <2>2, <2>3, <2>4 DEF ServedIsPaired
  <2>6. sv'.client \in Sockets \cup {None} /\ sv'.accepted \in BOOLEAN
    BY <1>2, <2>3
  <2> QED BY <1>5, <2>3, <2>4, <2>5, <2>6 DEF ServerOK
<1> QED BY <1>5, <1>7, <1>8, <1>9 DEF HandleClientHello

LEMMA ConfirmSafe ==
    ASSUME StoreInv, NetOK, ServerOK, HandlePairingConfirm
    PROVE  KeptIn(net') /\ ServerOK'
<1>1. ReceivesFromClient("pairing_confirm")
  BY DEF HandlePairingConfirm, ConfirmMismatch, ConfirmRefused, ConfirmCompletes, MatchingConfirm
<1>2. /\ sv.client \in Sockets /\ ConnOK(net[sv.client]) /\ DataUp(sv.client)
      /\ Received.inst = net[sv.client].owner
  BY <1>1, ReceivedIsOwners
<1>3. PICK d : net' = [net EXCEPT ![sv.client] = d] /\ Keeps(net[sv.client], d)
  BY ZenonT(30), <1>2, AnsweredKeeps DEF HandlePairingConfirm, ConfirmMismatch, ConfirmRefused,
     ConfirmCompletes, ClientNet
<1>4. KeptIn([net EXCEPT ![sv.client] = d])
  BY <1>3, NetKept, OneKept
<1>5. KeptIn(net') /\ ServerSees
  BY <1>3, <1>4, KeptIsSeen
<1>6. CASE ConfirmMismatch
  <2>1. sv' = [sv EXCEPT !.helloTimer = FALSE] /\ UNCHANGED store
    BY <1>6 DEF ConfirmMismatch
  <2>2. /\ {"client", "accepted", "hello", "granted", "helloTimer"} \subseteq DOMAIN sv'
        /\ sv'.client = sv.client /\ sv'.accepted = sv.accepted /\ sv'.hello = sv.hello
    BY <2>1 DEF ServerOK
  <2> QED BY <1>5, <2>1, <2>2, StillServed
<1>7. CASE ConfirmRefused
  <2>1. UNCHANGED sv /\ (store' = store \/ store' = [store EXCEPT !.challenge = None])
    BY <1>7 DEF ConfirmRefused
  <2>2. store'.paired = store.paired
    BY <2>1 DEF StoreInv
  <2>3. {"client", "accepted", "hello", "granted", "helloTimer"} \subseteq DOMAIN sv'
    BY <2>1 DEF ServerOK
  <2> QED BY <1>5, <2>1, <2>2, <2>3, StillServed
<1>8. CASE ConfirmCompletes
  <2>1. store.paired = None /\ ~sv.accepted
    BY <1>8 DEF ConfirmCompletes, ChallengeUsable, StoreInv, ServerOK, ServedIsPaired
  <2>2. CASE UNCHANGED sv
    <3>1. {"client", "accepted", "hello", "granted", "helloTimer"} \subseteq DOMAIN sv'
      BY <2>2 DEF ServerOK
    <3> QED BY <1>5, <2>1, <2>2, <3>1, StillServed
  <2>3. CASE sv' = AcceptedBy(sv)
    <3>1. /\ {"client", "accepted", "hello", "granted", "helloTimer"} \subseteq DOMAIN sv'
          /\ sv'.client = sv.client /\ sv'.accepted = TRUE /\ sv'.hello = sv.hello
      BY <2>3 DEF AcceptedBy, ServerOK
    <3>2. /\ sv.client # None /\ Attached(net'[sv.client])
          /\ net'[sv.client].owner = net[sv.client].owner
          /\ net[sv.client].owner \in Bridges
      BY <1>1, <1>2, <1>5 DEF ReceivesFromClient, ServerOK, ServerSees
    <3>3. sv.hello = net[sv.client].owner
      BY <1>2, <1>8 DEF ConfirmCompletes, MatchingConfirm
    <3>4. PICK k \in Secrets, ok \in PersistResults("pairing") :
             store' = Persist(Paired(net[sv.client].owner, k), ok)
      BY <1>2, <1>8 DEF ConfirmCompletes
    <3>5. store'.paired = [inst |-> net[sv.client].owner, secret |-> k]
      BY <3>4 DEF Persist, Paired, StoreInv
    <3>6. store'.paired # None /\ store'.paired.inst = net[sv.client].owner
      BY <3>2, <3>5, ServerAssumption DEF Pairings
    <3>7. ServedIsPaired'
      BY <3>1, <3>2, <3>3, <3>6 DEF ServedIsPaired
    <3>8. sv'.client \in Sockets \cup {None} /\ sv'.accepted \in BOOLEAN
      BY <1>2, <3>1
    <3> QED BY <1>5, <3>1, <3>2, <3>7, <3>8 DEF ServerOK
  <2> QED BY <1>8, <1>5, <2>2, <2>3 DEF ConfirmCompletes
<1> QED BY <1>5, <1>6, <1>7, <1>8 DEF HandlePairingConfirm
\* A side of the server's that has ended leaves the clients what they hold.
LEMMA ServerEndKeeps ==
    ASSUME NetOK, NEW s \in Sockets, NEW c \in {net[s], Broken(net[s])}
    PROVE  /\ ConnOK(SrvEnded(c))
           /\ SrvEnded(c).cli # "none" => SrvEnded(c).owner \in Bridges
           /\ net[s].cli # "closed" =>
                 SrvEnded(c).cli # "closed" /\ SrvEnded(c).owner = net[s].owner
<1>1. ConnOK(c) /\ c.owner = net[s].owner /\ c.cli = net[s].cli
  BY BrokenOK DEF NetOK, Same
<1>2. IF c.cli = "closed" THEN SrvEnded(c) = Unused ELSE Same(c, SrvEnded(c), c.cli, "closed")
  BY <1>1, SrvEndedOK
<1> QED BY <1>1, <1>2, UnusedOK DEF Same, NetOK

LEMMA HandleCloseSafe ==
    ASSUME NetOK, ServerOK, NEW s \in Sockets, HandleClose(s)
    PROVE  NetOK' /\ ClientsSee /\ ServerOK'
<1> DEFINE d == SrvEnded(net[s])
<1>1. net' = [net EXCEPT ![s] = d] /\ UNCHANGED store
  BY DEF HandleClose
<1>2. /\ ConnOK(d) /\ (d.cli # "none" => d.owner \in Bridges)
      /\ net[s].cli # "closed" => d.cli # "closed" /\ d.owner = net[s].owner
  BY ServerEndKeeps
<1> HIDE DEF d
<1>3. PICK N : net \in [Sockets -> N]
  BY DEF NetOK
<1>4. /\ net' \in [Sockets -> N \cup {d}]
      /\ \A t \in Sockets : net'[t] = IF t = s THEN d ELSE net[t]
  BY <1>1, <1>3
<1>5. NetOK' /\ ClientsSee
  BY <1>2, <1>4 DEF NetOK, ClientsSee
<1>6. CASE sv.client = s
  <2>1. sv' = NoClient
    BY <1>6 DEF HandleClose, ClearClientState
  <2>2. ServerOK'
    BY <2>1 DEF NoClient, ServerOK, ServedIsPaired
  <2> QED BY <1>5, <2>2
<1>7. CASE sv.client # s
  <2>1. UNCHANGED <<sv, store>>
    BY <1>1, <1>7 DEF HandleClose
  <2>2. sv.client # None => net'[sv.client] = net[sv.client]
    BY <1>4, <1>7 DEF ServerOK
  <2>3. ServedIsPaired'
    BY <2>1, <2>2 DEF ServerOK, ServedIsPaired
  <2> QED BY <1>5, <2>1, <2>2, <2>3 DEF ServerOK
<1> QED BY <1>6, <1>7

LEMMA RestartSafe ==
    ASSUME NetOK, ServerRestart PROVE NetOK' /\ ClientsSee /\ ServerOK'
<1> DEFINE E(s) == SrvEnded(Broken(net[s]))
<1>1. net' = [s \in Sockets |-> IF net[s].srv \in {"open", "closing", "ending"}
                              THEN E(s) ELSE net[s]]
  BY DEF ServerRestart
<1>2. \A s \in Sockets :
         /\ ConnOK(E(s)) /\ (E(s).cli # "none" => E(s).owner \in Bridges)
         /\ net[s].cli # "closed" => E(s).cli # "closed" /\ E(s).owner = net[s].owner
  BY ServerEndKeeps
<1> HIDE DEF E
<1>3. \A s \in Sockets : net'[s] \in {E(s), net[s]}
  BY <1>1
<1>4. net' \in [Sockets -> {net'[s] : s \in Sockets}]
  BY <1>1
<1>5. NetOK' /\ ClientsSee
  BY <1>2, <1>3, <1>4 DEF NetOK, ClientsSee
<1>6. ServerOK'
  BY DEF ServerRestart, NoClient, ServerOK, ServedIsPaired
<1> QED BY <1>5, <1>6

LEMMA ServerStepSafe ==
    ASSUME "reset" \notin PersistFailures, StoreInv, NetOK, ClientsOK, ServerOK, ServerStep
    PROVE  NetOK' /\ ClientsOK' /\ ServerOK'
<1>1. UNCHANGED cl
  BY DEF ServerStep, clientVars
<1>2. CASE KeptIn(net') /\ ServerOK'
  BY <1>1, <1>2, UnchangedSafe
<1>3. CASE NetOK' /\ ClientsSee /\ ServerOK'
  <2>1. \E C : cl' \in [Bridges -> C]
    BY <1>1 DEF ClientsOK
  <2>2. \A b \in Bridges : "ws" \in DOMAIN cl'[b] /\ cl'[b].ws \in {cl[b].ws, None}
    BY <1>1 DEF ClientsOK
  <2> QED BY <1>3, <2>1, <2>2, ClientsStay
<1>4. CASE \E s \in Sockets : HandleConnection(s)
  BY <1>2, <1>4, HandleConnectionSafe
<1>5. CASE HelloTimerFires
  <2>1. /\ net' = [net EXCEPT ![sv.client] = SrvClose(net[sv.client])]
        /\ sv' = [sv EXCEPT !.helloTimer = FALSE] /\ UNCHANGED store
    BY <1>5 DEF HelloTimerFires, HelloTimeout, Rejecting
  <2>2. sv.client \in Sockets => Keeps(net[sv.client], SrvClose(net[sv.client]))
    BY SentKeeps DEF NetOK
  <2>3. KeptIn([net EXCEPT ![sv.client] = SrvClose(net[sv.client])])
    BY <2>2, NetKept, OneKept
  <2>4. /\ {"client", "accepted", "hello", "granted", "helloTimer"} \subseteq DOMAIN sv'
        /\ sv'.client = sv.client /\ sv'.accepted = sv.accepted /\ sv'.hello = sv.hello
    BY <2>1 DEF ServerOK
  <2>5. KeptIn(net')
    BY <2>1, <2>3
  <2> QED BY <1>2, <2>1, <2>4, <2>5, KeptIsSeen, StillServed
<1>6. CASE \E s \in Sockets : IgnoresMessage(s)
  <2>1. PICK s \in Sockets : IgnoresMessage(s)
    BY <1>6
  <2>2. Keeps(net[s], TakenUp(s))
    BY <2>1, TakenKeeps DEF IgnoresMessage, DataUp, NetOK
  <2>3. KeptIn([net EXCEPT ![s] = TakenUp(s)])
    BY <2>2, NetKept, OneKept
  <2>4. KeptIn(net') /\ UNCHANGED <<sv, store>>
    BY <2>1, <2>3 DEF IgnoresMessage, serverVars
  <2> QED BY <1>2, <2>4, KeptIsSeen, ServerStays
<1>7. CASE HandleClientHello
  BY <1>2, <1>7, HelloSafe
<1>8. CASE HandlePairingConfirm
  BY <1>2, <1>8, ConfirmSafe
<1>9. CASE \E s \in Sockets : HandleClose(s)
  BY <1>3, <1>9, HandleCloseSafe
<1>10. CASE ResetPairing
  <2>1. sv' = NoClient
    BY <1>10 DEF ResetPairing, PersistResults, ClearClientState
  <2>2. ServerOK'
    BY <2>1 DEF NoClient, ServerOK, ServedIsPaired
  <2>3. CASE net' = net
    BY <1>2, <2>2, <2>3, NetKept
  <2>4. CASE net' = [net EXCEPT ![sv.client] = SrvClose(net[sv.client])]
    <3>1. sv.client \in Sockets => Keeps(net[sv.client], SrvClose(net[sv.client]))
      BY SentKeeps DEF NetOK
    <3>2. KeptIn([net EXCEPT ![sv.client] = SrvClose(net[sv.client])])
      BY <3>1, NetKept, OneKept
    <3> QED BY <1>2, <2>2, <2>4, <3>2
  <2> QED BY <1>10, <2>3, <2>4 DEF ResetPairing
<1>11. CASE ChallengeExpires
  <2>1. store' = [store EXCEPT !.challenge = [store.challenge EXCEPT !.expired = TRUE]]
        /\ UNCHANGED <<sv, net>>
    BY <1>11 DEF ChallengeExpires
  <2>2. store'.paired = store.paired
    BY <2>1 DEF StoreInv
  <2>3. KeptIn(net')
    BY <2>1, NetKept
  <2>4. {"client", "accepted", "hello", "granted", "helloTimer"} \subseteq DOMAIN sv'
    BY <2>1 DEF ServerOK
  <2> QED BY <1>2, <2>1, <2>2, <2>3, <2>4, KeptIsSeen, StillServed
<1>12. CASE ServerRestart
  BY <1>3, <1>12, RestartSafe
<1> QED BY <1>4, <1>5, <1>6, <1>7, <1>8, <1>9, <1>10, <1>11, <1>12 DEF ServerStep, HandleMessage

LEMMA SessionInvInit == Init => SessionInv
<1> SUFFICES ASSUME Init PROVE SessionInv
  OBVIOUS
<1>1. StoreInv /\ ServerOK
  BY DEF Init, ServerInit, NoClient, StoreInv, ServerOK, ServedIsPaired
<1>2. NetOK
  <2>1. net \in [Sockets -> {Unused}]
    BY DEF Init
  <2> QED BY <2>1, UnusedOK DEF NetOK
<1>3. ClientsOK
  <2>1. cl \in [Bridges -> {NewClient(None)}]
    BY DEF Init, ClientInit
  <2>2. "ws" \in DOMAIN NewClient(None) /\ NewClient(None).ws = None
    BY DEF NewClient
  <2> QED BY <2>1, <2>2 DEF ClientsOK, MayHold
<1> QED BY <1>1, <1>2, <1>3 DEF SessionInv

LEMMA SessionInvNext ==
    ASSUME "reset" \notin PersistFailures PROVE SessionInv /\ [Next]_vars => SessionInv'
<1> SUFFICES ASSUME SessionInv, [Next]_vars PROVE SessionInv'
  OBVIOUS
<1> USE DEF SessionInv
<1>1. StoreInv'
  BY StoreKept DEF OneWriteIsSafe
<1>2. CASE ServerStep
  BY <1>1, <1>2, ServerStepSafe
<1>3. CASE \E b \in Bridges : ClientStep(b)
  <2>1. NetOK' /\ ServerSees /\ ClientsOK'
    BY <1>3, ClientStepSafe
  <2>2. UNCHANGED <<sv, store>>
    BY <1>3 DEF ClientStep, serverVars
  <2> QED BY <1>1, <2>1, <2>2, ServerStays
<1>4. CASE TransportStep
  <2>1. NetOK' /\ ServerSees /\ ClientsOK'
    BY <1>4, TransportStepSafe
  <2>2. UNCHANGED <<sv, store>>
    BY <1>4 DEF TransportStep, serverVars
  <2> QED BY <1>1, <2>1, <2>2, ServerStays
<1>5. CASE UNCHANGED vars
  <2>1. KeptIn(net') /\ UNCHANGED <<cl, sv, store>>
    BY <1>5, NetKept DEF vars
  <2> QED BY <1>1, <2>1, KeptIsSeen, UnchangedSafe, ServerStays
<1> QED BY <1>2, <1>3, <1>4, <1>5 DEF Next

\* As long as the write that resets a pairing cannot fail, the server serves
\* only the installation it is paired with, on a connection of its own: no
\* hello or code that comes late, on a replaced socket or after a reset is
\* taken for another installation's.
THEOREM AlwaysServedPaired ==
    ASSUME "reset" \notin PersistFailures PROVE Spec => []ServedIsPaired
<1>1. SessionInv => ServedIsPaired
  BY DEF SessionInv, ServerOK
<1> QED BY <1>1, SessionInvInit, SessionInvNext, PTL DEF Spec

-----------------------------------------------------------------------------
(* Types: what each side does to a connection, the server's handlers to its *)
(* fields and the client's to its own keeps them what they are.             *)

Conn ==
    [owner : Bridges \cup {None}, cli : CliStates, srv : SrvStates,
     up : Seq(UpMessages), down : Seq(DownMessages), lost : BOOLEAN]

ServerState ==
    [client : Sockets \cup {None}, accepted : BOOLEAN, hello : Bridges \cup {None},
     granted : BOOLEAN, helloTimer : BOOLEAN]

StoreState ==
    [paired : Pairings \cup {None}, challenge : Challenges \cup {None},
     disk : Pairings \cup {None}]

ClientState ==
    [runtime : RuntimeStates, ws : Sockets \cup {None}, status : Statuses,
     auth : AuthStatuses, granted : BOOLEAN, pairingId : PairingIds \cup {None},
     secret : MaybeSecret, shutting : BOOLEAN, live : 0..MaxTimers, tracked : BOOLEAN]

Write == [secret : MaybeSecret, rejects : BOOLEAN]

\* A timer that is tracked is live.
TimersTracked == \A b \in Bridges : cl[b].tracked => cl[b].live > 0

ConnsTyped  == net \in [Sockets -> Conn]
ServerTyped == sv \in ServerState /\ store \in StoreState
ClientTyped ==
    /\ cl \in [Bridges -> ClientState] /\ TimersTracked
    /\ proofs \in [Bridges -> SUBSET Proofs]
    /\ writes \in [Bridges -> Seq(Write)]
    /\ stored \in [Bridges -> MaybeSecret]

AllTyped == ConnsTyped /\ ServerTyped /\ ClientTyped /\ left \in 0..MaxDisturbances

LEMMA AllTypedIsTypeOK == AllTyped => TypeOK
  BY DEF AllTyped, ConnsTyped, ServerTyped, ClientTyped, TypeOK, NetTypeOK, ServerTypeOK,
     ClientTypeOK, Conn, ServerState, StoreState, ClientState, Write

\* Messages are told apart by their types.
LEMMA UpTypes ==
    ASSUME NEW m \in UpMessages
    PROVE  /\ m.type = "client_hello" => m.inst \in Bridges /\ m.proof \in Proofs \cup {None}
           /\ m.type = "pairing_confirm" =>
                 m.inst \in Bridges /\ m.id \in PairingIds /\ m.code \in PairingIds \cup {WrongCode}
  BY DEF UpMessages, HelloMessages, ConfirmMessages, CloseFrame

LEMMA DownTypes ==
    ASSUME NEW m \in DownMessages
    PROVE  /\ m.type = "server_challenge" => m.nonce \in Sockets
           /\ m.type = "pairing_required" => m.id \in PairingIds
           /\ m.type = "pairing_complete" => m.secret \in Secrets
           /\ m.type = "auth_rejected" => m.reset \in BOOLEAN
  BY DEF DownMessages, ServerChallenge, PairingRequired, PairingComplete, AuthAccepted,
     AuthRejected, CloseFrame

LEMMA MessagesTyped ==
    /\ CloseFrame \in UpMessages /\ CloseFrame \in DownMessages
    /\ \A b \in Bridges, p \in Proofs \cup {None} : Hello(b, p) \in UpMessages
    /\ \A b \in Bridges, id \in PairingIds, code \in PairingIds \cup {WrongCode} :
          [type |-> "pairing_confirm", inst |-> b, id |-> id, code |-> code] \in UpMessages
    /\ \A s \in Sockets : ServerChallenge(s) \in DownMessages
    /\ \A id \in PairingIds : PairingRequired(id) \in DownMessages
    /\ \A k \in Secrets : PairingComplete(k) \in DownMessages
    /\ \A r \in BOOLEAN : AuthRejected(r) \in DownMessages
    /\ AuthAccepted \in DownMessages
<1>1. /\ CloseFrame \in UpMessages
      /\ \A b \in Bridges, p \in Proofs \cup {None} : Hello(b, p) \in UpMessages
      /\ \A b \in Bridges, id \in PairingIds, code \in PairingIds \cup {WrongCode} :
            [type |-> "pairing_confirm", inst |-> b, id |-> id, code |-> code] \in UpMessages
  BY DEF UpMessages, HelloMessages, ConfirmMessages, Hello
<1>2. /\ CloseFrame \in DownMessages /\ AuthAccepted \in DownMessages
      /\ \A s \in Sockets : ServerChallenge(s) \in DownMessages
      /\ \A id \in PairingIds : PairingRequired(id) \in DownMessages
      /\ \A k \in Secrets : PairingComplete(k) \in DownMessages
      /\ \A r \in BOOLEAN : AuthRejected(r) \in DownMessages
  BY DEF DownMessages
<1> QED BY <1>1, <1>2

LEMMA ConnKept ==
    ASSUME NEW c \in Conn
    PROVE  /\ \A m \in UpMessages : CliSend(c, m) \in Conn
           /\ \A m \in DownMessages : SrvSend(c, m) \in Conn
           /\ CliClose(c) \in Conn /\ SrvClose(c) \in Conn /\ Broken(c) \in Conn
           /\ CliEnded(c) \in Conn /\ SrvEnded(c) \in Conn
           /\ c.up # <<>> => [c EXCEPT !.up = Tail(@)] \in Conn
           /\ c.down # <<>> => [c EXCEPT !.down = Tail(@)] \in Conn
           /\ [c EXCEPT !.srv = "open"] \in Conn /\ [c EXCEPT !.cli = "open"] \in Conn
           /\ [c EXCEPT !.cli = "ending", !.down = <<>>] \in Conn
           /\ [c EXCEPT !.srv = "ending", !.up = <<>>] \in Conn
<1> DEFINE U == Seq(UpMessages)
           D == Seq(DownMessages)
<1>1. /\ c.up \in U /\ c.down \in D /\ <<>> \in U /\ <<>> \in D
      /\ \A m \in UpMessages : Append(c.up, m) \in U
      /\ \A m \in DownMessages : Append(c.down, m) \in D
      /\ c.up # <<>> => Tail(c.up) \in U
      /\ c.down # <<>> => Tail(c.down) \in D
      /\ Append(c.up, CloseFrame) \in U /\ Append(c.down, CloseFrame) \in D
  BY MessagesTyped DEF Conn
<1>2. OnlyClose(c.down) \in D
  <2>1. <<CloseFrame>> \in D
    BY MessagesTyped
  <2> QED BY <1>1, <2>1 DEF OnlyClose
<1>3. c \in [owner : Bridges \cup {None}, cli : CliStates, srv : SrvStates, up : U, down : D,
             lost : BOOLEAN]
  BY DEF Conn
<1>4. Unused \in Conn
  BY <1>1 DEF Unused, Conn, CliStates, SrvStates
<1> HIDE DEF U, D
<1>5. \A m \in UpMessages : CliSend(c, m) \in Conn
  BY <1>1, <1>3 DEF CliSend, Conn, U, D
<1>6. \A m \in DownMessages : SrvSend(c, m) \in Conn
  BY <1>1, <1>3 DEF SrvSend, Conn, U, D
<1>7. CliClose(c) \in Conn
  <2>1. CASE c.cli = "open"
    <3> DEFINE sent == IF c.lost THEN c.up ELSE Append(c.up, CloseFrame)
    <3>1. sent \in U
      BY <1>1
    <3>2. CliClose(c) = [c EXCEPT !.cli = "closing", !.down = OnlyClose(c.down), !.up = sent]
      BY <1>3, <2>1 DEF CliClose
    <3> HIDE DEF sent
    <3> QED BY <1>2, <1>3, <3>1, <3>2 DEF Conn, CliStates, U, D
  <2>2. CASE c.cli = "connecting"
    <3>1. CliClose(c) = [c EXCEPT !.cli = "closing", !.lost = TRUE, !.up = <<>>, !.down = <<>>]
      BY <2>2 DEF CliClose
    <3> QED BY <1>1, <1>3, <3>1 DEF Conn, CliStates, U, D
  <2>3. CASE c.cli \notin {"open", "connecting"}
    BY <2>3 DEF CliClose
  <2> QED BY <2>1, <2>2, <2>3
<1>8. SrvClose(c) \in Conn
  <2> DEFINE rest == IF c.lost THEN c.down ELSE Append(c.down, CloseFrame)
  <2>1. rest \in D
    BY <1>1
  <2>2. SrvClose(c) = IF c.srv = "open" THEN [c EXCEPT !.srv = "closing", !.down = rest] ELSE c
    BY <1>3 DEF SrvClose
  <2> HIDE DEF rest
  <2> QED BY <1>3, <2>1, <2>2 DEF Conn, SrvStates, U, D
<1>9. Broken(c) \in Conn
  BY <1>1, <1>3 DEF Broken, Conn, U, D
<1>10. CliEnded(c) \in Conn
  <2>1. [c EXCEPT !.cli = "closed", !.down = <<>>] \in Conn
    BY <1>1, <1>3 DEF Conn, CliStates, U, D
  <2> QED BY <1>4, <2>1 DEF CliEnded
<1>11. SrvEnded(c) \in Conn
  <2>1. [c EXCEPT !.srv = "closed", !.up = <<>>] \in Conn
    BY <1>1, <1>3 DEF Conn, SrvStates, U, D
  <2> QED BY <1>4, <2>1 DEF SrvEnded
<1>12. /\ c.up # <<>> => [c EXCEPT !.up = Tail(@)] \in Conn
       /\ c.down # <<>> => [c EXCEPT !.down = Tail(@)] \in Conn
       /\ [c EXCEPT !.srv = "open"] \in Conn /\ [c EXCEPT !.cli = "open"] \in Conn
       /\ [c EXCEPT !.cli = "ending", !.down = <<>>] \in Conn
       /\ [c EXCEPT !.srv = "ending", !.up = <<>>] \in Conn
  BY <1>1, <1>3 DEF Conn, CliStates, SrvStates, U, D
<1> QED BY <1>5, <1>6, <1>7, <1>8, <1>9, <1>10, <1>11, <1>12

LEMMA OneConnKept ==
    ASSUME NEW n \in [Sockets -> Conn], NEW s, NEW d, s \in Sockets => d \in Conn
    PROVE  [n EXCEPT ![s] = d] \in [Sockets -> Conn]
  OBVIOUS

\* What the server makes of a message it has taken up.
LEMMA AnswersTyped ==
    ASSUME NEW s \in Sockets, ConnsTyped, net[s].up # <<>>
    PROVE  /\ TakenUp(s) \in Conn /\ Rejecting(TakenUp(s)) \in Conn
           /\ \A r \in BOOLEAN : RejectingAuthentication(TakenUp(s), r) \in Conn
           /\ \A m \in DownMessages : SrvSend(TakenUp(s), m) \in Conn
           /\ \A m \in DownMessages : Accepting(SrvSend(TakenUp(s), m)) \in Conn
           /\ Accepting(TakenUp(s)) \in Conn
<1>1. TakenUp(s) \in Conn
  BY ConnKept DEF TakenUp, ConnsTyped
<1>2. \A m \in DownMessages : SrvSend(TakenUp(s), m) \in Conn
  BY <1>1, ConnKept
<1> QED BY <1>1, <1>2, ConnKept, MessagesTyped DEF Rejecting, RejectingAuthentication, Accepting

LEMMA StoreStateKept ==
    ASSUME NEW st \in StoreState
    PROVE  /\ [st EXCEPT !.challenge = None] \in StoreState
           /\ [st EXCEPT !.paired = None, !.challenge = None] \in StoreState
           /\ [st EXCEPT !.paired = st.disk, !.challenge = None] \in StoreState
           /\ \A ok \in BOOLEAN : Persist(st, ok) \in StoreState
           /\ \A ch \in Challenges : [st EXCEPT !.challenge = ch] \in StoreState
           /\ \A p \in Pairings : [st EXCEPT !.paired = p, !.challenge = None] \in StoreState
  BY DEF StoreState, Persist

\* The challenge after a hello is one for the user to type.
LEMMA ChallengeTyped ==
    ASSUME store \in StoreState, NEW b \in Bridges, NEW fresh \in PairingIds
    PROVE  /\ EnsurePairingChallenge(b, fresh) \in StoreState
           /\ EnsurePairingChallenge(b, fresh).challenge.id \in PairingIds
<1> DEFINE ch == [id |-> fresh, inst |-> b, expired |-> FALSE]
<1>1. ch \in Challenges /\ ch.id \in PairingIds
  BY DEF Challenges
<1> HIDE DEF ch
<1>2. CASE NeedsNewChallenge(b)
  <2>1. EnsurePairingChallenge(b, fresh) = [store EXCEPT !.challenge = ch]
    BY <1>2 DEF EnsurePairingChallenge, ch
  <2>2. [store EXCEPT !.challenge = ch].challenge = ch
    BY DEF StoreState
  <2> QED BY <1>1, <2>1, <2>2, StoreStateKept
<1>3. CASE ~NeedsNewChallenge(b)
  <2>1. store.challenge \in Challenges
    BY <1>3 DEF NeedsNewChallenge, StoreState
  <2> QED BY <1>3, <2>1 DEF EnsurePairingChallenge, Challenges
<1> QED BY <1>2, <1>3

LEMMA ReceivedTyped ==
    ASSUME ConnsTyped, ServerTyped, NEW type, ReceivesFromClient(type)
    PROVE  /\ sv.client \in Sockets /\ net[sv.client].up # <<>>
           /\ Received \in UpMessages /\ Received.type = type
<1>1. sv.client \in Sockets /\ net[sv.client].up # <<>> /\ Received.type = type
  BY DEF ReceivesFromClient, DataUp, Received, ServerTyped, ServerState
<1>2. net[sv.client].up \in Seq(UpMessages)
  BY <1>1 DEF ConnsTyped, Conn
<1>3. Received \in UpMessages
  BY <1>1, <1>2 DEF Received
<1> QED BY <1>1, <1>3

LEMMA HelloTyped ==
    ASSUME ConnsTyped, ServerTyped, HandleClientHello
    PROVE  ConnsTyped' /\ ServerTyped'
<1>1. /\ sv.client \in Sockets /\ net[sv.client].up # <<>>
      /\ Received \in UpMessages /\ Received.type = "client_hello"
  BY ReceivedTyped DEF HandleClientHello, HelloIncompatible, HelloUnpaired, HelloWithoutProof,
     HelloBadProof, HelloAccepted, CompatibleHello
<1>2. Received.inst \in Bridges
  BY <1>1, UpTypes
<1>3. /\ [sv EXCEPT !.helloTimer = FALSE] \in ServerState
      /\ Greeted(Received) \in ServerState /\ AcceptedBy(Greeted(Received)) \in ServerState
  BY <1>2 DEF ServerTyped, ServerState, Greeted, AcceptedBy
<1>4. ServerTyped'
  <2>1. CASE HelloUnpaired
    <3>1. \E fresh \in PairingIds : store' = EnsurePairingChallenge(Received.inst, fresh)
      BY <2>1 DEF HelloUnpaired
    <3> QED BY <1>2, <1>3, <2>1, <3>1, ChallengeTyped DEF HelloUnpaired, ServerTyped
  <2>2. CASE ~HelloUnpaired
    <3>1. UNCHANGED store /\ sv' \in ServerState
      BY <1>3, <2>2 DEF HandleClientHello, HelloIncompatible, HelloWithoutProof, HelloBadProof,
         HelloAccepted
    <3> QED BY <3>1 DEF ServerTyped
  <2> QED BY <2>1, <2>2
<1>5. PICK d \in Conn : net' = [net EXCEPT ![sv.client] = d]
  <2>1. CASE HelloUnpaired
    <3>1. store'.challenge.id \in PairingIds
      BY <1>2, <2>1, ChallengeTyped DEF HelloUnpaired, ServerTyped
    <3>2. PairingRequired(store'.challenge.id) \in DownMessages
      BY <3>1, MessagesTyped
    <3> QED BY <1>1, <2>1, <3>2, AnswersTyped DEF HelloUnpaired, ClientNet
  <2>2. CASE ~HelloUnpaired
    BY <1>1, <2>2, AnswersTyped DEF HandleClientHello, HelloIncompatible, HelloWithoutProof,
       HelloBadProof, HelloAccepted, ClientNet
  <2> QED BY <2>1, <2>2
<1>6. ConnsTyped'
  BY <1>5, OneConnKept DEF ConnsTyped
<1> QED BY <1>4, <1>6

LEMMA ConfirmTyped ==
    ASSUME ConnsTyped, ServerTyped, HandlePairingConfirm
    PROVE  ConnsTyped' /\ ServerTyped'
<1>1. /\ sv.client \in Sockets /\ net[sv.client].up # <<>>
      /\ Received \in UpMessages /\ Received.type = "pairing_confirm"
  BY ReceivedTyped DEF HandlePairingConfirm, ConfirmMismatch, ConfirmRefused, ConfirmCompletes,
     MatchingConfirm
<1>2. Received.inst \in Bridges
  BY <1>1, UpTypes
<1>3. [sv EXCEPT !.helloTimer = FALSE] \in ServerState /\ AcceptedBy(sv) \in ServerState
  BY DEF ServerTyped, ServerState, AcceptedBy
<1>4. CASE ConfirmMismatch
  BY <1>1, <1>3, <1>4, AnswersTyped, OneConnKept DEF ConfirmMismatch, ClientNet, ConnsTyped,
     ServerTyped
<1>5. CASE ConfirmRefused
  <2>1. ServerTyped'
    BY <1>5, StoreStateKept DEF ConfirmRefused, ServerTyped
  <2>2. ConnsTyped'
    BY <1>1, <1>5, AnswersTyped, MessagesTyped, OneConnKept DEF ConfirmRefused, ClientNet,
       ConnsTyped
  <2> QED BY <2>1, <2>2
<1>6. CASE ConfirmCompletes
  <2>1. PICK k \in Secrets, ok \in PersistResults("pairing") :
           /\ store' = Persist(Paired(Received.inst, k), ok)
           /\ \/ /\ sv' = AcceptedBy(sv)
                 /\ ClientNet(Accepting(SrvSend(TakenUp(sv.client), PairingComplete(k))))
              \/ /\ ClientNet(SrvSend(TakenUp(sv.client), AuthRejected(FALSE)))
                 /\ UNCHANGED sv
    BY <1>6 DEF ConfirmCompletes
  <2>2. ok \in BOOLEAN
    BY DEF PersistResults
  <2>3. [inst |-> Received.inst, secret |-> k] \in Pairings
    BY <1>2 DEF Pairings
  <2>4. Paired(Received.inst, k) \in StoreState
    BY <2>3, StoreStateKept DEF Paired, ServerTyped
  <2>5. ServerTyped'
    BY <1>3, <2>1, <2>2, <2>4, StoreStateKept DEF ServerTyped
  <2>6. PICK d \in Conn : net' = [net EXCEPT ![sv.client] = d]
    BY <1>1, <2>1, AnswersTyped, MessagesTyped DEF ClientNet
  <2> QED BY <2>5, <2>6, OneConnKept DEF ConnsTyped
<1> QED BY <1>4, <1>5, <1>6 DEF HandlePairingConfirm

LEMMA ServerStepTyped ==
    ASSUME ConnsTyped, ServerTyped, ServerStep
    PROVE  ConnsTyped' /\ ServerTyped'
<1>1. NoClient \in ServerState
  BY DEF NoClient, ServerState
<1>2. CASE \E s \in Sockets : HandleConnection(s)
  <2>1. PICK s \in Sockets : HandleConnection(s)
    BY <1>2
  <2> DEFINE c == [net[s] EXCEPT !.srv = "open"]
  <2>2. c \in Conn
    BY ConnKept DEF ConnsTyped
  <2> HIDE DEF c
  <2>3. SrvClose(c) \in Conn /\ SrvSend(c, ServerChallenge(s)) \in Conn
    BY <2>2, ConnKept, MessagesTyped
  <2>4. PICK d \in Conn : net' = [net EXCEPT ![s] = d]
    BY <2>1, <2>3 DEF HandleConnection, RejectsSecondClient, TakesClient, c
  <2>5. ConnsTyped'
    BY <2>4, OneConnKept DEF ConnsTyped
  <2>6. ServerTyped'
    BY <2>1 DEF HandleConnection, RejectsSecondClient, TakesClient, serverVars, ServerTyped,
       ServerState
  <2> QED BY <2>5, <2>6
<1>3. CASE HelloTimerFires
  <2>1. sv.client \in Sockets => Rejecting(net[sv.client]) \in Conn
    BY ConnKept DEF ConnsTyped, Rejecting
  <2>2. /\ net' = [net EXCEPT ![sv.client] = Rejecting(net[sv.client])]
        /\ sv' = [sv EXCEPT !.helloTimer = FALSE] /\ UNCHANGED store
    BY <1>3 DEF HelloTimerFires, HelloTimeout
  <2>3. ConnsTyped'
    BY <2>1, <2>2, OneConnKept DEF ConnsTyped
  <2>4. ServerTyped'
    BY <2>2 DEF ServerTyped, ServerState
  <2> QED BY <2>3, <2>4
<1>4. CASE \E s \in Sockets : IgnoresMessage(s)
  <2>1. PICK s \in Sockets : IgnoresMessage(s)
    BY <1>4
  <2>2. TakenUp(s) \in Conn
    BY <2>1, AnswersTyped DEF IgnoresMessage, DataUp
  <2> QED BY <2>1, <2>2, OneConnKept DEF IgnoresMessage, serverVars, ConnsTyped, ServerTyped
<1>5. CASE HandleClientHello
  BY <1>5, HelloTyped
<1>6. CASE HandlePairingConfirm
  BY <1>6, ConfirmTyped
<1>7. CASE \E s \in Sockets : HandleClose(s)
  <2>1. PICK s \in Sockets : HandleClose(s)
    BY <1>7
  <2>2. SrvEnded(net[s]) \in Conn
    BY ConnKept DEF ConnsTyped
  <2> QED BY <1>1, <2>1, <2>2, OneConnKept DEF HandleClose, ClearClientState, ConnsTyped,
     ServerTyped
<1>8. CASE ResetPairing
  <2>1. PICK ok \in PersistResults("reset") :
           /\ store' = Persist([store EXCEPT !.paired = None, !.challenge = None], ok)
           /\ \/ /\ sv' = NoClient
                 /\ net' = IF sv.client = None THEN net
                           ELSE [net EXCEPT ![sv.client] = SrvClose(net[sv.client])]
              \/ UNCHANGED <<sv, net>>
    BY <1>8 DEF ResetPairing, ClearClientState
  <2>2. ok \in BOOLEAN
    BY DEF PersistResults
  <2>3. store' \in StoreState
    <3>1. [store EXCEPT !.paired = None, !.challenge = None] \in StoreState
      BY StoreStateKept DEF ServerTyped
    <3> QED BY <2>1, <2>2, <3>1, StoreStateKept
  <2>4. sv.client \in Sockets => SrvClose(net[sv.client]) \in Conn
    BY ConnKept DEF ConnsTyped
  <2>5. [net EXCEPT ![sv.client] = SrvClose(net[sv.client])] \in [Sockets -> Conn]
    BY <2>4, OneConnKept DEF ConnsTyped
  <2> QED BY <1>1, <2>1, <2>3, <2>5 DEF ConnsTyped, ServerTyped
<1>9. CASE ChallengeExpires
  <2>1. store.challenge \in Challenges
    BY <1>9 DEF ChallengeExpires, ChallengeUsable, ServerTyped, StoreState
  <2> DEFINE ch == [store.challenge EXCEPT !.expired = TRUE]
  <2>2. ch \in Challenges
    BY <2>1 DEF Challenges
  <2>3. store' = [store EXCEPT !.challenge = ch]
    BY <1>9 DEF ChallengeExpires
  <2> HIDE DEF ch
  <2> QED BY <1>9, <2>2, <2>3, StoreStateKept DEF ChallengeExpires, ConnsTyped, ServerTyped
<1>10. CASE ServerRestart
  <2>1. \A s \in Sockets : net[s] \in Conn /\ SrvEnded(Broken(net[s])) \in Conn
    BY ConnKept DEF ConnsTyped
  <2>2. ConnsTyped'
    BY <1>10, <2>1 DEF ServerRestart, ConnsTyped
  <2>3. ServerTyped'
    BY <1>1, <1>10, StoreStateKept DEF ServerRestart, ServerTyped
  <2> QED BY <2>2, <2>3
<1> QED BY <1>2, <1>3, <1>4, <1>5, <1>6, <1>7, <1>8, <1>9, <1>10 DEF ServerStep, HandleMessage

\* What the client does to its own fields.
LEMMA ClientRecordKept ==
    ASSUME NEW c \in ClientState, c.tracked => c.live > 0
    PROVE  /\ Canceled(c) \in ClientState /\ ~Canceled(c).tracked
           /\ Offline(c) \in ClientState /\ Offline(c).tracked = c.tracked /\ Offline(c).live = c.live
           /\ Scheduled(c) \in ClientState /\ (Scheduled(c).tracked => Scheduled(c).live > 0)
           /\ Disconnected(c) \in ClientState /\ ~Disconnected(c).tracked
           /\ \A s \in Sockets :
                 /\ Dialing(c, s) \in ClientState
                 /\ Dialing(c, s).tracked = c.tracked /\ Dialing(c, s).live = c.live
<1>1. Canceled(c) \in ClientState /\ ~Canceled(c).tracked
  <2>1. CASE c.tracked
    <3>1. c.live - 1 \in 0..MaxTimers
      BY <2>1, ClientAssumption DEF ClientAssumption, ClientState
    <3>2. Canceled(c) = [c EXCEPT !.live = c.live - 1, !.tracked = FALSE]
      BY <2>1 DEF Canceled
    <3> QED BY <3>1, <3>2 DEF ClientState
  <2>2. CASE ~c.tracked
    BY <2>2 DEF Canceled
  <2> QED BY <2>1, <2>2
<1>2. \A d \in ClientState :
         Offline(d) \in ClientState /\ Offline(d).tracked = d.tracked /\ Offline(d).live = d.live
  BY DEF Offline, ClientState, AuthStatuses, Statuses
<1>3. Scheduled(c) \in ClientState /\ (Scheduled(c).tracked => Scheduled(c).live > 0)
  <2>1. CASE c.shutting
    BY <2>1 DEF Scheduled
  <2>2. CASE ~c.shutting
    <3> DEFINE n == IF c.live < MaxTimers THEN c.live + 1 ELSE c.live
    <3>1. n \in 0..MaxTimers /\ n > 0
      BY ClientAssumption DEF ClientAssumption, ClientState
    <3>2. Scheduled(c) = [c EXCEPT !.live = n, !.tracked = TRUE]
      BY <2>2 DEF Scheduled
    <3> HIDE DEF n
    <3> QED BY <3>1, <3>2 DEF ClientState
  <2> QED BY <2>1, <2>2
<1>4. Disconnected(c) \in ClientState /\ ~Disconnected(c).tracked
  <2> DEFINE d == Canceled(c)
  <2>1. d \in ClientState /\ ~d.tracked
    BY <1>1
  <2> HIDE DEF d
  <2>2. /\ [d EXCEPT !.shutting = TRUE, !.ws = None] \in ClientState
        /\ ~[d EXCEPT !.shutting = TRUE, !.ws = None].tracked
    BY <2>1 DEF ClientState
  <2> QED BY <1>2, <2>2 DEF Disconnected, d
<1>5. ASSUME NEW s \in Sockets
      PROVE  /\ Dialing(c, s) \in ClientState
             /\ Dialing(c, s).tracked = c.tracked /\ Dialing(c, s).live = c.live
  BY DEF Dialing, ClientState, AuthStatuses, Statuses
<1> QED BY <1>1, <1>2, <1>3, <1>4, <1>5

LEMMA OneClientKept ==
    ASSUME ClientTyped, NEW b \in Bridges, NEW c \in ClientState, c.tracked => c.live > 0,
           cl' = [cl EXCEPT ![b] = c]
    PROVE  cl' \in [Bridges -> ClientState] /\ TimersTracked'
  BY DEF ClientTyped, TimersTracked

LEMMA SendTyped ==
    ASSUME ClientTyped, NEW n \in [Sockets -> Conn], NEW b \in Bridges, NEW m \in UpMessages
    PROVE  SendOn(n, b, m) \in [Sockets -> Conn]
<1>1. CASE cl[b].ws = None
  BY <1>1 DEF SendOn
<1>2. CASE cl[b].ws # None
  <2>1. cl[b].ws \in Sockets
    BY <1>2 DEF ClientTyped, ClientState
  <2>2. CliSend(n[cl[b].ws], m) \in Conn
    BY <2>1, ConnKept
  <2>3. SendOn(n, b, m) = [n EXCEPT ![cl[b].ws] = CliSend(n[cl[b].ws], m)]
    BY <1>2 DEF SendOn
  <2> QED BY <2>2, <2>3, OneConnKept
<1> QED BY <1>1, <1>2

LEMMA DisconnectTyped ==
    ASSUME ConnsTyped, ClientTyped, NEW b \in Bridges
    PROVE  NetAfterDisconnect(b) \in [Sockets -> Conn]
<1>1. CASE cl[b].ws = None
  BY <1>1 DEF NetAfterDisconnect, ConnsTyped
<1>2. CASE cl[b].ws # None
  <2>1. cl[b].ws \in Sockets
    BY <1>2 DEF ClientTyped, ClientState
  <2>2. CliClose(net[cl[b].ws]) \in Conn
    BY <2>1, ConnKept DEF ConnsTyped
  <2>3. NetAfterDisconnect(b) = [net EXCEPT ![cl[b].ws] = CliClose(net[cl[b].ws])]
    BY <1>2 DEF NetAfterDisconnect
  <2> QED BY <2>2, <2>3, OneConnKept DEF ConnsTyped
<1> QED BY <1>1, <1>2

LEMMA ConnectTyped ==
    ASSUME ClientTyped, NEW b \in Bridges, NEW c \in ClientState, c.tracked => c.live > 0,
           NEW n \in [Sockets -> Conn], Connect(b, c, n), UNCHANGED <<proofs, writes, stored>>
    PROVE  ConnsTyped' /\ ClientTyped'
<1>1. PICK s \in Sockets : /\ cl' = [cl EXCEPT ![b] = Dialing(c, s)]
                           /\ net' = [n EXCEPT ![s] = Dial(b)]
  BY DEF Connect
<1>2. Dial(b) \in Conn
  <2>1. <<>> \in Seq(UpMessages) /\ <<>> \in Seq(DownMessages)
    OBVIOUS
  <2> QED BY <2>1 DEF Dial, Unused, Conn, CliStates, SrvStates
<1>3. ConnsTyped'
  BY <1>1, <1>2, OneConnKept DEF ConnsTyped
<1>4. /\ Dialing(c, s) \in ClientState
      /\ Dialing(c, s).tracked => Dialing(c, s).live > 0
  BY ClientRecordKept
<1>5. cl' \in [Bridges -> ClientState] /\ TimersTracked'
  BY <1>1, <1>4, OneClientKept
<1> QED BY <1>3, <1>5 DEF ClientTyped

LEMMA MessageTyped ==
    ASSUME ConnsTyped, ClientTyped, NEW b \in Bridges, NEW s \in Sockets,
           HandleServerMessage(b, s)
    PROVE  ConnsTyped' /\ ClientTyped'
<1> DEFINE m == Head(net[s].down)
<1>1. net[s].down # <<>>
  BY DEF HandleServerMessage, HandleServerChallenge, HandlePairingRequired, HandlePairingComplete,
     HandleAuthAccepted, HandleAuthRejected, Receives, DataDown
<1>2. net[s] \in Conn /\ net[s].down \in Seq(DownMessages)
  BY DEF ConnsTyped, Conn
<1>3. m \in DownMessages
  BY <1>1, <1>2
<1>4. TakenDown(s) \in Conn
  BY <1>1, <1>2, ConnKept DEF TakenDown
<1>5. Takes(s) \in [Sockets -> Conn]
  BY <1>4, OneConnKept DEF Takes, ConnsTyped
<1>6. /\ cl \in [Bridges -> ClientState] /\ cl[b] \in ClientState
      /\ cl[b].tracked => cl[b].live > 0
      /\ \A c \in ClientState : (c.tracked => c.live > 0) /\ cl' = [cl EXCEPT ![b] = c]
            => cl' \in [Bridges -> ClientState] /\ TimersTracked'
  BY OneClientKept DEF ClientTyped, TimersTracked
<1>7. writes \in [Bridges -> Seq(Write)] /\ proofs \in [Bridges -> SUBSET Proofs]
  BY DEF ClientTyped
<1>8. ASSUME NEW w \in Write
      PROVE  [writes EXCEPT ![b] = Append(@, w)] \in [Bridges -> Seq(Write)]
  BY <1>7
<1>9. CASE HandleServerChallenge(b, s)
  <2>1. m.nonce \in Sockets
    BY <1>3, <1>9, DownTypes DEF HandleServerChallenge, Receives
  <2>2. CASE cl[b].secret = None
    <3>1. net' = SendOn(Takes(s), b, Hello(b, None)) /\ UNCHANGED clientVars
      BY <1>9, <2>2 DEF HandleServerChallenge, clientVars
    <3>2. Hello(b, None) \in UpMessages
      BY MessagesTyped
    <3> QED BY <1>5, <3>1, <3>2, SendTyped DEF clientVars, ConnsTyped, ClientTyped, TimersTracked
  <2>3. CASE cl[b].secret # None
    <3>1. cl[b].secret \in Secrets
      BY <1>6, <2>3 DEF ClientState, MaybeSecret
    <3>2. [secret |-> cl[b].secret, nonce |-> m.nonce] \in Proofs
      BY <2>1, <3>1 DEF Proofs
    <3>3. /\ net' = Takes(s) /\ UNCHANGED <<cl, writes, stored>>
          /\ proofs' = [proofs EXCEPT ![b] =
                          @ \cup {[secret |-> cl[b].secret, nonce |-> m.nonce]}]
      BY <1>9, <2>3 DEF HandleServerChallenge
    <3>4. proofs' \in [Bridges -> SUBSET Proofs]
      BY <1>7, <3>2, <3>3
    <3> QED BY <1>5, <3>3, <3>4 DEF ConnsTyped, ClientTyped, TimersTracked
  <2> QED BY <2>2, <2>3
<1>10. CASE HandlePairingRequired(b, s)
  <2>1. m.id \in PairingIds
    BY <1>3, <1>10, DownTypes DEF HandlePairingRequired, Receives
  <2>2. cl' = [cl EXCEPT ![b] = [cl[b] EXCEPT !.pairingId = m.id, !.auth = "pairing-required"]]
    BY <1>6, <1>10 DEF HandlePairingRequired
  <2>3. /\ [cl[b] EXCEPT !.pairingId = m.id, !.auth = "pairing-required"] \in ClientState
        /\ [cl[b] EXCEPT !.pairingId = m.id, !.auth = "pairing-required"].tracked
              => [cl[b] EXCEPT !.pairingId = m.id, !.auth = "pairing-required"].live > 0
    BY <1>6, <2>1 DEF ClientState, AuthStatuses
  <2>4. cl' \in [Bridges -> ClientState] /\ TimersTracked'
    BY <1>6, <2>2, <2>3
  <2>5. net' = Takes(s) /\ UNCHANGED <<proofs, writes, stored>>
    BY <1>10 DEF HandlePairingRequired
  <2> QED BY <1>5, <2>4, <2>5 DEF ConnsTyped, ClientTyped
<1>11. CASE HandlePairingComplete(b, s)
  <2>1. m.secret \in Secrets
    BY <1>3, <1>11, DownTypes DEF HandlePairingComplete, Receives
  <2>2. cl' = [cl EXCEPT ![b] = [cl[b] EXCEPT !.secret = m.secret, !.granted = TRUE]]
    BY <1>6, <1>11 DEF HandlePairingComplete
  <2>3. /\ [cl[b] EXCEPT !.secret = m.secret, !.granted = TRUE] \in ClientState
        /\ [cl[b] EXCEPT !.secret = m.secret, !.granted = TRUE].tracked
              => [cl[b] EXCEPT !.secret = m.secret, !.granted = TRUE].live > 0
    BY <1>6, <2>1 DEF ClientState, MaybeSecret
  <2>4. cl' \in [Bridges -> ClientState] /\ TimersTracked'
    BY <1>6, <2>2, <2>3
  <2>5. [secret |-> m.secret, rejects |-> FALSE] \in Write
    BY <2>1 DEF Write, MaybeSecret
  <2>6. /\ net' = Takes(s) /\ UNCHANGED <<proofs, stored>>
        /\ writes' = [writes EXCEPT ![b] = Append(@, [secret |-> m.secret, rejects |-> FALSE])]
    BY <1>11 DEF HandlePairingComplete
  <2>7. writes' \in [Bridges -> Seq(Write)]
    BY <1>8, <2>5, <2>6
  <2> QED BY <1>5, <2>4, <2>6, <2>7 DEF ConnsTyped, ClientTyped
<1>12. CASE HandleAuthAccepted(b, s)
  <2> DEFINE c == [cl[b] EXCEPT !.pairingId = None, !.granted = TRUE,
                                !.auth = "authenticated", !.status = "connected"]
  <2>1. cl' = [cl EXCEPT ![b] = c]
    BY <1>6, <1>12 DEF HandleAuthAccepted
  <2>2. c \in ClientState /\ (c.tracked => c.live > 0)
    BY <1>6 DEF ClientState, AuthStatuses, Statuses
  <2> HIDE DEF c
  <2>3. cl' \in [Bridges -> ClientState] /\ TimersTracked'
    BY <1>6, <2>1, <2>2
  <2>4. net' = Takes(s) /\ UNCHANGED <<proofs, writes, stored>>
    BY <1>12 DEF HandleAuthAccepted
  <2> QED BY <1>5, <2>3, <2>4 DEF ConnsTyped, ClientTyped
<1>13. CASE HandleAuthRejected(b, s)
  <2>1. /\ [cl[b] EXCEPT !.secret = None] \in ClientState
        /\ [cl[b] EXCEPT !.secret = None].tracked => [cl[b] EXCEPT !.secret = None].live > 0
        /\ [cl[b] EXCEPT !.auth = "rejected"] \in ClientState
        /\ [cl[b] EXCEPT !.auth = "rejected"].tracked => [cl[b] EXCEPT !.auth = "rejected"].live > 0
    BY <1>6 DEF ClientState, MaybeSecret, AuthStatuses
  <2>2. \/ cl' = [cl EXCEPT ![b] = [cl[b] EXCEPT !.secret = None]]
        \/ cl' = [cl EXCEPT ![b] = [cl[b] EXCEPT !.auth = "rejected"]]
    BY <1>6, <1>13 DEF HandleAuthRejected
  <2>3. cl' \in [Bridges -> ClientState] /\ TimersTracked'
    BY <1>6, <2>1, <2>2
  <2>4. [secret |-> None, rejects |-> TRUE] \in Write
    BY DEF Write, MaybeSecret
  <2>5. writes' \in [Bridges -> Seq(Write)]
    BY <1>7, <1>8, <1>13, <2>4 DEF HandleAuthRejected
  <2>6. net' = Takes(s) /\ UNCHANGED <<proofs, stored>>
    BY <1>13 DEF HandleAuthRejected
  <2> QED BY <1>5, <2>3, <2>5, <2>6 DEF ConnsTyped, ClientTyped
<1> QED BY <1>9, <1>10, <1>11, <1>12, <1>13 DEF HandleServerMessage

LEMMA ClientStepTyped ==
    ASSUME ConnsTyped, ServerTyped, ClientTyped, NEW b \in Bridges, ClientStep(b)
    PROVE  ConnsTyped' /\ ClientTyped'
<1> DEFINE c == cl[b]
<1>1. /\ cl \in [Bridges -> ClientState] /\ c \in ClientState /\ (c.tracked => c.live > 0)
      /\ net \in [Sockets -> Conn]
  BY DEF ClientTyped, TimersTracked, ConnsTyped
<1>2. /\ Canceled(c) \in ClientState /\ ~Canceled(c).tracked
      /\ Disconnected(c) \in ClientState /\ ~Disconnected(c).tracked
  BY <1>1, ClientRecordKept
<1> HIDE DEF c
<1>3. CASE Start(b)
  <2>1. /\ [c EXCEPT !.runtime = "running"] \in ClientState
        /\ [c EXCEPT !.runtime = "running"].tracked => [c EXCEPT !.runtime = "running"].live > 0
    BY <1>1 DEF ClientState, RuntimeStates
  <2>2. Connect(b, [c EXCEPT !.runtime = "running"], net) /\ UNCHANGED <<proofs, writes, stored>>
    BY <1>3 DEF Start, c
  <2> QED BY <1>1, <2>1, <2>2, ConnectTyped
<1>4. CASE Reconnect(b)
  <2>1. NetAfterDisconnect(b) \in [Sockets -> Conn]
    BY DisconnectTyped
  <2>2. Connect(b, Disconnected(c), NetAfterDisconnect(b)) /\ UNCHANGED <<proofs, writes, stored>>
    BY <1>4 DEF Reconnect, c
  <2> QED BY <1>2, <2>1, <2>2, ConnectTyped
<1>5. CASE NudgeReconnect(b)
  <2>1. UNCHANGED <<proofs, writes, stored>>
    BY <1>5 DEF NudgeReconnect
  <2>2. CASE cl' = [cl EXCEPT ![b] = Canceled(c)] /\ UNCHANGED net
    <3>1. cl' \in [Bridges -> ClientState] /\ TimersTracked'
      BY <1>2, <2>2, OneClientKept
    <3> QED BY <2>1, <2>2, <3>1 DEF ClientTyped, ConnsTyped
  <2>3. CASE Connect(b, Canceled(c), net)
    BY <1>1, <1>2, <2>1, <2>3, ConnectTyped
  <2> QED BY <1>5, <2>2, <2>3 DEF NudgeReconnect, c
<1>6. CASE RetryTimerFires(b)
  <2> DEFINE d == [c EXCEPT !.live = @ - 1, !.tracked = FALSE]
  <2>1. c.live - 1 \in 0..MaxTimers
    BY <1>1, <1>6, ClientAssumption DEF ClientAssumption, ClientState, RetryTimerFires, c
  <2>2. d \in ClientState /\ ~d.tracked
    BY <1>1, <2>1 DEF ClientState
  <2>3. /\ UNCHANGED <<proofs, writes, stored>>
        /\ (cl' = [cl EXCEPT ![b] = d] /\ UNCHANGED net) \/ Connect(b, d, net)
    BY <1>6 DEF RetryTimerFires, c
  <2> HIDE DEF d
  <2>4. CASE cl' = [cl EXCEPT ![b] = d] /\ UNCHANGED net
    <3>1. cl' \in [Bridges -> ClientState] /\ TimersTracked'
      BY <2>2, <2>4, OneClientKept
    <3> QED BY <2>3, <2>4, <3>1 DEF ClientTyped, ConnsTyped
  <2>5. CASE Connect(b, d, net)
    BY <1>1, <2>2, <2>3, <2>5, ConnectTyped
  <2> QED BY <2>3, <2>4, <2>5
<1>7. CASE Shutdown(b)
  <2> DEFINE e == Disconnected(c)
             d == [e EXCEPT !.runtime = "down"]
  <2>1. e \in ClientState /\ ~e.tracked
    BY <1>2
  <2>2. /\ cl' = [cl EXCEPT ![b] = d]
        /\ net' = NetAfterDisconnect(b) /\ UNCHANGED <<proofs, writes, stored>>
    BY <1>7 DEF Shutdown, c
  <2> HIDE DEF e
  <2>3. d \in ClientState /\ ~d.tracked
    BY <2>1 DEF ClientState, RuntimeStates
  <2> HIDE DEF d
  <2>4. cl' \in [Bridges -> ClientState] /\ TimersTracked'
    BY <2>2, <2>3, OneClientKept
  <2> QED BY <2>2, <2>4, DisconnectTyped DEF ClientTyped, ConnsTyped
<1>8. CASE Reload(b)
  <2>0. stored[b] \in MaybeSecret /\ 0 \in 0..MaxTimers
    BY ClientAssumption DEF ClientTyped, ClientAssumption
  <2>1. NewClient(stored[b]) \in ClientState /\ ~NewClient(stored[b]).tracked
    BY <2>0 DEF NewClient, ClientState, RuntimeStates, Statuses, AuthStatuses
  <2>2. cl' = [cl EXCEPT ![b] = NewClient(stored[b])]
    BY <1>8 DEF Reload
  <2>3. cl' \in [Bridges -> ClientState] /\ TimersTracked'
    BY <2>1, <2>2, OneClientKept
  <2>4. /\ proofs' \in [Bridges -> SUBSET Proofs] /\ writes' \in [Bridges -> Seq(Write)]
        /\ UNCHANGED stored
    BY <1>8 DEF Reload, ClientTyped
  <2>5. \A s \in Sockets : net[s] \in Conn /\ CliEnded(Broken(net[s])) \in Conn
    BY <1>1, ConnKept
  <2>6. ConnsTyped'
    BY <1>8, <2>5 DEF Reload, ConnsTyped
  <2> QED BY <2>3, <2>4, <2>6 DEF ClientTyped
<1>9. CASE \E s \in Sockets : OnOpen(b, s)
  <2>1. PICK s \in Sockets : OnOpen(b, s)
    BY <1>9
  <2>2. [net[s] EXCEPT !.cli = "open"] \in Conn
    BY <1>1, ConnKept
  <2>3. net' = [net EXCEPT ![s] = [net[s] EXCEPT !.cli = "open"]] /\ UNCHANGED clientVars
    BY <1>1, <2>1 DEF OnOpen
  <2> QED BY <1>1, <2>2, <2>3, OneConnKept DEF clientVars, ConnsTyped, ClientTyped, TimersTracked
<1>10. CASE \E s \in Sockets : OnClose(b, s)
  <2>1. PICK s \in Sockets : OnClose(b, s)
    BY <1>10
  <2> DEFINE w == IF c.ws = s THEN None ELSE c.ws
             e == [c EXCEPT !.ws = w, !.pairingId = None, !.granted = FALSE]
             d == Scheduled(Offline(e))
  <2>2. /\ net' = [net EXCEPT ![s] = CliEnded(net[s])]
        /\ cl' = [cl EXCEPT ![b] = d] /\ UNCHANGED <<proofs, writes, stored>>
    BY <2>1 DEF OnClose, c
  <2>3. w \in Sockets \cup {None}
    BY <1>1 DEF ClientState
  <2> HIDE DEF w
  <2>4. e \in ClientState /\ (e.tracked => e.live > 0)
    BY <1>1, <2>3 DEF ClientState
  <2> HIDE DEF e
  <2>5. Offline(e) \in ClientState /\ (Offline(e).tracked => Offline(e).live > 0)
    BY <2>4, ClientRecordKept
  <2>6. d \in ClientState /\ (d.tracked => d.live > 0)
    BY <2>5, ClientRecordKept
  <2> HIDE DEF d
  <2>7. cl' \in [Bridges -> ClientState] /\ TimersTracked'
    BY <2>2, <2>6, OneClientKept
  <2>8. CliEnded(net[s]) \in Conn
    BY <1>1, ConnKept
  <2> QED BY <1>1, <2>2, <2>7, <2>8, OneConnKept DEF ConnsTyped, ClientTyped
<1>11. CASE \E s \in Sockets : HandleServerMessage(b, s)
  BY <1>11, MessageTyped
<1>12. CASE \E p \in proofs[b] : ProofReady(b, p)
  <2>1. PICK p \in proofs[b] : ProofReady(b, p)
    BY <1>12
  <2>2. p \in Proofs
    BY DEF ClientTyped
  <2>3. Hello(b, p) \in UpMessages
    BY <2>2, MessagesTyped
  <2>4. SendOn(net, b, Hello(b, p)) \in [Sockets -> Conn]
    BY <1>1, <2>3, SendTyped
  <2>5. proofs' \in [Bridges -> SUBSET Proofs]
    BY <2>1 DEF ProofReady, ClientTyped
  <2> QED BY <2>1, <2>4, <2>5 DEF ProofReady, ConnsTyped, ClientTyped, TimersTracked
<1>13. CASE SecretStored(b)
  <2>1. writes[b] \in Seq(Write) /\ writes[b] # <<>>
    BY <1>13 DEF SecretStored, ClientTyped
  <2>2. Head(writes[b]) \in Write /\ Tail(writes[b]) \in Seq(Write)
    BY <2>1
  <2>3. Head(writes[b]).secret \in MaybeSecret
    BY <2>2 DEF Write
  <2>4. stored' \in [Bridges -> MaybeSecret] /\ writes' \in [Bridges -> Seq(Write)]
    BY <1>13, <2>2, <2>3 DEF SecretStored, ClientTyped
  <2>5. /\ [c EXCEPT !.auth = "rejected"] \in ClientState
        /\ [c EXCEPT !.auth = "rejected"].tracked => [c EXCEPT !.auth = "rejected"].live > 0
    BY <1>1 DEF ClientState, AuthStatuses
  <2>6. cl' = cl \/ cl' = [cl EXCEPT ![b] = [c EXCEPT !.auth = "rejected"]]
    BY <1>13 DEF SecretStored, c
  <2>7. cl' \in [Bridges -> ClientState] /\ TimersTracked'
    <3>1. CASE cl' = cl
      BY <3>1 DEF ClientTyped, TimersTracked
    <3>2. CASE cl' = [cl EXCEPT ![b] = [c EXCEPT !.auth = "rejected"]]
      BY <2>5, <3>2, OneClientKept
    <3> QED BY <2>6, <3>1, <3>2
  <2> QED BY <1>13, <2>4, <2>7 DEF SecretStored, ConnsTyped, ClientTyped
<1>14. CASE \E code \in ShownCodes : ConfirmPairing(b, code)
  <2>1. PICK code \in ShownCodes : ConfirmPairing(b, code)
    BY <1>14
  <2>2. code \in PairingIds \cup {WrongCode}
    BY DEF ShownCodes, ServerTyped, StoreState, Challenges
  <2>3. c.pairingId \in PairingIds
    BY <1>1, <2>1 DEF ConfirmPairing, ClientState, c
  <2> DEFINE m == [type |-> "pairing_confirm", inst |-> b, id |-> c.pairingId, code |-> code]
  <2>4. m \in UpMessages
    BY <2>2, <2>3, MessagesTyped
  <2>5. /\ net' = SendOn(net, b, m) /\ UNCHANGED <<proofs, writes, stored>>
        /\ cl' = [cl EXCEPT ![b] = [c EXCEPT !.auth = "authenticating"]]
    BY <2>1 DEF ConfirmPairing, c
  <2> HIDE DEF m
  <2>6. /\ [c EXCEPT !.auth = "authenticating"] \in ClientState
        /\ [c EXCEPT !.auth = "authenticating"].tracked
              => [c EXCEPT !.auth = "authenticating"].live > 0
    BY <1>1 DEF ClientState, AuthStatuses
  <2>7. cl' \in [Bridges -> ClientState] /\ TimersTracked'
    BY <2>5, <2>6, OneClientKept
  <2>8. SendOn(net, b, m) \in [Sockets -> Conn]
    BY <1>1, <2>4, SendTyped
  <2> QED BY <2>5, <2>7, <2>8 DEF ConnsTyped, ClientTyped
<1> QED BY <1>3, <1>4, <1>5, <1>6, <1>7, <1>8, <1>9, <1>10, <1>11, <1>12, <1>13, <1>14 DEF
  ClientStep

LEMMA TransportTyped == ASSUME ConnsTyped, TransportStep PROVE ConnsTyped'
<1>1. PICK s \in Sockets : TransportEvent(s) \/ Breaks(s)
  BY DEF TransportStep
<1>2. net[s] \in Conn
  BY DEF ConnsTyped
<1>3. CliClose(net[s]) \in Conn /\ SrvClose(net[s]) \in Conn /\ Broken(net[s]) \in Conn
  BY <1>2, ConnKept
<1>4. /\ [CliClose(net[s]) EXCEPT !.cli = "ending", !.down = <<>>] \in Conn
      /\ [SrvClose(net[s]) EXCEPT !.srv = "ending", !.up = <<>>] \in Conn
  BY <1>3, ConnKept
<1> QED BY <1>1, <1>3, <1>4, OneConnKept DEF TransportEvent, CliReceivesClose, SrvReceivesClose,
     Breaks, ConnsTyped

LEMMA InitTyped == Init => AllTyped
<1> SUFFICES ASSUME Init PROVE AllTyped
  OBVIOUS
<1>1. Unused \in Conn
  <2>1. <<>> \in Seq(UpMessages) /\ <<>> \in Seq(DownMessages)
    OBVIOUS
  <2> QED BY <2>1 DEF Unused, Conn, CliStates, SrvStates
<1>2. ConnsTyped
  BY <1>1 DEF Init, ConnsTyped
<1>3. ServerTyped
  BY DEF Init, ServerInit, NoClient, ServerTyped, ServerState, StoreState
<1>4. NewClient(None) \in ClientState /\ ~NewClient(None).tracked
  BY ClientAssumption DEF ClientAssumption, NewClient, ClientState, RuntimeStates, Statuses,
     AuthStatuses, MaybeSecret
<1>5. ClientTyped
  BY <1>4 DEF Init, ClientInit, ClientTyped, TimersTracked, MaybeSecret
<1>6. left \in 0..MaxDisturbances
  BY SessionAssumption DEF SessionAssumption, Init
<1> QED BY <1>2, <1>3, <1>5, <1>6 DEF AllTyped

LEMMA StepTyped == AllTyped /\ [Next]_vars => AllTyped'
<1> SUFFICES ASSUME AllTyped, [Next]_vars PROVE AllTyped'
  OBVIOUS
<1> USE DEF AllTyped
<1>1. left' \in 0..MaxDisturbances
  <2>1. left' = left \/ (left > 0 /\ left' = left - 1)
    BY DEF Next, ServerStep, ClientStep, TransportStep, HelloTimerFires, Calm, Disturbs, vars
  <2> QED BY <2>1, SessionAssumption DEF SessionAssumption
<1>2. CASE ServerStep
  BY <1>1, <1>2, ServerStepTyped DEF ServerStep, clientVars, ClientTyped, TimersTracked
<1>3. CASE \E b \in Bridges : ClientStep(b)
  <2>1. UNCHANGED serverVars
    BY <1>3 DEF ClientStep
  <2> QED BY <1>1, <1>3, <2>1, ClientStepTyped DEF serverVars, ServerTyped
<1>4. CASE TransportStep
  BY <1>1, <1>4, TransportTyped DEF TransportStep, serverVars, clientVars, ServerTyped,
     ClientTyped, TimersTracked
<1>5. CASE UNCHANGED vars
  BY <1>1, <1>5 DEF vars, ConnsTyped, ServerTyped, ClientTyped, TimersTracked
<1> QED BY <1>2, <1>3, <1>4, <1>5 DEF Next

\* The fields of the server, of the store and of the clients keep their types,
\* what is in transit is a message, and a retry timer that is tracked is one
\* that will fire: cancelling it never counts below none.
THEOREM TypesHold == Spec => []AllTyped
  BY InitTyped, StepTyped, PTL DEF Spec

\* The type invariant of the session.
THEOREM TypeCorrect == Spec => []TypeOK
  BY TypesHold, AllTypedIsTypeOK, PTL

-----------------------------------------------------------------------------
(* What each side does to a connection, field by field.                     *)

Fields(d, owner, cli, srv, up, down, lost) ==
    /\ d.owner = owner /\ d.cli = cli /\ d.srv = srv /\ d.up = up /\ d.down = down
    /\ d.lost <=> lost

LEMMA UnusedFields == Fields(Unused, None, "none", "none", <<>>, <<>>, FALSE)
  BY DEF Unused, Fields

LEMMA DialFields ==
    ASSUME NEW b PROVE Fields(Dial(b), b, "connecting", "none", <<>>, <<>>, FALSE)
  BY DEF Dial, Unused, Fields

LEMMA SendFields ==
    ASSUME NEW c \in Conn, NEW m
    PROVE  /\ Fields(CliSend(c, m), c.owner, c.cli, c.srv,
                     IF c.cli = "open" /\ ~c.lost THEN Append(c.up, m) ELSE c.up, c.down, c.lost)
           /\ Fields(SrvSend(c, m), c.owner, c.cli, c.srv, c.up,
                     IF c.srv = "open" /\ ~c.lost /\ c.cli \in {"connecting", "open"}
                     THEN Append(c.down, m) ELSE c.down, c.lost)
<1> DEFINE u == Append(c.up, m)
           d == Append(c.down, m)
<1>1. CliSend(c, m) = IF c.cli = "open" /\ ~c.lost THEN [c EXCEPT !.up = u] ELSE c
  BY DEF CliSend, Conn
<1>2. SrvSend(c, m) = IF c.srv = "open" /\ ~c.lost /\ c.cli \in {"connecting", "open"}
                      THEN [c EXCEPT !.down = d] ELSE c
  BY DEF SrvSend, Conn
<1> HIDE DEF u, d
<1>3. Fields(CliSend(c, m), c.owner, c.cli, c.srv,
             IF c.cli = "open" /\ ~c.lost THEN u ELSE c.up, c.down, c.lost)
  BY <1>1 DEF Fields, Conn
<1>4. Fields(SrvSend(c, m), c.owner, c.cli, c.srv, c.up,
             IF c.srv = "open" /\ ~c.lost /\ c.cli \in {"connecting", "open"}
             THEN d ELSE c.down, c.lost)
  BY <1>2 DEF Fields, Conn
<1> QED BY <1>3, <1>4 DEF u, d

LEMMA CloseFields ==
    ASSUME NEW c \in Conn
    PROVE  /\ c.cli = "open" =>
                 Fields(CliClose(c), c.owner, "closing", c.srv,
                        IF c.lost THEN c.up ELSE Append(c.up, CloseFrame), OnlyClose(c.down), c.lost)
           /\ c.cli = "connecting" =>
                 Fields(CliClose(c), c.owner, "closing", c.srv, <<>>, <<>>, TRUE)
           /\ c.cli \notin {"open", "connecting"} => CliClose(c) = c
           /\ c.srv = "open" =>
                 Fields(SrvClose(c), c.owner, c.cli, "closing", c.up,
                        IF c.lost THEN c.down ELSE Append(c.down, CloseFrame), c.lost)
           /\ c.srv # "open" => SrvClose(c) = c
<1> DEFINE sent == IF c.lost THEN c.up ELSE Append(c.up, CloseFrame)
           rest == IF c.lost THEN c.down ELSE Append(c.down, CloseFrame)
           only == OnlyClose(c.down)
<1>1. c.cli = "open" => CliClose(c) = [c EXCEPT !.cli = "closing", !.down = only, !.up = sent]
  BY DEF CliClose, Conn
<1>2. c.srv = "open" => SrvClose(c) = [c EXCEPT !.srv = "closing", !.down = rest]
  BY DEF SrvClose, Conn
<1> HIDE DEF sent, rest, only
<1>3. c.cli = "open" => Fields(CliClose(c), c.owner, "closing", c.srv, sent, only, c.lost)
  BY <1>1 DEF Fields, Conn
<1>4. c.srv = "open" => Fields(SrvClose(c), c.owner, c.cli, "closing", c.up, rest, c.lost)
  BY <1>2 DEF Fields, Conn
<1>5. c.cli = "connecting" =>
         Fields(CliClose(c), c.owner, "closing", c.srv, <<>>, <<>>, TRUE)
  BY DEF CliClose, Fields, Conn
<1>6. /\ c.cli \notin {"open", "connecting"} => CliClose(c) = c
      /\ c.srv # "open" => SrvClose(c) = c
  BY DEF CliClose, SrvClose
<1> QED BY <1>3, <1>4, <1>5, <1>6 DEF sent, rest, only

LEMMA EndFields ==
    ASSUME NEW c \in Conn
    PROVE  /\ Fields(Broken(c), c.owner, c.cli, c.srv, <<>>, <<>>, TRUE)
           /\ c.srv \in {"none", "closed"} => CliEnded(c) = Unused
           /\ c.srv \notin {"none", "closed"} =>
                 Fields(CliEnded(c), c.owner, "closed", c.srv, c.up, <<>>, c.lost)
           /\ c.cli = "closed" => SrvEnded(c) = Unused
           /\ c.cli # "closed" =>
                 Fields(SrvEnded(c), c.owner, c.cli, "closed", <<>>, c.down, c.lost)
<1> DEFINE d == [c EXCEPT !.cli = "closed", !.down = <<>>]
           e == [c EXCEPT !.srv = "closed", !.up = <<>>]
<1>1. Fields(d, c.owner, "closed", c.srv, c.up, <<>>, c.lost)
  BY DEF Fields, Conn
<1>2. Fields(e, c.owner, c.cli, "closed", <<>>, c.down, c.lost)
  BY DEF Fields, Conn
<1>3. /\ CliEnded(c) = IF Gone(d) THEN Unused ELSE d
      /\ SrvEnded(c) = IF Gone(e) THEN Unused ELSE e
  BY DEF CliEnded, SrvEnded
<1>4. Fields(Broken(c), c.owner, c.cli, c.srv, <<>>, <<>>, TRUE)
  BY DEF Broken, Fields, Conn
<1> HIDE DEF d, e
<1> QED BY <1>1, <1>2, <1>3, <1>4 DEF Gone, Fields

LEMMA StepFields ==
    ASSUME NEW c \in Conn
    PROVE  /\ Fields([c EXCEPT !.up = Tail(@)], c.owner, c.cli, c.srv, Tail(c.up), c.down, c.lost)
           /\ Fields([c EXCEPT !.down = Tail(@)], c.owner, c.cli, c.srv, c.up, Tail(c.down), c.lost)
           /\ Fields([c EXCEPT !.cli = "open"], c.owner, "open", c.srv, c.up, c.down, c.lost)
           /\ Fields([c EXCEPT !.srv = "open"], c.owner, c.cli, "open", c.up, c.down, c.lost)
           /\ Fields([c EXCEPT !.cli = "ending", !.down = <<>>],
                     c.owner, "ending", c.srv, c.up, <<>>, c.lost)
           /\ Fields([c EXCEPT !.srv = "ending", !.up = <<>>],
                     c.owner, c.cli, "ending", <<>>, c.down, c.lost)
<1> DEFINE u == Tail(c.up)
           d == Tail(c.down)
<1>1. [c EXCEPT !.up = Tail(@)] = [c EXCEPT !.up = u]
  BY DEF Conn
<1>2. [c EXCEPT !.down = Tail(@)] = [c EXCEPT !.down = d]
  BY DEF Conn
<1> HIDE DEF u, d
<1>3. Fields([c EXCEPT !.up = u], c.owner, c.cli, c.srv, u, c.down, c.lost)
  BY DEF Fields, Conn
<1>4. Fields([c EXCEPT !.down = d], c.owner, c.cli, c.srv, c.up, d, c.lost)
  BY DEF Fields, Conn
<1>5. /\ Fields([c EXCEPT !.cli = "open"], c.owner, "open", c.srv, c.up, c.down, c.lost)
      /\ Fields([c EXCEPT !.srv = "open"], c.owner, c.cli, "open", c.up, c.down, c.lost)
      /\ Fields([c EXCEPT !.cli = "ending", !.down = <<>>],
                c.owner, "ending", c.srv, c.up, <<>>, c.lost)
      /\ Fields([c EXCEPT !.srv = "ending", !.up = <<>>],
                c.owner, c.cli, "ending", <<>>, c.down, c.lost)
  BY DEF Fields, Conn
<1> QED BY <1>1, <1>2, <1>3, <1>4, <1>5 DEF u, d
-----------------------------------------------------------------------------
(* Shutting down.  Without a user who reconnects, a client has a socket, a  *)
(* timer or neither, never both; one that was told to shut down has         *)
(* neither, and its plugin is down until it is reloaded.                    *)

Live == {"connecting", "open", "closing", "ending"}

OneWayUp(b) ==
    IF cl[b].shutting
    THEN cl[b].ws = None /\ cl[b].live = 0 /\ ~cl[b].tracked /\ cl[b].runtime = "down"
    ELSE /\ cl[b].live \in {0, 1} /\ (cl[b].tracked <=> cl[b].live = 1)
         /\ cl[b].ws # None => cl[b].status # "disconnected" /\ cl[b].live = 0
         /\ cl[b].runtime = "new" => cl[b].ws = None /\ cl[b].live = 0
         /\ cl[b].runtime # "down"
         /\ \A s \in Sockets : net[s].owner = b /\ net[s].cli \in Live => s = cl[b].ws

DownInv == \A b \in Bridges : OneWayUp(b)

\* No socket has come to live, and none has changed hands.
NoneNew(c, d) == d.cli \in Live => c.cli \in Live /\ d.owner = c.owner
NothingDialled == \A s \in Sockets : NoneNew(net[s], net'[s])

\* What a client's step does to it, when it neither dials, schedules nor ends.
SameWay(c, d) ==
    /\ (d.shutting <=> c.shutting) /\ (d.tracked <=> c.tracked)
    /\ d.ws = c.ws /\ d.live = c.live /\ d.runtime = c.runtime
    /\ d.status \in {c.status, "connected"}

LEMMA SameWayUp ==
    ASSUME DownInv, NothingDialled, \A b \in Bridges : SameWay(cl[b], cl'[b])
    PROVE  DownInv'
<1> SUFFICES ASSUME NEW b \in Bridges PROVE OneWayUp(b)'
  BY DEF DownInv
<1>1. OneWayUp(b) /\ SameWay(cl[b], cl'[b])
  BY DEF DownInv
<1>2. \A s \in Sockets : net'[s].owner = b /\ net'[s].cli \in Live =>
         net[s].owner = b /\ net[s].cli \in Live
  BY DEF NothingDialled, NoneNew
<1> QED BY <1>1, <1>2 DEF OneWayUp, SameWay

LEMMA OneNew ==
    ASSUME ConnsTyped, NEW s, NEW d, s \in Sockets => NoneNew(net[s], d),
           net' = [net EXCEPT ![s] = d]
    PROVE  NothingDialled
  BY DEF ConnsTyped, NothingDialled, NoneNew

LEMMA NoneNewSides ==
    ASSUME NEW c \in Conn
    PROVE  /\ \A m : NoneNew(c, CliSend(c, m)) /\ NoneNew(c, SrvSend(c, m))
           /\ NoneNew(c, CliClose(c)) /\ NoneNew(c, SrvClose(c))
           /\ NoneNew(c, Broken(c)) /\ NoneNew(c, CliEnded(c)) /\ NoneNew(c, SrvEnded(c))
           /\ NoneNew(c, CliEnded(Broken(c))) /\ NoneNew(c, SrvEnded(Broken(c)))
           /\ CliEnded(c).cli \notin Live /\ CliEnded(Broken(c)).cli \notin Live
           /\ NoneNew(c, [c EXCEPT !.up = Tail(@)]) /\ NoneNew(c, [c EXCEPT !.down = Tail(@)])
           /\ NoneNew(c, [c EXCEPT !.srv = "open"])
<1>1. \A m : NoneNew(c, CliSend(c, m)) /\ NoneNew(c, SrvSend(c, m))
  BY SendFields DEF Fields, NoneNew
<1>2. NoneNew(c, CliClose(c)) /\ NoneNew(c, SrvClose(c))
  BY CloseFields DEF Fields, NoneNew, Live
<1>3. \A e \in Conn : /\ NoneNew(e, Broken(e)) /\ Broken(e) \in Conn
                      /\ NoneNew(e, CliEnded(e)) /\ NoneNew(e, SrvEnded(e))
                      /\ CliEnded(e).cli \notin Live
  BY EndFields, UnusedFields, ConnKept DEF Fields, NoneNew, Live
<1>4. /\ NoneNew(c, CliEnded(Broken(c))) /\ NoneNew(c, SrvEnded(Broken(c)))
      /\ CliEnded(Broken(c)).cli \notin Live
  BY <1>3 DEF NoneNew
<1>5. /\ NoneNew(c, [c EXCEPT !.up = Tail(@)]) /\ NoneNew(c, [c EXCEPT !.down = Tail(@)])
      /\ NoneNew(c, [c EXCEPT !.srv = "open"])
  BY StepFields DEF Fields, NoneNew
<1> QED BY <1>1, <1>2, <1>3, <1>4, <1>5

LEMMA NoneNewTwice ==
    ASSUME NEW c, NEW d, NEW e, NoneNew(c, d), NoneNew(d, e) PROVE NoneNew(c, e)
  BY DEF NoneNew

LEMMA NoneNewAnswers ==
    ASSUME ConnsTyped, NEW s \in Sockets, net[s].up # <<>>
    PROVE  /\ NoneNew(net[s], TakenUp(s))
           /\ \A m \in DownMessages :
                 /\ NoneNew(net[s], SrvSend(TakenUp(s), m))
                 /\ NoneNew(net[s], Accepting(SrvSend(TakenUp(s), m)))
           /\ NoneNew(net[s], Accepting(TakenUp(s))) /\ NoneNew(net[s], Rejecting(TakenUp(s)))
           /\ \A r \in BOOLEAN : NoneNew(net[s], RejectingAuthentication(TakenUp(s), r))
<1> DEFINE c == TakenUp(s)
<1>1. c \in Conn /\ NoneNew(net[s], c)
  BY ConnKept, NoneNewSides DEF ConnsTyped, TakenUp
<1> HIDE DEF c
<1>2. \A m \in DownMessages : SrvSend(c, m) \in Conn /\ NoneNew(net[s], SrvSend(c, m))
  BY <1>1, ConnKept, NoneNewSides, NoneNewTwice
<1>3. \A m \in DownMessages : NoneNew(net[s], Accepting(SrvSend(c, m)))
  BY <1>2, NoneNewSides, NoneNewTwice DEF Accepting
<1>4. NoneNew(net[s], Accepting(c)) /\ NoneNew(net[s], Rejecting(c))
  BY <1>1, NoneNewSides, NoneNewTwice DEF Accepting, Rejecting
<1>5. \A r \in BOOLEAN : NoneNew(net[s], RejectingAuthentication(c, r))
  BY <1>2, MessagesTyped, NoneNewSides, NoneNewTwice DEF RejectingAuthentication
<1> QED BY <1>1, <1>2, <1>3, <1>4, <1>5 DEF c

LEMMA ServerDialsNothing ==
    ASSUME ConnsTyped, ServerTyped, ServerStep PROVE NothingDialled
<1>1. CASE \E s \in Sockets : HandleConnection(s)
  <2>1. PICK s \in Sockets : HandleConnection(s)
    BY <1>1
  <2> DEFINE c == [net[s] EXCEPT !.srv = "open"]
  <2>2. c \in Conn /\ NoneNew(net[s], c)
    BY ConnKept, NoneNewSides DEF ConnsTyped
  <2> HIDE DEF c
  <2>3. NoneNew(net[s], SrvClose(c)) /\ NoneNew(net[s], SrvSend(c, ServerChallenge(s)))
    BY <2>2, NoneNewSides, NoneNewTwice
  <2>4. \/ net' = [net EXCEPT ![s] = SrvClose(c)]
        \/ net' = [net EXCEPT ![s] = SrvSend(c, ServerChallenge(s))]
    BY <2>1 DEF HandleConnection, RejectsSecondClient, TakesClient, c
  <2> QED BY <2>3, <2>4, OneNew
<1>2. CASE HelloTimerFires
  <2>1. sv.client \in Sockets => NoneNew(net[sv.client], Rejecting(net[sv.client]))
    BY NoneNewSides DEF ConnsTyped, Rejecting
  <2>2. net' = [net EXCEPT ![sv.client] = Rejecting(net[sv.client])]
    BY <1>2 DEF HelloTimerFires, HelloTimeout
  <2> QED BY <2>1, <2>2, OneNew
<1>3. CASE \E s \in Sockets : IgnoresMessage(s)
  <2>1. PICK s \in Sockets : IgnoresMessage(s)
    BY <1>3
  <2>2. NoneNew(net[s], TakenUp(s))
    BY <2>1, NoneNewAnswers DEF IgnoresMessage, DataUp
  <2> QED BY <2>1, <2>2, OneNew DEF IgnoresMessage
<1>4. CASE HandleClientHello \/ HandlePairingConfirm
  <2>1. sv.client \in Sockets /\ net[sv.client].up # <<>>
    BY <1>4, ReceivedTyped DEF HandleClientHello, HelloIncompatible, HelloUnpaired,
       HelloWithoutProof, HelloBadProof, HelloAccepted, CompatibleHello, HandlePairingConfirm,
       ConfirmMismatch, ConfirmRefused, ConfirmCompletes, MatchingConfirm
  <2>2. PICK d : net' = [net EXCEPT ![sv.client] = d] /\ NoneNew(net[sv.client], d)
    <3>1. CASE HelloUnpaired
      <4>1. Received.inst \in Bridges
        BY <3>1, ReceivedTyped, UpTypes DEF HelloUnpaired, CompatibleHello
      <4>2. PairingRequired(store'.challenge.id) \in DownMessages
        BY <3>1, <4>1, ChallengeTyped, MessagesTyped DEF HelloUnpaired, ServerTyped
      <4> QED BY <2>1, <3>1, <4>2, NoneNewAnswers DEF HelloUnpaired, ClientNet
    <3>2. CASE HandleClientHello /\ ~HelloUnpaired
      BY <2>1, <3>2, NoneNewAnswers DEF HandleClientHello, HelloIncompatible, HelloWithoutProof,
         HelloBadProof, HelloAccepted, ClientNet
    <3>3. CASE HandlePairingConfirm
      BY <2>1, <3>3, NoneNewAnswers, MessagesTyped DEF HandlePairingConfirm, ConfirmMismatch,
         ConfirmRefused, ConfirmCompletes, ClientNet
    <3> QED BY <1>4, <3>1, <3>2, <3>3
  <2> QED BY <2>2, OneNew
<1>5. CASE \E s \in Sockets : HandleClose(s)
  <2>1. PICK s \in Sockets : HandleClose(s)
    BY <1>5
  <2>2. NoneNew(net[s], SrvEnded(net[s]))
    BY NoneNewSides DEF ConnsTyped
  <2> QED BY <2>1, <2>2, OneNew DEF HandleClose
<1>6. CASE ResetPairing
  <2>1. \/ net' = net
        \/ net' = [net EXCEPT ![sv.client] = SrvClose(net[sv.client])]
    BY <1>6 DEF ResetPairing
  <2>2. sv.client \in Sockets => NoneNew(net[sv.client], SrvClose(net[sv.client]))
    BY NoneNewSides DEF ConnsTyped
  <2> QED BY <2>1, <2>2, OneNew DEF NothingDialled, NoneNew
<1>7. CASE ChallengeExpires
  BY <1>7 DEF ChallengeExpires, NothingDialled, NoneNew
<1>8. CASE ServerRestart
  <2>1. \A s \in Sockets : NoneNew(net[s], SrvEnded(Broken(net[s])))
    BY NoneNewSides DEF ConnsTyped
  <2>2. \A s \in Sockets : net'[s] \in {net[s], SrvEnded(Broken(net[s]))}
    BY <1>8 DEF ServerRestart
  <2> QED BY <2>1, <2>2 DEF NothingDialled, NoneNew
<1> QED BY <1>1, <1>2, <1>3, <1>4, <1>5, <1>6, <1>7, <1>8 DEF ServerStep, HandleMessage

LEMMA ConnectUp ==
    ASSUME ConnsTyped, ClientTyped, DownInv, NEW b \in Bridges, ~cl[b].shutting,
           cl[b].ws = None, NEW c \in ClientState, c.live = 0, ~c.tracked,
           c.runtime = "running", Connect(b, c, net)
    PROVE  DownInv'
<1>1. PICK s \in Sockets : /\ cl' = [cl EXCEPT ![b] = Dialing(c, s)]
                           /\ net' = [net EXCEPT ![s] = Dial(b)]
  BY DEF Connect
<1> DEFINE d == Dialing(c, s)
<1>2. /\ ~d.shutting /\ d.live = 0 /\ ~d.tracked /\ d.ws = s /\ d.status = "connecting"
      /\ d.runtime = "running"
  BY DEF Dialing, ClientState
<1> HIDE DEF d
<1>3. /\ \A a \in Bridges : cl'[a] = IF a = b THEN d ELSE cl[a]
      /\ \A t \in Sockets : net'[t] = IF t = s THEN Dial(b) ELSE net[t]
  BY <1>1 DEF ConnsTyped, ClientTyped, d
<1>4. Dial(b).owner = b /\ Dial(b).cli = "connecting"
  BY DialFields DEF Fields
<1>5. OneWayUp(b)'
  <2>1. \A t \in Sockets : net'[t].owner = b /\ net'[t].cli \in Live => t = s
    BY <1>3, NoneAssumption DEF DownInv, OneWayUp
  <2>2. s # None
    BY NoneAssumption
  <2>3. cl'[b] = d
    BY <1>3
  <2> QED BY <1>2, <2>1, <2>2, <2>3 DEF OneWayUp
<1>6. ASSUME NEW a \in Bridges, a # b
      PROVE  OneWayUp(a)'
  <2>1. cl'[a] = cl[a] /\ OneWayUp(a)
    BY <1>3, <1>6 DEF DownInv
  <2>2. \A t \in Sockets : net'[t].owner = a /\ net'[t].cli \in Live =>
           net[t].owner = a /\ net[t].cli \in Live
    BY <1>3, <1>4, <1>6
  <2> QED BY <2>1, <2>2 DEF OneWayUp
<1> QED BY <1>5, <1>6 DEF DownInv

\* One client's record changes, and no socket of another's comes to live.
LEMMA OneWayChanged ==
    ASSUME ClientTyped, DownInv, NothingDialled, NEW b \in Bridges, NEW d,
           cl' = [cl EXCEPT ![b] = d], OneWayUp(b)'
    PROVE  DownInv'
<1> SUFFICES ASSUME NEW a \in Bridges, a # b PROVE OneWayUp(a)'
  BY DEF DownInv
<1>1. cl'[a] = cl[a] /\ OneWayUp(a)
  BY DEF DownInv, ClientTyped
<1>2. \A s \in Sockets : net'[s].owner = a /\ net'[s].cli \in Live =>
         net[s].owner = a /\ net[s].cli \in Live
  BY DEF NothingDialled, NoneNew
<1> QED BY <1>1, <1>2 DEF OneWayUp

LEMMA OnCloseUp ==
    ASSUME ConnsTyped, ClientTyped, DownInv, NEW b \in Bridges, NEW s \in Sockets, OnClose(b, s)
    PROVE  DownInv' /\ (cl[b].shutting => cl'[b].ws = None)
<1> DEFINE c == cl[b]
           w == IF c.ws = s THEN None ELSE c.ws
           e == [c EXCEPT !.ws = w, !.pairingId = None, !.granted = FALSE]
           d == Scheduled(Offline(e))
<1>1. /\ net' = [net EXCEPT ![s] = CliEnded(net[s])]
      /\ net[s].owner = b /\ net[s].cli \in Live
      /\ c \in ClientState
  BY DEF OnClose, CliCloseEvent, Live, ClientTyped
<1>2. cl' = [cl EXCEPT ![b] = d]
  BY DEF OnClose
<1>3. NothingDialled /\ net'[s].cli \notin Live
  BY <1>1, OneNew, NoneNewSides DEF ConnsTyped
<1>4. w \in Sockets \cup {None}
  BY <1>1 DEF ClientState
<1>5. OneWayUp(b)
  BY DEF DownInv
<1>6. cl'[b] = d
  BY <1>2 DEF ClientTyped
<1> HIDE DEF w
<1>7. /\ e \in ClientState /\ e.ws = w /\ (e.shutting <=> c.shutting) /\ e.live = c.live
      /\ (e.tracked <=> c.tracked) /\ e.runtime = c.runtime
  BY <1>1, <1>4 DEF ClientState
<1> HIDE DEF e
<1> DEFINE o == Offline(e)
<1>8. /\ o \in ClientState /\ o.ws = w /\ (o.shutting <=> c.shutting) /\ o.live = c.live
      /\ (o.tracked <=> c.tracked) /\ o.runtime = c.runtime
  BY <1>7 DEF Offline, ClientState, AuthStatuses, Statuses
<1> HIDE DEF o
<1>9. CASE c.shutting
  <2>1. cl'[b] = o
    BY <1>6, <1>8, <1>9 DEF Scheduled, o
  <2>2. w = None
    BY <1>5, <1>9 DEF OneWayUp, w
  <2>3. OneWayUp(b)'
    BY <1>5, <1>8, <1>9, <2>1, <2>2 DEF OneWayUp
  <2> QED BY <1>2, <1>3, <1>8, <2>1, <2>2, <2>3, OneWayChanged
<1>10. CASE ~c.shutting
  <2>1. c.ws = s /\ c.live = 0 /\ c.runtime # "new" /\ c.runtime # "down"
    BY <1>1, <1>5, <1>10, NoneAssumption DEF OneWayUp
  <2>2. o.live < MaxTimers
    BY <1>8, <2>1, ClientAssumption DEF ClientAssumption
  <2>3. d = [o EXCEPT !.live = 0 + 1, !.tracked = TRUE]
    BY <1>8, <1>10, <2>1, <2>2 DEF Scheduled, o, ClientState
  <2>4. d.live = 1 /\ d.tracked /\ ~d.shutting /\ d.ws = None /\ d.runtime = c.runtime
    BY <1>8, <1>10, <2>1, <2>3 DEF w, ClientState
  <2>5. \A t \in Sockets : ~(net'[t].owner = b /\ net'[t].cli \in Live)
    <3>1. \A t \in Sockets : t # s => net'[t] = net[t]
      BY <1>1 DEF ConnsTyped
    <3> QED BY <1>3, <1>5, <1>10, <2>1, <3>1 DEF OneWayUp
  <2> HIDE DEF d
  <2>6. OneWayUp(b)'
    BY <1>6, <2>1, <2>4, <2>5 DEF OneWayUp
  <2> QED BY <1>2, <1>3, <1>10, <2>6, OneWayChanged
<1> QED BY <1>9, <1>10

LEMMA ClientStepUp ==
    ASSUME "reconnect" \notin Disturbances, ConnsTyped, ClientTyped, DownInv,
           NEW b \in Bridges, ClientStep(b)
    PROVE  /\ DownInv'
           /\ \A a \in Bridges : cl[a].shutting /\ left' = left => cl'[a].ws = None
<1> DEFINE c == cl[b]
           Stays == \A a \in Bridges : cl[a].shutting /\ left' = left => cl'[a].ws = None
<1>1. c \in ClientState /\ cl \in [Bridges -> ClientState] /\ (c.tracked => c.live > 0)
  BY DEF ClientTyped, TimersTracked
<1>2. OneWayUp(b) /\ (c.shutting => c.ws = None)
  BY DEF DownInv, OneWayUp
<1>3. ASSUME NEW d, cl' = [cl EXCEPT ![b] = d], c.shutting => d.ws = None
      PROVE  Stays
  BY <1>1, <1>3 DEF DownInv, OneWayUp
<1>4. ASSUME ~c.shutting, NEW d, NEW n, Connect(b, d, n)
      PROVE  Stays
  <2>1. PICK s \in Sockets : cl' = [cl EXCEPT ![b] = Dialing(d, s)]
    BY <1>4 DEF Connect
  <2> QED BY <1>3, <1>4, <2>1
<1>5. ASSUME NEW d, cl' = [cl EXCEPT ![b] = d], SameWay(c, d), NothingDialled
      PROVE  DownInv' /\ Stays
  <2>1. \A a \in Bridges : SameWay(cl[a], cl'[a])
    BY <1>1, <1>5 DEF SameWay
  <2>2. DownInv'
    BY <1>5, <2>1, SameWayUp
  <2> QED BY <1>2, <1>3, <1>5, <2>2 DEF SameWay
<1>6. ASSUME UNCHANGED cl, NothingDialled
      PROVE  DownInv' /\ Stays
  <2>1. \A a \in Bridges : SameWay(cl[a], cl'[a])
    BY <1>6 DEF SameWay
  <2> QED BY <1>6, <2>1, SameWayUp DEF DownInv, OneWayUp
<1>7. CASE Start(b)
  <2> DEFINE d == [c EXCEPT !.runtime = "running"]
  <2>1. Connect(b, d, net) /\ c.runtime = "new"
    BY <1>7 DEF Start
  <2>2. ~c.shutting /\ c.ws = None /\ c.live = 0 /\ ~c.tracked
    BY <1>2, <2>1 DEF OneWayUp
  <2>3. d \in ClientState /\ d.live = 0 /\ ~d.tracked /\ d.runtime = "running"
    BY <1>1, <2>2 DEF ClientState, RuntimeStates
  <2> HIDE DEF d
  <2> QED BY <1>4, <2>1, <2>2, <2>3, ConnectUp
<1>8. CASE Reconnect(b) /\ Disturbs("reconnect")
  BY <1>8 DEF Disturbs
<1>9. CASE NudgeReconnect(b)
  <2>1. ~c.shutting /\ c.status = "disconnected" /\ c.runtime = "running"
    BY <1>9 DEF NudgeReconnect, Running
  <2>2. c.ws = None
    BY <1>2, <2>1 DEF OneWayUp
  <2>3. Connect(b, Canceled(c), net)
    BY <1>9, <2>2 DEF NudgeReconnect, IsLive
  <2>4. Canceled(c) \in ClientState /\ ~Canceled(c).tracked
    BY <1>1, ClientRecordKept
  <2>5. Canceled(c).live = 0 /\ Canceled(c).runtime = "running"
    <3>1. CASE c.tracked
      <4>1. Canceled(c) = [c EXCEPT !.live = 1 - 1, !.tracked = FALSE]
        BY <1>2, <2>1, <3>1 DEF Canceled, OneWayUp
      <4> QED BY <1>1, <2>1, <4>1 DEF ClientState
    <3>2. CASE ~c.tracked
      BY <1>2, <2>1, <3>2 DEF Canceled, OneWayUp
    <3> QED BY <3>1, <3>2
  <2> QED BY <1>4, <2>1, <2>2, <2>3, <2>4, <2>5, ConnectUp
<1>10. CASE RetryTimerFires(b)
  <2>1. ~c.shutting /\ c.live = 1 /\ c.ws = None /\ c.runtime = "running"
    BY <1>1, <1>2, <1>10 DEF RetryTimerFires, OneWayUp, ClientState, RuntimeStates
  <2> DEFINE d == [c EXCEPT !.live = 1 - 1, !.tracked = FALSE]
  <2>2. Connect(b, d, net)
    BY <1>10, <2>1 DEF RetryTimerFires, IsLive
  <2>3. d \in ClientState /\ d.live = 0 /\ ~d.tracked /\ d.runtime = "running"
    <3>1. 1 - 1 = 0 /\ 0 \in 0..MaxTimers
      BY ClientAssumption DEF ClientAssumption
    <3>2. d = [c EXCEPT !.live = 0, !.tracked = FALSE]
      BY <3>1
    <3> QED BY <1>1, <2>1, <3>1, <3>2 DEF ClientState
  <2> HIDE DEF d
  <2> QED BY <1>4, <2>1, <2>2, <2>3, ConnectUp
<1>11. CASE Shutdown(b)
  <2> DEFINE e == Disconnected(c)
             d == [e EXCEPT !.runtime = "down"]
  <2>1. cl' = [cl EXCEPT ![b] = d] /\ net' = NetAfterDisconnect(b) /\ Running(b)
    BY <1>11 DEF Shutdown
  <2>2. Canceled(c) \in ClientState /\ ~Canceled(c).tracked /\ Canceled(c).live = 0
    <3>1. Canceled(c) \in ClientState /\ ~Canceled(c).tracked
      BY <1>1, ClientRecordKept
    <3>2. CASE c.tracked
      <4>1. c.live = 1
        BY <1>2, <3>2 DEF OneWayUp
      <4>2. Canceled(c) = [c EXCEPT !.live = 1 - 1, !.tracked = FALSE]
        BY <3>2, <4>1 DEF Canceled
      <4> QED BY <1>1, <3>1, <4>2 DEF ClientState
    <3>3. CASE ~c.tracked
      <4>1. c.live = 0
        BY <1>2, <3>3 DEF OneWayUp
      <4> QED BY <3>1, <3>3, <4>1 DEF Canceled
    <3> QED BY <3>2, <3>3
  <2>3. e \in ClientState /\ e.live = 0 /\ ~e.tracked /\ e.ws = None /\ e.shutting
    <3> DEFINE k == Canceled(c)
               o == [k EXCEPT !.shutting = TRUE, !.ws = None]
    <3> HIDE DEF k
    <3>1. o \in ClientState /\ o.live = 0 /\ ~o.tracked /\ o.ws = None /\ o.shutting
      BY <2>2 DEF ClientState, k
    <3> HIDE DEF o
    <3>2. /\ Offline(o) \in ClientState /\ Offline(o).live = 0 /\ ~Offline(o).tracked
          /\ Offline(o).ws = None /\ Offline(o).shutting
      BY <3>1 DEF Offline, ClientState, AuthStatuses, Statuses
    <3> QED BY <3>2 DEF Disconnected, o, k
  <2> HIDE DEF e
  <2>4. d.live = 0 /\ ~d.tracked /\ d.ws = None /\ d.shutting /\ d.runtime = "down"
    BY <2>3 DEF ClientState
  <2> HIDE DEF d
  <2>5. cl'[b] = d
    BY <1>1, <2>1
  <2>6. OneWayUp(b)'
    BY <2>4, <2>5 DEF OneWayUp
  <2>7. NothingDialled
    <3>1. CASE c.ws = None
      BY <2>1, <3>1 DEF NetAfterDisconnect, NothingDialled, NoneNew
    <3>2. CASE c.ws # None
      <4>1. net' = [net EXCEPT ![c.ws] = CliClose(net[c.ws])]
        BY <2>1, <3>2 DEF NetAfterDisconnect
      <4> QED BY <4>1, OneNew, NoneNewSides DEF ConnsTyped
    <3> QED BY <3>1, <3>2
  <2> QED BY <1>3, <2>1, <2>4, <2>6, <2>7, OneWayChanged
<1>12. CASE Reload(b) /\ Disturbs("reload")
  <2>1. cl' = [cl EXCEPT ![b] = NewClient(stored[b])]
    BY <1>12 DEF Reload
  <2>2. \A s \in Sockets : net'[s] = IF net[s].owner = b /\ net[s].cli # "closed"
                                    THEN CliEnded(Broken(net[s])) ELSE net[s]
    BY <1>12 DEF Reload
  <2>3. \A s \in Sockets : /\ NoneNew(net[s], CliEnded(Broken(net[s])))
                           /\ CliEnded(Broken(net[s])).cli \notin Live
    BY NoneNewSides DEF ConnsTyped
  <2>4. NothingDialled
    BY <2>2, <2>3 DEF NothingDialled, NoneNew
  <2>5. \A s \in Sockets : ~(net'[s].owner = b /\ net'[s].cli \in Live)
    BY <2>2, <2>3 DEF Live
  <2>6. cl'[b] = NewClient(stored[b])
    BY <1>1, <2>1
  <2>7. OneWayUp(b)'
    BY <2>5, <2>6 DEF OneWayUp, NewClient
  <2> QED BY <1>3, <2>1, <2>4, <2>7, OneWayChanged DEF NewClient
<1>13. CASE \E s \in Sockets : OnOpen(b, s)
  <2>1. PICK s \in Sockets : OnOpen(b, s)
    BY <1>13
  <2>2. /\ net' = [net EXCEPT ![s] = [net[s] EXCEPT !.cli = "open"]] /\ UNCHANGED cl
        /\ net[s].cli = "connecting" /\ net[s] \in Conn
    BY <2>1 DEF OnOpen, clientVars, ConnsTyped
  <2>3. NoneNew(net[s], [net[s] EXCEPT !.cli = "open"])
    BY <2>2, StepFields DEF Fields, NoneNew, Live
  <2> QED BY <1>6, <2>2, <2>3, OneNew
<1>14. CASE \E s \in Sockets : OnClose(b, s)
  <2>1. PICK s \in Sockets : OnClose(b, s)
    BY <1>14
  <2>2. DownInv' /\ (c.shutting => cl'[b].ws = None)
    BY <2>1, OnCloseUp
  <2>3. \A a \in Bridges : a # b => cl'[a] = cl[a]
    BY <1>1, <2>1 DEF OnClose
  <2> QED BY <2>2, <2>3 DEF DownInv, OneWayUp
<1>15. ASSUME NEW m \in UpMessages, NEW n \in [Sockets -> Conn], net' = SendOn(n, b, m),
              \A s \in Sockets : NoneNew(net[s], n[s])
       PROVE  NothingDialled
  <2>1. CASE c.ws = None
    BY <1>15, <2>1 DEF SendOn, NothingDialled
  <2>2. CASE c.ws # None
    <3>1. net' = [n EXCEPT ![c.ws] = CliSend(n[c.ws], m)] /\ c.ws \in Sockets
      BY <1>1, <1>15, <2>2 DEF SendOn, ClientState
    <3>2. NoneNew(n[c.ws], CliSend(n[c.ws], m))
      BY <3>1, NoneNewSides
    <3> QED BY <1>15, <3>1, <3>2 DEF NothingDialled, NoneNew
  <2> QED BY <2>1, <2>2
<1>16. CASE \E s \in Sockets : HandleServerMessage(b, s)
  <2>1. PICK s \in Sockets : HandleServerMessage(b, s)
    BY <1>16
  <2>2. net[s].down # <<>>
    BY <2>1 DEF HandleServerMessage, HandleServerChallenge, HandlePairingRequired,
       HandlePairingComplete, HandleAuthAccepted, HandleAuthRejected, Receives, DataDown
  <2>3. NoneNew(net[s], TakenDown(s)) /\ TakenDown(s) \in Conn
    BY <2>2, NoneNewSides, ConnKept DEF ConnsTyped, TakenDown
  <2>4. /\ Takes(s) \in [Sockets -> Conn]
        /\ \A t \in Sockets : NoneNew(net[t], Takes(s)[t])
    BY <2>3 DEF Takes, ConnsTyped, NoneNew
  <2>5. net' = Takes(s) => NothingDialled
    BY <2>4 DEF NothingDialled
  <2>6. CASE HandleServerChallenge(b, s)
    <3>1. UNCHANGED cl /\ (net' = Takes(s) \/ net' = SendOn(Takes(s), b, Hello(b, None)))
      BY <2>6 DEF HandleServerChallenge
    <3>2. Hello(b, None) \in UpMessages
      BY MessagesTyped
    <3> QED BY <1>6, <1>15, <2>4, <2>5, <3>1, <3>2
  <2>7. CASE HandlePairingRequired(b, s)
    <3> DEFINE d == [c EXCEPT !.pairingId = Head(net[s].down).id, !.auth = "pairing-required"]
    <3>1. cl' = [cl EXCEPT ![b] = d] /\ net' = Takes(s)
      BY <2>7 DEF HandlePairingRequired
    <3>2. SameWay(c, d)
      BY <1>1 DEF SameWay, ClientState
    <3> HIDE DEF d
    <3> QED BY <1>5, <2>5, <3>1, <3>2
  <2>8. CASE HandlePairingComplete(b, s)
    <3> DEFINE d == [c EXCEPT !.secret = Head(net[s].down).secret, !.granted = TRUE]
    <3>1. cl' = [cl EXCEPT ![b] = d] /\ net' = Takes(s)
      BY <2>8 DEF HandlePairingComplete
    <3>2. SameWay(c, d)
      BY <1>1 DEF SameWay, ClientState
    <3> HIDE DEF d
    <3> QED BY <1>5, <2>5, <3>1, <3>2
  <2>9. CASE HandleAuthAccepted(b, s)
    <3> DEFINE d == [c EXCEPT !.pairingId = None, !.granted = TRUE,
                              !.auth = "authenticated", !.status = "connected"]
    <3>1. cl' = [cl EXCEPT ![b] = d] /\ net' = Takes(s)
      BY <2>9 DEF HandleAuthAccepted
    <3>2. SameWay(c, d)
      BY <1>1 DEF SameWay, ClientState
    <3> HIDE DEF d
    <3> QED BY <1>5, <2>5, <3>1, <3>2
  <2>10. CASE HandleAuthRejected(b, s)
    <3>1. /\ \/ cl' = [cl EXCEPT ![b] = [c EXCEPT !.secret = None]]
             \/ cl' = [cl EXCEPT ![b] = [c EXCEPT !.auth = "rejected"]]
          /\ net' = Takes(s)
      BY <2>10 DEF HandleAuthRejected
    <3>2. SameWay(c, [c EXCEPT !.secret = None]) /\ SameWay(c, [c EXCEPT !.auth = "rejected"])
      BY <1>1 DEF SameWay, ClientState
    <3> QED BY <1>5, <2>5, <3>1, <3>2
  <2> QED BY <2>1, <2>6, <2>7, <2>8, <2>9, <2>10 DEF HandleServerMessage
<1>17. CASE \E p \in proofs[b] : ProofReady(b, p)
  <2>1. PICK p \in proofs[b] : net' = SendOn(net, b, Hello(b, p)) /\ UNCHANGED cl
    BY <1>17 DEF ProofReady
  <2>2. Hello(b, p) \in UpMessages
    BY MessagesTyped DEF ClientTyped
  <2> QED BY <1>6, <1>15, <2>1, <2>2 DEF ConnsTyped, NoneNew
<1>18. CASE SecretStored(b)
  <2>1. NothingDialled
    BY <1>18 DEF SecretStored, NothingDialled, NoneNew
  <2>2. UNCHANGED cl \/ cl' = [cl EXCEPT ![b] = [c EXCEPT !.auth = "rejected"]]
    BY <1>18 DEF SecretStored
  <2>3. SameWay(c, [c EXCEPT !.auth = "rejected"])
    BY <1>1 DEF SameWay, ClientState
  <2> QED BY <1>5, <1>6, <2>1, <2>2, <2>3
<1>19. CASE \E code \in ShownCodes : ConfirmPairing(b, code)
  <2>1. PICK code \in ShownCodes : ConfirmPairing(b, code)
    BY <1>19
  <2> DEFINE m == [type |-> "pairing_confirm", inst |-> b, id |-> c.pairingId, code |-> code]
  <2>2. /\ net' = SendOn(net, b, m)
        /\ cl' = [cl EXCEPT ![b] = [c EXCEPT !.auth = "authenticating"]]
        /\ c.ws # None
    BY <2>1 DEF ConfirmPairing
  <2> HIDE DEF m
  <2>3. NothingDialled
    <3>1. net' = [net EXCEPT ![c.ws] = CliSend(net[c.ws], m)]
      BY <2>2 DEF SendOn
    <3> QED BY <3>1, OneNew, NoneNewSides DEF ConnsTyped
  <2>4. SameWay(c, [c EXCEPT !.auth = "authenticating"])
    BY <1>1 DEF SameWay, ClientState
  <2> QED BY <1>5, <2>2, <2>3, <2>4
<1> QED BY <1>7, <1>8, <1>9, <1>10, <1>11, <1>12, <1>13, <1>14, <1>16, <1>17, <1>18, <1>19
        DEF ClientStep

LEMMA TransportDialsNothing ==
    ASSUME ConnsTyped, TransportStep PROVE NothingDialled
<1>1. PICK s \in Sockets : TransportEvent(s) \/ Breaks(s)
  BY DEF TransportStep
<1> DEFINE c == net[s]
           u == CliClose(c)
           v == SrvClose(c)
<1>2. c \in Conn /\ u \in Conn /\ v \in Conn
  BY ConnKept DEF ConnsTyped
<1>3. /\ u.owner = c.owner /\ NoneNew(c, v) /\ NoneNew(c, Broken(c))
  BY <1>2, CloseFields, NoneNewSides DEF Fields
<1>4. CASE CliReceivesClose(s)
  <2>1. /\ net' = [net EXCEPT ![s] = [u EXCEPT !.cli = "ending", !.down = <<>>]]
        /\ c.cli \in {"open", "closing"}
    BY <1>4 DEF CliReceivesClose
  <2> HIDE DEF u
  <2>2. NoneNew(c, [u EXCEPT !.cli = "ending", !.down = <<>>])
    BY <1>2, <1>3, <2>1, StepFields DEF Fields, NoneNew, Live
  <2> QED BY <2>1, <2>2, OneNew
<1>5. CASE SrvReceivesClose(s)
  <2>1. net' = [net EXCEPT ![s] = [v EXCEPT !.srv = "ending", !.up = <<>>]]
    BY <1>5 DEF SrvReceivesClose
  <2> HIDE DEF v
  <2>2. NoneNew(c, [v EXCEPT !.srv = "ending", !.up = <<>>])
    BY <1>2, <1>3, StepFields DEF Fields, NoneNew
  <2> QED BY <2>1, <2>2, OneNew
<1>6. CASE Breaks(s)
  BY <1>3, <1>6, OneNew DEF Breaks
<1> QED BY <1>1, <1>4, <1>5, <1>6 DEF TransportEvent

LEMMA DownInvNext ==
    ASSUME "reconnect" \notin Disturbances, AllTyped, DownInv, [Next]_vars
    PROVE  /\ DownInv'
           /\ \A b \in Bridges : cl[b].shutting /\ left' = left => cl'[b].ws = None
<1>1. \A b \in Bridges : cl[b].shutting => cl[b].ws = None
  BY DEF DownInv, OneWayUp
<1>2. CASE UNCHANGED cl /\ NothingDialled
  <2>1. \A b \in Bridges : SameWay(cl[b], cl'[b])
    BY <1>2 DEF SameWay
  <2> QED BY <1>1, <1>2, <2>1, SameWayUp
<1>3. CASE ServerStep
  BY <1>2, <1>3, ServerDialsNothing DEF ServerStep, clientVars, AllTyped
<1>4. CASE \E b \in Bridges : ClientStep(b)
  BY <1>4, ClientStepUp DEF AllTyped
<1>5. CASE TransportStep
  BY <1>2, <1>5, TransportDialsNothing DEF TransportStep, clientVars, AllTyped
<1>6. CASE UNCHANGED vars
  BY <1>2, <1>6 DEF vars, NothingDialled, NoneNew
<1> QED BY <1>3, <1>4, <1>5, <1>6 DEF Next

LEMMA DownInvInit == Init => DownInv
<1> SUFFICES ASSUME Init, NEW b \in Bridges PROVE OneWayUp(b)
  BY DEF DownInv
<1>1. cl[b] = NewClient(None)
  BY DEF Init, ClientInit
<1>2. \A s \in Sockets : net[s].cli \notin Live
  BY UnusedFields DEF Init, Fields, Live
<1> QED BY <1>1, <1>2 DEF OneWayUp, NewClient

\* Unless the user reconnects by hand, a client that has been told to shut down
\* opens no connection until the plugin is loaded again: no retry timer it has
\* lost track of is still to fire, and no event of a closing socket sets one.
THEOREM ShutdownIsFinal ==
    ASSUME "reconnect" \notin Disturbances PROVE Spec => ShutdownStaysDown
<1>1. AllTyped /\ DownInv /\ [Next]_vars =>
         /\ DownInv'
         /\ [\A b \in Bridges : cl[b].shutting /\ left' = left => cl'[b].ws = None]_vars
  BY DownInvNext
<1> QED BY <1>1, DownInvInit, TypesHold, PTL DEF Spec, ShutdownStaysDown

-----------------------------------------------------------------------------
(* The secret of the served connection.  A connection is in touch while     *)
(* both its ends are open and it is not broken.  On a connection that is in *)
(* touch, whoever claims the pairing (by being accepted, or by a proof of   *)
(* its secret that is computed or on its way) holds the secret or is about  *)
(* to receive it.                                                           *)

Within(q) == {q[i] : i \in 1..Len(q)}

Touching(c) == c.cli = "open" /\ c.srv = "open" /\ ~c.lost
Dialled(c)  == c.cli \in {"connecting", "open"}

ProofFor(s) == [secret |-> store.paired.secret, nonce |-> s]

Known(s) ==
    \/ cl[net[s].owner].secret = store.paired.secret
    \/ PairingComplete(store.paired.secret) \in Within(net[s].down)

Claims(s) ==
    \/ sv.accepted /\ sv.client = s
    \/ ProofFor(s) \in proofs[net[s].owner]
    \/ Hello(net[s].owner, ProofFor(s)) \in Within(net[s].up)

ClaimantsKnow(s) ==
    store.paired # None /\ store.paired.inst = net[s].owner /\ Touching(net[s]) /\ Claims(s)
      => Known(s)

\* What the server has sent down socket s.
Told(s, m) ==
    /\ m.type = "server_challenge" => m = ServerChallenge(s)
    /\ SrvOpen(s) => m # AuthRejected(TRUE)
    /\ SrvOpen(s) /\ m.type = "pairing_complete" =>
          store.paired # None /\ m = PairingComplete(store.paired.secret)

AllTold(s) ==
    /\ net[s].srv = "none" => net[s].down = <<>>
    /\ \A m \in Within(net[s].down) : Told(s, m)

\* Nothing refers to a socket that is still being dialled.
StillFresh(s) ==
    net[s].cli = "connecting" =>
       /\ net[s].up = <<>>
       /\ \A b \in Bridges : \A p \in proofs[b] : p.nonce # s
       /\ ~(sv.accepted /\ sv.client = s)

SocketInv(s) ==
    /\ Dialled(net[s]) => cl[net[s].owner].ws = s
    /\ SrvOpen(s) => sv.client = s
    /\ AllTold(s)
    /\ StillFresh(s)
    /\ ClaimantsKnow(s)

SecretInv ==
    /\ \A s \in Sockets : SocketInv(s)
    /\ store.paired = None => store.disk = None

LEMMA WithinFacts ==
    ASSUME NEW S, NEW q \in Seq(S)
    PROVE  /\ Within(q) \subseteq S
           /\ Within(<<>>) = {}
           /\ q = <<>> \/ Within(q) # {}
           /\ \A m : Within(Append(q, m)) = Within(q) \cup {m}
           /\ q # <<>> => /\ Head(q) \in Within(q) /\ Within(Tail(q)) \subseteq Within(q)
                          /\ Within(q) \subseteq Within(Tail(q)) \cup {Head(q)}
<1>1. Len(q) \in Nat /\ \A i \in 1..Len(q) : q[i] \in S
  OBVIOUS
<1>2. Within(q) \subseteq S
  BY <1>1 DEF Within
<1>3. Within(<<>>) = {}
  BY EmptyOwned DEF Within
<1>4. q = <<>> \/ Within(q) # {}
  <2>1. q # <<>> => 1 \in 1..Len(q)
    OBVIOUS
  <2> QED BY <2>1 DEF Within
<1>5. ASSUME NEW m
      PROVE  Within(Append(q, m)) = Within(q) \cup {m}
  <2>1. q \in Seq(S \cup {m})
    BY <1>1
  <2>2. /\ Len(Append(q, m)) = Len(q) + 1
        /\ Append(q, m)[Len(q) + 1] = m
        /\ \A i \in 1..Len(q) : Append(q, m)[i] = q[i]
    BY <2>1
  <2>3. 1..Len(q) + 1 = (1..Len(q)) \cup {Len(q) + 1}
    BY <1>1
  <2> QED BY <2>2, <2>3 DEF Within
<1>6. ASSUME q # <<>>
      PROVE  /\ Head(q) \in Within(q) /\ Within(Tail(q)) \subseteq Within(q)
             /\ Within(q) \subseteq Within(Tail(q)) \cup {Head(q)}
  <2>1. /\ Head(q) = q[1] /\ 1 \in 1..Len(q) /\ Len(Tail(q)) = Len(q) - 1
        /\ \A i \in 1..Len(Tail(q)) : Tail(q)[i] = q[i + 1]
    BY <1>6
  <2>2. ASSUME NEW i \in 1..Len(q)
        PROVE  q[i] = Head(q) \/ q[i] \in Within(Tail(q))
    <3>1. CASE i = 1
      BY <2>1, <3>1
    <3>2. CASE i # 1
      <4>1. i - 1 \in 1..Len(Tail(q)) /\ Tail(q)[i - 1] = q[i]
        BY <1>1, <2>1, <3>2
      <4> QED BY <4>1 DEF Within
    <3> QED BY <3>1, <3>2
  <2>3. ASSUME NEW i \in 1..Len(Tail(q))
        PROVE  Tail(q)[i] \in Within(q)
    <3>1. i + 1 \in 1..Len(q) /\ Tail(q)[i] = q[i + 1]
      BY <1>1, <2>1
    <3> QED BY <3>1 DEF Within
  <2> QED BY <2>1, <2>2, <2>3 DEF Within
<1> QED BY <1>2, <1>3, <1>4, <1>5, <1>6

\* Messages the server may send whatever the connection and the pairing are.
Plain(m) == m.type \notin {"server_challenge", "pairing_complete"} /\ m # AuthRejected(TRUE)

\* d follows from c when nobody dials, opens or is paired, and H is sent up.
Follows(c, d, H) ==
    /\ Dialled(d) => Dialled(c) /\ d.owner = c.owner
    /\ d.cli = "connecting" => c.cli = "connecting" /\ (c.up = <<>> => d.up = <<>>)
    /\ d.srv = "open" => c.srv = "open"
    /\ d.srv = "none" => d.down = <<>> \/ (c.srv = "none" /\ c.down # <<>>)
    /\ \A m \in Within(d.down) :
          m \in Within(c.down) \/ Plain(m) \/ (m = AuthRejected(TRUE) /\ d.srv # "open")
    /\ Touching(d) => /\ Touching(c)
                      /\ \A k : PairingComplete(k) \in Within(c.down) =>
                                   PairingComplete(k) \in Within(d.down)
    /\ Within(d.up) \subseteq Within(c.up) \cup H \cup {CloseFrame}

LEMMA MessageNames ==
    /\ Plain(CloseFrame) /\ Plain(AuthAccepted) /\ Plain(AuthRejected(FALSE))
    /\ \A id : Plain(PairingRequired(id))
    /\ \A b, p : Hello(b, p) # CloseFrame
    /\ \A b, p, x, id, code : 
          Hello(b, p) # [type |-> "pairing_confirm", inst |-> x, id |-> id, code |-> code]
    /\ \A k : /\ PairingComplete(k).type = "pairing_complete"
              /\ PairingComplete(k) # CloseFrame /\ PairingComplete(k) # AuthAccepted
              /\ PairingComplete(k) # AuthRejected(TRUE)
<1>1. /\ Plain(CloseFrame) /\ Plain(AuthAccepted)
      /\ \A id : Plain(PairingRequired(id))
  BY DEF Plain, CloseFrame, AuthAccepted, PairingRequired, AuthRejected
<1>2. Plain(AuthRejected(FALSE))
  <2>1. AuthRejected(FALSE).reset = FALSE /\ AuthRejected(TRUE).reset = TRUE
    BY DEF AuthRejected
  <2>2. AuthRejected(FALSE).type = "auth_rejected"
    BY DEF AuthRejected
  <2> QED BY <2>1, <2>2 DEF Plain
<1>3. \A b, p : Hello(b, p).type = "client_hello"
  BY DEF Hello
<1>4. \A b, p : Hello(b, p) # CloseFrame
  BY <1>3 DEF CloseFrame
<1>5. \A b, p, x, id, code : 
          Hello(b, p) # [type |-> "pairing_confirm", inst |-> x, id |-> id, code |-> code]
  BY <1>3
<1>6. \A k : /\ PairingComplete(k).type = "pairing_complete"
             /\ PairingComplete(k) # CloseFrame /\ PairingComplete(k) # AuthAccepted
             /\ PairingComplete(k) # AuthRejected(TRUE)
  BY DEF PairingComplete, CloseFrame, AuthAccepted, AuthRejected
<1> QED BY <1>1, <1>2, <1>4, <1>5, <1>6

LEMMA ConnQueues ==
    ASSUME NEW c \in Conn
    PROVE  /\ c.up \in Seq(UpMessages) /\ c.down \in Seq(DownMessages)
           /\ Within(c.up) \subseteq UpMessages /\ Within(c.down) \subseteq DownMessages
           /\ c.lost \in BOOLEAN
  BY WithinFacts DEF Conn

LEMMA FollowsSelf == ASSUME NEW c PROVE Follows(c, c, {})
  BY DEF Follows

LEMMA FollowsTwice ==
    ASSUME NEW c, NEW d, NEW e, NEW H, Follows(c, d, {}), Follows(d, e, H)
    PROVE  Follows(c, e, H)
  BY DEF Follows

LEMMA FollowsSides ==
    ASSUME NEW c \in Conn
    PROVE  /\ \A m : Follows(c, CliSend(c, m), {m})
           /\ \A m : Plain(m) => Follows(c, SrvSend(c, m), {})
           /\ Follows(c, CliClose(c), {}) /\ Follows(c, SrvClose(c), {})
           /\ Follows(c, Broken(c), {})
           /\ Follows(c, CliEnded(c), {}) /\ ~Dialled(CliEnded(c))
           /\ Follows(c, SrvEnded(c), {}) /\ SrvEnded(c).srv # "open"
           /\ c.up # <<>> => Follows(c, [c EXCEPT !.up = Tail(@)], {})
           /\ c.down # <<>> /\ Head(c.down).type # "pairing_complete" =>
                 Follows(c, [c EXCEPT !.down = Tail(@)], {})
           /\ Follows(c, [c EXCEPT !.cli = "ending", !.down = <<>>], {})
           /\ Follows(c, [c EXCEPT !.srv = "ending", !.up = <<>>], {})
<1>1. /\ c.up \in Seq(UpMessages) /\ c.down \in Seq(DownMessages)
      /\ Within(<<>>) = {}
      /\ \A m : Within(Append(c.up, m)) = Within(c.up) \cup {m}
      /\ \A m : Within(Append(c.down, m)) = Within(c.down) \cup {m}
  BY ConnQueues, WithinFacts
<1>2. Within(OnlyClose(c.down)) \subseteq {CloseFrame}
  <2>1. <<CloseFrame>> \in Seq({CloseFrame})
    OBVIOUS
  <2>2. Within(<<CloseFrame>>) \subseteq {CloseFrame}
    BY <2>1, WithinFacts
  <2> QED BY <1>1, <2>2 DEF OnlyClose
<1>3. ASSUME NEW m
      PROVE  /\ Follows(c, CliSend(c, m), {m})
             /\ Plain(m) => Follows(c, SrvSend(c, m), {})
  <2> DEFINE up == IF c.cli = "open" /\ ~c.lost THEN Append(c.up, m) ELSE c.up
             down == IF c.srv = "open" /\ ~c.lost /\ c.cli \in {"connecting", "open"}
                     THEN Append(c.down, m) ELSE c.down
  <2>1. /\ Fields(CliSend(c, m), c.owner, c.cli, c.srv, up, c.down, c.lost)
        /\ Fields(SrvSend(c, m), c.owner, c.cli, c.srv, c.up, down, c.lost)
    BY SendFields
  <2>2. /\ Within(up) \subseteq Within(c.up) \cup {m} /\ (c.cli = "connecting" => up = c.up)
        /\ Within(c.down) \subseteq Within(down) /\ Within(down) \subseteq Within(c.down) \cup {m}
        /\ c.srv = "none" => down = c.down
    BY <1>1
  <2> HIDE DEF up, down
  <2>3. Follows(c, CliSend(c, m), {m})
    BY <2>1, <2>2 DEF Fields, Follows, Dialled, Touching
  <2>4. Plain(m) => Follows(c, SrvSend(c, m), {})
    BY <2>1, <2>2 DEF Fields, Follows, Dialled, Touching
  <2> QED BY <2>3, <2>4
<1>4. Follows(c, CliClose(c), {})
  <2>1. CASE c.cli = "open"
    <3> DEFINE sent == IF c.lost THEN c.up ELSE Append(c.up, CloseFrame)
               only == OnlyClose(c.down)
    <3>1. Fields(CliClose(c), c.owner, "closing", c.srv, sent, only, c.lost)
      BY <2>1, CloseFields
    <3>2. Within(sent) \subseteq Within(c.up) \cup {CloseFrame}
      BY <1>1
    <3>3. \A m \in Within(only) : Plain(m)
      BY <1>2, MessageNames
    <3>4. c.down = <<>> => only = <<>>
      BY DEF OnlyClose
    <3> HIDE DEF sent, only
    <3> QED BY <3>1, <3>2, <3>3, <3>4 DEF Fields, Follows, Dialled, Touching
  <2>2. CASE c.cli # "open"
    BY <1>1, <2>2, CloseFields DEF Fields, Follows, Dialled, Touching
  <2> QED BY <2>1, <2>2
<1>5. Follows(c, SrvClose(c), {})
  <2>1. CASE c.srv = "open"
    <3> DEFINE rest == IF c.lost THEN c.down ELSE Append(c.down, CloseFrame)
    <3>1. Fields(SrvClose(c), c.owner, c.cli, "closing", c.up, rest, c.lost)
      BY <2>1, CloseFields
    <3>2. Within(rest) \subseteq Within(c.down) \cup {CloseFrame}
      BY <1>1
    <3> HIDE DEF rest
    <3> QED BY <3>1, <3>2, MessageNames DEF Fields, Follows, Dialled, Touching
  <2>2. CASE c.srv # "open"
    BY <2>2, CloseFields, FollowsSelf
  <2> QED BY <2>1, <2>2
<1>6. Follows(c, Broken(c), {})
  BY <1>1, EndFields DEF Fields, Follows, Dialled, Touching
<1>7. Follows(c, CliEnded(c), {}) /\ ~Dialled(CliEnded(c))
  BY <1>1, EndFields, UnusedFields DEF Fields, Follows, Dialled, Touching
<1>8. Follows(c, SrvEnded(c), {}) /\ SrvEnded(c).srv # "open"
  BY <1>1, EndFields, UnusedFields DEF Fields, Follows, Dialled, Touching
<1>9. c.up # <<>> => Follows(c, [c EXCEPT !.up = Tail(@)], {})
  <2>1. c.up # <<>> => Within(Tail(c.up)) \subseteq Within(c.up)
    BY <1>1, WithinFacts
  <2>2. (c.up = <<>>) = FALSE => Fields([c EXCEPT !.up = Tail(@)], c.owner, c.cli, c.srv,
                                       Tail(c.up), c.down, c.lost)
    BY StepFields
  <2> QED BY <2>1, <2>2 DEF Fields, Follows, Dialled, Touching
<1>10. ASSUME c.down # <<>>, Head(c.down).type # "pairing_complete"
       PROVE  Follows(c, [c EXCEPT !.down = Tail(@)], {})
  <2>1. /\ Within(Tail(c.down)) \subseteq Within(c.down)
        /\ Within(c.down) \subseteq Within(Tail(c.down)) \cup {Head(c.down)}
    BY <1>1, <1>10, WithinFacts
  <2>2. \A k : PairingComplete(k) # Head(c.down)
    BY <1>10, MessageNames
  <2>3. Fields([c EXCEPT !.down = Tail(@)], c.owner, c.cli, c.srv, c.up, Tail(c.down), c.lost)
    BY StepFields
  <2> QED BY <1>10, <2>1, <2>2, <2>3 DEF Fields, Follows, Dialled, Touching
<1>11. /\ Follows(c, [c EXCEPT !.cli = "ending", !.down = <<>>], {})
       /\ Follows(c, [c EXCEPT !.srv = "ending", !.up = <<>>], {})
  BY <1>1, StepFields DEF Fields, Follows, Dialled, Touching
<1> QED BY <1>3, <1>4, <1>5, <1>6, <1>7, <1>8, <1>9, <1>10, <1>11

\* The server's answers to a message it has taken up.
LEMMA FollowsAnswers ==
    ASSUME ConnsTyped, NEW s \in Sockets, net[s].up # <<>>
    PROVE  /\ Follows(net[s], TakenUp(s), {})
           /\ \A m \in DownMessages : Plain(m) => Follows(net[s], SrvSend(TakenUp(s), m), {})
           /\ Follows(net[s], Accepting(TakenUp(s)), {})
           /\ Follows(net[s], Rejecting(TakenUp(s)), {})
           /\ \A r \in BOOLEAN : Follows(net[s], RejectingAuthentication(TakenUp(s), r), {})
<1> DEFINE c == TakenUp(s)
<1>1. c \in Conn /\ Follows(net[s], c, {})
  BY ConnKept, FollowsSides DEF ConnsTyped, TakenUp
<1> HIDE DEF c
<1>2. \A m \in DownMessages : Plain(m) => Follows(net[s], SrvSend(c, m), {})
  BY <1>1, FollowsSides, FollowsTwice
<1>3. Follows(net[s], Accepting(c), {})
  BY <1>2, MessagesTyped, MessageNames DEF Accepting
<1>4. Follows(net[s], Rejecting(c), {})
  BY <1>1, FollowsSides, FollowsTwice DEF Rejecting
<1>5. ASSUME NEW r \in BOOLEAN
      PROVE  Follows(net[s], RejectingAuthentication(c, r), {})
  <2> DEFINE e == SrvSend(c, AuthRejected(r))
  <2>1. e \in Conn
    BY <1>1, ConnKept, MessagesTyped
  <2>2. CASE r = FALSE
    <3>1. Follows(net[s], e, {})
      BY <1>2, <2>2, MessagesTyped, MessageNames
    <3> HIDE DEF e
    <3>2. Follows(net[s], SrvClose(e), {})
      BY <2>1, <3>1, FollowsSides, FollowsTwice
    <3> QED BY <3>2 DEF RejectingAuthentication, e
  <2>3. CASE r = TRUE
    <3> DEFINE sends == c.srv = "open" /\ ~c.lost /\ c.cli \in {"connecting", "open"}
    <3>1. \/ e = c
          \/ /\ c.srv = "open"
             /\ Fields(e, c.owner, c.cli, c.srv, c.up, Append(c.down, AuthRejected(TRUE)), c.lost)
      <4>1. CASE ~sends
        BY <4>1 DEF SrvSend
      <4>2. CASE sends
        BY <1>1, <2>3, <4>2, SendFields
      <4> QED BY <4>1, <4>2
    <3>2. CASE e = c
      <4> HIDE DEF e
      <4>1. Follows(net[s], SrvClose(e), {})
        BY <1>1, <3>2, FollowsSides, FollowsTwice
      <4> QED BY <4>1 DEF RejectingAuthentication, e
    <3>3. CASE /\ c.srv = "open"
               /\ Fields(e, c.owner, c.cli, c.srv, c.up, Append(c.down, AuthRejected(TRUE)), c.lost)
      <4> HIDE DEF e
      <4> DEFINE rest == IF e.lost THEN e.down ELSE Append(e.down, CloseFrame)
      <4>0. e.srv = "open" /\ e.down = Append(c.down, AuthRejected(TRUE))
        BY <3>3 DEF Fields
      <4>1. Fields(SrvClose(e), e.owner, e.cli, "closing", e.up, rest, e.lost)
        BY <2>1, <4>0, CloseFields
      <4>2. /\ Within(e.down) = Within(c.down) \cup {AuthRejected(TRUE)}
            /\ Within(rest) \subseteq Within(e.down) \cup {CloseFrame}
        <5>1. c.down \in Seq(DownMessages) /\ e.down \in Seq(DownMessages)
          BY <1>1, <2>1, ConnQueues
        <5>2. Within(e.down) = Within(c.down) \cup {AuthRejected(TRUE)}
          BY <4>0, <5>1, WithinFacts
        <5>3. Within(Append(e.down, CloseFrame)) = Within(e.down) \cup {CloseFrame}
          BY <5>1, WithinFacts
        <5> QED BY <5>2, <5>3
      <4> HIDE DEF rest
      <4>3. Follows(c, SrvClose(e), {})
        BY <3>3, <4>1, <4>2, MessageNames DEF Fields, Follows, Dialled, Touching
      <4>4. Follows(net[s], SrvClose(e), {})
        BY <1>1, <4>3, FollowsTwice
      <4> QED BY <2>3, <4>4 DEF RejectingAuthentication, e
    <3> QED BY <3>1, <3>2, <3>3
  <2> QED BY <2>2, <2>3
<1> QED BY <1>1, <1>2, <1>3, <1>4, <1>5 DEF c

\* A socket nothing special happens to: its connection follows, the pairing and
\* the client it is served as stay while it is open, its bridge keeps what it
\* knows while it is in touch, and no proof for it comes from nowhere.
LEMMA SocketKept ==
    ASSUME ConnsTyped, NEW s \in Sockets, SocketInv(s),
           Dialled(net[s]) => net[s].owner \in Bridges,
           NEW H, Follows(net[s], net'[s], H),
           net'[s].srv = "open" => store'.paired = store.paired /\ sv'.client = sv.client,
           Dialled(net'[s]) => cl'[net[s].owner].ws = cl[net[s].owner].ws,
           Touching(net'[s]) => cl'[net[s].owner].secret = cl[net[s].owner].secret,
           \A b \in Bridges : \A p \in proofs'[b] : p.nonce = s =>
              p \in proofs[b] \/ (net'[s].cli # "connecting" /\ p.secret = cl[net[s].owner].secret),
           sv'.accepted /\ sv'.client = s =>
              \/ sv.accepted /\ sv.client = s
              \/ Hello(net[s].owner, ProofFor(s)) \in Within(net[s].up),
           store.paired # None /\ Hello(net[s].owner, ProofFor(s)) \in H =>
              ProofFor(s) \in proofs[net[s].owner]
    PROVE  SocketInv(s)'
<1> DEFINE c == net[s]
           d == net'[s]
           o == net[s].owner
<1>1. Dialled(d) => cl'[d.owner].ws = s
  BY DEF SocketInv, Follows
<1>2. d.srv = "open" => sv'.client = s
  BY DEF SocketInv, Follows, SrvOpen
<1>3. AllTold(s)'
  <2>1. d.srv = "none" => d.down = <<>>
    BY DEF SocketInv, AllTold, Follows
  <2>2. ASSUME NEW m \in Within(d.down)
        PROVE  Told(s, m)'
    <3>1. CASE m \in Within(c.down)
      <4>1. Told(s, m)
        BY <3>1 DEF SocketInv, AllTold
      <4>2. d.srv = "open" => c.srv = "open" /\ store'.paired = store.paired
        BY DEF Follows
      <4> QED BY <4>1, <4>2 DEF Told, SrvOpen
    <3>2. CASE Plain(m)
      BY <3>2 DEF Plain, Told
    <3>3. CASE m = AuthRejected(TRUE) /\ d.srv # "open"
      <4>1. AuthRejected(TRUE).type = "auth_rejected"
        BY DEF AuthRejected
      <4> QED BY <3>3, <4>1 DEF Told, SrvOpen
    <3> QED BY <3>1, <3>2, <3>3 DEF Follows
  <2> QED BY <2>1, <2>2 DEF AllTold
<1>4. StillFresh(s)'
  <2> SUFFICES ASSUME d.cli = "connecting"
               PROVE  /\ d.up = <<>>
                      /\ \A b \in Bridges : \A p \in proofs'[b] : p.nonce # s
                      /\ ~(sv'.accepted /\ sv'.client = s)
    BY DEF StillFresh
  <2>1. c.cli = "connecting" /\ c.up = <<>>
    BY DEF Follows, SocketInv, StillFresh
  <2>2. Within(c.up) = {}
    BY <2>1, EmptyOwned DEF Within
  <2> QED BY <2>1, <2>2 DEF Follows, SocketInv, StillFresh
<1>5. ClaimantsKnow(s)'
  <2> SUFFICES ASSUME store'.paired # None, store'.paired.inst = d.owner, Touching(d), Claims(s)'
               PROVE  Known(s)'
    BY DEF ClaimantsKnow
  <2>1. /\ Touching(c) /\ d.owner = o /\ o \in Bridges /\ d.srv = "open"
        /\ store'.paired = store.paired /\ store.paired # None
        /\ cl'[o].secret = cl[o].secret
    BY DEF Follows, Touching, Dialled
  <2>2. ProofFor(s)' = ProofFor(s)
    BY <2>1 DEF ProofFor
  <2>3. Claims(s) \/ cl[o].secret = store.paired.secret
    <3>1. CASE sv'.accepted /\ sv'.client = s
      BY <3>1 DEF Claims
    <3>2. CASE ProofFor(s) \in proofs'[o]
      <4>1. ProofFor(s).nonce = s /\ ProofFor(s).secret = store.paired.secret
        BY DEF ProofFor
      <4> QED BY <2>1, <3>2, <4>1 DEF Claims
    <3>3. CASE Hello(o, ProofFor(s)) \in Within(d.up)
      BY <2>1, <3>3, MessageNames DEF Claims, Follows
    <3> QED BY <2>1, <2>2, <3>1, <3>2, <3>3 DEF Claims
  <2>4. Known(s)
    BY <2>1, <2>3 DEF SocketInv, ClaimantsKnow, Known
  <2> QED BY <2>1, <2>3, <2>4 DEF Known, Follows
<1> QED BY <1>1, <1>2, <1>3, <1>4, <1>5 DEF SocketInv, SrvOpen

LEMMA OneFollows ==
    ASSUME ConnsTyped, NEW s, NEW d, s \in Sockets => Follows(net[s], d, {}),
           net' = [net EXCEPT ![s] = d]
    PROVE  \A t \in Sockets : Follows(net[t], net'[t], {})
  BY FollowsSelf DEF ConnsTyped

\* The steps of the server that only answer.
LEMMA ServerSocketKept ==
    ASSUME ConnsTyped, ClientTyped, NetOK, SecretInv, UNCHANGED clientVars,
           NEW s \in Sockets, Follows(net[s], net'[s], {}),
           net'[s].srv = "open" => store'.paired = store.paired /\ sv'.client = sv.client,
           sv'.accepted /\ sv'.client = s =>
              \/ sv.accepted /\ sv.client = s
              \/ Hello(net[s].owner, ProofFor(s)) \in Within(net[s].up)
    PROVE  SocketInv(s)'
<1>1. Dialled(net[s]) => net[s].owner \in Bridges
  BY DEF NetOK, Dialled
<1>2. SocketInv(s) /\ UNCHANGED <<cl, proofs>>
  BY DEF SecretInv, clientVars
<1>3. /\ cl'[net[s].owner].ws = cl[net[s].owner].ws
      /\ cl'[net[s].owner].secret = cl[net[s].owner].secret
      /\ \A b \in Bridges : \A p \in proofs'[b] : p.nonce = s =>
            p \in proofs[b] \/ (net'[s].cli # "connecting" /\ p.secret = cl[net[s].owner].secret)
  BY <1>2
<1>4. store.paired # None /\ Hello(net[s].owner, ProofFor(s)) \in {} =>
         ProofFor(s) \in proofs[net[s].owner]
  OBVIOUS
<1> QED BY <1>1, <1>2, <1>3, <1>4, SocketKept

LEMMA AnswerKeepsSecret ==
    ASSUME ConnsTyped, ClientTyped, NetOK, SecretInv, UNCHANGED clientVars,
           \A s \in Sockets : Follows(net[s], net'[s], {}),
           store'.paired = store.paired, store'.disk = store.disk, sv'.client = sv.client,
           sv'.accepted =>
              \/ sv.accepted
              \/ /\ sv.client \in Sockets
                 /\ Hello(net[sv.client].owner, ProofFor(sv.client)) \in Within(net[sv.client].up)
    PROVE  SecretInv'
<1>1. \A s \in Sockets : SocketInv(s)'
  BY ServerSocketKept
<1>2. store'.paired = None => store'.disk = None
  BY DEF SecretInv
<1> QED BY <1>1, <1>2 DEF SecretInv

LEMMA HelloKeepsSecret ==
    ASSUME ConnsTyped, ServerTyped, ClientTyped, StoreInv, NetOK, ServerOK, SecretInv,
           UNCHANGED clientVars, HandleClientHello
    PROVE  SecretInv'
<1> DEFINE s == sv.client
           v == Greeted(Received)
<1>1. /\ s \in Sockets /\ net[s].up # <<>> /\ Received \in UpMessages
      /\ Received.type = "client_hello" /\ ReceivesFromClient("client_hello")
  BY ReceivedTyped DEF HandleClientHello, HelloIncompatible, HelloUnpaired, HelloWithoutProof,
     HelloBadProof, HelloAccepted, CompatibleHello
<1>2. v.client = s /\ (v.accepted <=> sv.accepted)
  BY DEF Greeted, ServerTyped, ServerState
<1> HIDE DEF v
<1>3. CASE HelloIncompatible
  <2>1. /\ net' = [net EXCEPT ![s] = Rejecting(TakenUp(s))] /\ UNCHANGED store
        /\ sv' = [sv EXCEPT !.helloTimer = FALSE]
    BY <1>3 DEF HelloIncompatible, ClientNet
  <2>2. \A t \in Sockets : Follows(net[t], net'[t], {})
    BY <1>1, <2>1, FollowsAnswers, OneFollows
  <2>3. sv'.client = s /\ (sv'.accepted <=> sv.accepted)
    BY <2>1 DEF ServerTyped, ServerState
  <2> QED BY <2>1, <2>2, <2>3, AnswerKeepsSecret
<1>4. CASE HelloUnpaired
  <2>1. PICK fresh \in PairingIds : store' = EnsurePairingChallenge(Received.inst, fresh)
    BY <1>4 DEF HelloUnpaired
  <2>2. store'.paired = store.paired /\ store'.disk = store.disk
    BY <2>1 DEF EnsurePairingChallenge, StoreInv
  <2>3. PairingRequired(store'.challenge.id) \in DownMessages
    <3>1. Received.inst \in Bridges
      BY <1>1, UpTypes
    <3> QED BY <2>1, <3>1, ChallengeTyped, MessagesTyped DEF ServerTyped
  <2>4. net' = [net EXCEPT ![s] = SrvSend(TakenUp(s), PairingRequired(store'.challenge.id))]
    BY <1>4 DEF HelloUnpaired, ClientNet
  <2>5. \A t \in Sockets : Follows(net[t], net'[t], {})
    BY <1>1, <2>3, <2>4, MessageNames, FollowsAnswers, OneFollows
  <2>6. sv' = v
    BY <1>4 DEF HelloUnpaired, v
  <2> QED BY <1>2, <2>2, <2>5, <2>6, AnswerKeepsSecret
<1>5. CASE HelloWithoutProof \/ HelloBadProof
  <2>1. /\ \E r \in BOOLEAN : net' = [net EXCEPT ![s] = RejectingAuthentication(TakenUp(s), r)]
        /\ UNCHANGED store /\ sv' = v
    BY <1>5 DEF HelloWithoutProof, HelloBadProof, ClientNet, v
  <2>2. \A t \in Sockets : Follows(net[t], net'[t], {})
    BY <1>1, <2>1, FollowsAnswers, OneFollows
  <2> QED BY <1>2, <2>1, <2>2, AnswerKeepsSecret
<1>6. CASE HelloAccepted
  <2>1. /\ net' = [net EXCEPT ![s] = Accepting(TakenUp(s))] /\ UNCHANGED store
        /\ sv' = AcceptedBy(v)
        /\ VerifyBridgeProof(Received.inst, Received.proof)
    BY <1>6 DEF HelloAccepted, ClientNet, v
  <2>2. \A t \in Sockets : Follows(net[t], net'[t], {})
    BY <1>1, <2>1, FollowsAnswers, OneFollows
  <2>3. Received = Hello(net[s].owner, ProofFor(s))
    <3>1. Received \in HelloMessages
      BY <1>1 DEF UpMessages, ConfirmMessages, CloseFrame
    <3>2. Received = Hello(Received.inst, Received.proof)
      BY <3>1 DEF HelloMessages, Hello
    <3>3. Received.inst = net[s].owner
      BY <1>1, ReceivedIsOwners
    <3>4. Received.proof = ProofFor(s)
      BY <2>1 DEF VerifyBridgeProof, ProofFor
    <3> QED BY <3>2, <3>3, <3>4
  <2>4. Received \in Within(net[s].up)
    <3>1. net[s].up \in Seq(UpMessages)
      BY <1>1, ConnQueues DEF ConnsTyped
    <3> QED BY <1>1, <3>1, WithinFacts DEF Received
  <2>5. sv'.client = s
    BY <1>2, <2>1 DEF AcceptedBy, v, Greeted, ServerTyped, ServerState
  <2> QED BY <1>1, <2>1, <2>2, <2>3, <2>4, <2>5, AnswerKeepsSecret
<1> QED BY <1>3, <1>4, <1>5, <1>6 DEF HandleClientHello

\* Nobody refers to a secret that is not held.
LEMMA HeldProofs ==
    ASSUME ConnsTyped, NEW k \in Secrets, k \notin HeldSecrets, NEW s \in Sockets, NEW b \in Bridges
    PROVE  /\ [secret |-> k, nonce |-> s] \notin proofs[b]
           /\ Hello(b, [secret |-> k, nonce |-> s]) \notin Within(net[s].up)
<1> DEFINE p == [secret |-> k, nonce |-> s]
<1>1. p.secret = k /\ p # None
  <2>1. p \in Proofs
    BY DEF Proofs
  <2> QED BY <2>1, ServerAssumption DEF ServerAssumption
<1> HIDE DEF p
<1>2. ASSUME p \in proofs[b]
      PROVE  FALSE
  <2>1. k \in {q.secret : q \in proofs[b]}
    BY <1>1, <1>2
  <2>2. UNION {{q.secret : q \in proofs[a]} : a \in Bridges} \subseteq HeldSecrets
    BY Zenon DEF HeldSecrets
  <2>3. k \in UNION {{q.secret : q \in proofs[a]} : a \in Bridges}
    BY <2>1
  <2> QED BY <2>2, <2>3
<1>3. ASSUME Hello(b, p) \in Within(net[s].up)
      PROVE  FALSE
  <2>1. Hello(b, p) \in InTransit
    BY <1>3 DEF InTransit, Within
  <2>2. Hello(b, p).type = "client_hello" /\ Hello(b, p).proof = p
    BY DEF Hello
  <2>3. {m.proof.secret : m \in {n \in InTransit : n.type = "client_hello" /\ n.proof # None}}
           \subseteq HeldSecrets
    BY Zenon DEF HeldSecrets
  <2>4. k \in {m.proof.secret : m \in {n \in InTransit : n.type = "client_hello" /\ n.proof # None}}
    BY <1>1, <2>1, <2>2
  <2> QED BY <2>3, <2>4
<1> QED BY <1>2, <1>3 DEF p

LEMMA SentWithin ==
    ASSUME NEW c \in Conn, NEW m
    PROVE  /\ SrvSend(c, m).owner = c.owner /\ SrvSend(c, m).cli = c.cli
           /\ SrvSend(c, m).srv = c.srv /\ SrvSend(c, m).up = c.up
           /\ SrvSend(c, m).lost <=> c.lost
           /\ Within(c.down) \subseteq Within(SrvSend(c, m).down)
           /\ Within(SrvSend(c, m).down) \subseteq Within(c.down) \cup {m}
           /\ c.srv # "open" => SrvSend(c, m) = c
           /\ Touching(c) => m \in Within(SrvSend(c, m).down)
<1> DEFINE down == IF c.srv = "open" /\ ~c.lost /\ c.cli \in {"connecting", "open"}
                   THEN Append(c.down, m) ELSE c.down
<1>1. Fields(SrvSend(c, m), c.owner, c.cli, c.srv, c.up, down, c.lost)
  BY SendFields
<1>2. /\ Within(c.down) \subseteq Within(down) /\ Within(down) \subseteq Within(c.down) \cup {m}
      /\ Touching(c) => m \in Within(down)
  BY ConnQueues, WithinFacts DEF Touching
<1>3. c.srv # "open" => SrvSend(c, m) = c
  BY DEF SrvSend
<1> HIDE DEF down
<1> QED BY <1>1, <1>2, <1>3 DEF Fields

LEMMA ConfirmKeepsSecret ==
    ASSUME ConnsTyped, ServerTyped, ClientTyped, StoreInv, NetOK, ServerOK, SecretInv,
           UNCHANGED clientVars, HandlePairingConfirm, FreshIdentifiers
    PROVE  SecretInv'
<1>1. PICK s \in Sockets :
         /\ s = sv.client /\ net[s].up # <<>> /\ Received \in UpMessages
         /\ ReceivesFromClient("pairing_confirm") /\ Received.type = "pairing_confirm"
  BY ReceivedTyped DEF HandlePairingConfirm, ConfirmMismatch, ConfirmRefused, ConfirmCompletes,
     MatchingConfirm
<1> DEFINE c == TakenUp(s)
<1>2. CASE ConfirmMismatch
  <2>1. /\ net' = [net EXCEPT ![s] = RejectingAuthentication(c, FALSE)]
        /\ UNCHANGED store /\ sv' = [sv EXCEPT !.helloTimer = FALSE]
    BY <1>1, <1>2 DEF ConfirmMismatch, ClientNet
  <2>2. \A t \in Sockets : Follows(net[t], net'[t], {})
    BY <1>1, <2>1, FollowsAnswers, OneFollows
  <2>3. sv'.client = s /\ (sv'.accepted <=> sv.accepted)
    BY <1>1, <2>1 DEF ServerTyped, ServerState
  <2> QED BY <1>1, <2>1, <2>2, <2>3, AnswerKeepsSecret
<1>3. CASE ConfirmRefused
  <2>1. /\ net' = [net EXCEPT ![s] = SrvSend(c, AuthRejected(FALSE))]
        /\ store' = store \/ store' = [store EXCEPT !.challenge = None]
        /\ UNCHANGED sv
    BY <1>1, <1>3 DEF ConfirmRefused, ClientNet
  <2>2. \A t \in Sockets : Follows(net[t], net'[t], {})
    BY <1>1, <2>1, FollowsAnswers, OneFollows, MessagesTyped, MessageNames
  <2>3. store'.paired = store.paired /\ store'.disk = store.disk
    BY <2>1 DEF StoreInv
  <2> QED BY <1>1, <2>1, <2>2, <2>3, AnswerKeepsSecret
<1>4. CASE ConfirmCompletes
  <2>1. PICK k \in Secrets, ok \in PersistResults("pairing") :
           /\ store' = Persist(Paired(Received.inst, k), ok)
           /\ \/ /\ ok /\ sv' = AcceptedBy(sv)
                 /\ net' = [net EXCEPT ![s] = Accepting(SrvSend(c, PairingComplete(k)))]
              \/ /\ ~ok /\ UNCHANGED sv
                 /\ net' = [net EXCEPT ![s] = SrvSend(c, AuthRejected(FALSE))]
    BY <1>1, <1>4 DEF ConfirmCompletes, ClientNet
  <2>2. store.paired = None /\ store.disk = None /\ ~sv.accepted
    BY <1>4 DEF ConfirmCompletes, ChallengeUsable, StoreInv, ServerOK, ServedIsPaired, SecretInv
  <2>3. Received.inst \in Bridges
    BY <1>1, UpTypes
  <2>4. store'.paired = [inst |-> Received.inst, secret |-> k] /\ store'.paired # None
    <3>1. [inst |-> Received.inst, secret |-> k] \in Pairings
      BY <2>3 DEF Pairings
    <3> QED BY <2>1, <3>1, ServerAssumption DEF ServerAssumption, Persist, Paired, StoreInv
  <2>5. store'.paired.secret = k /\ k \notin HeldSecrets
    BY <2>2, <2>4 DEF FreshIdentifiers
  <2>6. sv'.client = s /\ (sv'.accepted => ok)
    BY <1>1, <2>1, <2>2 DEF AcceptedBy, ServerTyped, ServerState
  <2>7. /\ c \in Conn /\ net[s] \in Conn
        /\ Fields(c, net[s].owner, net[s].cli, net[s].srv, Tail(net[s].up), net[s].down, net[s].lost)
        /\ Follows(net[s], c, {})
    BY <1>1, ConnKept, StepFields, FollowsAnswers DEF ConnsTyped, TakenUp
  <2>8. ASSUME NEW t \in Sockets, t # s
        PROVE  SocketInv(t)'
    <3>1. net'[t] = net[t]
      BY <2>1, <2>8 DEF ConnsTyped
    <3>2. net[t].srv # "open"
      BY <1>1, <2>8 DEF SecretInv, SocketInv, SrvOpen
    <3> QED BY <2>6, <2>8, <3>1, <3>2, FollowsSelf, ServerSocketKept
  <2>9. SocketInv(s)'
    <3> DEFINE e == SrvSend(c, PairingComplete(k))
    <3>0. PICK d : d = net'[s]
      OBVIOUS
    <3> HIDE DEF c
    <3>1. /\ d.owner = net[s].owner /\ d.cli = net[s].cli /\ d.srv = net[s].srv
          /\ d.lost <=> net[s].lost
          /\ Within(d.up) \subseteq Within(net[s].up)
          /\ \A m \in Within(d.down) :
                \/ m \in Within(net[s].down)
                \/ m \in {PairingComplete(k), AuthAccepted, AuthRejected(FALSE)}
          /\ ok /\ Touching(d) => PairingComplete(k) \in Within(d.down)
      <4>1. /\ c.owner = net[s].owner /\ c.cli = net[s].cli /\ c.srv = net[s].srv
            /\ c.lost <=> net[s].lost
            /\ Within(c.up) \subseteq Within(net[s].up) /\ c.down = net[s].down
        <5>1. net[s].up \in Seq(UpMessages)
          BY <2>7, ConnQueues
        <5>2. Within(Tail(net[s].up)) \subseteq Within(net[s].up)
          BY <1>1, <5>1, WithinFacts
        <5> QED BY <2>7, <5>2 DEF Fields
      <4>2. CASE ok /\ net' = [net EXCEPT ![s] = Accepting(e)]
        <5>1. e \in Conn
          BY <2>7, ConnKept, MessagesTyped
        <5>2. /\ e.owner = c.owner /\ e.cli = c.cli /\ e.srv = c.srv /\ e.up = c.up
              /\ e.lost <=> c.lost
              /\ Within(e.down) \subseteq Within(c.down) \cup {PairingComplete(k)}
              /\ Touching(c) => PairingComplete(k) \in Within(e.down)
          BY <2>7, SentWithin
        <5> HIDE DEF e
        <5>3. d = SrvSend(e, AuthAccepted)
          BY <1>1, <3>0, <4>2 DEF Accepting, ConnsTyped
        <5>4. /\ d.owner = e.owner /\ d.cli = e.cli /\ d.srv = e.srv /\ d.up = e.up
              /\ d.lost <=> e.lost
              /\ Within(e.down) \subseteq Within(d.down)
              /\ Within(d.down) \subseteq Within(e.down) \cup {AuthAccepted}
          BY <5>1, <5>3, SentWithin
        <5> QED BY <4>1, <5>2, <5>4 DEF Touching
      <4>3. CASE ~ok /\ net' = [net EXCEPT ![s] = SrvSend(c, AuthRejected(FALSE))]
        <5>1. d = SrvSend(c, AuthRejected(FALSE))
          BY <1>1, <3>0, <4>3 DEF ConnsTyped
        <5>2. /\ d.owner = c.owner /\ d.cli = c.cli /\ d.srv = c.srv /\ d.up = c.up
              /\ d.lost <=> c.lost
              /\ Within(d.down) \subseteq Within(c.down) \cup {AuthRejected(FALSE)}
          BY <2>7, <5>1, SentWithin
        <5> QED BY <4>1, <4>3, <5>2
      <4> QED BY <2>1, <4>2, <4>3
    <3>2. net[s].cli # "connecting" /\ net[s].srv # "none"
      BY <1>1 DEF SecretInv, SocketInv, StillFresh, ReceivesFromClient, DataUp
    <3>3. UNCHANGED <<cl, proofs>> /\ SocketInv(s)
      BY <1>1 DEF clientVars, SecretInv
    <3>4. AllTold(s)'
      <4>1. ASSUME NEW m \in Within(d.down)
            PROVE  Told(s, m)'
        <5>1. CASE m \in Within(net[s].down)
          <6>1. Told(s, m)
            BY <3>3, <5>1 DEF SocketInv, AllTold
          <6>2. m.type # "pairing_complete" \/ ~SrvOpen(s)
            BY <2>2, <6>1 DEF Told
          <6> QED BY <3>0, <3>1, <6>1, <6>2 DEF Told, SrvOpen
        <5>2. CASE m = PairingComplete(k)
          <6>1. m.type = "pairing_complete" /\ m # AuthRejected(TRUE)
            BY <5>2, MessageNames
          <6> QED BY <2>4, <2>5, <5>2, <6>1 DEF Told
        <5>3. CASE m = AuthAccepted \/ m = AuthRejected(FALSE)
          <6>1. Plain(m)
            BY <5>3, MessageNames
          <6> QED BY <6>1 DEF Plain, Told
        <5> QED BY <3>1, <5>1, <5>2, <5>3
      <4> QED BY <3>0, <3>1, <3>2, <4>1 DEF AllTold
    <3>5. ClaimantsKnow(s)'
      <4> SUFFICES ASSUME store'.paired.inst = d.owner, Touching(d), Claims(s)'
                   PROVE  Known(s)'
        BY <3>0 DEF ClaimantsKnow
      <4>1. ok => Known(s)'
        BY <2>5, <3>0, <3>1 DEF Known
      <4>2. CASE ~ok
        <5>1. d.owner \in Bridges
          BY <2>3, <2>4
        <5>2. ProofFor(s)' = [secret |-> k, nonce |-> s]
          BY <2>5 DEF ProofFor
        <5>3. /\ ProofFor(s)' \notin proofs[d.owner]
              /\ Hello(d.owner, ProofFor(s)') \notin Within(net[s].up)
          BY <1>1, <2>5, <5>1, <5>2, HeldProofs
        <5> QED BY <2>6, <3>0, <3>1, <3>3, <4>2, <5>3 DEF Claims
      <4> QED BY <4>1, <4>2 DEF PersistResults
    <3>6. Dialled(d) => cl'[d.owner].ws = s
      BY <3>1, <3>3 DEF SocketInv, Dialled
    <3>7. StillFresh(s)'
      BY <3>0, <3>1, <3>2 DEF StillFresh
    <3> QED BY <2>6, <3>0, <3>4, <3>5, <3>6, <3>7 DEF SocketInv
  <2> QED BY <2>4, <2>8, <2>9 DEF SecretInv
<1> QED BY <1>2, <1>3, <1>4 DEF HandlePairingConfirm

LEMMA ConnectionKeepsSecret ==
    ASSUME ConnsTyped, ServerTyped, ClientTyped, NetOK, SecretInv, UNCHANGED clientVars,
           NEW s \in Sockets, HandleConnection(s)
    PROVE  SecretInv'
<1> DEFINE c == [net[s] EXCEPT !.srv = "open"]
<1>1. /\ net[s] \in Conn /\ c \in Conn /\ net[s].cli = "connecting" /\ net[s].srv = "none"
      /\ Fields(c, net[s].owner, net[s].cli, "open", net[s].up, net[s].down, net[s].lost)
  BY StepFields, ConnKept DEF ConnsTyped, HandleConnection
<1>2. SocketInv(s) /\ net[s].down = <<>> /\ net[s].up = <<>>
  BY <1>1 DEF SecretInv, SocketInv, AllTold, StillFresh
<1>3. UNCHANGED <<cl, proofs>>
  BY DEF clientVars
<1>5. (RejectsSecondClient(s) \/ TakesClient(s)) /\ UNCHANGED store
  BY DEF HandleConnection, RejectsSecondClient, TakesClient, serverVars
<1>6. store'.paired = None => store'.disk = None
  BY <1>5 DEF SecretInv
<1>7. CASE RejectsSecondClient(s)
  <2> DEFINE d == SrvClose(c)
             rest == IF c.lost THEN c.down ELSE Append(c.down, CloseFrame)
  <2>1. net' = [net EXCEPT ![s] = d] /\ UNCHANGED sv
    BY <1>7 DEF RejectsSecondClient, serverVars
  <2> HIDE DEF c
  <2>2. Fields(d, c.owner, c.cli, "closing", c.up, rest, c.lost)
    BY <1>1, CloseFields DEF Fields
  <2>3. Within(rest) \subseteq Within(c.down) \cup {CloseFrame}
    BY <1>1, ConnQueues, WithinFacts
  <2> HIDE DEF d, rest
  <2>4. Follows(net[s], d, {})
    BY <1>1, <2>2, <2>3, MessageNames DEF Fields, Follows, Dialled, Touching
  <2>5. \A t \in Sockets : Follows(net[t], net'[t], {})
    BY <2>1, <2>4, OneFollows
  <2> QED BY <1>5, <2>1, <2>5, AnswerKeepsSecret
<1>8. CASE TakesClient(s)
  <2> DEFINE d == SrvSend(c, ServerChallenge(s))
  <2>1. /\ net' = [net EXCEPT ![s] = d]
        /\ sv' = [sv EXCEPT !.client = s, !.accepted = FALSE, !.hello = None, !.helloTimer = TRUE]
        /\ ~(sv.client # None /\ SrvOpen(sv.client))
    BY <1>8 DEF TakesClient
  <2>2. sv'.client = s /\ ~sv'.accepted
    BY <2>1 DEF ServerTyped, ServerState
  <2>3. ASSUME NEW t \in Sockets, t # s
        PROVE  SocketInv(t)'
    <3>1. net'[t] = net[t]
      BY <2>1, <2>3 DEF ConnsTyped
    <3>2. net[t].srv # "open"
      BY <2>1, NoneAssumption DEF SecretInv, SocketInv, SrvOpen
    <3> QED BY <2>2, <3>1, <3>2, FollowsSelf, ServerSocketKept
  <2> HIDE DEF c
  <2>4. /\ d.owner = c.owner /\ d.cli = c.cli /\ d.srv = c.srv /\ d.up = c.up
        /\ Within(d.down) \subseteq Within(c.down) \cup {ServerChallenge(s)}
    BY <1>1, SentWithin
  <2>5. net'[s] = d
    BY <2>1 DEF ConnsTyped
  <2> HIDE DEF d
  <2>6. /\ net'[s].owner = net[s].owner /\ net'[s].cli = "connecting" /\ net'[s].srv = "open"
        /\ net'[s].up = <<>> /\ Within(net'[s].down) \subseteq {ServerChallenge(s)}
    <3>1. Within(c.down) = {}
      BY <1>1, <1>2, EmptyOwned DEF Within, Fields
    <3> QED BY <1>1, <1>2, <2>4, <2>5, <3>1 DEF Fields
  <2>7. \A m \in Within(net'[s].down) : Told(s, m)'
    <3>1. /\ ServerChallenge(s).type = "server_challenge"
          /\ ServerChallenge(s) # AuthRejected(TRUE)
      BY DEF ServerChallenge, AuthRejected
    <3> QED BY <2>6, <3>1 DEF Told
  <2>8. SocketInv(s)'
    BY <1>1, <1>2, <1>3, <2>2, <2>6, <2>7
       DEF SocketInv, Dialled, AllTold, StillFresh, ClaimantsKnow, Touching
  <2> QED BY <1>6, <2>3, <2>8 DEF SecretInv
<1> QED BY <1>5, <1>7, <1>8

LEMMA ServerKeepsSecret ==
    ASSUME "reset" \notin PersistFailures, ConnsTyped, ServerTyped, ClientTyped, StoreInv, NetOK,
           ServerOK, SecretInv, ServerStep
    PROVE  SecretInv'
<1>1. UNCHANGED clientVars
  BY DEF ServerStep
<1>3. CASE \E s \in Sockets : HandleConnection(s)
  BY <1>1, <1>3, ConnectionKeepsSecret
<1>4. CASE HelloTimerFires
  <2>1. /\ net' = [net EXCEPT ![sv.client] = Rejecting(net[sv.client])] /\ UNCHANGED store
        /\ sv' = [sv EXCEPT !.helloTimer = FALSE]
    BY <1>4 DEF HelloTimerFires, HelloTimeout
  <2>2. sv.client \in Sockets => Follows(net[sv.client], Rejecting(net[sv.client]), {})
    BY FollowsSides DEF ConnsTyped, Rejecting
  <2>3. sv'.client = sv.client /\ (sv'.accepted <=> sv.accepted)
    BY <2>1 DEF ServerTyped, ServerState
  <2>4. \A t \in Sockets : Follows(net[t], net'[t], {})
    BY <2>1, <2>2, OneFollows
  <2> QED BY <1>1, <2>1, <2>3, <2>4, AnswerKeepsSecret
<1>5. CASE \E s \in Sockets : IgnoresMessage(s)
  <2>1. PICK s \in Sockets : IgnoresMessage(s)
    BY <1>5
  <2>2. /\ net' = [net EXCEPT ![s] = TakenUp(s)] /\ UNCHANGED <<sv, store>> /\ net[s].up # <<>>
    BY <2>1 DEF IgnoresMessage, DataUp, serverVars
  <2>3. \A t \in Sockets : Follows(net[t], net'[t], {})
    BY <2>2, FollowsAnswers, OneFollows
  <2> QED BY <1>1, <2>2, <2>3, AnswerKeepsSecret
<1>6. CASE HandleClientHello
  BY <1>1, <1>6, HelloKeepsSecret
<1>7. CASE HandlePairingConfirm /\ FreshIdentifiers
  BY <1>1, <1>7, ConfirmKeepsSecret
<1>8. CASE \E s \in Sockets : HandleClose(s)
  <2>1. PICK s \in Sockets : HandleClose(s)
    BY <1>8
  <2>2. /\ net' = [net EXCEPT ![s] = SrvEnded(net[s])] /\ UNCHANGED store
        /\ sv' = IF sv.client = s THEN NoClient ELSE sv
    BY <2>1 DEF HandleClose, ClearClientState
  <2>3. Follows(net[s], SrvEnded(net[s]), {}) /\ SrvEnded(net[s]).srv # "open"
    BY FollowsSides DEF ConnsTyped
  <2>4. \A t \in Sockets : Follows(net[t], net'[t], {})
    BY <2>2, <2>3, OneFollows
  <2>5. ASSUME NEW t \in Sockets, net'[t].srv = "open"
        PROVE  sv'.client = sv.client
    <3>1. t # s /\ net'[t] = net[t]
      BY <2>2, <2>3, <2>5 DEF ConnsTyped
    <3>2. sv.client = t
      BY <2>5, <3>1 DEF SecretInv, SocketInv, SrvOpen
    <3> QED BY <2>2, <3>1, <3>2
  <2>6. sv'.accepted => sv.accepted /\ sv'.client = sv.client
    BY <2>2 DEF NoClient
  <2>7. \A t \in Sockets : SocketInv(t)'
    BY <1>1, <2>2, <2>4, <2>5, <2>6, ServerSocketKept
  <2> QED BY <2>2, <2>7 DEF SecretInv
<1>9. ASSUME \A t \in Sockets : Follows(net[t], net'[t], {}) /\ net'[t].srv # "open",
             ~sv'.accepted, store'.paired = None => store'.disk = None
      PROVE  SecretInv'
  <2>1. \A t \in Sockets : SocketInv(t)'
    BY <1>1, <1>9, ServerSocketKept
  <2> QED BY <1>9, <2>1 DEF SecretInv
<1>10. CASE ResetPairing
  <2>1. /\ store' = [store EXCEPT !.paired = None, !.challenge = None, !.disk = None]
        /\ sv' = NoClient
        /\ net' = IF sv.client = None THEN net
                  ELSE [net EXCEPT ![sv.client] = SrvClose(net[sv.client])]
    BY <1>10 DEF ResetPairing, PersistResults, Persist, ClearClientState, StoreInv
  <2>2. store'.paired = None /\ store'.disk = None /\ ~sv'.accepted
    BY <2>1 DEF ServerTyped, StoreState, NoClient
  <2>3. ASSUME NEW t \in Sockets
        PROVE  Follows(net[t], net'[t], {}) /\ net'[t].srv # "open"
    <3>1. CASE sv.client = t
      <4>1. net'[t] = SrvClose(net[t]) /\ net[t] \in Conn
        BY <2>1, <3>1, NoneAssumption DEF ConnsTyped
      <4>2. SrvClose(net[t]).srv # "open"
        BY <4>1, CloseFields DEF Fields
      <4> QED BY <4>1, <4>2, FollowsSides
    <3>2. CASE sv.client # t
      <4>1. net'[t] = net[t] /\ net[t].srv # "open"
        BY <2>1, <3>2 DEF ConnsTyped, SecretInv, SocketInv, SrvOpen
      <4> QED BY <4>1, FollowsSelf
    <3> QED BY <3>1, <3>2
  <2> QED BY <1>9, <2>2, <2>3
<1>11. CASE ChallengeExpires
  <2>1. store'.paired = store.paired /\ store'.disk = store.disk /\ UNCHANGED <<sv, net>>
    BY <1>11 DEF ChallengeExpires, ServerTyped, StoreState
  <2>2. \A t \in Sockets : Follows(net[t], net'[t], {})
    BY <2>1, FollowsSelf
  <2> QED BY <1>1, <2>1, <2>2, AnswerKeepsSecret
<1>12. CASE ServerRestart
  <2>1. /\ sv' = NoClient /\ store' = [store EXCEPT !.paired = store.disk, !.challenge = None]
        /\ \A t \in Sockets : net'[t] = IF net[t].srv \in {"open", "closing", "ending"}
                                         THEN SrvEnded(Broken(net[t])) ELSE net[t]
    BY <1>12 DEF ServerRestart
  <2>2. store'.paired = store.disk /\ store'.disk = store.disk /\ ~sv'.accepted
    BY <2>1 DEF ServerTyped, StoreState, NoClient
  <2>3. ASSUME NEW t \in Sockets
        PROVE  Follows(net[t], net'[t], {}) /\ net'[t].srv # "open"
    <3> DEFINE e == Broken(net[t])
    <3>1. e \in Conn /\ Follows(net[t], e, {})
      BY ConnKept, FollowsSides DEF ConnsTyped
    <3> HIDE DEF e
    <3>2. Follows(net[t], SrvEnded(e), {}) /\ SrvEnded(e).srv # "open"
      BY <3>1, FollowsSides, FollowsTwice
    <3> QED BY <2>1, <3>2, FollowsSelf DEF e
  <2> QED BY <1>9, <2>2, <2>3
<1> QED BY <1>3, <1>4, <1>5, <1>6, <1>7, <1>8, <1>10, <1>11, <1>12 DEF ServerStep, HandleMessage

\* Only its own client brings a socket to life.
LEMMA ClientDials ==
    ASSUME ConnsTyped, ClientTyped, NEW b \in Bridges, ClientStep(b)
    PROVE  \A s \in Sockets : NoneNew(net[s], net'[s]) \/ net'[s].owner = b
<1> DEFINE Quiet(n) == \A s \in Sockets : NoneNew(net[s], n[s])
           Done == \A s \in Sockets : NoneNew(net[s], net'[s]) \/ net'[s].owner = b
<1>1. /\ net \in [Sockets -> Conn] /\ Quiet(net)
      /\ cl[b].ws \in Sockets \cup {None}
      /\ \A n : Quiet(n) /\ net' = n => Done
  BY DEF ConnsTyped, NoneNew, ClientTyped, ClientState
<1>2. ASSUME NEW s \in Sockets, NEW d, NoneNew(net[s], d), net' = [net EXCEPT ![s] = d]
      PROVE  Done
  BY <1>1, <1>2, OneNew DEF NothingDialled
<1>3. NetAfterDisconnect(b) \in [Sockets -> Conn] /\ Quiet(NetAfterDisconnect(b))
  <2>1. CASE cl[b].ws = None
    BY <1>1, <2>1 DEF NetAfterDisconnect
  <2>2. CASE cl[b].ws # None
    <3>1. /\ NetAfterDisconnect(b) = [net EXCEPT ![cl[b].ws] = CliClose(net[cl[b].ws])]
          /\ NoneNew(net[cl[b].ws], CliClose(net[cl[b].ws]))
      BY <1>1, <2>2, NoneNewSides DEF NetAfterDisconnect
    <3> QED BY <1>1, <3>1, DisconnectTyped
  <2> QED BY <2>1, <2>2
<1>4. ASSUME NEW d, NEW n \in [Sockets -> Conn], Quiet(n), Connect(b, d, n)
      PROVE  Done
  <2>1. PICK s \in Sockets : net' = [n EXCEPT ![s] = Dial(b)]
    BY <1>4 DEF Connect
  <2>2. Dial(b).owner = b
    BY DialFields DEF Fields
  <2> QED BY <1>4, <2>1, <2>2
<1>5. ASSUME NEW n \in [Sockets -> Conn], Quiet(n), NEW m, net' = SendOn(n, b, m)
      PROVE  Done
  <2>1. CASE cl[b].ws = None
    BY <1>1, <1>5, <2>1 DEF SendOn
  <2>2. CASE cl[b].ws # None
    <3>1. net' = [n EXCEPT ![cl[b].ws] = CliSend(n[cl[b].ws], m)] /\ cl[b].ws \in Sockets
      BY <1>1, <1>5, <2>2 DEF SendOn
    <3>2. NoneNew(net[cl[b].ws], CliSend(n[cl[b].ws], m))
      BY <1>5, <3>1, NoneNewSides, NoneNewTwice
    <3> QED BY <1>5, <3>1, <3>2
  <2> QED BY <2>1, <2>2
<1> SUFFICES Done
  BY DEF Done
<1> HIDE DEF Done, Quiet
<1>6. CASE Start(b) \/ NudgeReconnect(b) \/ RetryTimerFires(b)
  <2>1. net' = net \/ \E d : Connect(b, d, net)
    BY <1>6 DEF Start, NudgeReconnect, RetryTimerFires
  <2>2. CASE net' = net
    BY <1>1, <2>2
  <2> QED BY <1>1, <1>4, <2>1, <2>2
<1>7. CASE Reconnect(b)
  BY <1>3, <1>4, <1>7 DEF Reconnect
<1>8. CASE Shutdown(b)
  BY <1>1, <1>3, <1>8 DEF Shutdown
<1>9. CASE Reload(b)
  <2>1. \A s \in Sockets : net'[s] \in {net[s], CliEnded(Broken(net[s]))}
    BY <1>9 DEF Reload
  <2>2. \A s \in Sockets : NoneNew(net[s], net[s]) /\ NoneNew(net[s], CliEnded(Broken(net[s])))
    BY <1>1, NoneNewSides DEF NoneNew
  <2> QED BY <2>1, <2>2 DEF Done
<1>10. CASE \E s \in Sockets : OnOpen(b, s) \/ OnClose(b, s)
  <2>1. PICK s \in Sockets : OnOpen(b, s) \/ OnClose(b, s)
    BY <1>10
  <2>2. CASE OnOpen(b, s)
    <3>1. NoneNew(net[s], [net[s] EXCEPT !.cli = "open"])
      BY <1>1, <2>2, StepFields DEF OnOpen, Fields, NoneNew, Live
    <3>2. net' = [net EXCEPT ![s] = [net[s] EXCEPT !.cli = "open"]]
      BY <2>2 DEF OnOpen
    <3> QED BY <1>2, <3>1, <3>2
  <2>3. CASE OnClose(b, s)
    <3>1. NoneNew(net[s], CliEnded(net[s])) /\ net' = [net EXCEPT ![s] = CliEnded(net[s])]
      BY <1>1, <2>3, NoneNewSides DEF OnClose
    <3> QED BY <1>2, <3>1
  <2> QED BY <2>1, <2>2, <2>3
<1>11. CASE \E s \in Sockets : HandleServerMessage(b, s)
  <2>1. PICK s \in Sockets : HandleServerMessage(b, s)
    BY <1>11
  <2>2. net[s].down # <<>>
    BY <2>1 DEF HandleServerMessage, HandleServerChallenge, HandlePairingRequired,
       HandlePairingComplete, HandleAuthAccepted, HandleAuthRejected, Receives, DataDown
  <2>3. NoneNew(net[s], TakenDown(s)) /\ TakenDown(s) \in Conn
    BY <1>1, <2>2, NoneNewSides, ConnKept DEF TakenDown
  <2>4. Takes(s) \in [Sockets -> Conn] /\ Quiet(Takes(s))
    BY <1>1, <2>3 DEF Takes, Quiet, NoneNew
  <2>5. net' = Takes(s) \/ net' = SendOn(Takes(s), b, Hello(b, None))
    BY <2>1 DEF HandleServerMessage, HandleServerChallenge, HandlePairingRequired,
       HandlePairingComplete, HandleAuthAccepted, HandleAuthRejected
  <2> QED BY <1>1, <1>5, <2>4, <2>5
<1>12. CASE \E p \in proofs[b] : ProofReady(b, p)
  BY <1>1, <1>5, <1>12 DEF ProofReady
<1>13. CASE SecretStored(b)
  <2>1. net' = net
    BY <1>13 DEF SecretStored
  <2> QED BY <1>1, <2>1
<1>14. CASE \E code \in ShownCodes : ConfirmPairing(b, code)
  BY <1>1, <1>5, <1>14 DEF ConfirmPairing
<1>15. Done
  BY <1>6, <1>7, <1>8, <1>9, <1>10, <1>11, <1>12, <1>13, <1>14 DEF ClientStep
<1> QED BY <1>15 DEF Done

\* A client that has not started has no socket, no timer, and no socket of its
\* own that an event could still come from.
Idle(b) ==
    /\ cl[b].ws = None /\ cl[b].live = 0
    /\ \A s \in Sockets : net[s].owner = b => net[s].cli \notin Live

NewIsIdle == \A b \in Bridges : cl[b].runtime = "new" => Idle(b)

LEMMA NewIsIdleInit == Init => NewIsIdle
<1> SUFFICES ASSUME Init, NEW b \in Bridges PROVE Idle(b)
  BY DEF NewIsIdle
<1>1. cl[b] = NewClient(None)
  BY DEF Init, ClientInit
<1>2. \A s \in Sockets : net[s].cli \notin Live
  BY UnusedFields DEF Init, Fields, Live
<1> QED BY <1>1, <1>2 DEF Idle, NewClient

LEMMA NewIsIdleNext ==
    ASSUME ConnsTyped, ServerTyped, ClientTyped, NewIsIdle, [Next]_vars
    PROVE  NewIsIdle'
<1>1. CASE UNCHANGED cl /\ NothingDialled
  BY <1>1 DEF NewIsIdle, Idle, NothingDialled, NoneNew
<1>2. CASE ServerStep
  BY <1>1, <1>2, ServerDialsNothing DEF ServerStep, clientVars
<1>3. CASE TransportStep
  BY <1>1, <1>3, TransportDialsNothing DEF TransportStep, clientVars
<1>4. CASE UNCHANGED vars
  BY <1>1, <1>4 DEF vars, NothingDialled, NoneNew
<1>5. ASSUME NEW b \in Bridges, ClientStep(b)
      PROVE  NewIsIdle'
  <2> DEFINE c == cl[b]
  <2>1. /\ c \in ClientState /\ cl \in [Bridges -> ClientState]
        /\ \A s \in Sockets : net[s] \in Conn
    BY DEF ClientTyped, ConnsTyped
  <2>2. \A s \in Sockets : NoneNew(net[s], net'[s]) \/ net'[s].owner = b
    BY <1>5, ClientDials
  <2>3. ASSUME NEW d, cl' = [cl EXCEPT ![b] = d], d.runtime = "new" => Idle(b)'
        PROVE  NewIsIdle'
    <3>1. ASSUME NEW a \in Bridges, a # b, cl'[a].runtime = "new"
          PROVE  Idle(a)'
      <4>1. cl'[a] = cl[a] /\ Idle(a)
        BY <2>1, <2>3, <3>1 DEF NewIsIdle
      <4> QED BY <2>2, <3>1, <4>1 DEF Idle, NoneNew
    <3> QED BY <2>1, <2>3, <3>1 DEF NewIsIdle
  <2>4. ASSUME UNCHANGED <<cl, net>>
        PROVE  NewIsIdle'
    BY <2>4 DEF NewIsIdle, Idle
  <2>5. ASSUME NEW d, NEW n, d.runtime # "new", Connect(b, d, n)
        PROVE  NewIsIdle'
    <3>1. PICK s \in Sockets : cl' = [cl EXCEPT ![b] = Dialing(d, s)]
      BY <2>5 DEF Connect
    <3>2. Dialing(d, s).runtime # "new"
      BY <2>5 DEF Dialing
    <3> QED BY <2>3, <3>1, <3>2
  <2>6. Canceled(c).runtime = c.runtime /\ Disconnected(c).runtime = c.runtime
    <3> DEFINE e == Canceled(c)
    <3>1. e.runtime = c.runtime
      BY <2>1 DEF Canceled, ClientState
    <3> HIDE DEF e
    <3>2. e \in ClientState
      BY <2>1, ClientRecordKept DEF e, ClientTyped, TimersTracked
    <3> DEFINE o == [e EXCEPT !.shutting = TRUE, !.ws = None]
    <3>3. o.runtime = e.runtime
      BY <3>2 DEF ClientState
    <3> HIDE DEF o
    <3>4. Offline(o).runtime = o.runtime
      BY DEF Offline
    <3> QED BY <3>1, <3>3, <3>4 DEF Disconnected, e, o
  <2>7. CASE Start(b)
    <3>1. Connect(b, [c EXCEPT !.runtime = "running"], net)
      BY <2>7 DEF Start
    <3>2. [c EXCEPT !.runtime = "running"].runtime # "new"
      BY <2>1 DEF ClientState
    <3> QED BY <2>5, <3>1, <3>2
  <2>8. CASE Reconnect(b)
    BY <2>5, <2>6, <2>8 DEF Reconnect, Running
  <2>9. CASE NudgeReconnect(b)
    BY <2>3, <2>5, <2>6, <2>9 DEF NudgeReconnect, Running
  <2>10. CASE RetryTimerFires(b)
    <3> DEFINE d == [c EXCEPT !.live = @ - 1, !.tracked = FALSE]
    <3>1. c.runtime # "new"
      BY <2>1, <2>10 DEF RetryTimerFires, NewIsIdle, Idle
    <3>2. d.runtime = c.runtime
      BY <2>1 DEF ClientState
    <3>3. cl' = [cl EXCEPT ![b] = d] \/ Connect(b, d, net)
      BY <2>10 DEF RetryTimerFires
    <3> HIDE DEF d
    <3> QED BY <2>3, <2>5, <3>1, <3>2, <3>3
  <2>11. CASE Shutdown(b)
    <3> DEFINE e == Disconnected(c)
               d == [e EXCEPT !.runtime = "down"]
    <3>1. cl' = [cl EXCEPT ![b] = d]
      BY <2>11 DEF Shutdown
    <3>2. e \in ClientState
      BY <2>1, ClientRecordKept DEF ClientTyped, TimersTracked
    <3> HIDE DEF e
    <3>3. d.runtime = "down"
      BY <3>2 DEF ClientState
    <3> HIDE DEF d
    <3> QED BY <2>3, <3>1, <3>3
  <2>12. CASE Reload(b)
    <3>1. /\ cl' = [cl EXCEPT ![b] = NewClient(stored[b])]
          /\ \A s \in Sockets : net'[s] = IF net[s].owner = b /\ net[s].cli # "closed"
                                           THEN CliEnded(Broken(net[s])) ELSE net[s]
      BY <2>12 DEF Reload
    <3>2. \A s \in Sockets : CliEnded(Broken(net[s])).cli \notin Live
      BY <2>1, NoneNewSides
    <3>3. cl'[b] = NewClient(stored[b])
      BY <2>1, <3>1
    <3>4. Idle(b)'
      BY <3>1, <3>2, <3>3 DEF Idle, NewClient, Live
    <3> QED BY <2>3, <3>1, <3>4
  <2>13. c.runtime = "new" =>
            \A s \in Sockets : ~OnOpen(b, s) /\ ~OnClose(b, s) /\ ~HandleServerMessage(b, s)
    BY DEF NewIsIdle, Idle, Live, OnOpen, OnClose, CliCloseEvent, HandleServerMessage,
       HandleServerChallenge, HandlePairingRequired, HandlePairingComplete, HandleAuthAccepted,
       HandleAuthRejected, Receives, DataDown
  <2>14. ASSUME c.runtime # "new", NEW d, cl' = [cl EXCEPT ![b] = d] \/ UNCHANGED cl,
                d.runtime = c.runtime
         PROVE  NewIsIdle'
    <3>1. CASE cl' = [cl EXCEPT ![b] = d]
      BY <2>3, <2>14, <3>1
    <3>2. CASE UNCHANGED cl
      <4>1. cl' = [cl EXCEPT ![b] = c]
        BY <2>1, <3>2
      <4> QED BY <2>3, <2>14, <4>1
    <3> QED BY <2>14, <3>1, <3>2
  <2>15. CASE \E s \in Sockets : OnOpen(b, s)
    BY <2>13, <2>14, <2>15 DEF OnOpen, clientVars
  <2>16. CASE \E s \in Sockets : OnClose(b, s)
    <3>1. PICK s \in Sockets : OnClose(b, s)
      BY <2>16
    <3> DEFINE w == IF c.ws = s THEN None ELSE c.ws
               e == [c EXCEPT !.ws = w, !.pairingId = None, !.granted = FALSE]
    <3>2. cl' = [cl EXCEPT ![b] = Scheduled(Offline(e))]
      BY <3>1 DEF OnClose
    <3> HIDE DEF w
    <3>3. e.runtime = c.runtime
      BY <2>1 DEF ClientState
    <3> HIDE DEF e
    <3>4. Scheduled(Offline(e)).runtime = c.runtime
      BY <3>3 DEF Scheduled, Offline
    <3> QED BY <2>13, <2>14, <3>1, <3>2, <3>4
  <2>17. CASE \E s \in Sockets : HandleServerMessage(b, s)
    <3>1. PICK s \in Sockets : HandleServerMessage(b, s)
      BY <2>17
    <3> DEFINE Kept(d) == d.runtime = c.runtime
    <3>2. PICK d : (cl' = [cl EXCEPT ![b] = d] \/ UNCHANGED cl) /\ Kept(d)
      <4>1. CASE HandleServerChallenge(b, s)
        BY <4>1 DEF HandleServerChallenge
      <4>2. CASE HandlePairingRequired(b, s)
        <5> DEFINE d == [c EXCEPT !.pairingId = Head(net[s].down).id, !.auth = "pairing-required"]
        <5>1. cl' = [cl EXCEPT ![b] = d]
          BY <4>2 DEF HandlePairingRequired
        <5>2. d.runtime = c.runtime
          BY <2>1 DEF ClientState
        <5> HIDE DEF d
        <5> QED BY <5>1, <5>2
      <4>3. CASE HandlePairingComplete(b, s)
        <5> DEFINE d == [c EXCEPT !.secret = Head(net[s].down).secret, !.granted = TRUE]
        <5>1. cl' = [cl EXCEPT ![b] = d]
          BY <4>3 DEF HandlePairingComplete
        <5>2. d.runtime = c.runtime
          BY <2>1 DEF ClientState
        <5> HIDE DEF d
        <5> QED BY <5>1, <5>2
      <4>4. CASE HandleAuthAccepted(b, s)
        <5> DEFINE d == [c EXCEPT !.pairingId = None, !.granted = TRUE,
                                 !.auth = "authenticated", !.status = "connected"]
        <5>1. cl' = [cl EXCEPT ![b] = d]
          BY <4>4 DEF HandleAuthAccepted
        <5>2. d.runtime = c.runtime
          BY <2>1 DEF ClientState
        <5> HIDE DEF d
        <5> QED BY <5>1, <5>2
      <4>5. CASE HandleAuthRejected(b, s)
        BY <2>1, <4>5 DEF HandleAuthRejected, ClientState
      <4> QED BY <3>1, <4>1, <4>2, <4>3, <4>4, <4>5 DEF HandleServerMessage
    <3> QED BY <2>13, <2>14, <3>1, <3>2
  <2>18. CASE \E p \in proofs[b] : ProofReady(b, p)
    <3>1. PICK p \in proofs[b] : net' = SendOn(net, b, Hello(b, p)) /\ UNCHANGED cl
      BY <2>18 DEF ProofReady
    <3>2. CASE c.runtime = "new"
      BY <2>4, <3>1, <3>2 DEF NewIsIdle, Idle, SendOn
    <3> QED BY <2>14, <3>1, <3>2
  <2>19. CASE SecretStored(b)
    <3>1. /\ UNCHANGED net
          /\ UNCHANGED cl \/ cl' = [cl EXCEPT ![b] = [c EXCEPT !.auth = "rejected"]]
      BY <2>19 DEF SecretStored
    <3>2. /\ [c EXCEPT !.auth = "rejected"].runtime = c.runtime
          /\ [c EXCEPT !.auth = "rejected"].ws = c.ws /\ [c EXCEPT !.auth = "rejected"].live = c.live
      BY <2>1 DEF ClientState
    <3> DEFINE d == [c EXCEPT !.auth = "rejected"]
    <3> HIDE DEF d
    <3>3. cl' = [cl EXCEPT ![b] = d] => NewIsIdle'
      <4>1. cl' = [cl EXCEPT ![b] = d] /\ d.runtime = "new" => Idle(b)'
        BY <2>1, <3>1, <3>2 DEF NewIsIdle, Idle, d
      <4> QED BY <2>3, <4>1
    <3> QED BY <2>4, <3>1, <3>3 DEF d
  <2>20. CASE \E code \in ShownCodes : ConfirmPairing(b, code)
    <3>1. /\ c.runtime = "running"
          /\ cl' = [cl EXCEPT ![b] = [c EXCEPT !.auth = "authenticating"]]
      BY <2>20 DEF ConfirmPairing, Running
    <3>2. [c EXCEPT !.auth = "authenticating"].runtime = c.runtime
      BY <2>1 DEF ClientState
    <3> QED BY <2>14, <3>1, <3>2
  <2> QED BY <1>5, <2>7, <2>8, <2>9, <2>10, <2>11, <2>12, <2>15, <2>16, <2>17, <2>18, <2>19, <2>20
          DEF ClientStep
<1> QED BY <1>2, <1>3, <1>4, <1>5 DEF Next

\* The steps of a client that leave its other sockets alone.
LEMMA OneClientKeeps ==
    ASSUME ConnsTyped, NetOK, SecretInv, UNCHANGED serverVars, NEW b \in Bridges,
           \A a \in Bridges : a # b => cl'[a] = cl[a],
           NEW H, NEW s \in Sockets, Follows(net[s], net'[s], H),
           net[s].owner = b =>
              /\ Dialled(net'[s]) => cl'[b].ws = cl[b].ws
              /\ Touching(net'[s]) => cl'[b].secret = cl[b].secret,
           \A a \in Bridges : \A p \in proofs'[a] : p.nonce = s =>
              p \in proofs[a] \/ (net'[s].cli # "connecting" /\ p.secret = cl[net[s].owner].secret),
           store.paired # None /\ Hello(net[s].owner, ProofFor(s)) \in H =>
              ProofFor(s) \in proofs[net[s].owner]
    PROVE  SocketInv(s)'
<1>1. Dialled(net[s]) => net[s].owner \in Bridges
  BY DEF NetOK, Dialled
<1>2. SocketInv(s) /\ UNCHANGED <<sv, store>>
  BY DEF SecretInv, serverVars
<1>3. Dialled(net'[s]) => Dialled(net[s])
  BY DEF Follows
<1>4. Touching(net'[s]) => Dialled(net'[s])
  BY DEF Touching, Dialled
<1>5. /\ Dialled(net'[s]) => cl'[net[s].owner].ws = cl[net[s].owner].ws
      /\ Touching(net'[s]) => cl'[net[s].owner].secret = cl[net[s].owner].secret
  BY <1>1, <1>3, <1>4
<1> QED BY <1>1, <1>2, <1>5, SocketKept

\* A dialled socket of a client is the client's socket.
LEMMA OwnSocket ==
    ASSUME SecretInv, NEW s \in Sockets, Dialled(net[s]) PROVE cl[net[s].owner].ws = s
  BY DEF SecretInv, SocketInv

LEMMA ConnectKeepsSecret ==
    ASSUME ConnsTyped, ServerTyped, ClientTyped, NetOK, ServerOK, SecretInv, UNCHANGED serverVars,
           UNCHANGED proofs, NEW b \in Bridges, NEW c, NEW n \in [Sockets -> Conn],
           \A s \in Sockets : /\ Follows(net[s], n[s], {})
                              /\ net[s].owner = b => ~Dialled(n[s]),
           Connect(b, c, n)
    PROVE  SecretInv'
<1>1. PICK s \in Sockets : /\ FreeSocket(s)
                           /\ cl' = [cl EXCEPT ![b] = Dialing(c, s)]
                           /\ net' = [n EXCEPT ![s] = Dial(b)]
  BY DEF Connect
<1>2. \A a \in Bridges : a # b => cl'[a] = cl[a]
  BY <1>1 DEF ClientTyped
<1>3. cl'[b].ws = s
  <2>1. cl'[b] = Dialing(c, s)
    BY <1>1 DEF ClientTyped
  <2> QED BY <2>1 DEF Dialing
<1>4. ASSUME NEW t \in Sockets, t # s
      PROVE  SocketInv(t)'
  <2>1. net'[t] = n[t]
    BY <1>1, <1>4
  <2>2. Follows(net[t], net'[t], {}) /\ (net[t].owner = b => ~Dialled(net'[t]))
    BY <2>1
  <2>3. Touching(net'[t]) => Dialled(net'[t])
    BY DEF Touching, Dialled
  <2>4. \A a \in Bridges : \A p \in proofs'[a] : p \in proofs[a]
    OBVIOUS
  <2> QED BY <1>2, <2>2, <2>3, <2>4, OneClientKeeps
<1>5. Fields(net'[s], b, "connecting", "none", <<>>, <<>>, FALSE)
  <2>1. net'[s] = Dial(b)
    BY <1>1
  <2> QED BY <2>1, DialFields
<1>6. ~(sv'.accepted /\ sv'.client = s)
  <2>1. net[s].srv = "none"
    BY <1>1, UnusedFields DEF FreeSocket, Fields
  <2> QED BY <2>1, NoneAssumption DEF ServerOK, Attached, serverVars
<1>7. SocketInv(s)'
  <2>1. Within(<<>>) = {}
    BY EmptyOwned DEF Within
  <2>2. \A a \in Bridges : \A p \in proofs'[a] : p.nonce # s
    BY <1>1 DEF FreeSocket
  <2> QED BY <1>3, <1>5, <1>6, <2>1, <2>2
       DEF Fields, SocketInv, Dialled, SrvOpen, AllTold, StillFresh, ClaimantsKnow, Touching
<1> QED BY <1>4, <1>7 DEF SecretInv, serverVars

LEMMA CompleteKeepsSecret ==
    ASSUME ConnsTyped, ServerTyped, ClientTyped, NetOK, SecretInv, UNCHANGED serverVars,
           NEW b \in Bridges, NEW s \in Sockets, HandlePairingComplete(b, s)
    PROVE  SecretInv'
<1> DEFINE k == Head(net[s].down).secret
           d == [cl[b] EXCEPT !.secret = k, !.granted = TRUE]
<1>1. /\ net[s].owner = b /\ net[s].cli = "open" /\ net[s].down # <<>> /\ net[s] \in Conn
      /\ Head(net[s].down).type = "pairing_complete"
      /\ cl' = [cl EXCEPT ![b] = d]
      /\ net' = [net EXCEPT ![s] = [net[s] EXCEPT !.down = Tail(@)]]
      /\ UNCHANGED proofs
  BY DEF HandlePairingComplete, Receives, DataDown, Takes, TakenDown, ConnsTyped
<1>2. d.ws = cl[b].ws /\ d.secret = k
  BY DEF ClientTyped, ClientState
<1> HIDE DEF d
<1>3. cl'[b] = d /\ \A a \in Bridges : a # b => cl'[a] = cl[a]
  BY <1>1 DEF ClientTyped
<1>4. cl[b].ws = s
  BY <1>1, OwnSocket DEF Dialled
<1>5. \A a \in Bridges : \A p \in proofs'[a] : p \in proofs[a]
  BY <1>1
<1>6. ASSUME NEW t \in Sockets, t # s
      PROVE  SocketInv(t)'
  <2>1. net'[t] = net[t]
    BY <1>1, <1>6 DEF ConnsTyped
  <2>2. Follows(net[t], net'[t], {})
    BY <2>1, FollowsSelf
  <2>3. net[t].owner = b => ~Dialled(net'[t]) /\ ~Touching(net'[t])
    BY <1>4, <1>6, <2>1, OwnSocket DEF Dialled, Touching
  <2> QED BY <1>3, <1>5, <2>2, <2>3, OneClientKeeps
<1>7. Fields(net'[s], b, "open", net[s].srv, net[s].up, Tail(net[s].down), net[s].lost)
  <2>1. net'[s] = [net[s] EXCEPT !.down = Tail(@)]
    BY <1>1 DEF ConnsTyped
  <2> QED BY <1>1, <2>1, StepFields
<1>8. /\ Within(Tail(net[s].down)) \subseteq Within(net[s].down)
      /\ Head(net[s].down) \in Within(net[s].down)
  BY <1>1, ConnQueues, WithinFacts
<1>9. SocketInv(s) /\ UNCHANGED <<sv, store>>
  BY DEF SecretInv, serverVars
<1>10. AllTold(s)'
  <2>1. \A m \in Within(net'[s].down) : Told(s, m)
    BY <1>7, <1>8, <1>9 DEF Fields, SocketInv, AllTold
  <2>2. \A m \in Within(net'[s].down) : Told(s, m)'
    BY <1>7, <1>9, <2>1 DEF Fields, Told, SrvOpen
  <2>3. net'[s].srv # "none"
    BY <1>1, <1>7, <1>9 DEF Fields, SocketInv, AllTold
  <2> QED BY <2>2, <2>3 DEF AllTold
<1>11. ClaimantsKnow(s)'
  <2> SUFFICES ASSUME Touching(net'[s]) PROVE Known(s)'
    BY DEF ClaimantsKnow
  <2>1. SrvOpen(s)
    BY <1>7 DEF Fields, Touching, SrvOpen
  <2>2. Head(net[s].down) = PairingComplete(store.paired.secret)
    BY <1>1, <1>8, <1>9, <2>1 DEF SocketInv, AllTold, Told
  <2>3. cl'[b].secret = store'.paired.secret
    BY <1>2, <1>3, <1>9, <2>2 DEF PairingComplete
  <2> QED BY <1>7, <2>3 DEF Fields, Known
<1>12. SocketInv(s)'
  BY <1>1, <1>2, <1>3, <1>4, <1>7, <1>9, <1>10, <1>11
     DEF Fields, SocketInv, Dialled, SrvOpen, StillFresh
<1> QED BY <1>6, <1>9, <1>12 DEF SecretInv

\* What comes down an open socket, other than a completed pairing.
LEMMA MessageKeepsSecret ==
    ASSUME ConnsTyped, ServerTyped, ClientTyped, NetOK, SecretInv, UNCHANGED serverVars,
           NEW b \in Bridges, NEW s \in Sockets, HandleServerMessage(b, s)
    PROVE  SecretInv'
<1> DEFINE c == cl[b]
           m == Head(net[s].down)
           taken == TakenDown(s)
<1>1. CASE HandlePairingComplete(b, s)
  BY <1>1, CompleteKeepsSecret
<1>2. CASE ~HandlePairingComplete(b, s)
  <2>1. /\ net[s].owner = b /\ net[s].cli = "open" /\ net[s].down # <<>>
        /\ m.type \in {"server_challenge", "pairing_required", "auth_accepted", "auth_rejected"}
    BY <1>2 DEF HandleServerMessage, HandleServerChallenge, HandlePairingRequired,
       HandleAuthAccepted, HandleAuthRejected, Receives, DataDown
  <2>2. net[s] \in Conn /\ m \in DownMessages /\ m \in Within(net[s].down) /\ Told(s, m)
    <3>1. net[s] \in Conn
      BY DEF ConnsTyped
    <3>2. m \in Within(net[s].down) /\ Within(net[s].down) \subseteq DownMessages
      BY <2>1, <3>1, ConnQueues, WithinFacts
    <3> QED BY <3>1, <3>2 DEF SecretInv, SocketInv, AllTold
  <2>3. taken \in Conn /\ Follows(net[s], taken, {})
    BY <2>1, <2>2, ConnKept, FollowsSides DEF TakenDown
  <2>4. c.ws = s
    BY <2>1, OwnSocket DEF Dialled
  <2>5. c \in ClientState /\ cl \in [Bridges -> ClientState]
    BY DEF ClientTyped
  <2>6. UNCHANGED store /\ (store'.paired = None => store'.disk = None)
    BY DEF SecretInv, serverVars
  <2>7. ASSUME NEW t \in Sockets, t # s, NEW d, net' = [net EXCEPT ![s] = d],
               \A a \in Bridges : a # b => cl'[a] = cl[a],
               \A a \in Bridges : \A p \in proofs'[a] : p.nonce = t => p \in proofs[a]
        PROVE  SocketInv(t)'
    <3>1. net'[t] = net[t]
      BY <2>7 DEF ConnsTyped
    <3>2. Follows(net[t], net'[t], {})
      BY <3>1, FollowsSelf
    <3>3. net[t].owner = b => ~Dialled(net'[t]) /\ ~Touching(net'[t])
      BY <2>4, <2>7, <3>1, OwnSocket DEF Dialled, Touching
    <3> QED BY <2>7, <3>2, <3>3, OneClientKeeps
  <2> HIDE DEF taken
  <2>8. ASSUME NEW H, NEW d, Follows(net[s], d, H), net' = [net EXCEPT ![s] = d],
               \A a \in Bridges : a # b => cl'[a] = cl[a],
               cl'[b].ws = c.ws, Touching(d) => cl'[b].secret = c.secret,
               UNCHANGED proofs,
               store.paired # None => Hello(b, ProofFor(s)) \notin H
        PROVE  SecretInv'
    <3>1. \A a \in Bridges : \A p \in proofs'[a] : p \in proofs[a]
      BY <2>8
    <3>2. \A t \in Sockets : t # s => SocketInv(t)'
      BY <2>7, <2>8, <3>1
    <3>3. net'[s] = d
      BY <2>8 DEF ConnsTyped
    <3>4. SocketInv(s)'
      BY <2>1, <2>8, <3>1, <3>3, OneClientKeeps
    <3> QED BY <2>6, <3>2, <3>4 DEF SecretInv
  <2>9. CASE HandleServerChallenge(b, s)
    <3>1. m.nonce = s
      BY <2>2, <2>9 DEF Told, ServerChallenge, HandleServerChallenge, Receives
    <3>2. CASE c.secret = None
      <4> DEFINE d == CliSend(taken, Hello(b, None))
      <4>1. net' = [net EXCEPT ![s] = d] /\ UNCHANGED <<cl, proofs>>
        <5>1. SendOn(Takes(s), b, Hello(b, None)) = [Takes(s) EXCEPT ![s] = CliSend(Takes(s)[s], Hello(b, None))]
          BY <2>4, NoneAssumption DEF SendOn
        <5>2. Takes(s) = [net EXCEPT ![s] = taken] /\ Takes(s)[s] = taken
          BY DEF Takes, taken, ConnsTyped
        <5>3. SendOn(Takes(s), b, Hello(b, None)) = [net EXCEPT ![s] = d]
          BY <5>1, <5>2
        <5> QED BY <2>9, <3>2, <5>3 DEF HandleServerChallenge
      <4>2. Follows(net[s], d, {Hello(b, None)})
        BY <2>3, FollowsSides, FollowsTwice
      <4> HIDE DEF d
      <4>3. store.paired # None => Hello(b, ProofFor(s)) \notin {Hello(b, None)}
        <5>1. store.paired # None => ProofFor(s) \in Proofs
          BY DEF ServerTyped, StoreState, Pairings, ProofFor, Proofs
        <5>2. store.paired # None => ProofFor(s) # None
          BY <5>1, ServerAssumption DEF ServerAssumption
        <5> QED BY <5>2 DEF Hello
      <4> QED BY <2>8, <4>1, <4>2, <4>3
    <3>3. CASE c.secret # None
      <4> DEFINE q == [secret |-> c.secret, nonce |-> s]
      <4>1. /\ net' = [net EXCEPT ![s] = taken] /\ UNCHANGED cl
            /\ proofs' = [proofs EXCEPT ![b] = @ \cup {q}]
        BY <2>9, <3>1, <3>3 DEF HandleServerChallenge, Takes, taken
      <4>2. q.nonce = s /\ q.secret = c.secret
        OBVIOUS
      <4> HIDE DEF q
      <4>3. \A a \in Bridges : \A p \in proofs'[a] : p \in proofs[a] \/ p = q
        BY <4>1 DEF ClientTyped
      <4>4. \A t \in Sockets : t # s => SocketInv(t)'
        BY <2>7, <4>1, <4>2, <4>3
      <4>5. net'[s] = taken /\ taken.cli = "open"
        <5>1. taken.cli = "open"
          BY <2>1, <2>2, StepFields DEF taken, TakenDown, Fields
        <5> QED BY <4>1, <5>1 DEF ConnsTyped
      <4>6. \A a \in Bridges : \A p \in proofs'[a] : p.nonce = s =>
               p \in proofs[a] \/ (net'[s].cli # "connecting" /\ p.secret = cl[net[s].owner].secret)
        BY <2>1, <4>2, <4>3, <4>5
      <4>7. Hello(net[s].owner, ProofFor(s)) \notin {}
        OBVIOUS
      <4>8. SocketInv(s)'
        BY <2>3, <4>1, <4>5, <4>6, <4>7, OneClientKeeps
      <4> QED BY <2>6, <4>4, <4>8 DEF SecretInv
    <3> QED BY <3>2, <3>3
  <2>10. ASSUME NEW d, cl' = [cl EXCEPT ![b] = d], d.ws = c.ws,
                Touching(taken) => d.secret = c.secret, net' = Takes(s), UNCHANGED proofs
         PROVE  SecretInv'
    <3>1. net' = [net EXCEPT ![s] = taken]
      BY <2>10 DEF Takes, taken
    <3>2. cl'[b] = d /\ \A a \in Bridges : a # b => cl'[a] = cl[a]
      BY <2>5, <2>10
    <3>3. Hello(b, ProofFor(s)) \notin {}
      OBVIOUS
    <3> QED BY <2>3, <2>8, <2>10, <3>1, <3>2, <3>3
  <2>11. CASE HandlePairingRequired(b, s)
    <3> DEFINE d == [c EXCEPT !.pairingId = m.id, !.auth = "pairing-required"]
    <3>1. cl' = [cl EXCEPT ![b] = d] /\ net' = Takes(s) /\ UNCHANGED proofs
      BY <2>11 DEF HandlePairingRequired
    <3>2. d.ws = c.ws /\ d.secret = c.secret
      BY <2>5 DEF ClientState
    <3> HIDE DEF d
    <3> QED BY <2>10, <3>1, <3>2
  <2>12. CASE HandleAuthAccepted(b, s)
    <3> DEFINE d == [c EXCEPT !.pairingId = None, !.granted = TRUE,
                              !.auth = "authenticated", !.status = "connected"]
    <3>1. cl' = [cl EXCEPT ![b] = d] /\ net' = Takes(s) /\ UNCHANGED proofs
      BY <2>12 DEF HandleAuthAccepted
    <3>2. d.ws = c.ws /\ d.secret = c.secret
      BY <2>5 DEF ClientState
    <3> HIDE DEF d
    <3> QED BY <2>10, <3>1, <3>2
  <2>13. CASE HandleAuthRejected(b, s)
    <3>1. net' = Takes(s) /\ UNCHANGED proofs /\ m.type = "auth_rejected"
      BY <2>13 DEF HandleAuthRejected, Receives
    <3>2. CASE ~m.reset
      <4>1. cl' = [cl EXCEPT ![b] = [c EXCEPT !.auth = "rejected"]]
        BY <2>13, <3>2 DEF HandleAuthRejected
      <4>2. /\ [c EXCEPT !.auth = "rejected"].ws = c.ws
            /\ [c EXCEPT !.auth = "rejected"].secret = c.secret
        BY <2>5 DEF ClientState
      <4> QED BY <2>10, <3>1, <4>1, <4>2
    <3>3. CASE m.reset
      <4>1. cl' = [cl EXCEPT ![b] = [c EXCEPT !.secret = None]]
        BY <2>13, <3>3 DEF HandleAuthRejected
      <4>2. [c EXCEPT !.secret = None].ws = c.ws
        BY <2>5 DEF ClientState
      <4>3. m = AuthRejected(TRUE)
        <5>1. PICK r \in BOOLEAN : m = AuthRejected(r)
          BY <2>2, <3>1 DEF DownMessages, ServerChallenge, PairingRequired, PairingComplete,
             AuthAccepted, CloseFrame
        <5>2. m.reset <=> r
          BY <5>1 DEF AuthRejected
        <5> QED BY <3>3, <5>1, <5>2
      <4>4. ~Touching(taken)
        <5>1. net[s].srv # "open"
          BY <2>2, <4>3 DEF Told, SrvOpen
        <5> QED BY <2>3, <5>1 DEF Follows, Touching
      <4> QED BY <2>10, <3>1, <4>1, <4>2, <4>4
    <3> QED BY <3>2, <3>3
  <2> QED BY <1>2, <2>9, <2>11, <2>12, <2>13 DEF HandleServerMessage
<1> QED BY <1>1, <1>2

LEMMA ClientKeepsSecret ==
    ASSUME ConnsTyped, ServerTyped, ClientTyped, NetOK, ClientsOK, ServerOK, NewIsIdle, SecretInv,
           NEW b \in Bridges, ClientStep(b)
    PROVE  SecretInv'
<1> DEFINE c == cl[b]
<1>1. /\ UNCHANGED serverVars /\ UNCHANGED store
      /\ c \in ClientState /\ cl \in [Bridges -> ClientState]
      /\ net \in [Sockets -> Conn] /\ (store'.paired = None => store'.disk = None)
  BY DEF ClientStep, serverVars, ClientTyped, ConnsTyped, SecretInv
<1>2. c.ws # None => c.ws \in Sockets /\ net[c.ws].owner = b
  BY DEF ClientsOK, MayHold
<1>3. \A s \in Sockets : net[s].owner = b /\ Dialled(net[s]) => c.ws = s /\ IsLive(c.ws)
  BY OwnSocket, NoneAssumption DEF IsLive, Dialled
<1>4. \A s \in Sockets : Follows(net[s], net[s], {})
  BY FollowsSelf
\* A step that dials from where no socket of the client is live
<1>5. ASSUME NEW d, Connect(b, d, net), UNCHANGED proofs, ~IsLive(c.ws)
      PROVE  SecretInv'
  BY <1>1, <1>3, <1>4, <1>5, ConnectKeepsSecret
\* A step that only changes the client
<1>6. ASSUME NEW d, cl' = [cl EXCEPT ![b] = d] \/ UNCHANGED cl, d.ws = c.ws, d.secret = c.secret,
             UNCHANGED proofs, NEW H, \A s \in Sockets : Follows(net[s], net'[s], H),
             store.paired # None => \A s \in Sockets : Hello(net[s].owner, ProofFor(s)) \notin H
      PROVE  SecretInv'
  <2>1. cl'[b].ws = c.ws /\ cl'[b].secret = c.secret /\ \A a \in Bridges : a # b => cl'[a] = cl[a]
    BY <1>1, <1>6
  <2>2. \A a \in Bridges : \A p \in proofs'[a] : p \in proofs[a]
    BY <1>6
  <2>3. \A s \in Sockets : SocketInv(s)'
    BY <1>1, <1>6, <2>1, <2>2, OneClientKeeps
  <2> QED BY <1>1, <2>3 DEF SecretInv
<1>7. \A x, y : Hello(x, y) \notin {}
  OBVIOUS
<1>8. CASE Start(b)
  <2>1. c.ws = None
    BY <1>8 DEF Start, NewIsIdle, Idle
  <2> QED BY <1>5, <1>8, <2>1 DEF Start, IsLive
<1>9. NetAfterDisconnect(b) \in [Sockets -> Conn]
      /\ \A s \in Sockets : /\ Follows(net[s], NetAfterDisconnect(b)[s], {})
                            /\ net[s].owner = b => ~Dialled(NetAfterDisconnect(b)[s])
  <2>1. NetAfterDisconnect(b) \in [Sockets -> Conn]
    BY DisconnectTyped
  <2>2. CASE c.ws = None
    BY <1>3, <1>4, <2>1, <2>2 DEF NetAfterDisconnect, IsLive
  <2>3. CASE c.ws # None
    <3>1. NetAfterDisconnect(b) = [net EXCEPT ![c.ws] = CliClose(net[c.ws])]
      BY <2>3 DEF NetAfterDisconnect
    <3>2. Follows(net[c.ws], CliClose(net[c.ws]), {})
      BY <1>1, <1>2, <2>3, FollowsSides
    <3>3. ~Dialled(CliClose(net[c.ws]))
      BY <1>1, <1>2, <2>3, CloseFields DEF Fields, Dialled
    <3>4. \A s \in Sockets : NetAfterDisconnect(b)[s] =
             IF s = c.ws THEN CliClose(net[s]) ELSE net[s]
      BY <1>1, <3>1
    <3> QED BY <1>3, <1>4, <2>1, <3>2, <3>3, <3>4
  <2> QED BY <2>2, <2>3
<1>10. CASE Reconnect(b)
  <2>1. Connect(b, Disconnected(c), NetAfterDisconnect(b)) /\ UNCHANGED proofs
    BY <1>10 DEF Reconnect
  <2> QED BY <1>1, <1>9, <2>1, ConnectKeepsSecret
<1>11. Canceled(c).ws = c.ws /\ Canceled(c).secret = c.secret
  BY <1>1 DEF Canceled, ClientState
<1>12. CASE NudgeReconnect(b)
  <2>1. CASE IsLive(c.ws)
    <3>1. cl' = [cl EXCEPT ![b] = Canceled(c)] /\ UNCHANGED <<net, proofs>>
      BY <1>12, <2>1 DEF NudgeReconnect
    <3> QED BY <1>4, <1>6, <1>7, <1>11, <3>1
  <2>2. CASE ~IsLive(c.ws)
    BY <1>5, <1>12, <2>2 DEF NudgeReconnect
  <2> QED BY <2>1, <2>2
<1>13. CASE RetryTimerFires(b)
  <2> DEFINE d == [c EXCEPT !.live = @ - 1, !.tracked = FALSE]
  <2>1. IF IsLive(c.ws) THEN cl' = [cl EXCEPT ![b] = d] /\ UNCHANGED net ELSE Connect(b, d, net)
    BY <1>13 DEF RetryTimerFires
  <2>2. UNCHANGED proofs
    BY <1>13 DEF RetryTimerFires
  <2>3. d.ws = c.ws /\ d.secret = c.secret
    BY <1>1 DEF ClientState
  <2> HIDE DEF d
  <2>4. CASE IsLive(c.ws)
    BY <1>4, <1>6, <1>7, <2>1, <2>2, <2>3, <2>4
  <2>5. CASE ~IsLive(c.ws)
    BY <1>5, <2>1, <2>2, <2>5
  <2> QED BY <2>4, <2>5
\* A step that ends the client's sockets
<1>14. ASSUME NEW d, cl' = [cl EXCEPT ![b] = d], \A p \in proofs'[b] : p \in proofs[b],
              \A a \in Bridges : a # b => proofs'[a] = proofs[a],
              \A s \in Sockets : /\ Follows(net[s], net'[s], {})
                                 /\ net[s].owner = b => ~Dialled(net'[s])
       PROVE  SecretInv'
  <2>1. \A a \in Bridges : a # b => cl'[a] = cl[a]
    BY <1>1, <1>14
  <2>2. \A a \in Bridges : \A p \in proofs'[a] : p \in proofs[a]
    BY <1>14
  <2>3. \A s \in Sockets : Touching(net'[s]) => Dialled(net'[s])
    BY DEF Touching, Dialled
  <2>4. \A s \in Sockets : SocketInv(s)'
    BY <1>1, <1>7, <1>14, <2>1, <2>2, <2>3, OneClientKeeps
  <2> QED BY <1>1, <2>4 DEF SecretInv
<1>15. CASE Shutdown(b)
  <2>1. PICK d : cl' = [cl EXCEPT ![b] = d] /\ net' = NetAfterDisconnect(b) /\ UNCHANGED proofs
    BY <1>15 DEF Shutdown
  <2> QED BY <1>9, <1>14, <2>1
<1>16. CASE Reload(b)
  <2>1. /\ cl' = [cl EXCEPT ![b] = NewClient(stored[b])] /\ proofs' = [proofs EXCEPT ![b] = {}]
        /\ \A s \in Sockets : net'[s] = IF net[s].owner = b /\ net[s].cli # "closed"
                                         THEN CliEnded(Broken(net[s])) ELSE net[s]
    BY <1>16 DEF Reload
  <2>2. ASSUME NEW s \in Sockets
        PROVE  Follows(net[s], net'[s], {}) /\ (net[s].owner = b => ~Dialled(net'[s]))
    <3> DEFINE e == Broken(net[s])
    <3>1. e \in Conn /\ Follows(net[s], e, {})
      BY <1>1, ConnKept, FollowsSides
    <3> HIDE DEF e
    <3>2. Follows(net[s], CliEnded(e), {}) /\ ~Dialled(CliEnded(e))
      BY <3>1, FollowsSides, FollowsTwice
    <3>3. net[s].cli = "closed" => ~Dialled(net[s])
      BY DEF Dialled
    <3> QED BY <1>4, <2>1, <3>2, <3>3 DEF e
  <2>3. (\A p \in proofs'[b] : p \in proofs[b]) /\ \A a \in Bridges : a # b => proofs'[a] = proofs[a]
    BY <2>1 DEF ClientTyped
  <2> QED BY <1>14, <2>1, <2>2, <2>3
<1>17. CASE \E s \in Sockets : OnOpen(b, s)
  <2>1. PICK s \in Sockets : OnOpen(b, s)
    BY <1>17
  <2>2. /\ net[s].cli = "connecting" /\ UNCHANGED <<cl, proofs>>
        /\ net' = [net EXCEPT ![s] = [net[s] EXCEPT !.cli = "open"]]
    BY <2>1 DEF OnOpen, clientVars
  <2>3. ASSUME NEW t \in Sockets, t # s
        PROVE  SocketInv(t)'
    <3>1. net'[t] = net[t] /\ \A a \in Bridges : \A p \in proofs'[a] : p \in proofs[a]
      BY <1>1, <2>2, <2>3
    <3> QED BY <1>1, <1>4, <1>7, <2>2, <3>1, OneClientKeeps
  <2>4. Fields(net'[s], net[s].owner, "open", net[s].srv, net[s].up, net[s].down, net[s].lost)
    BY <1>1, <2>2, StepFields
  <2>5. SocketInv(s) /\ UNCHANGED <<sv, store>>
    BY <1>1 DEF SecretInv, serverVars
  <2>6. net[s].owner \in Bridges
    BY <2>1 DEF OnOpen
  <2>7. ~Claims(s)'
    <3>1. net[s].up = <<>> /\ ~(sv.accepted /\ sv.client = s)
      BY <2>2, <2>5 DEF SocketInv, StillFresh
    <3>2. ProofFor(s)' \notin proofs'[net[s].owner]
      <4>1. ProofFor(s)'.nonce = s
        BY DEF ProofFor
      <4> QED BY <2>2, <2>5, <2>6, <4>1 DEF SocketInv, StillFresh
    <3>3. Within(net'[s].up) = {}
      BY <2>4, <3>1, EmptyOwned DEF Fields, Within
    <3> QED BY <2>4, <2>5, <3>1, <3>2, <3>3 DEF Claims, Fields
  <2>8. AllTold(s)'
    <3>1. \A m \in Within(net'[s].down) : Told(s, m)
      BY <2>4, <2>5 DEF Fields, SocketInv, AllTold
    <3>2. \A m \in Within(net'[s].down) : Told(s, m)'
      BY <2>4, <2>5, <3>1 DEF Fields, Told, SrvOpen
    <3> QED BY <2>4, <2>5, <3>2 DEF Fields, SocketInv, AllTold
  <2>9. SocketInv(s)'
    BY <2>2, <2>4, <2>5, <2>7, <2>8
       DEF Fields, SocketInv, Dialled, SrvOpen, StillFresh, ClaimantsKnow
  <2> QED BY <1>1, <2>3, <2>9 DEF SecretInv
<1>18. CASE \E s \in Sockets : OnClose(b, s)
  <2>1. PICK s \in Sockets : OnClose(b, s)
    BY <1>18
  <2> DEFINE w == IF c.ws = s THEN None ELSE c.ws
             e == [c EXCEPT !.ws = w, !.pairingId = None, !.granted = FALSE]
             d == Scheduled(Offline(e))
  <2>2. cl' = [cl EXCEPT ![b] = d] /\ net' = [net EXCEPT ![s] = CliEnded(net[s])] /\ UNCHANGED proofs
    BY <2>1 DEF OnClose
  <2>3. d.ws = w /\ d.secret = c.secret
    <3> HIDE DEF w
    <3>1. e.ws = w /\ e.secret = c.secret
      BY <1>1 DEF ClientState
    <3> HIDE DEF e
    <3> QED BY <3>1 DEF Scheduled, Offline
  <2> HIDE DEF d
  <2>4. cl'[b] = d /\ \A a \in Bridges : a # b => cl'[a] = cl[a]
    BY <1>1, <2>2
  <2>5. Follows(net[s], CliEnded(net[s]), {}) /\ ~Dialled(CliEnded(net[s]))
    BY <1>1, FollowsSides
  <2>6. ASSUME NEW t \in Sockets
        PROVE  SocketInv(t)'
    <3>1. Follows(net[t], net'[t], {}) /\ (t = s => ~Dialled(net'[t])) /\ (t # s => net'[t] = net[t])
      BY <1>1, <1>4, <2>2, <2>5
    <3>2. net[t].owner = b => /\ Dialled(net'[t]) => cl'[b].ws = c.ws
                              /\ Touching(net'[t]) => cl'[b].secret = c.secret
      BY <1>3, <2>3, <2>4, <3>1
    <3>3. \A a \in Bridges : \A p \in proofs'[a] : p \in proofs[a]
      BY <2>2
    <3> QED BY <1>1, <1>7, <2>4, <3>1, <3>2, <3>3, OneClientKeeps
  <2> QED BY <1>1, <2>6 DEF SecretInv
<1>19. CASE \E s \in Sockets : HandleServerMessage(b, s)
  BY <1>1, <1>19, MessageKeepsSecret
<1>20. ASSUME NEW m, net' = SendOn(net, b, m)
       PROVE  \A s \in Sockets : Follows(net[s], net'[s], {m})
  <2>1. \A s \in Sockets : Follows(net[s], net[s], {m})
    BY DEF Follows
  <2>2. CASE c.ws = None
    BY <1>20, <2>1, <2>2 DEF SendOn
  <2>3. CASE c.ws # None
    <3>1. net' = [net EXCEPT ![c.ws] = CliSend(net[c.ws], m)]
      BY <1>20, <2>3 DEF SendOn
    <3>2. Follows(net[c.ws], CliSend(net[c.ws], m), {m})
      BY <1>1, <1>2, <2>3, FollowsSides
    <3> QED BY <1>1, <2>1, <3>1, <3>2
  <2> QED BY <2>2, <2>3
<1>21. CASE \E p \in proofs[b] : ProofReady(b, p)
  <2>1. PICK p \in proofs[b] : /\ net' = SendOn(net, b, Hello(b, p)) /\ UNCHANGED cl
                               /\ proofs' = [proofs EXCEPT ![b] = @ \ {p}]
    BY <1>21 DEF ProofReady
  <2>2. \A s \in Sockets : Follows(net[s], net'[s], {Hello(b, p)})
    BY <1>20, <2>1
  <2>3. \A a \in Bridges : \A q \in proofs'[a] : q \in proofs[a]
    BY <2>1 DEF ClientTyped
  <2>4. \A s \in Sockets : Hello(net[s].owner, ProofFor(s)) \in {Hello(b, p)} =>
           ProofFor(s) \in proofs[net[s].owner]
    BY DEF Hello
  <2>5. \A s \in Sockets : SocketInv(s)'
    BY <1>1, <2>1, <2>2, <2>3, <2>4, OneClientKeeps
  <2> QED BY <1>1, <2>5 DEF SecretInv
<1>22. CASE SecretStored(b)
  <2>1. /\ UNCHANGED <<net, proofs>>
        /\ cl' = [cl EXCEPT ![b] = [c EXCEPT !.auth = "rejected"]] \/ UNCHANGED cl
    BY <1>22 DEF SecretStored
  <2>2. [c EXCEPT !.auth = "rejected"].ws = c.ws /\ [c EXCEPT !.auth = "rejected"].secret = c.secret
    BY <1>1 DEF ClientState
  <2> QED BY <1>4, <1>6, <1>7, <2>1, <2>2
<1>23. CASE \E code \in ShownCodes : ConfirmPairing(b, code)
  <2>1. PICK code \in ShownCodes : ConfirmPairing(b, code)
    BY <1>23
  <2> DEFINE m == [type |-> "pairing_confirm", inst |-> b, id |-> c.pairingId, code |-> code]
  <2>2. /\ net' = SendOn(net, b, m) /\ UNCHANGED proofs
        /\ cl' = [cl EXCEPT ![b] = [c EXCEPT !.auth = "authenticating"]]
    BY <2>1 DEF ConfirmPairing
  <2>3. \A s \in Sockets : Hello(net[s].owner, ProofFor(s)) \notin {m}
    BY MessageNames
  <2> HIDE DEF m
  <2>4. \A s \in Sockets : Follows(net[s], net'[s], {m})
    BY <1>20, <2>2
  <2>5. /\ [c EXCEPT !.auth = "authenticating"].ws = c.ws
        /\ [c EXCEPT !.auth = "authenticating"].secret = c.secret
    BY <1>1 DEF ClientState
  <2> QED BY <1>6, <2>2, <2>3, <2>4, <2>5
<1> QED BY <1>8, <1>10, <1>12, <1>13, <1>15, <1>16, <1>17, <1>18, <1>19, <1>21, <1>22, <1>23
        DEF ClientStep

LEMMA TransportKeepsSecret ==
    ASSUME ConnsTyped, ClientTyped, NetOK, SecretInv, TransportStep
    PROVE  SecretInv'
<1>1. PICK s \in Sockets : TransportEvent(s) \/ Breaks(s)
  BY DEF TransportStep
<1> DEFINE c == net[s]
           u == CliClose(c)
           v == SrvClose(c)
<1>2. /\ c \in Conn /\ u \in Conn /\ v \in Conn
      /\ Follows(c, u, {}) /\ Follows(c, v, {}) /\ Follows(c, Broken(c), {})
  BY ConnKept, FollowsSides DEF ConnsTyped
<1> HIDE DEF u, v
<1>3. /\ Follows(c, [u EXCEPT !.cli = "ending", !.down = <<>>], {})
      /\ Follows(c, [v EXCEPT !.srv = "ending", !.up = <<>>], {})
  BY <1>2, FollowsSides, FollowsTwice
<1>4. \E d : net' = [net EXCEPT ![s] = d] /\ Follows(c, d, {})
  BY <1>1, <1>2, <1>3 DEF TransportEvent, CliReceivesClose, SrvReceivesClose, Breaks, u, v
<1>5. \A t \in Sockets : Follows(net[t], net'[t], {})
  BY <1>4, OneFollows
<1>6. UNCHANGED <<sv, store>> /\ UNCHANGED clientVars
  BY DEF TransportStep, serverVars
<1> QED BY <1>5, <1>6, AnswerKeepsSecret

LEMMA SecretInvInit == Init => SecretInv
<1> SUFFICES ASSUME Init PROVE SecretInv
  OBVIOUS
<1>1. \A s \in Sockets : Fields(net[s], None, "none", "none", <<>>, <<>>, FALSE)
  BY UnusedFields DEF Init
<1>2. Within(<<>>) = {}
  BY EmptyOwned DEF Within
<1>3. \A s \in Sockets : SocketInv(s)
  BY <1>1, <1>2 DEF Fields, SocketInv, Dialled, SrvOpen, AllTold, StillFresh, ClaimantsKnow, Touching
<1>4. store.disk = None
  BY DEF Init, ServerInit
<1> QED BY <1>3, <1>4 DEF SecretInv

LEMMA SecretInvNext ==
    ASSUME "reset" \notin PersistFailures, AllTyped, SessionInv, NewIsIdle, SecretInv, [Next]_vars
    PROVE  SecretInv'
<1>1. CASE ServerStep
  BY <1>1, ServerKeepsSecret DEF AllTyped, SessionInv
<1>2. CASE \E b \in Bridges : ClientStep(b)
  BY <1>2, ClientKeepsSecret DEF AllTyped, SessionInv
<1>3. CASE TransportStep
  BY <1>3, TransportKeepsSecret DEF AllTyped, SessionInv
<1>4. CASE UNCHANGED vars
  <2>1. \A t \in Sockets : Follows(net[t], net'[t], {})
    BY <1>4, FollowsSelf DEF vars
  <2>2. UNCHANGED <<sv, store>> /\ UNCHANGED clientVars
    BY <1>4 DEF vars, clientVars
  <2> QED BY <2>1, <2>2, AnswerKeepsSecret DEF AllTyped, SessionInv
<1> QED BY <1>1, <1>2, <1>3, <1>4 DEF Next

LEMMA SecretInvServes ==
    ASSUME AllTyped, ServerOK, SecretInv PROVE AcceptedIsPaired
<1> SUFFICES ASSUME NEW s \in Sockets, CanServe(s), CliOpen(s), ~net[s].lost
             PROVE  \/ cl[net[s].owner].secret = store.paired.secret
                    \/ PairingComplete(store.paired.secret)
                          \in {net[s].down[i] : i \in 1..Len(net[s].down)}
  BY DEF AcceptedIsPaired, SharesSecret, ServerOK
<1>1. ClaimantsKnow(s) /\ Touching(net[s]) /\ Claims(s)
  BY DEF SecretInv, SocketInv, CanServe, CliOpen, SrvOpen, Touching, Claims
<1>2. store.paired # None /\ store.paired.inst = net[s].owner
  BY DEF CanServe, ServerOK, ServedIsPaired
<1> QED BY <1>1, <1>2 DEF ClaimantsKnow, Known, Within

\* If a reset that cannot be written is left aside, the connection the server
\* serves is one of the installation it is paired with, and that installation
\* holds the secret of the pairing, or is about to receive it on it: whatever
\* proofs, codes, restarts and reloads come in between.
THEOREM AcceptedStaysPaired ==
    ASSUME "reset" \notin PersistFailures PROVE Spec => []AcceptedIsPaired
<1>1. Init => AllTyped /\ SessionInv /\ NewIsIdle /\ SecretInv
  BY InitTyped, SessionInvInit, NewIsIdleInit, SecretInvInit
<1>2. AllTyped /\ SessionInv /\ NewIsIdle /\ SecretInv /\ [Next]_vars =>
         (AllTyped /\ SessionInv /\ NewIsIdle /\ SecretInv)'
  BY StepTyped, SessionInvNext, NewIsIdleNext, SecretInvNext DEF AllTyped
<1>3. AllTyped /\ SessionInv /\ NewIsIdle /\ SecretInv => AcceptedIsPaired
  BY SecretInvServes DEF SessionInv
<1> QED BY <1>1, <1>2, <1>3, PTL DEF Spec

-----------------------------------------------------------------------------
(* The hello of a connection.  The server asks for one hello on each       *)
(* connection; it is asked for, its proof is computed, or it is on its way, *)
(* and once the server has heard it nothing of it is left.                  *)

Has(q, t)  == \E m \in Within(q) : m.type = t
Once(q, t) == \A i, j \in 1..Len(q) : q[i].type = t /\ q[j].type = t => i = j

\* q is what is left of p, with messages of M and a close frame added.
Thins(p, q, M) ==
    /\ Within(q) \subseteq Within(p) \cup M \cup {CloseFrame}
    /\ \A t : /\ t # "close" /\ Once(p, t)
              /\ ~Has(p, t) \/ \A m \in M : m.type # t
              => Once(q, t)

\* While it is dialled, c has become d, with U sent up and D sent down.
Turns(c, d, U, D) ==
    Dialled(d) => /\ Dialled(c) /\ d.owner = c.owner
                  /\ Thins(c.up, d.up, U) /\ Thins(c.down, d.down, D)

LEMMA CloseIsClose == CloseFrame.type = "close"
  BY DEF CloseFrame

LEMMA NotHas == ASSUME NEW q, NEW t, ~Has(q, t) PROVE Once(q, t)
  BY DEF Has, Once, Within

LEMMA ThinsQueue ==
    ASSUME NEW S, NEW q \in Seq(S)
    PROVE  /\ \A M : Thins(q, q, M)
           /\ Thins(q, <<>>, {})
           /\ \A m : Thins(q, Append(q, m), {m})
           /\ Thins(q, Append(q, CloseFrame), {})
           /\ q # <<>> => /\ Thins(q, Tail(q), {})
                          /\ \A t : Once(q, t) /\ Head(q).type = t => ~Has(Tail(q), t)
<1>1. Len(q) \in Nat
  OBVIOUS
<1>2. \A M : Thins(q, q, M)
  BY DEF Thins
<1>3. Thins(q, <<>>, {})
  BY EmptyOwned DEF Thins, Once, Within
<1>4. ASSUME NEW m, NEW t, Once(q, t), ~Has(q, t) \/ m.type # t
      PROVE  Once(Append(q, m), t)
  <2> DEFINE r == Append(q, m)
  <2>1. r \in Seq(S \cup {m})
    BY <1>1
  <2>2. /\ Len(r) = Len(q) + 1 /\ r[Len(q) + 1] = m
        /\ \A i \in 1..Len(q) : r[i] = q[i]
    BY <2>1
  <2> HIDE DEF r
  <2>3. ~Has(q, t) => \A i \in 1..Len(q) : q[i].type # t
    BY DEF Has, Within
  <2>4. \A i \in 1..Len(r) : i \in 1..Len(q) \/ i = Len(q) + 1
    BY <1>1, <2>2
  <2>5. SUFFICES ASSUME NEW i \in 1..Len(r), NEW j \in 1..Len(r), r[i].type = t, r[j].type = t
                 PROVE  i = j
    BY DEF Once, r
  <2> QED BY <1>4, <2>2, <2>3, <2>4, <2>5 DEF Once
<1>5. ASSUME NEW m PROVE Thins(q, Append(q, m), {m})
  BY <1>4, WithinFacts DEF Thins
<1>6. Thins(q, Append(q, CloseFrame), {})
  BY <1>4, WithinFacts, CloseIsClose DEF Thins
<1>7. ASSUME q # <<>>
      PROVE  /\ Thins(q, Tail(q), {})
             /\ \A t : Once(q, t) /\ Head(q).type = t => ~Has(Tail(q), t)
  <2> DEFINE r == Tail(q)
  <2>1. /\ Head(q) = q[1] /\ 1 \in 1..Len(q) /\ Len(r) \in Nat /\ Len(r) = Len(q) - 1
        /\ \A i \in 1..Len(r) : r[i] = q[i + 1]
    BY <1>7
  <2>2. Within(r) \subseteq Within(q)
    BY <1>7, WithinFacts
  <2> HIDE DEF r
  <2>3. \A i \in 1..Len(r) : i \in Nat /\ i > 0 /\ i + 1 \in 1..Len(q) /\ i + 1 # 1
    BY <1>1, <2>1
  <2>4. ASSUME NEW t, Once(q, t)
        PROVE  Once(r, t)
    <3>1. ASSUME NEW i \in 1..Len(r), NEW j \in 1..Len(r), r[i].type = t, r[j].type = t
          PROVE  i = j
      <4>1. q[i + 1].type = t /\ q[j + 1].type = t
        BY <2>1, <3>1
      <4>2. i + 1 = j + 1
        BY <2>3, <2>4, <4>1 DEF Once
      <4> QED BY <2>3, <4>2
    <3> QED BY <3>1 DEF Once
  <2>5. ASSUME NEW t, Once(q, t), Head(q).type = t, Has(r, t)
        PROVE  FALSE
    <3>1. PICK i \in 1..Len(r) : r[i].type = t
      BY <2>5 DEF Has, Within
    <3>2. q[i + 1].type = t /\ q[1].type = t
      BY <2>1, <2>5, <3>1
    <3> QED BY <2>1, <2>3, <2>5, <3>2 DEF Once
  <2> QED BY <2>2, <2>4, <2>5 DEF Thins, r
<1> QED BY <1>2, <1>3, <1>5, <1>6, <1>7

LEMMA ThinsTwice ==
    ASSUME NEW p, NEW q, NEW r, NEW M, NEW N, Thins(p, q, M), Thins(q, r, N),
           \A m \in M, n \in N : m.type # n.type
    PROVE  Thins(p, r, M \cup N)
<1>1. Within(r) \subseteq Within(p) \cup (M \cup N) \cup {CloseFrame}
  BY DEF Thins
<1>2. ASSUME NEW t, t # "close", Once(p, t), ~Has(p, t) \/ \A m \in M \cup N : m.type # t
      PROVE  Once(r, t)
  <2>1. Once(q, t)
    BY <1>2 DEF Thins
  <2>2. ASSUME ~Has(p, t), \A m \in M : m.type # t
        PROVE  ~Has(q, t)
    BY <1>2, <2>2, CloseIsClose DEF Thins, Has
  <2>3. (\A m \in N : m.type # t) \/ \A m \in M : m.type # t
    OBVIOUS
  <2> QED BY <1>2, <2>1, <2>2, <2>3 DEF Thins
<1> QED BY <1>1, <1>2 DEF Thins

LEMMA TurnsMore ==
    ASSUME NEW c, NEW d, NEW U, NEW D, Turns(c, d, {}, {})
    PROVE  Turns(c, d, U, D)
  BY DEF Turns, Thins

LEMMA TurnsTwice ==
    ASSUME NEW c, NEW d, NEW e, NEW U, NEW D, NEW W, NEW E, Turns(c, d, U, D), Turns(d, e, W, E),
           \A m \in U, n \in W : m.type # n.type, \A m \in D, n \in E : m.type # n.type
    PROVE  Turns(c, e, U \cup W, D \cup E)
  BY ThinsTwice DEF Turns

\* One of two turns sends nothing.
LEMMA TurnsThen ==
    ASSUME NEW c, NEW d, NEW e, NEW U, NEW D
    PROVE  /\ Turns(c, d, {}, {}) /\ Turns(d, e, U, D) => Turns(c, e, U, D)
           /\ Turns(c, d, U, D) /\ Turns(d, e, {}, {}) => Turns(c, e, U, D)
<1>1. {} \cup U = U /\ {} \cup D = D /\ U \cup {} = U /\ D \cup {} = D
  OBVIOUS
<1>2. ASSUME Turns(c, d, {}, {}), Turns(d, e, U, D)
      PROVE  Turns(c, e, {} \cup U, {} \cup D)
  BY <1>2, TurnsTwice
<1>3. ASSUME Turns(c, d, U, D), Turns(d, e, {}, {})
      PROVE  Turns(c, e, U \cup {}, D \cup {})
  BY <1>3, TurnsTwice
<1> QED BY <1>1, <1>2, <1>3

LEMMA TurnsSides ==
    ASSUME NEW c \in Conn
    PROVE  /\ \A U, D : Turns(c, c, U, D)
           /\ \A m : Turns(c, CliSend(c, m), {m}, {})
           /\ \A m : Turns(c, SrvSend(c, m), {}, {m})
           /\ Turns(c, CliClose(c), {}, {}) /\ Turns(c, SrvClose(c), {}, {})
           /\ Turns(c, Broken(c), {}, {})
           /\ Turns(c, CliEnded(c), {}, {}) /\ Turns(c, SrvEnded(c), {}, {})
           /\ c.up # <<>> => Turns(c, [c EXCEPT !.up = Tail(@)], {}, {})
           /\ c.down # <<>> => Turns(c, [c EXCEPT !.down = Tail(@)], {}, {})
           /\ c.cli = "connecting" => Turns(c, [c EXCEPT !.cli = "open"], {}, {})
           /\ Turns(c, [c EXCEPT !.srv = "open"], {}, {})
           /\ Turns(c, [c EXCEPT !.cli = "ending", !.down = <<>>], {}, {})
           /\ Turns(c, [c EXCEPT !.srv = "ending", !.up = <<>>], {}, {})
<1>1. /\ c.up \in Seq(UpMessages) /\ c.down \in Seq(DownMessages)
      /\ \A M : Thins(c.up, c.up, M) /\ Thins(c.down, c.down, M)
      /\ Thins(c.up, <<>>, {}) /\ Thins(c.down, <<>>, {})
      /\ \A m : Thins(c.up, Append(c.up, m), {m}) /\ Thins(c.down, Append(c.down, m), {m})
      /\ Thins(c.down, Append(c.down, CloseFrame), {})
      /\ c.up # <<>> => Thins(c.up, Tail(c.up), {})
      /\ c.down # <<>> => Thins(c.down, Tail(c.down), {})
  BY ConnQueues, ThinsQueue
<1>2. \A U, D : Turns(c, c, U, D)
  BY <1>1 DEF Turns
<1>3. ASSUME NEW m
      PROVE  Turns(c, CliSend(c, m), {m}, {}) /\ Turns(c, SrvSend(c, m), {}, {m})
  <2> DEFINE up == IF c.cli = "open" /\ ~c.lost THEN Append(c.up, m) ELSE c.up
             down == IF c.srv = "open" /\ ~c.lost /\ c.cli \in {"connecting", "open"}
                     THEN Append(c.down, m) ELSE c.down
  <2>1. /\ Fields(CliSend(c, m), c.owner, c.cli, c.srv, up, c.down, c.lost)
        /\ Fields(SrvSend(c, m), c.owner, c.cli, c.srv, c.up, down, c.lost)
    BY SendFields
  <2>2. Thins(c.up, up, {m}) /\ Thins(c.down, down, {m})
    BY <1>1
  <2> HIDE DEF up, down
  <2> QED BY <1>1, <2>1, <2>2 DEF Fields, Turns, Dialled
<1>4. Turns(c, CliClose(c), {}, {})
  <2>1. CASE Dialled(c)
    BY <2>1, CloseFields DEF Fields, Turns, Dialled
  <2>2. CASE ~Dialled(c)
    BY <1>2, <2>2, CloseFields DEF Dialled
  <2> QED BY <2>1, <2>2
<1>5. Turns(c, SrvClose(c), {}, {})
  <2>1. CASE c.srv = "open"
    <3> DEFINE rest == IF c.lost THEN c.down ELSE Append(c.down, CloseFrame)
    <3>1. Fields(SrvClose(c), c.owner, c.cli, "closing", c.up, rest, c.lost)
      BY <2>1, CloseFields
    <3>2. Thins(c.down, rest, {})
      BY <1>1
    <3> HIDE DEF rest
    <3> QED BY <1>1, <3>1, <3>2 DEF Fields, Turns, Dialled
  <2>2. CASE c.srv # "open"
    BY <1>2, <2>2, CloseFields
  <2> QED BY <2>1, <2>2
<1>6. Turns(c, Broken(c), {}, {})
  BY <1>1, EndFields DEF Fields, Turns, Dialled
<1>7. Turns(c, CliEnded(c), {}, {}) /\ Turns(c, SrvEnded(c), {}, {})
  BY <1>1, EndFields, UnusedFields DEF Fields, Turns, Dialled
<1>8. /\ c.up # <<>> => Turns(c, [c EXCEPT !.up = Tail(@)], {}, {})
      /\ c.down # <<>> => Turns(c, [c EXCEPT !.down = Tail(@)], {}, {})
  BY <1>1, StepFields DEF Fields, Turns, Dialled
<1>9. /\ c.cli = "connecting" => Turns(c, [c EXCEPT !.cli = "open"], {}, {})
      /\ Turns(c, [c EXCEPT !.srv = "open"], {}, {})
      /\ Turns(c, [c EXCEPT !.cli = "ending", !.down = <<>>], {}, {})
      /\ Turns(c, [c EXCEPT !.srv = "ending", !.up = <<>>], {}, {})
  BY <1>1, StepFields DEF Fields, Turns, Dialled
<1> QED BY <1>2, <1>3, <1>4, <1>5, <1>6, <1>7, <1>8, <1>9

\* The server's answers on a connection.
LEMMA AnswersTurn ==
    ASSUME NEW c \in Conn
    PROVE  /\ \A m \in DownMessages : Turns(c, SrvSend(c, m), {}, {m})
           /\ Turns(c, Accepting(c), {}, {AuthAccepted})
           /\ Turns(c, Rejecting(c), {}, {})
           /\ \A r \in BOOLEAN : Turns(c, RejectingAuthentication(c, r), {}, {AuthRejected(r)})
           /\ \A k \in Secrets : Turns(c, Accepting(SrvSend(c, PairingComplete(k))),
                                      {}, {PairingComplete(k), AuthAccepted})
<1>1. \A m \in DownMessages : SrvSend(c, m) \in Conn /\ Turns(c, SrvSend(c, m), {}, {m})
  BY ConnKept, TurnsSides
<1>2. Turns(c, Accepting(c), {}, {AuthAccepted})
  BY <1>1, MessagesTyped DEF Accepting
<1>3. Turns(c, Rejecting(c), {}, {})
  BY TurnsSides DEF Rejecting
<1>4. ASSUME NEW r \in BOOLEAN
      PROVE  Turns(c, RejectingAuthentication(c, r), {}, {AuthRejected(r)})
  <2>1. /\ SrvSend(c, AuthRejected(r)) \in Conn
        /\ Turns(c, SrvSend(c, AuthRejected(r)), {}, {AuthRejected(r)})
    BY <1>1, MessagesTyped
  <2>2. Turns(SrvSend(c, AuthRejected(r)), SrvClose(SrvSend(c, AuthRejected(r))), {}, {})
    BY <2>1, TurnsSides
  <2> QED BY <2>1, <2>2, TurnsThen DEF RejectingAuthentication
<1>5. ASSUME NEW k \in Secrets
      PROVE  Turns(c, Accepting(SrvSend(c, PairingComplete(k))),
                   {}, {PairingComplete(k), AuthAccepted})
  <2> DEFINE e == SrvSend(c, PairingComplete(k))
  <2>1. e \in Conn /\ Turns(c, e, {}, {PairingComplete(k)})
    BY <1>1, MessagesTyped
  <2> HIDE DEF e
  <2>2. Turns(e, SrvSend(e, AuthAccepted), {}, {AuthAccepted})
    BY <2>1, TurnsSides
  <2>3. PairingComplete(k).type # AuthAccepted.type
    BY DEF PairingComplete, AuthAccepted
  <2>4. Turns(c, SrvSend(e, AuthAccepted), {} \cup {}, {PairingComplete(k)} \cup {AuthAccepted})
    BY <2>1, <2>2, <2>3, TurnsTwice
  <2>5. {PairingComplete(k)} \cup {AuthAccepted} = {PairingComplete(k), AuthAccepted}
    OBVIOUS
  <2> QED BY <2>4, <2>5 DEF Accepting, e
<1> QED BY <1>1, <1>2, <1>3, <1>4, <1>5

\* The server takes up a message.
LEMMA TakenUpTurns ==
    ASSUME ConnsTyped, NEW s \in Sockets, net[s].up # <<>>
    PROVE  TakenUp(s) \in Conn /\ Turns(net[s], TakenUp(s), {}, {})
  BY ConnKept, TurnsSides DEF ConnsTyped, TakenUp

LEMMA OneTurns ==
    ASSUME ConnsTyped, NEW s, NEW d, NEW U, NEW D, s \in Sockets => Turns(net[s], d, U, D),
           net' = [net EXCEPT ![s] = d]
    PROVE  \A t \in Sockets : Turns(net[t], net'[t], U, D)
  BY TurnsSides DEF ConnsTyped

Asked(s)    == Has(net[s].down, "server_challenge")
Proving(s)  == \E b \in Bridges : \E p \in proofs[b] : p.nonce = s
Greeting(s) == Has(net[s].up, "client_hello")
HelloDue(s) == Asked(s) \/ Proving(s) \/ Greeting(s)

Dismissed(s) == AuthRejected(TRUE) \in Within(net[s].down)
Completed(s) == Has(net[s].down, "pairing_complete")

\* The server has had the hello of the connection.
Heard(s) == (sv.client = s /\ sv.hello # None) \/ Completed(s) \/ Dismissed(s)

\* The server is not paired with the secret the connection's bridge holds.
Revoked(s) ==
    store.paired # None => \/ store.paired.inst # net[s].owner
                           \/ store.paired.secret # cl[net[s].owner].secret

\* Every proof offered on the connection is one of the secret its bridge holds.
Honest(s) ==
    /\ \A b \in Bridges : \A p \in proofs[b] :
          p.nonce = s => b = net[s].owner /\ p.secret = cl[b].secret
    /\ \A m \in Within(net[s].up) : m.type = "client_hello" /\ m.proof # None =>
          m.proof.nonce = s /\ m.proof.secret = cl[net[s].owner].secret

TokenInv(s) ==
    Dialled(net[s]) =>
       /\ Once(net[s].down, "server_challenge") /\ Once(net[s].up, "client_hello")
       /\ Asked(s) => ~Proving(s) /\ ~Greeting(s)
       /\ Proving(s) => ~Greeting(s)
       /\ Heard(s) => ~HelloDue(s)
       /\ Honest(s)
       /\ Dismissed(s) => ~Completed(s) /\ Revoked(s)

TokensInv == \A s \in Sockets : TokenInv(s)

\* What a plain message is not.
LEMMA PlainAdds ==
    ASSUME NEW p, NEW q, NEW M, Thins(p, q, M), \A m \in M : Plain(m)
    PROVE  /\ Has(q, "server_challenge") => Has(p, "server_challenge")
           /\ Has(q, "pairing_complete") => Has(p, "pairing_complete")
           /\ AuthRejected(TRUE) \in Within(q) => AuthRejected(TRUE) \in Within(p)
           /\ Once(p, "server_challenge") => Once(q, "server_challenge")
<1>1. CloseFrame.type = "close" /\ AuthRejected(TRUE) # CloseFrame
  BY DEF CloseFrame, AuthRejected
<1> QED BY <1>1 DEF Thins, Has, Plain

LEMMA NothingAdds ==
    ASSUME NEW p, NEW q, Thins(p, q, {})
    PROVE  /\ \A t : t # "close" /\ Has(q, t) => Has(p, t)
           /\ \A t : t # "close" /\ Once(p, t) => Once(q, t)
           /\ \A m \in Within(q) : m.type # "close" => m \in Within(p)
  BY CloseIsClose DEF Thins, Has

\* A connection on which nothing is said that bears on the hello.
LEMMA TokenKept ==
    ASSUME NEW s \in Sockets, TokenInv(s), NEW U, NEW D, Turns(net[s], net'[s], U, D),
           \A m \in U : m.type # "client_hello", \A m \in D : Plain(m),
           Dialled(net'[s]) =>
              /\ \A b \in Bridges : \A p \in proofs'[b] : p.nonce = s => p \in proofs[b]
              /\ net[s].owner \in Bridges
              /\ cl'[net[s].owner].secret = cl[net[s].owner].secret
              /\ sv'.client = s /\ sv'.hello # None => sv.client = s /\ sv.hello # None
              /\ Revoked(s) => Revoked(s)'
    PROVE  TokenInv(s)'
<1> DEFINE c == net[s]
           d == net'[s]
<1> SUFFICES ASSUME Dialled(d)
             PROVE  /\ Once(d.down, "server_challenge") /\ Once(d.up, "client_hello")
                    /\ Asked(s)' => ~Proving(s)' /\ ~Greeting(s)'
                    /\ Proving(s)' => ~Greeting(s)'
                    /\ Heard(s)' => ~HelloDue(s)'
                    /\ Honest(s)'
                    /\ Dismissed(s)' => ~Completed(s)' /\ Revoked(s)'
  BY DEF TokenInv
<1>1. /\ Dialled(c) /\ d.owner = c.owner /\ Thins(c.up, d.up, U) /\ Thins(c.down, d.down, D)
  BY DEF Turns
<1>2. /\ Once(c.down, "server_challenge") /\ Once(c.up, "client_hello")
      /\ Asked(s) => ~Proving(s) /\ ~Greeting(s)
      /\ Proving(s) => ~Greeting(s)
      /\ Heard(s) => ~HelloDue(s)
      /\ Honest(s)
      /\ Dismissed(s) => ~Completed(s) /\ Revoked(s)
  BY <1>1 DEF TokenInv
<1>3. /\ Asked(s)' => Asked(s)
      /\ Completed(s)' => Completed(s)
      /\ Dismissed(s)' => Dismissed(s)
      /\ Once(d.down, "server_challenge")
  BY <1>1, <1>2, PlainAdds DEF Asked, Completed, Dismissed
<1>4. /\ \A m \in Within(d.up) : m.type = "client_hello" => m \in Within(c.up)
      /\ Once(d.up, "client_hello")
  BY <1>1, <1>2, CloseIsClose DEF Thins
<1>5. Greeting(s)' => Greeting(s)
  BY <1>4 DEF Greeting, Has
<1>6. Proving(s)' => Proving(s)
  BY DEF Proving
<1>7. Honest(s)'
  BY <1>1, <1>2, <1>4 DEF Honest
<1>8. sv'.client = s /\ sv'.hello # None => sv.client = s /\ sv.hello # None
  OBVIOUS
<1>9. Revoked(s) => Revoked(s)'
  OBVIOUS
<1>10. Heard(s)' => Heard(s)
  BY <1>3, <1>8 DEF Heard
<1>11. HelloDue(s)' => HelloDue(s)
  BY <1>3, <1>5, <1>6 DEF HelloDue
<1> QED BY <1>2, <1>3, <1>4, <1>5, <1>6, <1>7, <1>9, <1>10, <1>11

\* A connection whose hello is no longer due.
LEMMA TokenSpent ==
    ASSUME NEW s \in Sockets,
           Dialled(net'[s]) => ~HelloDue(s)' /\ (Dismissed(s)' => ~Completed(s)' /\ Revoked(s)')
    PROVE  TokenInv(s)'
<1> SUFFICES ASSUME Dialled(net'[s]) PROVE TokenInv(s)'
  BY DEF TokenInv
<1>1. ~Asked(s)' /\ ~Proving(s)' /\ ~Greeting(s)'
  BY DEF HelloDue
<1>2. Once(net'[s].down, "server_challenge") /\ Once(net'[s].up, "client_hello")
  BY <1>1, NotHas DEF Asked, Greeting
<1>3. Honest(s)'
  BY <1>1 DEF Honest, Proving, Greeting, Has
<1> QED BY <1>1, <1>2, <1>3 DEF TokenInv

\* The pairing changes into none, or into one with a secret that is new.
Renews == store'.paired # None /\ store'.paired # store.paired => store'.paired.secret \notin HeldSecrets

LEMMA RevokedKept ==
    ASSUME NEW s \in Sockets, net[s].owner \in Bridges, net'[s].owner = net[s].owner,
           cl'[net[s].owner].secret = cl[net[s].owner].secret, Renews, Revoked(s)
    PROVE  Revoked(s)'
<1> DEFINE b == net[s].owner
<1>1. cl[b].secret \in HeldSecrets
  <2>1. cl[b].secret \in UNION {{cl[a].secret, stored[a]} : a \in Bridges}
    OBVIOUS
  <2>2. UNION {{cl[a].secret, stored[a]} : a \in Bridges} \subseteq HeldSecrets
    BY Zenon DEF HeldSecrets
  <2> QED BY <2>1, <2>2
<1>2. CASE store'.paired = store.paired
  BY <1>2 DEF Revoked
<1>3. CASE store'.paired # store.paired
  BY <1>1, <1>3 DEF Revoked, Renews
<1> QED BY <1>2, <1>3

\* The steps of the server that say nothing that bears on the hello.
LEMMA ServerTokenKept ==
    ASSUME NetOK, TokensInv, UNCHANGED clientVars, Renews,
           NEW s \in Sockets, NEW D, Turns(net[s], net'[s], {}, D), \A m \in D : Plain(m),
           sv'.client = s /\ sv'.hello # None => sv.client = s /\ sv.hello # None
    PROVE  TokenInv(s)'
<1>1. TokenInv(s) /\ UNCHANGED <<cl, proofs>>
  BY DEF TokensInv, clientVars
<1>2. Dialled(net'[s]) => net[s].owner \in Bridges /\ net'[s].owner = net[s].owner
  BY DEF Turns, NetOK, Dialled
<1>3. Dialled(net'[s]) => (Revoked(s) => Revoked(s)')
  BY <1>1, <1>2, RevokedKept
<1>4. \A m \in {} : m.type # "client_hello"
  OBVIOUS
<1>5. Dialled(net'[s]) =>
         /\ \A b \in Bridges : \A p \in proofs'[b] : p.nonce = s => p \in proofs[b]
         /\ net[s].owner \in Bridges
         /\ cl'[net[s].owner].secret = cl[net[s].owner].secret
         /\ sv'.client = s /\ sv'.hello # None => sv.client = s /\ sv.hello # None
         /\ Revoked(s) => Revoked(s)'
  BY <1>1, <1>2, <1>3
<1> QED BY <1>1, <1>4, <1>5, TokenKept

LEMMA AnswerKeepsTokens ==
    ASSUME NetOK, TokensInv, UNCHANGED clientVars, Renews,
           NEW D, \A s \in Sockets : Turns(net[s], net'[s], {}, D), \A m \in D : Plain(m),
           sv'.hello # None => sv'.client = sv.client /\ sv.hello # None
    PROVE  TokensInv'
<1>1. \A s \in Sockets : TokenInv(s)'
  BY ServerTokenKept
<1> QED BY <1>1 DEF TokensInv

LEMMA SilentKeepsTokens ==
    ASSUME NetOK, TokensInv, UNCHANGED clientVars, Renews,
           \A s \in Sockets : Turns(net[s], net'[s], {}, {}),
           sv'.hello # None => sv'.client = sv.client /\ sv.hello # None
    PROVE  TokensInv'
<1> DEFINE D == {}
<1>1. \A m \in D : Plain(m)
  OBVIOUS
<1>2. \A s \in Sockets : Turns(net[s], net'[s], {}, D)
  OBVIOUS
<1> HIDE DEF D
<1> QED BY <1>1, <1>2, AnswerKeepsTokens

\* The hello that is heard is the only one.
LEMMA HelloSpent ==
    ASSUME ConnsTyped, TokensInv, UNCHANGED proofs, NEW s \in Sockets, net[s].up # <<>>,
           Head(net[s].up).type = "client_hello", NEW D, Turns(TakenUp(s), net'[s], {}, D),
           \A m \in D : m.type \notin {"server_challenge", "pairing_complete"},
           AuthRejected(TRUE) \in D /\ Dialled(net[s]) => Revoked(s)'
    PROVE  TokenInv(s)'
<1> DEFINE c == net[s]
           d == net'[s]
<1> SUFFICES ASSUME Dialled(d)
             PROVE  ~HelloDue(s)' /\ (Dismissed(s)' => ~Completed(s)' /\ Revoked(s)')
  BY TokenSpent
<1>1. /\ c \in Conn /\ c.up \in Seq(UpMessages)
      /\ TakenUp(s).up = Tail(c.up) /\ TakenUp(s).down = c.down /\ (Dialled(TakenUp(s)) => Dialled(c))
  BY StepFields, ConnQueues DEF ConnsTyped, TakenUp, Fields, Dialled
<1>2. Dialled(c) /\ Thins(Tail(c.up), d.up, {}) /\ Thins(c.down, d.down, D)
  BY <1>1 DEF Turns
<1>3. Greeting(s)
  <2>1. Head(c.up) \in Within(c.up)
    BY <1>1, WithinFacts
  <2> QED BY <2>1 DEF Greeting, Has
<1>4. /\ Once(c.up, "client_hello") /\ ~Asked(s) /\ ~Proving(s) /\ ~Completed(s) /\ ~Dismissed(s)
  BY <1>2, <1>3 DEF TokensInv, TokenInv, Heard, HelloDue
<1>5. ~Has(Tail(c.up), "client_hello")
  BY <1>1, <1>4, ThinsQueue
<1>6. ~Greeting(s)'
  BY <1>2, <1>5, NothingAdds DEF Greeting
<1>7. ~Asked(s)' /\ ~Completed(s)'
  BY <1>2, <1>4, CloseIsClose DEF Asked, Completed, Has, Thins
<1>8. ~Proving(s)'
  BY <1>4 DEF Proving
<1>9. Dismissed(s)' => AuthRejected(TRUE) \in D
  BY <1>2, <1>4, CloseIsClose DEF Dismissed, Thins, AuthRejected
<1> QED BY <1>2, <1>6, <1>7, <1>8, <1>9 DEF HelloDue

\* A proof the server does not accept is one of a secret it is not paired with.
LEMMA BadProofRevokes ==
    ASSUME ConnsTyped, ServerTyped, NetOK, ServerOK, TokensInv, UNCHANGED <<cl, store>>, HelloBadProof,
           NEW s \in Sockets, s = sv.client, Dialled(net[s]), net'[s].owner = net[s].owner
    PROVE  Revoked(s)'
<1> DEFINE p == Received.proof
<1>1. /\ net[s].up # <<>> /\ Received \in UpMessages
      /\ Received.type = "client_hello" /\ ReceivesFromClient("client_hello") /\ p # None
      /\ ~VerifyBridgeProof(Received.inst, p)
  BY ReceivedTyped DEF HelloBadProof, CompatibleHello
<1>2. Received.inst = net[s].owner
  BY <1>1, ReceivedIsOwners
<1>3. Received \in Within(net[s].up)
  <2>1. net[s].up \in Seq(UpMessages)
    BY <1>1, ConnQueues DEF ConnsTyped
  <2> QED BY <1>1, <2>1, WithinFacts DEF Received
<1>4. p.nonce = s /\ p.secret = cl[net[s].owner].secret
  BY <1>1, <1>3 DEF TokensInv, TokenInv, Honest
<1>5. p = [secret |-> p.secret, nonce |-> p.nonce]
  <2>1. p \in Proofs
    BY <1>1, UpTypes
  <2> QED BY <2>1 DEF Proofs
<1> HIDE DEF p
<1>6. Revoked(s)
  BY <1>1, <1>2, <1>4, <1>5 DEF VerifyBridgeProof, Revoked
<1> QED BY <1>6 DEF Revoked

LEMMA HelloKeepsTokens ==
    ASSUME ConnsTyped, ServerTyped, ClientTyped, StoreInv, NetOK, ServerOK, TokensInv,
           UNCHANGED clientVars, HandleClientHello
    PROVE  TokensInv'
<1>1. PICK s \in Sockets :
         /\ s = sv.client /\ net[s].up # <<>> /\ Received \in UpMessages
         /\ Received.type = "client_hello" /\ ReceivesFromClient("client_hello")
  BY ReceivedTyped DEF HandleClientHello, HelloIncompatible, HelloUnpaired, HelloWithoutProof,
     HelloBadProof, HelloAccepted, CompatibleHello
<1> DEFINE c == TakenUp(s)
           v == Greeted(Received)
<1>2. /\ c \in Conn /\ Turns(net[s], c, {}, {}) /\ c.owner = net[s].owner
  BY <1>1, TakenUpTurns, StepFields DEF ConnsTyped, TakenUp, Fields
<1>3. v.client = s /\ AcceptedBy(v).client = s
  <2>1. v \in ServerState /\ v.client = s
    BY <1>1, UpTypes DEF Greeted, ServerTyped, ServerState
  <2> QED BY <2>1 DEF AcceptedBy, ServerState
<1>4. UNCHANGED <<cl, proofs>>
  BY DEF clientVars
<1> HIDE DEF c, v
<1>5. CASE HelloIncompatible
  <2>1. /\ net' = [net EXCEPT ![s] = Rejecting(c)] /\ UNCHANGED store
        /\ sv' = [sv EXCEPT !.helloTimer = FALSE]
    BY <1>1, <1>5 DEF HelloIncompatible, ClientNet, c
  <2>2. \A t \in Sockets : Turns(net[t], net'[t], {}, {})
    <3>1. Turns(net[s], Rejecting(c), {}, {})
      BY <1>2, AnswersTurn, TurnsThen
    <3> QED BY <2>1, <3>1, OneTurns
  <2>3. sv'.client = s /\ sv'.hello = sv.hello
    BY <1>1, <2>1 DEF ServerTyped, ServerState
  <2>4. Renews
    BY <2>1 DEF Renews
  <2> QED BY <1>1, <2>2, <2>3, <2>4, SilentKeepsTokens
<1>6. ASSUME NEW d, NEW D, net' = [net EXCEPT ![s] = d], Turns(c, d, {}, D), sv'.client = s,
             store'.paired = store.paired,
             \A m \in D : m.type \notin {"server_challenge", "pairing_complete"},
             AuthRejected(TRUE) \in D /\ Dialled(net[s]) => Revoked(s)'
      PROVE  TokensInv'
  <2>1. net'[s] = d
    BY <1>1, <1>6 DEF ConnsTyped
  <2>2. TokenInv(s)'
    BY <1>1, <1>4, <1>6, <2>1, HelloSpent DEF Received, c
  <2>3. ASSUME NEW t \in Sockets, t # s
        PROVE  TokenInv(t)'
    <3>1. net'[t] = net[t] /\ net[t] \in Conn
      BY <1>6, <2>3 DEF ConnsTyped
    <3>2. Turns(net[t], net'[t], {}, {})
      BY <3>1, TurnsSides
    <3>3. Renews /\ \A m \in {} : Plain(m)
      BY <1>6 DEF Renews
    <3> QED BY <1>6, <2>3, <3>2, <3>3, ServerTokenKept
  <2> QED BY <2>2, <2>3 DEF TokensInv
<1>7. CASE HelloUnpaired
  <2>1. PICK fresh \in PairingIds : store' = EnsurePairingChallenge(Received.inst, fresh)
    BY <1>7 DEF HelloUnpaired
  <2>2. store'.paired = store.paired
    BY <2>1 DEF EnsurePairingChallenge, StoreInv
  <2> DEFINE m == PairingRequired(store'.challenge.id)
  <2>3. m \in DownMessages
    <3>1. Received.inst \in Bridges
      BY <1>1, UpTypes
    <3> QED BY <2>1, <3>1, ChallengeTyped, MessagesTyped DEF ServerTyped
  <2>4. net' = [net EXCEPT ![s] = SrvSend(c, m)] /\ sv' = v
    BY <1>1, <1>7 DEF HelloUnpaired, ClientNet, v, c
  <2>5. m.type = "pairing_required" /\ AuthRejected(TRUE) # m
    BY DEF PairingRequired, AuthRejected
  <2> HIDE DEF m
  <2>6. Turns(c, SrvSend(c, m), {}, {m})
    BY <1>2, <2>3, AnswersTurn
  <2> QED BY <1>3, <1>6, <2>2, <2>4, <2>5, <2>6
<1>8. CASE HelloWithoutProof
  <2>1. /\ net' = [net EXCEPT ![s] = RejectingAuthentication(c, FALSE)]
        /\ UNCHANGED store /\ sv' = v
    BY <1>1, <1>8 DEF HelloWithoutProof, ClientNet, v, c
  <2>2. Turns(c, RejectingAuthentication(c, FALSE), {}, {AuthRejected(FALSE)})
    BY <1>2, AnswersTurn
  <2>3. AuthRejected(FALSE).type = "auth_rejected" /\ AuthRejected(TRUE) # AuthRejected(FALSE)
    <3>1. AuthRejected(FALSE).reset = FALSE /\ AuthRejected(TRUE).reset = TRUE
      BY DEF AuthRejected
    <3> QED BY <3>1 DEF AuthRejected
  <2> QED BY <1>3, <1>6, <2>1, <2>2, <2>3
<1>9. CASE HelloBadProof
  <2>1. /\ net' = [net EXCEPT ![s] = RejectingAuthentication(c, TRUE)]
        /\ UNCHANGED store /\ sv' = v
    BY <1>1, <1>9 DEF HelloBadProof, ClientNet, v, c
  <2>2. Turns(c, RejectingAuthentication(c, TRUE), {}, {AuthRejected(TRUE)})
    BY <1>2, AnswersTurn
  <2>3. AuthRejected(TRUE).type = "auth_rejected"
    BY DEF AuthRejected
  <2>4. net'[s].owner = net[s].owner
    <3> DEFINE e == SrvSend(c, AuthRejected(TRUE))
    <3>1. e \in Conn /\ e.owner = c.owner
      BY <1>2, ConnKept, MessagesTyped, SendFields DEF Fields
    <3> HIDE DEF e
    <3>2. SrvClose(e).owner = e.owner
      BY <3>1, CloseFields DEF Fields
    <3>3. net'[s] = SrvClose(e)
      BY <1>1, <2>1 DEF ConnsTyped, RejectingAuthentication, e
    <3> QED BY <1>2, <3>1, <3>2, <3>3
  <2>5. Dialled(net[s]) => Revoked(s)'
    BY <1>1, <1>4, <1>9, <2>1, <2>4, BadProofRevokes
  <2> QED BY <1>3, <1>6, <2>1, <2>2, <2>3, <2>5
<1>10. CASE HelloAccepted
  <2>1. /\ net' = [net EXCEPT ![s] = Accepting(c)] /\ UNCHANGED store /\ sv' = AcceptedBy(v)
    BY <1>1, <1>10 DEF HelloAccepted, ClientNet, v, c
  <2>2. Turns(c, Accepting(c), {}, {AuthAccepted})
    BY <1>2, AnswersTurn
  <2>3. AuthAccepted.type = "auth_accepted" /\ AuthRejected(TRUE) # AuthAccepted
    BY DEF AuthAccepted, AuthRejected
  <2> QED BY <1>3, <1>6, <2>1, <2>2, <2>3
<1> QED BY <1>5, <1>7, <1>8, <1>9, <1>10 DEF HandleClientHello

\* A pairing is offered a secret nobody holds; the hello it follows is not due.
LEMMA ConfirmKeepsTokens ==
    ASSUME ConnsTyped, ServerTyped, ClientTyped, StoreInv, NetOK, ServerOK, SecretInv, TokensInv,
           UNCHANGED clientVars, HandlePairingConfirm, FreshIdentifiers
    PROVE  TokensInv'
<1>1. PICK s \in Sockets :
         /\ s = sv.client /\ net[s].up # <<>> /\ Received \in UpMessages
         /\ ReceivesFromClient("pairing_confirm") /\ Received.type = "pairing_confirm"
  BY ReceivedTyped DEF HandlePairingConfirm, ConfirmMismatch, ConfirmRefused, ConfirmCompletes,
     MatchingConfirm
<1> DEFINE c == TakenUp(s)
           R == {AuthRejected(FALSE)}
<1>2. /\ c \in Conn /\ Turns(net[s], c, {}, {}) /\ net[s] \in Conn
      /\ c.srv = net[s].srv
  BY <1>1, TakenUpTurns, StepFields DEF ConnsTyped, TakenUp, Fields
<1> HIDE DEF c
<1>3. \A m \in R : Plain(m)
  BY MessageNames
<1>4. /\ Turns(net[s], SrvSend(c, AuthRejected(FALSE)), {}, R)
      /\ Turns(net[s], RejectingAuthentication(c, FALSE), {}, R)
  BY <1>2, AnswersTurn, TurnsThen, MessagesTyped
<1> HIDE DEF R
<1>5. CASE ConfirmMismatch
  <2>1. /\ net' = [net EXCEPT ![s] = RejectingAuthentication(c, FALSE)]
        /\ UNCHANGED store /\ sv' = [sv EXCEPT !.helloTimer = FALSE]
    BY <1>1, <1>5 DEF ConfirmMismatch, ClientNet, c
  <2>2. \A t \in Sockets : Turns(net[t], net'[t], {}, R)
    BY <1>4, <2>1, OneTurns
  <2>3. sv'.client = sv.client /\ sv'.hello = sv.hello
    BY <2>1 DEF ServerTyped, ServerState
  <2>4. Renews
    BY <2>1 DEF Renews
  <2> QED BY <1>3, <2>2, <2>3, <2>4, AnswerKeepsTokens
<1>6. CASE ConfirmRefused
  <2>1. /\ net' = [net EXCEPT ![s] = SrvSend(c, AuthRejected(FALSE))]
        /\ store' = store \/ store' = [store EXCEPT !.challenge = None]
        /\ UNCHANGED sv
    BY <1>1, <1>6 DEF ConfirmRefused, ClientNet, c
  <2>2. \A t \in Sockets : Turns(net[t], net'[t], {}, R)
    BY <1>4, <2>1, OneTurns
  <2>3. Renews
    BY <2>1 DEF StoreInv, Renews
  <2> QED BY <1>3, <2>1, <2>2, <2>3, AnswerKeepsTokens
<1>7. CASE ConfirmCompletes
  <2>1. PICK k \in Secrets, ok \in PersistResults("pairing") :
           /\ store' = Persist(Paired(Received.inst, k), ok)
           /\ \/ /\ ok /\ sv' = AcceptedBy(sv)
                 /\ net' = [net EXCEPT ![s] = Accepting(SrvSend(c, PairingComplete(k)))]
              \/ /\ ~ok /\ UNCHANGED sv
                 /\ net' = [net EXCEPT ![s] = SrvSend(c, AuthRejected(FALSE))]
    BY <1>1, <1>7 DEF ConfirmCompletes, ClientNet, c
  <2>2. store.paired = None /\ store.disk = None /\ sv.hello = Received.inst
    BY <1>7 DEF ConfirmCompletes, MatchingConfirm, ChallengeUsable, StoreInv, SecretInv
  <2>3. Received.inst \in Bridges /\ sv.hello # None
    BY <1>1, <2>2, UpTypes, NoneAssumption
  <2>4. store'.paired = [inst |-> Received.inst, secret |-> k] /\ store'.paired # None
    <3>1. [inst |-> Received.inst, secret |-> k] \in Pairings
      BY <2>3 DEF Pairings
    <3> QED BY <2>1, <3>1, ServerAssumption DEF ServerAssumption, Persist, Paired, StoreInv
  <2>5. Renews
    <3>1. store'.paired.secret \notin HeldSecrets
      BY <2>2, <2>4 DEF FreshIdentifiers
    <3> QED BY <3>1 DEF Renews
  <2>6. sv'.client = s /\ sv'.hello = sv.hello /\ sv.client = s
    BY <1>1, <2>1 DEF AcceptedBy, ServerTyped, ServerState
  <2>7. \A m \in {} : Plain(m)
    OBVIOUS
  <2>8. ASSUME NEW t \in Sockets, t # s
        PROVE  TokenInv(t)'
    <3>1. net'[t] = net[t] /\ net[t] \in Conn
      BY <2>1, <2>8 DEF ConnsTyped
    <3>2. Turns(net[t], net'[t], {}, {})
      BY <3>1, TurnsSides
    <3> QED BY <2>5, <2>6, <2>7, <2>8, <3>2, ServerTokenKept
  <2>9. ASSUME NEW D, Turns(net[s], net'[s], {}, D), \A m \in D : Plain(m)
        PROVE  TokenInv(s)'
    BY <2>5, <2>6, <2>9, ServerTokenKept
  <2>10. CASE ~ok
    <3>1. net'[s] = SrvSend(c, AuthRejected(FALSE))
      BY <2>1, <2>10 DEF ConnsTyped
    <3>2. TokenInv(s)'
      BY <1>3, <1>4, <2>9, <3>1
    <3> QED BY <2>8, <3>2 DEF TokensInv
  <2>11. CASE ok
    <3> DEFINE d == Accepting(SrvSend(c, PairingComplete(k)))
               A == {PairingComplete(k), AuthAccepted}
    <3>1. net'[s] = d
      BY <2>1, <2>11 DEF ConnsTyped, PersistResults
    <3>2. CASE net[s].srv # "open"
      <4>1. d = c
        BY <1>2, <3>2 DEF SrvSend, Accepting
      <4>2. TokenInv(s)'
        BY <1>2, <2>7, <2>9, <3>1, <4>1
      <4> QED BY <2>8, <4>2 DEF TokensInv
    <3>3. CASE net[s].srv = "open"
      <4>1. Turns(net[s], d, {}, A)
        BY <1>2, AnswersTurn, TurnsThen
      <4> HIDE DEF d
      <4>2. /\ \A m \in A : m.type # "server_challenge" /\ m # AuthRejected(TRUE)
        BY MessageNames DEF PairingComplete, AuthAccepted, AuthRejected
      <4> HIDE DEF A
      <4> SUFFICES ASSUME Dialled(d) PROVE ~HelloDue(s)' /\ ~Dismissed(s)'
        BY <2>8, <3>1, TokenSpent DEF TokensInv
      <4>3. Dialled(net[s]) /\ Thins(net[s].up, d.up, {}) /\ Thins(net[s].down, d.down, A)
        BY <4>1 DEF Turns
      <4>4. ~HelloDue(s)
        BY <2>3, <2>6, <4>3 DEF TokensInv, TokenInv, Heard
      <4>5. AuthRejected(TRUE) \notin Within(net[s].down)
        BY <3>3 DEF SecretInv, SocketInv, AllTold, Told, SrvOpen
      <4>6. ~Greeting(s)'
        BY <3>1, <4>3, <4>4, NothingAdds DEF Greeting, HelloDue
      <4>7. ~Asked(s)' /\ ~Dismissed(s)'
        BY <3>1, <4>2, <4>3, <4>4, <4>5, CloseIsClose
           DEF Asked, HelloDue, Dismissed, Has, Thins, AuthRejected
      <4>8. ~Proving(s)'
        BY <4>4 DEF Proving, HelloDue, clientVars
      <4> QED BY <4>6, <4>7, <4>8 DEF HelloDue
    <3> QED BY <3>2, <3>3
  <2> QED BY <2>10, <2>11 DEF PersistResults
<1> QED BY <1>5, <1>6, <1>7 DEF HandlePairingConfirm

LEMMA ConnectionKeepsTokens ==
    ASSUME ConnsTyped, ServerTyped, ClientTyped, NetOK, SecretInv, TokensInv, UNCHANGED clientVars,
           NEW s \in Sockets, HandleConnection(s)
    PROVE  TokensInv'
<1> DEFINE c == [net[s] EXCEPT !.srv = "open"]
<1>1. /\ net[s] \in Conn /\ c \in Conn /\ net[s].cli = "connecting" /\ net[s].srv = "none"
      /\ Turns(net[s], c, {}, {})
  BY TurnsSides, ConnKept DEF ConnsTyped, HandleConnection
<1>2. net[s].down = <<>> /\ net[s].up = <<>> /\ ~Proving(s)
  BY <1>1 DEF SecretInv, SocketInv, AllTold, StillFresh, Proving
<1>3. Renews
  BY DEF HandleConnection, RejectsSecondClient, TakesClient, serverVars, Renews
<1>4. CASE RejectsSecondClient(s)
  <2>1. net' = [net EXCEPT ![s] = SrvClose(c)] /\ UNCHANGED sv
    BY <1>4 DEF RejectsSecondClient, serverVars
  <2> HIDE DEF c
  <2>2. Turns(net[s], SrvClose(c), {}, {})
    BY <1>1, TurnsSides, TurnsThen
  <2>3. \A t \in Sockets : Turns(net[t], net'[t], {}, {})
    BY <2>1, <2>2, OneTurns
  <2> QED BY <1>3, <2>1, <2>3, SilentKeepsTokens
<1>5. CASE TakesClient(s)
  <2> DEFINE m == ServerChallenge(s)
             d == SrvSend(c, m)
  <2>1. /\ net' = [net EXCEPT ![s] = d]
        /\ sv' = [sv EXCEPT !.client = s, !.accepted = FALSE, !.hello = None, !.helloTimer = TRUE]
    BY <1>5 DEF TakesClient
  <2> HIDE DEF c
  <2>2. sv'.client = s /\ sv'.hello = None
    BY <2>1 DEF ServerTyped, ServerState
  <2>3. ASSUME NEW t \in Sockets, t # s
        PROVE  TokenInv(t)'
    <3>1. net'[t] = net[t] /\ net[t] \in Conn
      BY <2>1, <2>3 DEF ConnsTyped
    <3>2. Turns(net[t], net'[t], {}, {}) /\ \A x \in {} : Plain(x)
      BY <3>1, TurnsSides
    <3> QED BY <1>3, <2>2, <2>3, <3>2, ServerTokenKept
  <2>4. m.type = "server_challenge"
    BY DEF ServerChallenge
  <2>5. Turns(net[s], d, {}, {m})
    <3>1. Turns(c, d, {}, {m})
      BY <1>1, TurnsSides
    <3> HIDE DEF m, d
    <3> QED BY <1>1, <3>1, TurnsThen
  <2>6. net'[s] = d
    BY <2>1 DEF ConnsTyped
  <2> HIDE DEF m, d
  <2>7. TokenInv(s)'
    <3> SUFFICES ASSUME Dialled(d) PROVE TokenInv(s)'
      BY <2>6 DEF TokenInv
    <3>1. Thins(<<>>, d.up, {}) /\ Thins(<<>>, d.down, {m})
      BY <1>2, <2>5 DEF Turns
    <3>2. \A t : ~Has(<<>>, t) /\ Once(<<>>, t)
      BY EmptyOwned DEF Has, Once, Within
    <3>3. Once(d.down, "server_challenge") /\ Once(d.up, "client_hello") /\ ~Greeting(s)'
      BY <2>6, <3>1, <3>2, NothingAdds DEF Thins, Greeting
    <3>4. ~Proving(s)'
      BY <1>2 DEF Proving, clientVars
    <3>5. ~Completed(s)' /\ ~Dismissed(s)'
      <4>1. Within(d.down) \subseteq {m, CloseFrame}
        BY <3>1, EmptyOwned DEF Thins, Within
      <4>2. AuthRejected(TRUE).type = "auth_rejected"
        BY DEF AuthRejected
      <4> QED BY <2>4, <2>6, <4>1, <4>2, CloseIsClose DEF Completed, Dismissed, Has
    <3>6. Honest(s)'
      BY <3>3, <3>4 DEF Honest, Proving, Greeting, Has
    <3> QED BY <2>2, <2>6, <3>3, <3>4, <3>5, <3>6 DEF TokenInv, Heard
  <2> QED BY <2>3, <2>7 DEF TokensInv
<1> QED BY <1>4, <1>5 DEF HandleConnection

LEMMA ServerKeepsTokens ==
    ASSUME "reset" \notin PersistFailures, ConnsTyped, ServerTyped, ClientTyped, StoreInv, NetOK,
           ServerOK, SecretInv, TokensInv, ServerStep
    PROVE  TokensInv'
<1>1. UNCHANGED clientVars
  BY DEF ServerStep
<1>2. \A t \in Sockets : net[t] \in Conn /\ Turns(net[t], net[t], {}, {})
  BY TurnsSides DEF ConnsTyped
<1>3. CASE \E s \in Sockets : HandleConnection(s)
  BY <1>1, <1>3, ConnectionKeepsTokens
<1>4. CASE HelloTimerFires
  <2>1. /\ net' = [net EXCEPT ![sv.client] = Rejecting(net[sv.client])] /\ UNCHANGED store
        /\ sv' = [sv EXCEPT !.helloTimer = FALSE]
    BY <1>4 DEF HelloTimerFires, HelloTimeout
  <2>2. sv.client \in Sockets => Turns(net[sv.client], Rejecting(net[sv.client]), {}, {})
    BY <1>2, AnswersTurn
  <2>3. sv'.client = sv.client /\ sv'.hello = sv.hello
    BY <2>1 DEF ServerTyped, ServerState
  <2>4. \A t \in Sockets : Turns(net[t], net'[t], {}, {})
    BY <2>1, <2>2, OneTurns
  <2>5. Renews
    BY <2>1 DEF Renews
  <2> QED BY <1>1, <2>3, <2>4, <2>5, SilentKeepsTokens
<1>5. CASE \E s \in Sockets : IgnoresMessage(s)
  <2>1. PICK s \in Sockets : IgnoresMessage(s)
    BY <1>5
  <2>2. /\ net' = [net EXCEPT ![s] = TakenUp(s)] /\ UNCHANGED <<sv, store>> /\ net[s].up # <<>>
    BY <2>1 DEF IgnoresMessage, DataUp, serverVars
  <2>3. \A t \in Sockets : Turns(net[t], net'[t], {}, {})
    BY <2>2, TakenUpTurns, OneTurns
  <2>4. Renews
    BY <2>2 DEF Renews
  <2> QED BY <1>1, <2>2, <2>3, <2>4, SilentKeepsTokens
<1>6. CASE HandleClientHello
  BY <1>1, <1>6, HelloKeepsTokens
<1>7. CASE HandlePairingConfirm /\ FreshIdentifiers
  BY <1>1, <1>7, ConfirmKeepsTokens
<1>8. CASE \E s \in Sockets : HandleClose(s)
  <2>1. PICK s \in Sockets : HandleClose(s)
    BY <1>8
  <2>2. /\ net' = [net EXCEPT ![s] = SrvEnded(net[s])] /\ UNCHANGED store
        /\ sv' = IF sv.client = s THEN NoClient ELSE sv
    BY <2>1 DEF HandleClose, ClearClientState
  <2>3. Turns(net[s], SrvEnded(net[s]), {}, {})
    BY <1>2, TurnsSides
  <2>4. \A t \in Sockets : Turns(net[t], net'[t], {}, {})
    BY <2>2, <2>3, OneTurns
  <2>5. sv'.hello # None => sv'.client = sv.client /\ sv.hello # None
    BY <2>2 DEF NoClient
  <2>6. Renews
    BY <2>2 DEF Renews
  <2> QED BY <1>1, <2>4, <2>5, <2>6, SilentKeepsTokens
<1>9. NoClient.hello = None
  BY DEF NoClient
<1>10. CASE ResetPairing
  <2>1. /\ store' = [store EXCEPT !.paired = None, !.challenge = None, !.disk = None]
        /\ sv' = NoClient
        /\ net' = IF sv.client = None THEN net
                  ELSE [net EXCEPT ![sv.client] = SrvClose(net[sv.client])]
    BY <1>10 DEF ResetPairing, PersistResults, Persist, ClearClientState, StoreInv
  <2>2. Renews
    BY <2>1 DEF ServerTyped, StoreState, Renews
  <2>3. \A t \in Sockets : Turns(net[t], net'[t], {}, {})
    <3>1. CASE sv.client = None
      BY <1>2, <2>1, <3>1
    <3>2. CASE sv.client # None
      <4>1. sv.client \in Sockets => Turns(net[sv.client], SrvClose(net[sv.client]), {}, {})
        BY <1>2, TurnsSides
      <4> QED BY <2>1, <3>2, <4>1, OneTurns
    <3> QED BY <3>1, <3>2
  <2> QED BY <1>1, <1>9, <2>1, <2>2, <2>3, SilentKeepsTokens
<1>11. CASE ChallengeExpires
  <2>1. store'.paired = store.paired /\ UNCHANGED <<sv, net>>
    BY <1>11 DEF ChallengeExpires, ServerTyped, StoreState
  <2>2. Renews
    BY <2>1 DEF Renews
  <2> QED BY <1>1, <1>2, <2>1, <2>2, SilentKeepsTokens
<1>12. CASE ServerRestart
  <2>1. /\ sv' = NoClient /\ store' = [store EXCEPT !.paired = store.disk, !.challenge = None]
        /\ \A t \in Sockets : net'[t] = IF net[t].srv \in {"open", "closing", "ending"}
                                         THEN SrvEnded(Broken(net[t])) ELSE net[t]
    BY <1>12 DEF ServerRestart
  <2>2. store'.paired = store.disk
    BY <2>1 DEF ServerTyped, StoreState
  <2>3. Renews
    BY <2>2 DEF Renews, SecretInv, StoreInv
  <2>4. ASSUME NEW t \in Sockets
        PROVE  Turns(net[t], net'[t], {}, {})
    <3> DEFINE e == Broken(net[t])
    <3>1. e \in Conn /\ Turns(net[t], e, {}, {})
      BY <1>2, ConnKept, TurnsSides
    <3> HIDE DEF e
    <3>2. Turns(net[t], SrvEnded(e), {}, {})
      BY <3>1, TurnsSides, TurnsThen
    <3> QED BY <1>2, <2>1, <3>2 DEF e
  <2> QED BY <1>1, <1>9, <2>1, <2>3, <2>4, SilentKeepsTokens
<1> QED BY <1>3, <1>4, <1>5, <1>6, <1>7, <1>8, <1>10, <1>11, <1>12 DEF ServerStep, HandleMessage

\* The steps of a client that send no hello on a connection.
LEMMA ClientTokenKept ==
    ASSUME NetOK, TokensInv, UNCHANGED serverVars, NEW b \in Bridges,
           \A a \in Bridges : a # b => cl'[a] = cl[a],
           NEW s \in Sockets, NEW U, Turns(net[s], net'[s], U, {}), \A m \in U : m.type # "client_hello",
           net[s].owner = b /\ Dialled(net'[s]) => cl'[b].secret = cl[b].secret,
           \A a \in Bridges : \A p \in proofs'[a] : p.nonce = s => p \in proofs[a]
    PROVE  TokenInv(s)'
<1>1. TokenInv(s) /\ UNCHANGED <<sv, store>>
  BY DEF TokensInv, serverVars
<1>2. Dialled(net'[s]) =>
         /\ net[s].owner \in Bridges /\ net'[s].owner = net[s].owner
         /\ cl'[net[s].owner].secret = cl[net[s].owner].secret
  BY DEF Turns, NetOK, Dialled
<1>3. Dialled(net'[s]) => (Revoked(s) => Revoked(s)')
  BY <1>1, <1>2 DEF Revoked
<1>4. Dialled(net'[s]) =>
         /\ \A a \in Bridges : \A p \in proofs'[a] : p.nonce = s => p \in proofs[a]
         /\ net[s].owner \in Bridges
         /\ cl'[net[s].owner].secret = cl[net[s].owner].secret
         /\ sv'.client = s /\ sv'.hello # None => sv.client = s /\ sv.hello # None
         /\ Revoked(s) => Revoked(s)'
  BY <1>1, <1>2, <1>3
<1> DEFINE D == {}
<1>5. Turns(net[s], net'[s], U, D) /\ \A m \in D : Plain(m)
  OBVIOUS
<1> HIDE DEF D
<1> QED BY <1>1, <1>4, <1>5, TokenKept

LEMMA ConnectKeepsTokens ==
    ASSUME ConnsTyped, ClientTyped, NetOK, ServerOK, TokensInv, UNCHANGED serverVars,
           UNCHANGED proofs, NEW b \in Bridges, NEW c, NEW n \in [Sockets -> Conn],
           \A s \in Sockets : /\ Turns(net[s], n[s], {}, {})
                              /\ net[s].owner = b => ~Dialled(n[s]),
           Connect(b, c, n)
    PROVE  TokensInv'
<1>1. PICK s \in Sockets : /\ FreeSocket(s)
                           /\ cl' = [cl EXCEPT ![b] = Dialing(c, s)]
                           /\ net' = [n EXCEPT ![s] = Dial(b)]
  BY DEF Connect
<1>2. \A a \in Bridges : a # b => cl'[a] = cl[a]
  BY <1>1 DEF ClientTyped
<1>3. ASSUME NEW t \in Sockets, t # s
      PROVE  TokenInv(t)'
  <2>1. net'[t] = n[t]
    BY <1>1, <1>3
  <2>2. Turns(net[t], net'[t], {}, {}) /\ (net[t].owner = b => ~Dialled(net'[t]))
    BY <2>1
  <2>3. \A m \in {} : m.type # "client_hello"
    OBVIOUS
  <2> QED BY <1>2, <2>2, <2>3, ClientTokenKept
<1>4. Fields(net'[s], b, "connecting", "none", <<>>, <<>>, FALSE)
  <2>1. net'[s] = Dial(b)
    BY <1>1
  <2> QED BY <2>1, DialFields
<1>5. Within(<<>>) = {}
  BY EmptyOwned DEF Within
<1>6. ~Asked(s)' /\ ~Greeting(s)' /\ ~Dismissed(s)'
  BY <1>4, <1>5 DEF Fields, Asked, Greeting, Dismissed, Has
<1>7. ~Proving(s)'
  BY <1>1 DEF FreeSocket, Proving
<1>8. TokenInv(s)'
  BY <1>6, <1>7, TokenSpent DEF HelloDue
<1> QED BY <1>3, <1>8 DEF TokensInv

\* The challenge is answered by a hello, or by a proof that is being computed.
LEMMA ChallengeKeepsTokens ==
    ASSUME ConnsTyped, ClientTyped, NetOK, SecretInv, TokensInv, UNCHANGED serverVars,
           NEW b \in Bridges, NEW s \in Sockets, HandleServerChallenge(b, s)
    PROVE  TokensInv'
<1> DEFINE m == Head(net[s].down)
           taken == TakenDown(s)
<1>1. /\ net[s] \in Conn /\ net[s].owner = b /\ net[s].cli = "open" /\ net[s].down # <<>>
      /\ m.type = "server_challenge" /\ UNCHANGED cl
  BY DEF HandleServerChallenge, Receives, DataDown, ConnsTyped
<1>2. /\ m \in Within(net[s].down) /\ net[s].down \in Seq(DownMessages)
      /\ net[s].up \in Seq(UpMessages)
  BY <1>1, ConnQueues, WithinFacts
<1>3. m.nonce = s /\ cl[b].ws = s
  <2>1. Told(s, m)
    BY <1>2 DEF SecretInv, SocketInv, AllTold
  <2> QED BY <1>1, <2>1, OwnSocket DEF Told, ServerChallenge, Dialled
<1>4. /\ Once(net[s].down, "server_challenge") /\ Asked(s)
      /\ ~Proving(s) /\ ~Greeting(s) /\ ~Heard(s)
  <2>1. Asked(s)
    BY <1>1, <1>2 DEF Asked, Has
  <2> QED BY <1>1, <2>1 DEF TokensInv, TokenInv, Dialled, HelloDue
<1>5. Fields(taken, b, "open", net[s].srv, net[s].up, Tail(net[s].down), net[s].lost) /\ taken \in Conn
  BY <1>1, StepFields, ConnKept DEF TakenDown
<1>6. ~Has(Tail(net[s].down), "server_challenge") /\ Thins(net[s].down, Tail(net[s].down), {})
  BY <1>1, <1>2, <1>4, ThinsQueue
<1> HIDE DEF taken, m
<1>7. ASSUME NEW t \in Sockets, t # s, NEW d, net' = [net EXCEPT ![s] = d],
             \A a \in Bridges : \A p \in proofs'[a] : p.nonce = t => p \in proofs[a]
      PROVE  TokenInv(t)'
  <2>1. net'[t] = net[t] /\ net[t] \in Conn
    BY <1>7 DEF ConnsTyped
  <2>2. Turns(net[t], net'[t], {}, {}) /\ \A x \in {} : x.type # "client_hello"
    BY <2>1, TurnsSides
  <2> QED BY <1>1, <1>7, <2>2, ClientTokenKept
<1>8. ASSUME NEW d, net'[s] = d, d.down = Tail(net[s].down)
      PROVE  ~Asked(s)' /\ ~Heard(s)' /\ ~Dismissed(s)'
  <2>1. ~Completed(s) /\ ~Dismissed(s) /\ ~(sv.client = s /\ sv.hello # None)
    BY <1>4 DEF Heard
  <2>2. ~Completed(s)' /\ ~Dismissed(s)'
    <3>1. AuthRejected(TRUE).type # "close"
      BY DEF AuthRejected
    <3> QED BY <1>6, <1>8, <2>1, <3>1, NothingAdds DEF Completed, Dismissed
  <2> QED BY <1>6, <1>8, <2>1, <2>2 DEF Asked, Heard, serverVars
<1>9. CASE cl[b].secret = None
  <2> DEFINE h == Hello(b, None)
             d == CliSend(taken, h)
             up == IF ~taken.lost THEN Append(net[s].up, h) ELSE net[s].up
  <2>1. net' = [net EXCEPT ![s] = d] /\ UNCHANGED proofs
    <3>1. SendOn(Takes(s), b, h) = [Takes(s) EXCEPT ![s] = CliSend(Takes(s)[s], h)]
      BY <1>3, NoneAssumption DEF SendOn
    <3>2. Takes(s) = [net EXCEPT ![s] = taken] /\ Takes(s)[s] = taken
      BY DEF Takes, taken, ConnsTyped
    <3>3. SendOn(Takes(s), b, h) = [net EXCEPT ![s] = d]
      BY <3>1, <3>2
    <3> QED BY <1>9, <3>3 DEF HandleServerChallenge
  <2>2. d.owner = b /\ d.up = up /\ d.down = Tail(net[s].down)
    BY <1>5, SendFields DEF Fields
  <2>3. net'[s] = d
    BY <2>1 DEF ConnsTyped
  <2>4. h.type = "client_hello" /\ h.proof = None
    BY DEF Hello
  <2>5. Thins(net[s].up, up, {h})
    BY <1>2, ThinsQueue
  <2> HIDE DEF d, h, up
  <2>6. Once(up, "client_hello")
    BY <1>4, <2>4, <2>5, NotHas DEF Thins, Greeting
  <2>7. ~Asked(s)' /\ ~Heard(s)' /\ ~Dismissed(s)'
    BY <1>8, <2>2, <2>3
  <2>8. ~Proving(s)'
    BY <1>4, <2>1 DEF Proving
  <2>9. Honest(s)'
    <3>1. \A x \in Within(up) : x.type = "client_hello" => x.proof = None
      BY <1>4, <2>4, <2>5, CloseIsClose DEF Thins, Greeting, Has
    <3> QED BY <2>2, <2>3, <2>8, <3>1 DEF Honest, Proving
  <2>10. TokenInv(s)'
    <3>1. Once(net'[s].down, "server_challenge")
      BY <2>7, NotHas DEF Asked
    <3> QED BY <2>2, <2>3, <2>6, <2>7, <2>8, <2>9, <3>1 DEF TokenInv
  <2> QED BY <1>7, <2>1, <2>10 DEF TokensInv
<1>10. CASE cl[b].secret # None
  <2> DEFINE q == [secret |-> cl[b].secret, nonce |-> s]
  <2>1. net' = [net EXCEPT ![s] = taken] /\ proofs' = [proofs EXCEPT ![b] = @ \cup {q}]
    BY <1>3, <1>10 DEF HandleServerChallenge, Takes, taken, m
  <2>2. q.nonce = s /\ q.secret = cl[b].secret
    OBVIOUS
  <2> HIDE DEF q
  <2>3. \A a \in Bridges : \A p \in proofs'[a] : p \in proofs[a] \/ (a = b /\ p = q)
    BY <2>1 DEF ClientTyped
  <2>4. net'[s] = taken
    BY <2>1 DEF ConnsTyped
  <2>5. ~Asked(s)' /\ ~Heard(s)' /\ ~Dismissed(s)'
    BY <1>5, <1>8, <2>4 DEF Fields
  <2>6. ~Greeting(s)'
    BY <1>4, <1>5, <2>4 DEF Greeting, Fields
  <2>7. Honest(s)'
    BY <1>1, <1>4, <1>5, <2>2, <2>3, <2>4, <2>6 DEF Honest, Proving, Greeting, Has, Fields
  <2>8. TokenInv(s)'
    <3>1. Once(net'[s].down, "server_challenge") /\ Once(net'[s].up, "client_hello")
      BY <2>5, <2>6, NotHas DEF Asked, Greeting
    <3> QED BY <2>5, <2>6, <2>7, <3>1 DEF TokenInv
  <2>9. \A t \in Sockets : t # s => TokenInv(t)'
    BY <1>7, <2>1, <2>2, <2>3
  <2> QED BY <2>8, <2>9 DEF TokensInv
<1> QED BY <1>9, <1>10

LEMMA ProofParts ==
    ASSUME NEW p \in Proofs, NEW q \in Proofs, p.secret = q.secret, p.nonce = q.nonce PROVE p = q
  BY DEF Proofs

\* A proof that is ready leaves on the connection it was computed for, or not
\* at all.
LEMMA ProofKeepsTokens ==
    ASSUME "late proof" \notin Disturbances, ConnsTyped, ClientTyped, NetOK, TokensInv,
           UNCHANGED serverVars, NEW b \in Bridges, NEW p \in proofs[b], ProofReady(b, p),
           IF cl[b].ws \in {None, p.nonce} THEN Calm ELSE Disturbs("late proof")
    PROVE  TokensInv'
<1>1. /\ UNCHANGED cl /\ p \in Proofs /\ cl[b].ws \in {None, p.nonce}
      /\ proofs' = [proofs EXCEPT ![b] = @ \ {p}]
  BY DEF ProofReady, Disturbs, ClientTyped
<1>2. /\ \A a \in Bridges : \A q \in proofs'[a] : q \in proofs[a]
      /\ p \notin proofs'[b] /\ \A q \in proofs[b] : q \in Proofs
  BY <1>1 DEF ClientTyped
<1>3. ASSUME NEW t \in Sockets, net'[t] = net[t]
      PROVE  TokenInv(t)'
  <2> DEFINE U == {}
  <2>1. Turns(net[t], net'[t], U, {}) /\ \A x \in U : x.type # "client_hello"
    BY <1>3, TurnsSides DEF ConnsTyped
  <2> HIDE DEF U
  <2>2. /\ \A a \in Bridges : cl'[a] = cl[a]
        /\ \A a \in Bridges : \A q \in proofs'[a] : q.nonce = t => q \in proofs[a]
    BY <1>1, <1>2
  <2> QED BY <2>1, <2>2, ClientTokenKept
<1>4. CASE cl[b].ws = None
  <2>1. net' = net
    BY <1>4 DEF ProofReady, SendOn
  <2> QED BY <1>3, <2>1 DEF TokensInv
<1>5. CASE cl[b].ws # None
  <2>1. PICK s \in Sockets : s = p.nonce /\ cl[b].ws = s
    BY <1>1, <1>5 DEF Proofs
  <2> DEFINE h == Hello(b, p)
             d == CliSend(net[s], h)
  <2>2. net' = [net EXCEPT ![s] = d] /\ net'[s] = d
    BY <1>5, <2>1 DEF ProofReady, SendOn, ConnsTyped
  <2>3. \A t \in Sockets : t # s => TokenInv(t)'
    BY <1>3, <2>2 DEF ConnsTyped
  <2>4. Turns(net[s], d, {h}, {})
    BY TurnsSides DEF ConnsTyped
  <2>5. h.type = "client_hello" /\ h.proof = p
    BY DEF Hello
  <2> HIDE DEF h, d
  <2>6. TokenInv(s)'
    <3> SUFFICES ASSUME Dialled(d)
                 PROVE  TokenInv(s)'
      BY <2>2 DEF TokenInv
    <3>1. /\ Dialled(net[s]) /\ d.owner = net[s].owner
          /\ Thins(net[s].up, d.up, {h}) /\ Thins(net[s].down, d.down, {})
      BY <2>4 DEF Turns
    <3>2. Proving(s)
      BY <2>1 DEF Proving
    <3>3. ~Asked(s) /\ ~Greeting(s) /\ ~Heard(s) /\ Honest(s)
      BY <3>1, <3>2 DEF TokensInv, TokenInv, HelloDue
    <3>4. /\ \A a \in Bridges : \A q \in proofs[a] : q.nonce = s => a = b /\ q.secret = p.secret
          /\ p.secret = cl[b].secret /\ net[s].owner = b
      BY <2>1, <3>3 DEF Honest
    <3>5. ASSUME NEW q \in proofs[b], q.nonce = s
          PROVE  q = p
      <4>1. q.secret = p.secret /\ q.nonce = p.nonce
        BY <2>1, <3>4, <3>5
      <4>2. q \in Proofs /\ p \in Proofs
        BY <1>1, <1>2
      <4> QED BY <4>1, <4>2, ProofParts
    <3>6. ~Proving(s)'
      BY <1>2, <3>4, <3>5 DEF Proving
    <3>7. ~Asked(s)' /\ ~Heard(s)' /\ ~Dismissed(s)'
      <4>1. ~Completed(s) /\ ~Dismissed(s) /\ ~(sv.client = s /\ sv.hello # None)
        BY <3>3 DEF Heard
      <4>2. AuthRejected(TRUE).type # "close"
        BY DEF AuthRejected
      <4>3. ~Completed(s)' /\ ~Dismissed(s)' /\ ~Asked(s)'
        BY <2>2, <3>1, <3>3, <4>1, <4>2, NothingAdds DEF Completed, Dismissed, Asked
      <4> QED BY <4>1, <4>3 DEF Heard, serverVars
    <3>8. Once(d.up, "client_hello") /\ Once(d.down, "server_challenge")
      BY <2>2, <2>5, <3>1, <3>3, <3>7, NotHas DEF Thins, Greeting, Asked
    <3>9. Honest(s)'
      <4>1. \A x \in Within(d.up) : x.type = "client_hello" => x.proof = p
        BY <2>5, <3>1, <3>3, CloseIsClose DEF Thins, Greeting, Has
      <4> QED BY <1>1, <2>1, <2>2, <3>1, <3>4, <3>6, <4>1 DEF Honest, Proving
    <3> QED BY <2>2, <3>6, <3>7, <3>8, <3>9 DEF TokenInv
  <2> QED BY <2>3, <2>6 DEF TokensInv
<1> QED BY <1>4, <1>5

LEMMA RejectionNamed ==
    ASSUME NEW m \in DownMessages, m.type = "auth_rejected", m.reset PROVE m = AuthRejected(TRUE)
<1>1. PICK r \in BOOLEAN : m = AuthRejected(r)
  BY DEF DownMessages, ServerChallenge, PairingRequired, PairingComplete, AuthAccepted, CloseFrame
<1>2. m.reset <=> r
  BY <1>1 DEF AuthRejected
<1> QED BY <1>1, <1>2

\* What else comes down an open socket.
LEMMA MessageKeepsTokens ==
    ASSUME ConnsTyped, ServerTyped, ClientTyped, NetOK, SecretInv, TokensInv, UNCHANGED serverVars,
           NEW b \in Bridges, NEW s \in Sockets, HandleServerMessage(b, s)
    PROVE  TokensInv'
<1> DEFINE c == cl[b]
           m == Head(net[s].down)
           taken == TakenDown(s)
<1>1. CASE HandleServerChallenge(b, s)
  BY <1>1, ChallengeKeepsTokens
<1>2. CASE ~HandleServerChallenge(b, s)
  <2>1. /\ net[s] \in Conn /\ net[s].owner = b /\ net[s].cli = "open" /\ net[s].down # <<>>
        /\ m.type \in {"pairing_required", "pairing_complete", "auth_accepted", "auth_rejected"}
        /\ net' = [net EXCEPT ![s] = taken] /\ UNCHANGED proofs
    BY <1>2 DEF HandleServerMessage, HandlePairingRequired, HandlePairingComplete,
       HandleAuthAccepted, HandleAuthRejected, Receives, DataDown, ConnsTyped, Takes
  <2>2. m \in Within(net[s].down) /\ m \in DownMessages /\ cl[b].ws = s
    <3>1. m \in Within(net[s].down) /\ Within(net[s].down) \subseteq DownMessages
      BY <2>1, ConnQueues, WithinFacts
    <3> QED BY <2>1, <3>1, OwnSocket DEF Dialled
  <2>3. Turns(net[s], taken, {}, {}) /\ net'[s] = taken
    BY <2>1, TurnsSides DEF TakenDown, ConnsTyped
  <2>4. /\ taken.owner = b /\ Dialled(net[s])
        /\ Thins(net[s].up, taken.up, {}) /\ Thins(net[s].down, taken.down, {})
    BY <2>1, <2>3, StepFields DEF Turns, Dialled, TakenDown, Fields
  <2>5. c \in ClientState /\ cl \in [Bridges -> ClientState]
    BY DEF ClientTyped
  <2> HIDE DEF taken, m
  <2>6. ASSUME NEW t \in Sockets, t # s, \A a \in Bridges : a # b => cl'[a] = cl[a]
        PROVE  TokenInv(t)'
    <3> DEFINE U == {}
    <3>1. net'[t] = net[t] /\ net[t] \in Conn
      BY <2>1, <2>6 DEF ConnsTyped
    <3>2. Turns(net[t], net'[t], U, {}) /\ \A x \in U : x.type # "client_hello"
      BY <3>1, TurnsSides
    <3> HIDE DEF U
    <3>3. ~(net[t].owner = b /\ Dialled(net'[t]))
      BY <2>2, <2>6, <3>1, OwnSocket
    <3>4. \A a \in Bridges : \A p \in proofs'[a] : p.nonce = t => p \in proofs[a]
      BY <2>1
    <3> QED BY <2>6, <3>2, <3>3, <3>4, ClientTokenKept
  \* A message that leaves the secret alone
  <2>7. ASSUME NEW d, cl' = [cl EXCEPT ![b] = d], d.secret = c.secret
        PROVE  TokensInv'
    <3> DEFINE U == {}
    <3>1. cl'[b] = d /\ \A a \in Bridges : a # b => cl'[a] = cl[a]
      BY <2>5, <2>7
    <3>2. Turns(net[s], net'[s], U, {}) /\ \A x \in U : x.type # "client_hello"
      BY <2>3
    <3> HIDE DEF U
    <3>3. \A a \in Bridges : \A p \in proofs'[a] : p.nonce = s => p \in proofs[a]
      BY <2>1
    <3>4. cl'[b].secret = cl[b].secret
      BY <2>7, <3>1
    <3>5. TokenInv(s)'
      BY <3>1, <3>2, <3>3, <3>4, ClientTokenKept
    <3> QED BY <2>6, <3>1, <3>5 DEF TokensInv
  \* A message that changes it, which comes once the hello has been heard
  <2>8. ASSUME NEW d, cl' = [cl EXCEPT ![b] = d], Heard(s),
               Dismissed(s)' => ~Completed(s)' /\ Revoked(s)'
        PROVE  TokensInv'
    <3>1. ~HelloDue(s)
      BY <2>4, <2>8 DEF TokensInv, TokenInv
    <3>2. ~Asked(s)' /\ ~Greeting(s)' /\ ~Proving(s)'
      BY <2>1, <2>3, <2>4, <3>1, NothingAdds DEF HelloDue, Asked, Greeting, Proving
    <3>3. TokenInv(s)'
      BY <2>8, <3>2, TokenSpent DEF HelloDue
    <3>4. \A a \in Bridges : a # b => cl'[a] = cl[a]
      BY <2>5, <2>8
    <3> QED BY <2>6, <3>3, <3>4 DEF TokensInv
  <2>9. CASE HandlePairingRequired(b, s)
    <3> DEFINE d == [c EXCEPT !.pairingId = m.id, !.auth = "pairing-required"]
    <3>1. cl' = [cl EXCEPT ![b] = d]
      BY <2>9 DEF HandlePairingRequired, m
    <3>2. d.secret = c.secret
      BY <2>5 DEF ClientState
    <3> HIDE DEF d
    <3> QED BY <2>7, <3>1, <3>2
  <2>10. CASE HandleAuthAccepted(b, s)
    <3> DEFINE d == [c EXCEPT !.pairingId = None, !.granted = TRUE,
                              !.auth = "authenticated", !.status = "connected"]
    <3>1. cl' = [cl EXCEPT ![b] = d]
      BY <2>10 DEF HandleAuthAccepted
    <3>2. d.secret = c.secret
      BY <2>5 DEF ClientState
    <3> HIDE DEF d
    <3> QED BY <2>7, <3>1, <3>2
  <2>11. CASE HandlePairingComplete(b, s)
    <3>1. PICK d : cl' = [cl EXCEPT ![b] = d]
      BY <2>11 DEF HandlePairingComplete
    <3>2. Completed(s)
      BY <2>2, <2>11 DEF HandlePairingComplete, Receives, Completed, Has, m
    <3>3. ~Dismissed(s)
      BY <2>4, <3>2 DEF TokensInv, TokenInv
    <3>4. ~Dismissed(s)'
      <4>1. AuthRejected(TRUE).type # "close"
        BY DEF AuthRejected
      <4> QED BY <2>3, <2>4, <3>3, <4>1, NothingAdds DEF Dismissed
    <3> QED BY <2>8, <3>1, <3>2, <3>4 DEF Heard
  <2>12. CASE HandleAuthRejected(b, s) /\ ~m.reset
    <3>1. cl' = [cl EXCEPT ![b] = [c EXCEPT !.auth = "rejected"]]
      BY <2>12 DEF HandleAuthRejected, m
    <3>2. [c EXCEPT !.auth = "rejected"].secret = c.secret
      BY <2>5 DEF ClientState
    <3> QED BY <2>7, <3>1, <3>2
  <2>13. CASE HandleAuthRejected(b, s) /\ m.reset
    <3> DEFINE d == [c EXCEPT !.secret = None]
    <3>1. cl' = [cl EXCEPT ![b] = d] /\ m.type = "auth_rejected"
      BY <2>13 DEF HandleAuthRejected, Receives, m
    <3>2. d.secret = None
      BY <2>5 DEF ClientState
    <3> HIDE DEF d
    <3>3. Dismissed(s)
      BY <2>2, <2>13, <3>1, RejectionNamed DEF Dismissed
    <3>4. ~Completed(s)
      BY <2>4, <3>3 DEF TokensInv, TokenInv
    <3>5. ~Completed(s)'
      BY <2>3, <2>4, <3>4, NothingAdds DEF Completed
    <3>6. Revoked(s)'
      <4>1. cl'[b].secret = None
        BY <2>5, <3>1, <3>2
      <4>2. store' = store /\ (store.paired # None => store.paired.secret \in Secrets)
        BY DEF serverVars, ServerTyped, StoreState, Pairings
      <4> QED BY <2>3, <2>4, <4>1, <4>2, ServerAssumption DEF ServerAssumption, Revoked
    <3> QED BY <2>8, <3>1, <3>3, <3>5, <3>6 DEF Heard
  <2> QED BY <1>2, <2>9, <2>10, <2>11, <2>12, <2>13 DEF HandleServerMessage
<1> QED BY <1>1, <1>2

LEMMA ClientKeepsTokens ==
    ASSUME "late proof" \notin Disturbances, ConnsTyped, ServerTyped, ClientTyped, NetOK, ClientsOK,
           ServerOK, NewIsIdle, SecretInv, TokensInv, NEW b \in Bridges, ClientStep(b)
    PROVE  TokensInv'
<1> DEFINE c == cl[b]
           nobody == {}
<1>1. /\ UNCHANGED serverVars
      /\ c \in ClientState /\ cl \in [Bridges -> ClientState] /\ net \in [Sockets -> Conn]
  BY DEF ClientStep, serverVars, ClientTyped, ConnsTyped
<1>2. c.ws # None => c.ws \in Sockets /\ net[c.ws].owner = b
  BY DEF ClientsOK, MayHold
<1>3. \A s \in Sockets : net[s].owner = b /\ Dialled(net[s]) => c.ws = s /\ IsLive(c.ws)
  BY OwnSocket, NoneAssumption DEF IsLive, Dialled
<1>4. \A s \in Sockets : Turns(net[s], net[s], nobody, {}) /\ net[s] \in Conn
  BY <1>1, TurnsSides
<1>5. \A m \in nobody : m.type # "client_hello"
  OBVIOUS
<1> HIDE DEF nobody
\* A step that dials from where no socket of the client is live
<1>6. ASSUME NEW d, Connect(b, d, net), UNCHANGED proofs, ~IsLive(c.ws)
      PROVE  TokensInv'
  <2>1. \A s \in Sockets : Turns(net[s], net[s], {}, {}) /\ (net[s].owner = b => ~Dialled(net[s]))
    BY <1>3, <1>4, <1>6, TurnsSides
  <2> QED BY <1>1, <1>6, <2>1, ConnectKeepsTokens
\* A step that keeps the secret and sends no hello
<1>7. ASSUME NEW d, cl' = [cl EXCEPT ![b] = d] \/ UNCHANGED cl, d.secret = c.secret,
             UNCHANGED proofs, NEW U, \A s \in Sockets : Turns(net[s], net'[s], U, {}),
             \A m \in U : m.type # "client_hello"
      PROVE  TokensInv'
  <2>1. cl'[b].secret = c.secret /\ \A a \in Bridges : a # b => cl'[a] = cl[a]
    BY <1>1, <1>7
  <2>2. \A s \in Sockets : TokenInv(s)'
    BY <1>1, <1>7, <2>1, ClientTokenKept
  <2> QED BY <2>2 DEF TokensInv
<1>8. CASE Start(b)
  <2>1. c.ws = None
    BY <1>8 DEF Start, NewIsIdle, Idle
  <2> QED BY <1>6, <1>8, <2>1 DEF Start, IsLive
<1>9. /\ NetAfterDisconnect(b) \in [Sockets -> Conn]
      /\ \A s \in Sockets : /\ Turns(net[s], NetAfterDisconnect(b)[s], {}, {})
                            /\ net[s].owner = b => ~Dialled(NetAfterDisconnect(b)[s])
  <2>1. NetAfterDisconnect(b) \in [Sockets -> Conn]
    BY DisconnectTyped
  <2>2. \A s \in Sockets : Turns(net[s], net[s], {}, {})
    BY <1>4, TurnsSides
  <2>3. CASE c.ws = None
    BY <1>3, <2>1, <2>2, <2>3 DEF NetAfterDisconnect, IsLive
  <2>4. CASE c.ws # None
    <3>1. NetAfterDisconnect(b) = [net EXCEPT ![c.ws] = CliClose(net[c.ws])]
      BY <2>4 DEF NetAfterDisconnect
    <3>2. Turns(net[c.ws], CliClose(net[c.ws]), {}, {})
      BY <1>1, <1>2, <2>4, TurnsSides
    <3>3. ~Dialled(CliClose(net[c.ws]))
      <4>1. PICK s \in Sockets : s = c.ws /\ net[s] \in Conn
        BY <1>1, <1>2, <2>4
      <4>2. ~Dialled(CliClose(net[s]))
        BY <4>1, CloseFields DEF Fields, Dialled
      <4> QED BY <4>1, <4>2
    <3>4. \A s \in Sockets : NetAfterDisconnect(b)[s] =
             IF s = c.ws THEN CliClose(net[s]) ELSE net[s]
      BY <1>1, <3>1
    <3> QED BY <1>3, <2>1, <2>2, <3>2, <3>3, <3>4
  <2> QED BY <2>3, <2>4
<1>10. CASE Reconnect(b)
  <2>1. Connect(b, Disconnected(c), NetAfterDisconnect(b)) /\ UNCHANGED proofs
    BY <1>10 DEF Reconnect
  <2> QED BY <1>1, <1>9, <2>1, ConnectKeepsTokens
<1>11. Canceled(c).secret = c.secret
  BY <1>1 DEF Canceled, ClientState
<1>12. CASE NudgeReconnect(b)
  <2>1. CASE IsLive(c.ws)
    <3>1. cl' = [cl EXCEPT ![b] = Canceled(c)] /\ UNCHANGED <<net, proofs>>
      BY <1>12, <2>1 DEF NudgeReconnect
    <3> QED BY <1>4, <1>5, <1>7, <1>11, <3>1
  <2>2. CASE ~IsLive(c.ws)
    BY <1>6, <1>12, <2>2 DEF NudgeReconnect
  <2> QED BY <2>1, <2>2
<1>13. CASE RetryTimerFires(b)
  <2> DEFINE d == [c EXCEPT !.live = @ - 1, !.tracked = FALSE]
  <2>1. IF IsLive(c.ws) THEN cl' = [cl EXCEPT ![b] = d] /\ UNCHANGED net ELSE Connect(b, d, net)
    BY <1>13 DEF RetryTimerFires
  <2>2. UNCHANGED proofs
    BY <1>13 DEF RetryTimerFires
  <2>3. d.secret = c.secret
    BY <1>1 DEF ClientState
  <2> HIDE DEF d
  <2>4. CASE IsLive(c.ws)
    BY <1>4, <1>5, <1>7, <2>1, <2>2, <2>3, <2>4
  <2>5. CASE ~IsLive(c.ws)
    BY <1>6, <2>1, <2>2, <2>5
  <2> QED BY <2>4, <2>5
\* A step that ends the client's sockets
<1>14. ASSUME NEW d, cl' = [cl EXCEPT ![b] = d], \A p \in proofs'[b] : p \in proofs[b],
              \A a \in Bridges : a # b => proofs'[a] = proofs[a],
              \A s \in Sockets : /\ Turns(net[s], net'[s], {}, {})
                                 /\ net[s].owner = b => ~Dialled(net'[s])
       PROVE  TokensInv'
  <2>1. \A a \in Bridges : a # b => cl'[a] = cl[a]
    BY <1>1, <1>14
  <2>2. \A a \in Bridges : \A p \in proofs'[a] : p \in proofs[a]
    BY <1>14
  <2>3. \A s \in Sockets : Turns(net[s], net'[s], nobody, {})
    BY <1>14, TurnsMore
  <2>4. ASSUME NEW s \in Sockets
        PROVE  TokenInv(s)'
    <3>1. ~(net[s].owner = b /\ Dialled(net'[s]))
      BY <1>14
    <3> QED BY <1>1, <1>5, <2>1, <2>2, <2>3, <3>1, ClientTokenKept
  <2> QED BY <2>4 DEF TokensInv
<1>15. CASE Shutdown(b)
  <2>1. PICK d : cl' = [cl EXCEPT ![b] = d] /\ net' = NetAfterDisconnect(b) /\ UNCHANGED proofs
    BY <1>15 DEF Shutdown
  <2> QED BY <1>9, <1>14, <2>1
<1>16. CASE Reload(b)
  <2>1. /\ cl' = [cl EXCEPT ![b] = NewClient(stored[b])] /\ proofs' = [proofs EXCEPT ![b] = {}]
        /\ \A s \in Sockets : net'[s] = IF net[s].owner = b /\ net[s].cli # "closed"
                                         THEN CliEnded(Broken(net[s])) ELSE net[s]
    BY <1>16 DEF Reload
  <2>2. ASSUME NEW s \in Sockets
        PROVE  Turns(net[s], net'[s], {}, {}) /\ (net[s].owner = b => ~Dialled(net'[s]))
    <3> DEFINE e == Broken(net[s])
    <3>1. e \in Conn /\ Turns(net[s], e, {}, {}) /\ Turns(net[s], net[s], {}, {})
      BY <1>1, ConnKept, TurnsSides
    <3> HIDE DEF e
    <3>2. Turns(net[s], CliEnded(e), {}, {})
      BY <3>1, TurnsSides, TurnsThen
    <3>3. ~Dialled(CliEnded(e))
      BY <3>1, EndFields, UnusedFields DEF Fields, Dialled
    <3>4. net[s].cli = "closed" => ~Dialled(net[s])
      BY DEF Dialled
    <3> QED BY <2>1, <3>1, <3>2, <3>3, <3>4 DEF e
  <2>3. (\A p \in proofs'[b] : p \in proofs[b]) /\ \A a \in Bridges : a # b => proofs'[a] = proofs[a]
    BY <2>1 DEF ClientTyped
  <2> QED BY <1>14, <2>1, <2>2, <2>3
<1>17. ASSUME NEW s \in Sockets, NEW d, Turns(net[s], d, {}, {}), net' = [net EXCEPT ![s] = d]
       PROVE  \A t \in Sockets : Turns(net[t], net'[t], nobody, {})
  <2>1. \A t \in Sockets : net'[t] = IF t = s THEN d ELSE net[t]
    BY <1>1, <1>17
  <2>2. Turns(net[s], d, nobody, {})
    BY <1>17, TurnsMore
  <2> QED BY <1>4, <2>1, <2>2
<1>18. CASE \E s \in Sockets : OnOpen(b, s)
  <2>1. PICK s \in Sockets : OnOpen(b, s)
    BY <1>18
  <2>2. /\ net[s].cli = "connecting" /\ UNCHANGED <<cl, proofs>>
        /\ net' = [net EXCEPT ![s] = [net[s] EXCEPT !.cli = "open"]]
    BY <2>1 DEF OnOpen, clientVars
  <2>3. Turns(net[s], [net[s] EXCEPT !.cli = "open"], {}, {})
    BY <1>1, <2>2, TurnsSides
  <2>4. \A t \in Sockets : Turns(net[t], net'[t], nobody, {})
    BY <1>17, <2>2, <2>3
  <2> QED BY <1>5, <1>7, <2>2, <2>4
<1>19. CASE \E s \in Sockets : OnClose(b, s)
  <2>1. PICK s \in Sockets : OnClose(b, s)
    BY <1>19
  <2> DEFINE w == IF c.ws = s THEN None ELSE c.ws
             e == [c EXCEPT !.ws = w, !.pairingId = None, !.granted = FALSE]
             d == Scheduled(Offline(e))
  <2>2. cl' = [cl EXCEPT ![b] = d] /\ net' = [net EXCEPT ![s] = CliEnded(net[s])] /\ UNCHANGED proofs
    BY <2>1 DEF OnClose
  <2>3. d.secret = c.secret
    <3>1. w \in Sockets \cup {None}
      BY <1>1 DEF ClientState
    <3> HIDE DEF w
    <3>2. e \in ClientState /\ e.secret = c.secret
      BY <1>1, <3>1 DEF ClientState
    <3> HIDE DEF e
    <3>3. Offline(e) \in ClientState /\ Offline(e).secret = c.secret
      BY <3>2 DEF Offline, ClientState, Statuses, AuthStatuses
    <3> QED BY <3>3 DEF Scheduled, ClientState
  <2> HIDE DEF d
  <2>4. Turns(net[s], CliEnded(net[s]), {}, {})
    BY <1>1, TurnsSides
  <2>5. \A t \in Sockets : Turns(net[t], net'[t], nobody, {})
    BY <1>17, <2>2, <2>4
  <2> QED BY <1>5, <1>7, <2>2, <2>3, <2>5
<1>20. CASE \E s \in Sockets : HandleServerMessage(b, s)
  BY <1>1, <1>20, MessageKeepsTokens
<1>21. CASE \E p \in proofs[b] : /\ ProofReady(b, p)
                                 /\ IF cl[b].ws \in {None, p.nonce} THEN Calm
                                                                    ELSE Disturbs("late proof")
  BY <1>1, <1>21, ProofKeepsTokens
<1>22. CASE SecretStored(b)
  <2>1. /\ UNCHANGED <<net, proofs>>
        /\ cl' = [cl EXCEPT ![b] = [c EXCEPT !.auth = "rejected"]] \/ UNCHANGED cl
    BY <1>22 DEF SecretStored
  <2>2. [c EXCEPT !.auth = "rejected"].secret = c.secret
    BY <1>1 DEF ClientState
  <2> QED BY <1>4, <1>5, <1>7, <2>1, <2>2
<1>23. CASE \E code \in ShownCodes : ConfirmPairing(b, code)
  <2>1. PICK code \in ShownCodes : ConfirmPairing(b, code)
    BY <1>23
  <2> DEFINE m == [type |-> "pairing_confirm", inst |-> b, id |-> c.pairingId, code |-> code]
             U == {m}
  <2>2. /\ net' = SendOn(net, b, m) /\ UNCHANGED proofs /\ c.ws # None
        /\ cl' = [cl EXCEPT ![b] = [c EXCEPT !.auth = "authenticating"]]
    BY <2>1 DEF ConfirmPairing
  <2>3. m.type = "pairing_confirm"
    OBVIOUS
  <2> HIDE DEF m
  <2>4. \A t \in Sockets : net'[t] = IF t = c.ws THEN CliSend(net[t], m) ELSE net[t]
    BY <1>1, <2>2 DEF SendOn
  <2>5. \A t \in Sockets : Turns(net[t], net'[t], U, {})
    BY <1>4, <2>4, TurnsSides
  <2>6. \A x \in U : x.type # "client_hello"
    BY <2>3
  <2> HIDE DEF U
  <2>7. [c EXCEPT !.auth = "authenticating"].secret = c.secret
    BY <1>1 DEF ClientState
  <2> QED BY <1>7, <2>2, <2>5, <2>6, <2>7
<1> QED BY <1>8, <1>10, <1>12, <1>13, <1>15, <1>16, <1>18, <1>19, <1>20, <1>21, <1>22, <1>23
        DEF ClientStep

LEMMA TransportKeepsTokens ==
    ASSUME ConnsTyped, ClientTyped, NetOK, TokensInv, TransportStep
    PROVE  TokensInv'
<1>1. PICK s \in Sockets : TransportEvent(s) \/ Breaks(s)
  BY DEF TransportStep
<1> DEFINE c == net[s]
           u == CliClose(c)
           v == SrvClose(c)
<1>2. /\ c \in Conn /\ u \in Conn /\ v \in Conn
      /\ Turns(c, u, {}, {}) /\ Turns(c, v, {}, {}) /\ Turns(c, Broken(c), {}, {})
  BY ConnKept, TurnsSides DEF ConnsTyped
<1> HIDE DEF u, v
<1>3. /\ Turns(c, [u EXCEPT !.cli = "ending", !.down = <<>>], {}, {})
      /\ Turns(c, [v EXCEPT !.srv = "ending", !.up = <<>>], {}, {})
  BY <1>2, TurnsSides, TurnsThen
<1>4. \E d : net' = [net EXCEPT ![s] = d] /\ Turns(c, d, {}, {})
  BY <1>1, <1>2, <1>3 DEF TransportEvent, CliReceivesClose, SrvReceivesClose, Breaks, u, v
<1>5. \A t \in Sockets : Turns(net[t], net'[t], {}, {})
  BY <1>4, OneTurns
<1>6. UNCHANGED <<sv, store>> /\ UNCHANGED clientVars
  BY DEF TransportStep, serverVars
<1>7. Renews
  BY <1>6 DEF Renews
<1> QED BY <1>5, <1>6, <1>7, SilentKeepsTokens

LEMMA TokensInvInit == Init => TokensInv
<1> SUFFICES ASSUME Init PROVE TokensInv
  OBVIOUS
<1>1. \A s \in Sockets : ~Dialled(net[s])
  BY UnusedFields DEF Init, Fields, Dialled
<1> QED BY <1>1 DEF TokensInv, TokenInv

LEMMA TokensInvNext ==
    ASSUME "reset" \notin PersistFailures, "late proof" \notin Disturbances,
           AllTyped, SessionInv, NewIsIdle, SecretInv, TokensInv, [Next]_vars
    PROVE  TokensInv'
<1>1. CASE ServerStep
  BY <1>1, ServerKeepsTokens DEF AllTyped, SessionInv
<1>2. CASE \E b \in Bridges : ClientStep(b)
  BY <1>2, ClientKeepsTokens DEF AllTyped, SessionInv
<1>3. CASE TransportStep
  BY <1>3, TransportKeepsTokens DEF AllTyped, SessionInv
<1>4. CASE UNCHANGED vars
  <2>1. \A t \in Sockets : Turns(net[t], net'[t], {}, {})
    BY <1>4, TurnsSides DEF vars, AllTyped, ConnsTyped
  <2>2. UNCHANGED <<sv, store>> /\ UNCHANGED clientVars
    BY <1>4 DEF vars, clientVars
  <2>3. Renews
    BY <2>2 DEF Renews
  <2> QED BY <2>1, <2>2, <2>3, SilentKeepsTokens DEF SessionInv
<1> QED BY <1>1, <1>2, <1>3, <1>4 DEF Next

\* The steps of a client that change a secret.
LEMMA SecretChanges ==
    ASSUME ClientTyped, left \in 0..MaxDisturbances, NEW b \in Bridges, ClientStep(b), left' = left
    PROVE  /\ \A a \in Bridges : a # b => cl'[a] = cl[a]
           /\ \/ cl'[b].secret = cl[b].secret
              \/ \E s \in Sockets : HandlePairingComplete(b, s)
              \/ \E s \in Sockets : HandleAuthRejected(b, s) /\ Head(net[s].down).reset
<1> DEFINE c == cl[b]
           Changed(d) == cl' = [cl EXCEPT ![b] = d]
           Goal == /\ \A a \in Bridges : a # b => cl'[a] = cl[a]
                   /\ \/ cl'[b].secret = cl[b].secret
                      \/ \E s \in Sockets : HandlePairingComplete(b, s)
                      \/ \E s \in Sockets : HandleAuthRejected(b, s) /\ Head(net[s].down).reset
<1> SUFFICES Goal
  OBVIOUS
<1> HIDE DEF Goal
<1>1. c \in ClientState /\ cl \in [Bridges -> ClientState]
  BY DEF ClientTyped
<1>2. ASSUME NEW d, Changed(d) \/ UNCHANGED cl, d.secret = c.secret
      PROVE  Goal
  BY <1>1, <1>2 DEF Goal
<1>3. ASSUME NEW d \in ClientState, d.secret = c.secret, NEW n, Connect(b, d, n)
      PROVE  Goal
  <2>1. PICK s \in Sockets : Changed(Dialing(d, s))
    BY <1>3 DEF Connect
  <2>2. Dialing(d, s).secret = c.secret
    BY <1>3 DEF Dialing, ClientState
  <2> QED BY <1>2, <2>1, <2>2
<1>4. /\ Canceled(c) \in ClientState /\ Canceled(c).secret = c.secret
      /\ Disconnected(c) \in ClientState /\ Disconnected(c).secret = c.secret
  <2>1. c.tracked => c.live > 0
    BY DEF ClientTyped, TimersTracked
  <2>2. Canceled(c) \in ClientState /\ Canceled(c).secret = c.secret
    <3>1. c.tracked => c.live - 1 \in 0..MaxTimers
      BY <1>1, <2>1, ClientAssumption DEF ClientState
    <3> QED BY <1>1, <3>1 DEF Canceled, ClientState
  <2> QED BY <2>2 DEF Disconnected, Offline, ClientState, Statuses, AuthStatuses
<1>5. CASE Start(b)
  <2> DEFINE d == [c EXCEPT !.runtime = "running"]
  <2>1. d \in ClientState /\ d.secret = c.secret
    BY <1>1 DEF ClientState, RuntimeStates
  <2> QED BY <1>3, <1>5, <2>1 DEF Start
<1>6. CASE Reconnect(b)
  BY <1>3, <1>4, <1>6 DEF Reconnect
<1>7. CASE NudgeReconnect(b)
  BY <1>2, <1>3, <1>4, <1>7 DEF NudgeReconnect
<1>8. CASE RetryTimerFires(b)
  <2> DEFINE d == [c EXCEPT !.live = @ - 1, !.tracked = FALSE]
  <2>1. Changed(d) \/ Connect(b, d, net)
    BY <1>8 DEF RetryTimerFires
  <2>2. d \in ClientState /\ d.secret = c.secret
    <3>1. c.live - 1 \in 0..MaxTimers
      BY <1>1, <1>8, ClientAssumption DEF RetryTimerFires, ClientState
    <3> QED BY <1>1, <3>1 DEF ClientState
  <2> HIDE DEF d
  <2> QED BY <1>2, <1>3, <2>1, <2>2
<1>9. CASE Shutdown(b)
  <2> DEFINE d == [Disconnected(c) EXCEPT !.runtime = "down"]
  <2>1. Changed(d)
    BY <1>9 DEF Shutdown
  <2>2. d.secret = c.secret
    BY <1>4 DEF ClientState
  <2> HIDE DEF d
  <2> QED BY <1>2, <2>1, <2>2
<1>10. ~(Reload(b) /\ Disturbs("reload"))
  BY DEF Disturbs
<1>11. CASE \E s \in Sockets : OnOpen(b, s)
  BY <1>2, <1>11 DEF OnOpen, clientVars
<1>12. CASE \E s \in Sockets : OnClose(b, s)
  <2>1. PICK s \in Sockets : OnClose(b, s)
    BY <1>12
  <2> DEFINE w == IF c.ws = s THEN None ELSE c.ws
             e == [c EXCEPT !.ws = w, !.pairingId = None, !.granted = FALSE]
             d == Scheduled(Offline(e))
  <2>2. Changed(d)
    BY <2>1 DEF OnClose
  <2>3. d.secret = c.secret
    <3>1. w \in Sockets \cup {None}
      BY <1>1 DEF ClientState
    <3> HIDE DEF w
    <3>2. e \in ClientState /\ e.secret = c.secret
      BY <1>1, <3>1 DEF ClientState
    <3> HIDE DEF e
    <3>3. Offline(e) \in ClientState /\ Offline(e).secret = c.secret
      BY <3>2 DEF Offline, ClientState, Statuses, AuthStatuses
    <3> QED BY <3>3 DEF Scheduled, ClientState
  <2> HIDE DEF d
  <2> QED BY <1>2, <2>2, <2>3
<1>13. CASE \E s \in Sockets : HandleServerMessage(b, s)
  <2>1. PICK s \in Sockets : HandleServerMessage(b, s)
    BY <1>13
  <2>2. CASE HandleServerChallenge(b, s)
    BY <1>2, <2>2 DEF HandleServerChallenge
  <2>3. CASE HandlePairingRequired(b, s)
    <3> DEFINE d == [c EXCEPT !.pairingId = Head(net[s].down).id, !.auth = "pairing-required"]
    <3>1. Changed(d)
      BY <2>3 DEF HandlePairingRequired
    <3>2. d.secret = c.secret
      BY <1>1 DEF ClientState
    <3> HIDE DEF d
    <3> QED BY <1>2, <3>1, <3>2
  <2>4. CASE HandlePairingComplete(b, s)
    <3>1. \E d : Changed(d)
      BY <2>4 DEF HandlePairingComplete
    <3> QED BY <1>1, <2>4, <3>1 DEF Goal
  <2>5. CASE HandleAuthAccepted(b, s)
    <3> DEFINE d == [c EXCEPT !.pairingId = None, !.granted = TRUE,
                              !.auth = "authenticated", !.status = "connected"]
    <3>1. Changed(d)
      BY <2>5 DEF HandleAuthAccepted
    <3>2. d.secret = c.secret
      BY <1>1 DEF ClientState
    <3> HIDE DEF d
    <3> QED BY <1>2, <3>1, <3>2
  <2>6. CASE HandleAuthRejected(b, s) /\ Head(net[s].down).reset
    <3>1. \E d : Changed(d)
      BY <2>6 DEF HandleAuthRejected
    <3> QED BY <1>1, <2>6, <3>1 DEF Goal
  <2>7. CASE HandleAuthRejected(b, s) /\ ~Head(net[s].down).reset
    <3>1. Changed([c EXCEPT !.auth = "rejected"])
      BY <2>7 DEF HandleAuthRejected
    <3>2. [c EXCEPT !.auth = "rejected"].secret = c.secret
      BY <1>1 DEF ClientState
    <3> QED BY <1>2, <3>1, <3>2
  <2> QED BY <2>1, <2>2, <2>3, <2>4, <2>5, <2>6, <2>7 DEF HandleServerMessage
<1>14. CASE \E p \in proofs[b] : ProofReady(b, p)
  BY <1>2, <1>14 DEF ProofReady
<1>15. CASE SecretStored(b)
  <2>1. Changed([c EXCEPT !.auth = "rejected"]) \/ UNCHANGED cl
    BY <1>15 DEF SecretStored
  <2>2. [c EXCEPT !.auth = "rejected"].secret = c.secret
    BY <1>1 DEF ClientState
  <2> QED BY <1>2, <2>1, <2>2
<1>16. CASE \E code \in ShownCodes : ConfirmPairing(b, code)
  <2>1. Changed([c EXCEPT !.auth = "authenticating"])
    BY <1>16 DEF ConfirmPairing
  <2>2. [c EXCEPT !.auth = "authenticating"].secret = c.secret
    BY <1>1 DEF ClientState
  <2> QED BY <1>2, <2>1, <2>2
<1> QED BY <1>5, <1>6, <1>7, <1>8, <1>9, <1>10, <1>11, <1>12, <1>13, <1>14, <1>15, <1>16
        DEF ClientStep

LEMMA SecretDropped ==
    ASSUME AllTyped, TokensInv, [Next]_vars, left' = left, NEW b \in Bridges,
           cl[b].secret # None, cl'[b].secret = None
    PROVE  store.paired # [inst |-> b, secret |-> cl[b].secret]
<1>1. ~UNCHANGED cl
  OBVIOUS
<1>2. PICK a \in Bridges : ClientStep(a)
  BY <1>1 DEF Next, ServerStep, TransportStep, clientVars, vars
<1>3. /\ a = b
      /\ \/ \E s \in Sockets : HandlePairingComplete(b, s)
         \/ \E s \in Sockets : HandleAuthRejected(b, s) /\ Head(net[s].down).reset
  BY <1>2, SecretChanges DEF AllTyped
<1>4. ASSUME NEW s \in Sockets, NEW type, Receives(b, s, type)
      PROVE  LET m == Head(net[s].down)
             IN /\ net[s].owner = b /\ Dialled(net[s])
                /\ m \in Within(net[s].down) /\ m \in DownMessages /\ m.type = type
  <2>1. /\ net[s] \in Conn /\ net[s].owner = b /\ net[s].cli = "open" /\ net[s].down # <<>>
        /\ Head(net[s].down).type = type
    BY <1>4 DEF AllTyped, ConnsTyped, Receives, DataDown
  <2> QED BY <2>1, ConnQueues, WithinFacts DEF Dialled
<1>5. CASE \E s \in Sockets : HandlePairingComplete(b, s)
  <2>1. PICK s \in Sockets : HandlePairingComplete(b, s)
    BY <1>5
  <2> DEFINE k == Head(net[s].down).secret
             d == [cl[b] EXCEPT !.secret = k, !.granted = TRUE]
  <2>2. k \in Secrets
    <3>1. Receives(b, s, "pairing_complete")
      BY <2>1 DEF HandlePairingComplete
    <3> QED BY <1>4, <3>1, DownTypes
  <2>3. cl' = [cl EXCEPT ![b] = d]
    BY <2>1 DEF HandlePairingComplete
  <2> HIDE DEF k
  <2>4. d.secret = k
    BY DEF AllTyped, ClientTyped, ClientState
  <2> HIDE DEF d
  <2>5. cl'[b].secret = k
    BY <2>3, <2>4 DEF AllTyped, ClientTyped
  <2> QED BY <2>2, <2>5, ServerAssumption DEF ServerAssumption
<1>6. CASE \E s \in Sockets : HandleAuthRejected(b, s) /\ Head(net[s].down).reset
  <2>1. PICK s \in Sockets : HandleAuthRejected(b, s) /\ Head(net[s].down).reset
    BY <1>6
  <2>2. Receives(b, s, "auth_rejected")
    BY <2>1 DEF HandleAuthRejected
  <2>3. net[s].owner = b /\ Dialled(net[s]) /\ Dismissed(s)
    BY <1>4, <2>1, <2>2, RejectionNamed DEF Dismissed
  <2>4. Revoked(s)
    BY <2>3 DEF TokensInv, TokenInv
  <2>5. None # [inst |-> b, secret |-> cl[b].secret]
    <3>1. [inst |-> b, secret |-> cl[b].secret] \in Pairings
      BY DEF AllTyped, ClientTyped, ClientState, MaybeSecret, Pairings
    <3> QED BY <3>1, ServerAssumption DEF ServerAssumption
  <2> QED BY <2>3, <2>4, <2>5 DEF Revoked
<1> QED BY <1>3, <1>5, <1>6

\* If a reset that cannot be written and a proof that outlasts its connection
\* are left aside, a bridge discards its secret on the server's word only when
\* the server is no longer paired with that secret: a rejection that resets is
\* the answer to a proof of it, and no later pairing brings it back.
THEOREM SecretKeptUnlessRevoked ==
    ASSUME "reset" \notin PersistFailures, "late proof" \notin Disturbances
    PROVE  Spec => SecretDroppedOnlyWhenRevoked
<1>1. Init => AllTyped /\ SessionInv /\ NewIsIdle /\ SecretInv /\ TokensInv
  BY InitTyped, SessionInvInit, NewIsIdleInit, SecretInvInit, TokensInvInit
<1>2. AllTyped /\ SessionInv /\ NewIsIdle /\ SecretInv /\ TokensInv /\ [Next]_vars =>
         (AllTyped /\ SessionInv /\ NewIsIdle /\ SecretInv /\ TokensInv)'
  BY StepTyped, SessionInvNext, NewIsIdleNext, SecretInvNext, TokensInvNext DEF AllTyped
<1>3. AllTyped /\ TokensInv /\ [Next]_vars =>
         [\A b \in Bridges :
            cl[b].secret # None /\ cl'[b].secret = None /\ left' = left
               => store.paired # [inst |-> b, secret |-> cl[b].secret]]_vars
  BY SecretDropped
<1> QED BY <1>1, <1>2, <1>3, PTL DEF Spec, SecretDroppedOnlyWhenRevoked

-----------------------------------------------------------------------------
(* The phases of a connection.  The server hears its hello, then decides or *)
(* asks for a code, which it hears before it decides: what is on its way is *)
(* the hello, the code or the decision, never two of them.                  *)

Required(s)   == Has(net[s].down, "pairing_required")
Awaiting(s)   == cl[net[s].owner].auth = "pairing-required"
Confirming(s) == Has(net[s].up, "pairing_confirm")
CodeDue(s)    == Required(s) \/ Awaiting(s) \/ Confirming(s)

Decisions   == {"auth_accepted", "auth_rejected", "pairing_complete"}
Served(s)   == sv.accepted /\ sv.client = s
Answered(s) == \E t \in Decisions : Has(net[s].down, t)
Decided(s)  == Served(s) \/ Answered(s)

\* A rejection that resets the pairing is still to be shown by the bridge.
Rejects(b) == \E w \in Within(writes[b]) : w.rejects

\* A proof is computed or on its way to the server.
Offered(s) == Proving(s) \/ \E m \in Within(net[s].up) : m.type = "client_hello" /\ m.proof # None

\* The plugin shows the connection and answers requests on it.
Shown(b) == cl[b].status = "connected" /\ cl[b].auth = "authenticated" /\ cl[b].granted

\* Of the code, once it is asked for, awaited or on its way.
CodePhase(s) ==
    /\ Once(net[s].down, "pairing_required") /\ Once(net[s].up, "pairing_confirm")
    /\ Required(s) => ~Awaiting(s) /\ ~Confirming(s)
    /\ Awaiting(s) => ~Confirming(s) /\ net[s].cli # "connecting"
    /\ CodeDue(s) => ~HelloDue(s)
    /\ Decided(s) => ~HelloDue(s) /\ ~CodeDue(s)

\* While the bridge removes its secret, nothing that pairs it is under way.
Unpairing(s) == ~Offered(s) /\ ~Confirming(s) /\ ~Completed(s) /\ ~Served(s)

\* A connection that is served is shown, or about to be.
Showing(s) ==
    /\ ~Has(net[s].down, "auth_rejected")
    /\ Touching(net[s]) => Has(net[s].down, "auth_accepted") \/ Shown(net[s].owner)

PhaseInv(s) ==
    Dialled(net[s]) =>
       /\ CodePhase(s)
       /\ Rejects(net[s].owner) => Unpairing(s)
       /\ Served(s) => Showing(s)

RejectInv == \A b \in Bridges : Rejects(b) => cl[b].secret = None

PhasesInv == RejectInv /\ \A s \in Sockets : PhaseInv(s)

\* A connection that is in touch was so before, and an acceptance on its way
\* still is.
Holds(c, d) ==
    /\ d.cli = "connecting" => c.cli = "connecting"
    /\ Touching(d) => Touching(c) /\ (Has(c.down, "auth_accepted") => Has(d.down, "auth_accepted"))

LEMMA HoldsTwice ==
    ASSUME NEW c, NEW d, NEW e, Holds(c, d), Holds(d, e) PROVE Holds(c, e)
  BY DEF Holds

LEMMA HoldsSides ==
    ASSUME NEW c \in Conn
    PROVE  /\ Holds(c, c)
           /\ \A m : Holds(c, CliSend(c, m)) /\ Holds(c, SrvSend(c, m))
           /\ Holds(c, CliClose(c)) /\ Holds(c, SrvClose(c)) /\ Holds(c, Broken(c))
           /\ Holds(c, CliEnded(c)) /\ Holds(c, SrvEnded(c))
           /\ Holds(c, [c EXCEPT !.up = Tail(@)])
           /\ c.down # <<>> /\ Head(c.down).type # "auth_accepted" =>
                 Holds(c, [c EXCEPT !.down = Tail(@)])
           /\ Holds(c, [c EXCEPT !.cli = "ending", !.down = <<>>])
           /\ Holds(c, [c EXCEPT !.srv = "ending", !.up = <<>>])
<1>1. c.down \in Seq(DownMessages)
  BY ConnQueues
<1>2. Holds(c, c)
  BY DEF Holds
<1>3. ASSUME NEW m
      PROVE  Holds(c, CliSend(c, m)) /\ Holds(c, SrvSend(c, m))
  <2> DEFINE up == IF c.cli = "open" /\ ~c.lost THEN Append(c.up, m) ELSE c.up
             down == IF c.srv = "open" /\ ~c.lost /\ c.cli \in {"connecting", "open"}
                     THEN Append(c.down, m) ELSE c.down
  <2>1. /\ Fields(CliSend(c, m), c.owner, c.cli, c.srv, up, c.down, c.lost)
        /\ Fields(SrvSend(c, m), c.owner, c.cli, c.srv, c.up, down, c.lost)
    BY SendFields
  <2>2. Within(c.down) \subseteq Within(down)
    BY <1>1, WithinFacts
  <2> HIDE DEF up, down
  <2> QED BY <2>1, <2>2 DEF Fields, Holds, Touching, Has
<1>4. Holds(c, CliClose(c))
  <2>1. CASE Dialled(c)
    BY <2>1, CloseFields DEF Fields, Holds, Touching, Dialled
  <2>2. CASE ~Dialled(c)
    BY <1>2, <2>2, CloseFields DEF Dialled
  <2> QED BY <2>1, <2>2
<1>5. Holds(c, SrvClose(c))
  <2>1. CASE c.srv = "open"
    BY <2>1, CloseFields DEF Fields, Holds, Touching
  <2>2. CASE c.srv # "open"
    BY <1>2, <2>2, CloseFields
  <2> QED BY <2>1, <2>2
<1>6. Holds(c, Broken(c)) /\ Holds(c, CliEnded(c)) /\ Holds(c, SrvEnded(c))
  BY EndFields, UnusedFields DEF Fields, Holds, Touching
<1>7. /\ Holds(c, [c EXCEPT !.up = Tail(@)])
      /\ Holds(c, [c EXCEPT !.cli = "ending", !.down = <<>>])
      /\ Holds(c, [c EXCEPT !.srv = "ending", !.up = <<>>])
  BY StepFields DEF Fields, Holds, Touching
<1>8. ASSUME c.down # <<>>, Head(c.down).type # "auth_accepted"
      PROVE  Holds(c, [c EXCEPT !.down = Tail(@)])
  <2>1. Has(c.down, "auth_accepted") => Has(Tail(c.down), "auth_accepted")
    BY <1>1, <1>8, WithinFacts DEF Has
  <2> QED BY <2>1, StepFields DEF Fields, Holds, Touching
<1> QED BY <1>2, <1>3, <1>4, <1>5, <1>6, <1>7, <1>8

\* A connection on which nothing is said.
LEMMA PhaseKept ==
    ASSUME NEW s \in Sockets, PhaseInv(s), Turns(net[s], net'[s], {}, {}), NEW b,
           Dialled(net'[s]) =>
              /\ net[s].owner = b
              /\ net'[s].cli = "connecting" => net[s].cli = "connecting"
              /\ cl'[b].auth = "pairing-required" => cl[b].auth = "pairing-required"
              /\ Rejects(b)' => Rejects(b)
              /\ Proving(s)' => Proving(s)
              /\ Served(s)' => Served(s)
              /\ Served(s)' /\ Touching(net'[s]) /\ Showing(s) =>
                    Has(net'[s].down, "auth_accepted") \/ Shown(b)'
    PROVE  PhaseInv(s)'
<1> DEFINE c == net[s]
           d == net'[s]
<1> SUFFICES ASSUME Dialled(d)
             PROVE  CodePhase(s)' /\ (Rejects(b)' => Unpairing(s)') /\ (Served(s)' => Showing(s)')
  BY DEF PhaseInv, Turns
<1>1. /\ Dialled(c) /\ c.owner = b /\ d.owner = b
      /\ Thins(c.up, d.up, {}) /\ Thins(c.down, d.down, {})
  BY DEF Turns
<1>2. CodePhase(s) /\ (Rejects(b) => Unpairing(s)) /\ (Served(s) => Showing(s))
  BY <1>1 DEF PhaseInv
<1>3. /\ \A t : t # "close" /\ Has(d.down, t) => Has(c.down, t)
      /\ \A t : t # "close" /\ Has(d.up, t) => Has(c.up, t)
      /\ Once(c.down, "pairing_required") => Once(d.down, "pairing_required")
      /\ Once(c.up, "pairing_confirm") => Once(d.up, "pairing_confirm")
      /\ \A m \in Within(d.up) : m.type = "client_hello" => m \in Within(c.up)
  BY <1>1, NothingAdds
<1>4. /\ Required(s)' => Required(s)
      /\ Awaiting(s)' => Awaiting(s)
      /\ Confirming(s)' => Confirming(s)
      /\ Completed(s)' => Completed(s)
      /\ Asked(s)' => Asked(s)
      /\ Greeting(s)' => Greeting(s)
      /\ Offered(s)' => Offered(s)
      /\ Answered(s)' => Answered(s)
      /\ Has(d.down, "auth_rejected") => Has(c.down, "auth_rejected")
  BY <1>1, <1>3 DEF Required, Awaiting, Confirming, Completed, Asked, Greeting, Offered, Answered,
     Decisions
<1>5. /\ HelloDue(s)' => HelloDue(s)
      /\ CodeDue(s)' => CodeDue(s)
      /\ Decided(s)' => Decided(s)
  BY <1>4 DEF HelloDue, CodeDue, Decided
<1>6. CodePhase(s)'
  BY <1>2, <1>3, <1>4, <1>5 DEF CodePhase
<1>7. Rejects(b)' => Unpairing(s)'
  BY <1>2, <1>4 DEF Unpairing
<1>8. Served(s)' => Showing(s)'
  BY <1>1, <1>2, <1>4 DEF Showing
<1> QED BY <1>6, <1>7, <1>8

\* A connection on which neither the hello nor the code is under way.
LEMMA PhaseClosed ==
    ASSUME NEW s \in Sockets, NEW b,
           Dialled(net'[s]) =>
              /\ net'[s].owner = b
              /\ ~HelloDue(s)' /\ ~CodeDue(s)'
              /\ Rejects(b)' => ~Completed(s)' /\ ~Served(s)'
              /\ Served(s)' => Showing(s)'
    PROVE  PhaseInv(s)'
<1> SUFFICES ASSUME Dialled(net'[s]) PROVE CodePhase(s)' /\ (Rejects(b)' => Unpairing(s)')
  BY DEF PhaseInv
<1>1. /\ ~HelloDue(s)' /\ ~Required(s)' /\ ~Awaiting(s)' /\ ~Confirming(s)'
      /\ ~Proving(s)' /\ ~Greeting(s)'
  BY DEF HelloDue, CodeDue
<1>2. Once(net'[s].down, "pairing_required") /\ Once(net'[s].up, "pairing_confirm")
  BY <1>1, NotHas DEF Required, Confirming
<1>3. ~Offered(s)'
  BY <1>1 DEF Offered, Greeting, Has
<1> QED BY <1>1, <1>2, <1>3 DEF CodePhase, CodeDue, Unpairing

\* A connection on which the hello is due.
LEMMA PhaseOpen ==
    ASSUME NEW s \in Sockets, NEW b,
           Dialled(net'[s]) =>
              /\ net'[s].owner = b
              /\ ~CodeDue(s)' /\ ~Decided(s)'
              /\ Rejects(b)' => ~Offered(s)'
    PROVE  PhaseInv(s)'
<1> SUFFICES ASSUME Dialled(net'[s])
             PROVE  CodePhase(s)' /\ (Rejects(b)' => Unpairing(s)') /\ ~Served(s)'
  BY DEF PhaseInv
<1>1. /\ ~Required(s)' /\ ~Awaiting(s)' /\ ~Confirming(s)'
      /\ ~Decided(s)' /\ ~Served(s)' /\ ~Answered(s)'
  BY DEF CodeDue, Decided
<1>2. Once(net'[s].down, "pairing_required") /\ Once(net'[s].up, "pairing_confirm")
  BY <1>1, NotHas DEF Required, Confirming
<1>3. ~Completed(s)'
  BY <1>1 DEF Answered, Decisions, Completed
<1> QED BY <1>1, <1>2, <1>3 DEF CodePhase, CodeDue, Unpairing

\* A connection on which the code is due.
LEMMA PhaseAsked ==
    ASSUME NEW s \in Sockets, NEW b,
           Dialled(net'[s]) =>
              /\ net'[s].owner = b
              /\ ~HelloDue(s)' /\ ~Decided(s)'
              /\ Once(net'[s].down, "pairing_required") /\ Once(net'[s].up, "pairing_confirm")
              /\ Required(s)' => ~Awaiting(s)' /\ ~Confirming(s)'
              /\ Awaiting(s)' => ~Confirming(s)' /\ net'[s].cli # "connecting"
              /\ Rejects(b)' => ~Confirming(s)'
    PROVE  PhaseInv(s)'
<1> SUFFICES ASSUME Dialled(net'[s])
             PROVE  CodePhase(s)' /\ (Rejects(b)' => Unpairing(s)') /\ ~Served(s)'
  BY DEF PhaseInv
<1>1. /\ ~HelloDue(s)' /\ ~Proving(s)' /\ ~Greeting(s)'
      /\ ~Decided(s)' /\ ~Served(s)' /\ ~Answered(s)'
  BY DEF HelloDue, Decided
<1>2. ~Completed(s)'
  BY <1>1 DEF Answered, Decisions, Completed
<1>3. ~Offered(s)'
  BY <1>1 DEF Offered, Greeting, Has
<1> QED BY <1>1, <1>2, <1>3 DEF CodePhase, Unpairing

\* The steps of the server that say nothing on a connection.
LEMMA ServerPhaseKept ==
    ASSUME PhasesInv, UNCHANGED clientVars, NEW s \in Sockets, Turns(net[s], net'[s], {}, {}),
           Holds(net[s], net'[s]), Served(s)' => Served(s)
    PROVE  PhaseInv(s)'
<1>1. PICK b : b = net[s].owner
  OBVIOUS
<1>2. PhaseInv(s) /\ UNCHANGED <<cl, proofs, writes>>
  BY DEF PhasesInv, clientVars
<1>3. /\ Rejects(b)' => Rejects(b)
      /\ Proving(s)' => Proving(s)
      /\ Shown(b) => Shown(b)'
  BY <1>2 DEF Rejects, Proving, Shown
<1>4. Touching(net'[s]) /\ Showing(s) => Has(net'[s].down, "auth_accepted") \/ Shown(b)'
  BY <1>1, <1>3 DEF Holds, Showing
<1>5. Dialled(net'[s]) =>
         /\ net[s].owner = b
         /\ net'[s].cli = "connecting" => net[s].cli = "connecting"
         /\ cl'[b].auth = "pairing-required" => cl[b].auth = "pairing-required"
         /\ Rejects(b)' => Rejects(b)
         /\ Proving(s)' => Proving(s)
         /\ Served(s)' => Served(s)
         /\ Served(s)' /\ Touching(net'[s]) /\ Showing(s) =>
               Has(net'[s].down, "auth_accepted") \/ Shown(b)'
  BY <1>1, <1>2, <1>3, <1>4 DEF Holds
<1> QED BY <1>2, <1>5, PhaseKept

\* A step of the server that says something on the connection of its client s only.
LEMMA OneSpeaks ==
    ASSUME ConnsTyped, PhasesInv, UNCHANGED clientVars, NEW s \in Sockets, NEW d,
           net' = [net EXCEPT ![s] = d], sv'.client = s, PhaseInv(s)'
    PROVE  PhasesInv'
<1>1. ASSUME NEW t \in Sockets, t # s
      PROVE  PhaseInv(t)'
  <2>1. net'[t] = net[t] /\ net[t] \in Conn
    BY <1>1 DEF ConnsTyped
  <2>2. Turns(net[t], net'[t], {}, {}) /\ Holds(net[t], net'[t])
    BY <2>1, TurnsSides, HoldsSides
  <2> QED BY <1>1, <2>2, ServerPhaseKept DEF Served
<1>2. RejectInv'
  BY DEF PhasesInv, RejectInv, Rejects, clientVars
<1> QED BY <1>1, <1>2 DEF PhasesInv

LEMMA SilentKeepsPhases ==
    ASSUME PhasesInv, UNCHANGED clientVars,
           \A s \in Sockets : Turns(net[s], net'[s], {}, {}) /\ Holds(net[s], net'[s]),
           sv'.accepted => sv.accepted /\ sv'.client = sv.client
    PROVE  PhasesInv'
<1>1. \A s \in Sockets : Served(s)' => Served(s)
  BY DEF Served
<1>2. \A s \in Sockets : PhaseInv(s)'
  BY <1>1, ServerPhaseKept
<1>3. RejectInv'
  BY DEF PhasesInv, RejectInv, Rejects, clientVars
<1> QED BY <1>2, <1>3 DEF PhasesInv

LEMMA OneHolds ==
    ASSUME ConnsTyped, NEW s, NEW d, s \in Sockets => Holds(net[s], d), net' = [net EXCEPT ![s] = d]
    PROVE  \A t \in Sockets : Holds(net[t], net'[t])
  BY HoldsSides DEF ConnsTyped

\* What the names of the messages say.
LEMMA DownNames ==
    /\ AuthAccepted.type = "auth_accepted"
    /\ \A r : AuthRejected(r).type = "auth_rejected"
    /\ \A k : PairingComplete(k).type = "pairing_complete"
    /\ \A id : PairingRequired(id).type = "pairing_required"
    /\ \A n : ServerChallenge(n).type = "server_challenge"
    /\ CloseFrame.type = "close"
  BY DEF AuthAccepted, AuthRejected, PairingComplete, PairingRequired, ServerChallenge, CloseFrame

\* Of a type of which nothing was there, only what is added can be there.
LEMMA AddedOnly ==
    ASSUME NEW p, NEW q, NEW M, Thins(p, q, M), NEW t, t # "close", ~Has(p, t), Has(q, t)
    PROVE  \E m \in M : m.type = t
  BY CloseIsClose DEF Thins, Has

\* Where the server hears the hello, no code is due and nothing decided.
LEMMA HelloHeard ==
    ASSUME PhasesInv, TokensInv', UNCHANGED clientVars, NEW s \in Sockets, Greeting(s),
           NEW D, Turns(net[s], net'[s], {}, D), sv'.client = s, sv'.hello # None, Dialled(net'[s])
    PROVE  /\ Dialled(net[s]) /\ net'[s].owner = net[s].owner /\ Thins(net[s].down, net'[s].down, D)
           /\ ~HelloDue(s)' /\ ~Awaiting(s)' /\ ~Confirming(s)'
           /\ CodePhase(s) /\ ~Required(s) /\ ~Served(s) /\ ~Answered(s)
<1>1. /\ Dialled(net[s]) /\ net'[s].owner = net[s].owner
      /\ Thins(net[s].up, net'[s].up, {}) /\ Thins(net[s].down, net'[s].down, D)
  BY DEF Turns
<1>2. ~HelloDue(s)'
  BY DEF TokensInv, TokenInv, Heard
<1>3. CodePhase(s)
  BY <1>1 DEF PhasesInv, PhaseInv
<1>4. /\ ~Required(s) /\ ~Awaiting(s) /\ ~Confirming(s) /\ ~Served(s) /\ ~Answered(s)
  BY <1>3 DEF CodePhase, HelloDue, CodeDue, Decided
<1>5. ~Awaiting(s)'
  BY <1>1, <1>4 DEF Awaiting, clientVars
<1>6. ~Confirming(s)'
  BY <1>1, <1>4, NothingAdds DEF Confirming
<1> QED BY <1>1, <1>2, <1>3, <1>4, <1>5, <1>6

\* What the server says to a bridge it is in touch with is on its way.
LEMMA SaidIsDown ==
    ASSUME NEW c \in Conn, NEW m, Touching(SrvSend(c, m))
    PROVE  Has(SrvSend(c, m).down, m.type)
<1> DEFINE d == SrvSend(c, m)
           down == IF c.srv = "open" /\ ~c.lost /\ c.cli \in {"connecting", "open"}
                   THEN Append(c.down, m) ELSE c.down
<1>1. Fields(d, c.owner, c.cli, c.srv, c.up, down, c.lost)
  BY SendFields
<1>2. c.srv = "open" /\ ~c.lost /\ c.cli \in {"connecting", "open"} => down = Append(c.down, m)
  OBVIOUS
<1> HIDE DEF down
<1>3. d.down = Append(c.down, m)
  BY <1>1, <1>2 DEF Fields, Touching
<1>4. m \in Within(Append(c.down, m))
  BY ConnQueues, WithinFacts
<1> QED BY <1>3, <1>4 DEF Has

LEMMA HelloKeepsPhases ==
    ASSUME ConnsTyped, ServerTyped, ClientTyped, StoreInv, NetOK, ServerOK, TokensInv, TokensInv',
           PhasesInv, UNCHANGED clientVars, HandleClientHello
    PROVE  PhasesInv'
<1>1. PICK s \in Sockets :
         /\ s = sv.client /\ net[s].up # <<>> /\ Received \in UpMessages
         /\ Received.type = "client_hello" /\ ReceivesFromClient("client_hello")
  BY ReceivedTyped DEF HandleClientHello, HelloIncompatible, HelloUnpaired, HelloWithoutProof,
     HelloBadProof, HelloAccepted, CompatibleHello
<1>2. PICK b : b = net[s].owner
  OBVIOUS
<1> DEFINE c == TakenUp(s)
           v == Greeted(Received)
<1>3. /\ c \in Conn /\ Turns(net[s], c, {}, {}) /\ Holds(net[s], c)
      /\ c.srv = net[s].srv /\ c.down = net[s].down
  BY <1>1, TakenUpTurns, HoldsSides, StepFields DEF ConnsTyped, TakenUp, Fields
<1>4. Received \in Within(net[s].up) /\ Greeting(s)
  <2>1. net[s].up \in Seq(UpMessages)
    BY <1>1, ConnQueues DEF ConnsTyped
  <2>2. Received \in Within(net[s].up)
    BY <1>1, <2>1, WithinFacts DEF Received
  <2> QED BY <1>1, <2>2 DEF Greeting, Has
<1>5. /\ v.client = s /\ v.hello # None /\ v.accepted = sv.accepted
      /\ AcceptedBy(v).client = s /\ AcceptedBy(v).hello # None
  <2>1. Received.inst \in Bridges /\ Received.inst # None
    BY <1>1, UpTypes, NoneAssumption
  <2>2. /\ v \in ServerState /\ v.client = s /\ v.hello = Received.inst
        /\ v.accepted = sv.accepted
    BY <1>1, <2>1 DEF Greeted, ServerTyped, ServerState
  <2> HIDE DEF v
  <2>3. AcceptedBy(v).client = s /\ AcceptedBy(v).hello = v.hello
    BY <2>2 DEF AcceptedBy, ServerState
  <2> QED BY <2>1, <2>2, <2>3
<1> HIDE DEF c, v
<1>6. ASSUME NEW d, NEW D, net' = [net EXCEPT ![s] = d], Turns(c, d, {}, D),
             sv'.client = s, sv'.hello # None
      PROVE  /\ net'[s] = d
             /\ (Dialled(net'[s]) =>
                  /\ Dialled(net[s]) /\ net'[s].owner = b /\ Thins(net[s].down, net'[s].down, D)
                  /\ ~HelloDue(s)' /\ ~Awaiting(s)' /\ ~Confirming(s)'
                  /\ CodePhase(s) /\ ~Required(s) /\ ~Served(s) /\ ~Answered(s))
  <2>1. net'[s] = d
    BY <1>6 DEF ConnsTyped
  <2>2. Turns(net[s], net'[s], {}, D)
    BY <1>3, <1>6, <2>1, TurnsThen
  <2> QED BY <1>2, <1>4, <1>6, <2>1, <2>2, HelloHeard
<1>7. CASE HelloIncompatible
  <2>1. /\ net' = [net EXCEPT ![s] = Rejecting(c)] /\ UNCHANGED store
        /\ sv' = [sv EXCEPT !.helloTimer = FALSE]
    BY <1>1, <1>7 DEF HelloIncompatible, ClientNet, c
  <2>2. Turns(net[s], Rejecting(c), {}, {}) /\ Holds(net[s], Rejecting(c))
    <3>1. Holds(net[s], Rejecting(c))
      BY <1>3, HoldsSides, HoldsTwice DEF Rejecting
    <3> QED BY <1>3, <3>1, AnswersTurn, TurnsThen
  <2>3. \A t \in Sockets : Turns(net[t], net'[t], {}, {}) /\ Holds(net[t], net'[t])
    BY <2>1, <2>2, OneTurns, OneHolds
  <2>4. sv'.client = s /\ sv'.accepted = sv.accepted
    BY <1>1, <2>1 DEF ServerTyped, ServerState
  <2> QED BY <1>1, <2>3, <2>4, SilentKeepsPhases
\* The hello is refused
<1>8. ASSUME NEW d, NEW D, net' = [net EXCEPT ![s] = d], Turns(c, d, {}, D), sv' = v,
             \A m \in D : m.type = "auth_rejected"
      PROVE  PhasesInv'
  <2>1. PhaseInv(s)'
    <3> SUFFICES ASSUME Dialled(net'[s])
                 PROVE  /\ net'[s].owner = b /\ ~HelloDue(s)' /\ ~CodeDue(s)'
                        /\ ~Completed(s)' /\ ~Served(s)'
      BY PhaseClosed
    <3>1. /\ net'[s].owner = b /\ Thins(net[s].down, net'[s].down, D)
          /\ ~HelloDue(s)' /\ ~Awaiting(s)' /\ ~Confirming(s)'
          /\ ~Required(s) /\ ~Served(s) /\ ~Answered(s)
      BY <1>5, <1>6, <1>8
    <3>2. ~Required(s)' /\ ~Completed(s)'
      BY <1>8, <3>1, AddedOnly DEF Required, Completed, Answered, Decisions
    <3>3. ~Served(s)'
      BY <1>1, <1>5, <1>8, <3>1 DEF Served
    <3> QED BY <3>1, <3>2, <3>3 DEF CodeDue
  <2> QED BY <1>5, <1>8, <2>1, OneSpeaks
<1>9. CASE HelloWithoutProof
  <2>1. net' = [net EXCEPT ![s] = RejectingAuthentication(c, FALSE)] /\ sv' = v
    BY <1>1, <1>9 DEF HelloWithoutProof, ClientNet, v, c
  <2>2. Turns(c, RejectingAuthentication(c, FALSE), {}, {AuthRejected(FALSE)})
    BY <1>3, AnswersTurn
  <2> QED BY <1>8, <2>1, <2>2, DownNames
<1>10. CASE HelloBadProof
  <2>1. net' = [net EXCEPT ![s] = RejectingAuthentication(c, TRUE)] /\ sv' = v
    BY <1>1, <1>10 DEF HelloBadProof, ClientNet, v, c
  <2>2. Turns(c, RejectingAuthentication(c, TRUE), {}, {AuthRejected(TRUE)})
    BY <1>3, AnswersTurn
  <2> QED BY <1>8, <2>1, <2>2, DownNames
\* The code is asked for
<1>11. CASE HelloUnpaired
  <2> DEFINE m == PairingRequired(store'.challenge.id)
             d == SrvSend(c, m)
             D == {m}
  <2>1. net' = [net EXCEPT ![s] = d] /\ sv' = v
    BY <1>1, <1>11 DEF HelloUnpaired, ClientNet, v, c
  <2>2. m.type = "pairing_required" /\ Turns(c, d, {}, D)
    BY <1>3, TurnsSides, DownNames
  <2> HIDE DEF m, d
  <2>3. PhaseInv(s)'
    <3> SUFFICES ASSUME Dialled(net'[s])
                 PROVE  /\ net'[s].owner = b /\ ~HelloDue(s)' /\ ~Decided(s)'
                        /\ Once(net'[s].down, "pairing_required")
                        /\ Once(net'[s].up, "pairing_confirm")
                        /\ ~Awaiting(s)' /\ ~Confirming(s)'
      BY PhaseAsked
    <3>1. /\ net'[s].owner = b /\ Thins(net[s].down, net'[s].down, D)
          /\ ~HelloDue(s)' /\ ~Awaiting(s)' /\ ~Confirming(s)'
          /\ CodePhase(s) /\ ~Required(s) /\ ~Served(s) /\ ~Answered(s)
      BY <1>5, <1>6, <2>1, <2>2
    <3>2. ~Answered(s)'
      BY <2>2, <3>1, AddedOnly DEF Answered, Decisions
    <3>3. ~Served(s)'
      BY <1>1, <1>5, <2>1, <3>1 DEF Served
    <3>4. Once(net'[s].down, "pairing_required")
      BY <3>1 DEF Thins, Required, CodePhase
    <3>5. Once(net'[s].up, "pairing_confirm")
      BY <3>1, NotHas DEF Confirming
    <3> QED BY <3>1, <3>2, <3>3, <3>4, <3>5 DEF Decided
  <2> QED BY <1>5, <2>1, <2>3, OneSpeaks
\* The bridge is accepted, on a proof it has offered
<1>12. CASE HelloAccepted
  <2> DEFINE d == Accepting(c)
             D == {AuthAccepted}
  <2>1. net' = [net EXCEPT ![s] = d] /\ sv' = AcceptedBy(v) /\ Received.proof # None
    BY <1>1, <1>12 DEF HelloAccepted, ClientNet, v, c
  <2>2. Turns(c, d, {}, D) /\ d = SrvSend(c, AuthAccepted)
    BY <1>3, AnswersTurn DEF Accepting
  <2> HIDE DEF d
  <2>3. PhaseInv(s)'
    <3> SUFFICES ASSUME Dialled(net'[s])
                 PROVE  /\ net'[s].owner = b /\ ~HelloDue(s)' /\ ~CodeDue(s)'
                        /\ ~Rejects(b)' /\ Showing(s)'
      BY PhaseClosed
    <3>1. /\ net'[s].owner = b /\ Thins(net[s].down, net'[s].down, D) /\ Dialled(net[s])
          /\ ~HelloDue(s)' /\ ~Awaiting(s)' /\ ~Confirming(s)'
          /\ ~Required(s) /\ ~Answered(s) /\ net'[s] = d
      BY <1>5, <1>6, <2>1, <2>2
    <3>2. ~Required(s)' /\ ~Has(net'[s].down, "auth_rejected")
      BY <3>1, AddedOnly, DownNames DEF Required, Answered, Decisions
    <3>3. ~Rejects(b)
      <4>1. Offered(s)
        BY <1>1, <1>4, <2>1 DEF Offered
      <4> QED BY <1>2, <3>1, <4>1 DEF PhasesInv, PhaseInv, Unpairing
    <3>4. Touching(net'[s]) => Has(net'[s].down, "auth_accepted")
      BY <1>3, <2>2, <3>1, SaidIsDown, DownNames
    <3> QED BY <3>1, <3>2, <3>3, <3>4 DEF CodeDue, Showing, Rejects, clientVars
  <2> QED BY <1>5, <2>1, <2>3, OneSpeaks
<1> QED BY <1>7, <1>9, <1>10, <1>11, <1>12 DEF HandleClientHello

\* Where the server hears the code, the hello is spent and nothing decided.
LEMMA ConfirmHeard ==
    ASSUME ConnsTyped, PhasesInv, UNCHANGED clientVars, NEW s \in Sockets, net[s].up # <<>>,
           Head(net[s].up).type = "pairing_confirm", NEW D, Turns(TakenUp(s), net'[s], {}, D),
           \A m \in D : m.type \notin {"server_challenge", "pairing_required"}, Dialled(net'[s])
    PROVE  /\ net'[s].owner = net[s].owner /\ Thins(net[s].down, net'[s].down, D)
           /\ ~HelloDue(s)' /\ ~CodeDue(s)'
           /\ ~Served(s) /\ ~Answered(s) /\ ~Rejects(net[s].owner)'
<1> DEFINE c == net[s]
           d == net'[s]
<1>1. /\ c \in Conn /\ c.up \in Seq(UpMessages)
      /\ TakenUp(s).up = Tail(c.up) /\ TakenUp(s).down = c.down /\ TakenUp(s).owner = c.owner
      /\ (Dialled(TakenUp(s)) => Dialled(c))
  BY StepFields, ConnQueues DEF ConnsTyped, TakenUp, Fields, Dialled
<1>2. /\ Dialled(c) /\ d.owner = c.owner
      /\ Thins(Tail(c.up), d.up, {}) /\ Thins(c.down, d.down, D)
  BY <1>1 DEF Turns
<1>3. Confirming(s)
  <2>1. Head(c.up) \in Within(c.up)
    BY <1>1, WithinFacts
  <2> QED BY <2>1 DEF Confirming, Has
<1>4. CodePhase(s) /\ (Rejects(c.owner) => Unpairing(s)) /\ UNCHANGED <<cl, proofs, writes>>
  BY <1>2 DEF PhasesInv, PhaseInv, clientVars
<1>5. /\ Once(c.up, "pairing_confirm") /\ ~Required(s) /\ ~Awaiting(s)
      /\ ~HelloDue(s) /\ ~Served(s) /\ ~Answered(s) /\ ~Rejects(c.owner)
  BY <1>3, <1>4 DEF CodePhase, CodeDue, Decided, Unpairing
<1>6. ~Confirming(s)'
  <2>1. ~Has(Tail(c.up), "pairing_confirm")
    BY <1>1, <1>5, ThinsQueue
  <2> QED BY <1>2, <2>1, NothingAdds DEF Confirming
<1>7. ~Greeting(s)'
  <2>1. Within(Tail(c.up)) \subseteq Within(c.up)
    BY <1>1, WithinFacts
  <2> QED BY <1>2, <1>5, <2>1, NothingAdds DEF HelloDue, Greeting, Has
<1>8. ~Required(s)' /\ ~Asked(s)'
  BY <1>2, <1>5, AddedOnly DEF HelloDue, Required, Asked
<1>9. ~Awaiting(s)' /\ ~Proving(s)' /\ ~Rejects(c.owner)'
  BY <1>2, <1>4, <1>5 DEF HelloDue, Awaiting, Proving, Rejects
<1> QED BY <1>2, <1>5, <1>6, <1>7, <1>8, <1>9 DEF HelloDue, CodeDue

LEMMA ConfirmKeepsPhases ==
    ASSUME ConnsTyped, ServerTyped, PhasesInv, UNCHANGED clientVars, HandlePairingConfirm
    PROVE  PhasesInv'
<1>1. PICK s \in Sockets :
         /\ s = sv.client /\ net[s].up # <<>> /\ Received \in UpMessages
         /\ ReceivesFromClient("pairing_confirm") /\ Received.type = "pairing_confirm"
  BY ReceivedTyped DEF HandlePairingConfirm, ConfirmMismatch, ConfirmRefused, ConfirmCompletes,
     MatchingConfirm
<1>2. PICK b : b = net[s].owner
  OBVIOUS
<1> DEFINE c == TakenUp(s)
           no == AuthRejected(FALSE)
<1>3. c \in Conn /\ no.type = "auth_rejected"
  BY <1>1, TakenUpTurns, DownNames
<1>4. ASSUME NEW d, NEW D, net' = [net EXCEPT ![s] = d], Turns(c, d, {}, D), Dialled(net'[s]),
             \A m \in D : m.type \notin {"server_challenge", "pairing_required"}
      PROVE  /\ net'[s] = d /\ net'[s].owner = b /\ Thins(net[s].down, net'[s].down, D)
             /\ ~HelloDue(s)' /\ ~CodeDue(s)' /\ ~Served(s) /\ ~Answered(s) /\ ~Rejects(b)'
  <2>1. net'[s] = d
    BY <1>4 DEF ConnsTyped
  <2>2. Head(net[s].up).type = "pairing_confirm" /\ Turns(TakenUp(s), net'[s], {}, D)
    BY <1>1, <1>4, <2>1 DEF Received
  <2> HIDE DEF c
  <2> QED BY <1>1, <1>2, <1>4, <2>1, <2>2, ConfirmHeard
\* The bridge is turned away
<1>5. ASSUME NEW d, net' = [net EXCEPT ![s] = d], Turns(c, d, {}, {no}),
             sv'.client = sv.client, sv'.accepted = sv.accepted
      PROVE  PhasesInv'
  <2> HIDE DEF no, c
  <2>1. Dialled(net'[s]) => /\ net'[s].owner = b /\ ~HelloDue(s)' /\ ~CodeDue(s)'
                            /\ ~Served(s) /\ ~Rejects(b)'
    BY <1>3, <1>4, <1>5
  <2>2. PhaseInv(s)'
    BY <1>5, <2>1, PhaseClosed DEF Served
  <2> QED BY <1>1, <1>5, <2>2, OneSpeaks
<1> HIDE DEF c
<1>6. /\ Turns(c, SrvSend(c, no), {}, {no})
      /\ Turns(c, RejectingAuthentication(c, FALSE), {}, {no})
  BY <1>3, AnswersTurn, TurnsSides
<1> HIDE DEF no
<1>7. CASE ConfirmMismatch
  <2>1. /\ net' = [net EXCEPT ![s] = RejectingAuthentication(c, FALSE)]
        /\ sv' = [sv EXCEPT !.helloTimer = FALSE]
    BY <1>1, <1>7 DEF ConfirmMismatch, ClientNet, c
  <2>2. sv'.client = sv.client /\ sv'.accepted = sv.accepted
    BY <2>1 DEF ServerTyped, ServerState
  <2> QED BY <1>5, <1>6, <2>1, <2>2
<1>8. CASE ConfirmRefused
  <2>1. net' = [net EXCEPT ![s] = SrvSend(c, no)] /\ UNCHANGED sv
    BY <1>1, <1>8 DEF ConfirmRefused, ClientNet, c, no
  <2> QED BY <1>5, <1>6, <2>1
<1>9. CASE ConfirmCompletes
  <2>1. PICK k \in Secrets, ok \in PersistResults("pairing") :
           \/ /\ ok /\ sv' = AcceptedBy(sv)
              /\ net' = [net EXCEPT ![s] = Accepting(SrvSend(c, PairingComplete(k)))]
           \/ /\ ~ok /\ UNCHANGED sv
              /\ net' = [net EXCEPT ![s] = SrvSend(c, no)]
    BY <1>1, <1>9 DEF ConfirmCompletes, ClientNet, c, no
  <2>2. CASE UNCHANGED sv /\ net' = [net EXCEPT ![s] = SrvSend(c, no)]
    BY <1>5, <1>6, <2>2
  <2>3. CASE sv' = AcceptedBy(sv) /\ net' = [net EXCEPT ![s] = Accepting(SrvSend(c, PairingComplete(k)))]
    <3> DEFINE e == SrvSend(c, PairingComplete(k))
               d == Accepting(e)
               D == {PairingComplete(k), AuthAccepted}
    <3>1. e \in Conn /\ d = SrvSend(e, AuthAccepted) /\ Turns(c, d, {}, D)
      BY <1>3, AnswersTurn, ConnKept, MessagesTyped DEF Accepting
    <3>2. \A m \in D : m.type \in {"pairing_complete", "auth_accepted"}
      BY DownNames
    <3>3. sv'.client = s
      BY <1>1, <2>3 DEF AcceptedBy, ServerTyped, ServerState
    <3>4. net' = [net EXCEPT ![s] = d]
      BY <2>3
    <3> HIDE DEF d, e, D
    <3>5. PhaseInv(s)'
      <4> SUFFICES ASSUME Dialled(net'[s])
                   PROVE  /\ net'[s].owner = b /\ ~HelloDue(s)' /\ ~CodeDue(s)'
                          /\ ~Rejects(b)' /\ Showing(s)'
        BY PhaseClosed
      <4>1. /\ net'[s] = d /\ net'[s].owner = b /\ Thins(net[s].down, net'[s].down, D)
            /\ ~HelloDue(s)' /\ ~CodeDue(s)' /\ ~Answered(s) /\ ~Rejects(b)'
        BY <1>4, <3>1, <3>2, <3>4
      <4>2. ~Has(net'[s].down, "auth_rejected")
        BY <3>2, <4>1, AddedOnly DEF Answered, Decisions
      <4>3. Touching(net'[s]) => Has(net'[s].down, "auth_accepted")
        BY <3>1, <4>1, SaidIsDown, DownNames
      <4> QED BY <4>1, <4>2, <4>3 DEF Showing
    <3> QED BY <3>3, <3>4, <3>5, OneSpeaks
  <2> QED BY <2>1, <2>2, <2>3
<1> QED BY <1>7, <1>8, <1>9 DEF HandlePairingConfirm

LEMMA ConnectionKeepsPhases ==
    ASSUME ConnsTyped, ServerTyped, SecretInv, TokensInv', PhasesInv, UNCHANGED clientVars,
           NEW s \in Sockets, HandleConnection(s)
    PROVE  PhasesInv'
<1> DEFINE c == [net[s] EXCEPT !.srv = "open"]
<1>1. /\ net[s] \in Conn /\ c \in Conn /\ net[s].cli = "connecting" /\ net[s].srv = "none"
      /\ Turns(net[s], c, {}, {}) /\ c.cli = "connecting"
  BY TurnsSides, ConnKept, StepFields DEF ConnsTyped, HandleConnection, Fields
<1>2. PICK b : b = net[s].owner
  OBVIOUS
<1> HIDE DEF c
<1>3. CASE RejectsSecondClient(s)
  <2>1. net' = [net EXCEPT ![s] = SrvClose(c)] /\ UNCHANGED sv
    BY <1>3 DEF RejectsSecondClient, serverVars, c
  <2>2. Turns(net[s], SrvClose(c), {}, {})
    BY <1>1, TurnsSides, TurnsThen
  <2>3. SrvClose(c).cli = "connecting"
    BY <1>1, CloseFields DEF Fields
  <2>4. Holds(net[s], SrvClose(c))
    BY <1>1, <2>3 DEF Holds, Touching
  <2>5. \A t \in Sockets : Turns(net[t], net'[t], {}, {}) /\ Holds(net[t], net'[t])
    BY <2>1, <2>2, <2>4, OneTurns, OneHolds
  <2> QED BY <2>1, <2>5, SilentKeepsPhases
<1>4. CASE TakesClient(s)
  <2> DEFINE m == ServerChallenge(s)
             d == SrvSend(c, m)
  <2>1. /\ net' = [net EXCEPT ![s] = d]
        /\ sv' = [sv EXCEPT !.client = s, !.accepted = FALSE, !.hello = None, !.helloTimer = TRUE]
    BY <1>4 DEF TakesClient, c
  <2>2. sv'.client = s /\ ~sv'.accepted
    BY <2>1 DEF ServerTyped, ServerState
  <2>3. m.type = "server_challenge" /\ Turns(net[s], d, {}, {m}) /\ d.cli = "connecting"
    <3> DEFINE down == IF c.srv = "open" /\ ~c.lost /\ c.cli \in {"connecting", "open"}
                       THEN Append(c.down, m) ELSE c.down
    <3>1. Fields(d, c.owner, c.cli, c.srv, c.up, down, c.lost)
      BY <1>1, SendFields
    <3>2. Turns(c, d, {}, {m}) /\ m.type = "server_challenge"
      BY <1>1, TurnsSides, DownNames
    <3> HIDE DEF m, d, down
    <3> QED BY <1>1, <3>1, <3>2, TurnsThen DEF Fields
  <2>4. net'[s] = d
    BY <2>1 DEF ConnsTyped
  <2> HIDE DEF m, d
  <2>5. net[s].down = <<>> /\ net[s].up = <<>> /\ ~Proving(s)
    BY <1>1 DEF SecretInv, SocketInv, AllTold, StillFresh, Proving
  <2>6. PhaseInv(s)'
    <3> SUFFICES ASSUME Dialled(net'[s])
                 PROVE  net'[s].owner = b /\ ~CodeDue(s)' /\ ~Decided(s)' /\ ~Offered(s)'
      BY PhaseOpen
    <3>1. /\ net'[s].owner = b /\ Dialled(net[s])
          /\ Thins(<<>>, net'[s].up, {}) /\ Thins(<<>>, net'[s].down, {m})
      BY <1>2, <2>3, <2>4, <2>5 DEF Turns
    <3>2. \A t : ~Has(<<>>, t)
      BY EmptyOwned DEF Has, Within
    <3>3. ~Confirming(s)' /\ ~Greeting(s)'
      BY <3>1, <3>2, NothingAdds DEF Confirming, Greeting
    <3>4. ~Required(s)' /\ ~Answered(s)'
      BY <2>3, <3>1, <3>2, AddedOnly DEF Required, Answered, Decisions
    <3>5. ~Awaiting(s)'
      <4>1. CodePhase(s) /\ UNCHANGED cl
        BY <3>1 DEF PhasesInv, PhaseInv, clientVars
      <4> QED BY <1>1, <1>2, <3>1, <4>1 DEF CodePhase, Awaiting
    <3>6. ~Offered(s)'
      BY <2>5, <3>3 DEF Offered, Proving, Greeting, Has, clientVars
    <3>7. ~Served(s)'
      BY <2>2 DEF Served
    <3> QED BY <3>1, <3>3, <3>4, <3>5, <3>6, <3>7 DEF CodeDue, Decided
  <2> QED BY <2>1, <2>2, <2>6, OneSpeaks
<1> QED BY <1>3, <1>4 DEF HandleConnection

LEMMA ServerKeepsPhases ==
    ASSUME "reset" \notin PersistFailures, ConnsTyped, ServerTyped, ClientTyped, StoreInv, NetOK,
           ServerOK, SecretInv, TokensInv, TokensInv', PhasesInv, ServerStep
    PROVE  PhasesInv'
<1>1. UNCHANGED clientVars
  BY DEF ServerStep
<1>2. \A t \in Sockets : net[t] \in Conn /\ Turns(net[t], net[t], {}, {}) /\ Holds(net[t], net[t])
  BY TurnsSides, HoldsSides DEF ConnsTyped
<1>3. CASE \E s \in Sockets : HandleConnection(s)
  BY <1>1, <1>3, ConnectionKeepsPhases
<1>4. CASE HelloTimerFires
  <2>1. /\ net' = [net EXCEPT ![sv.client] = Rejecting(net[sv.client])]
        /\ sv' = [sv EXCEPT !.helloTimer = FALSE]
    BY <1>4 DEF HelloTimerFires, HelloTimeout
  <2>2. sv.client \in Sockets => /\ Turns(net[sv.client], Rejecting(net[sv.client]), {}, {})
                                 /\ Holds(net[sv.client], Rejecting(net[sv.client]))
    BY <1>2, AnswersTurn, HoldsSides DEF Rejecting
  <2>3. sv'.client = sv.client /\ sv'.accepted = sv.accepted
    BY <2>1 DEF ServerTyped, ServerState
  <2>4. \A t \in Sockets : Turns(net[t], net'[t], {}, {}) /\ Holds(net[t], net'[t])
    BY <2>1, <2>2, OneTurns, OneHolds
  <2> QED BY <1>1, <2>3, <2>4, SilentKeepsPhases
<1>5. CASE \E s \in Sockets : IgnoresMessage(s)
  <2>1. PICK s \in Sockets : IgnoresMessage(s)
    BY <1>5
  <2>2. /\ net' = [net EXCEPT ![s] = TakenUp(s)] /\ UNCHANGED sv /\ net[s].up # <<>>
    BY <2>1 DEF IgnoresMessage, DataUp, serverVars
  <2>3. Holds(net[s], TakenUp(s))
    BY <1>2, HoldsSides DEF TakenUp
  <2>4. \A t \in Sockets : Turns(net[t], net'[t], {}, {}) /\ Holds(net[t], net'[t])
    BY <2>2, <2>3, TakenUpTurns, OneTurns, OneHolds
  <2> QED BY <1>1, <2>2, <2>4, SilentKeepsPhases
<1>6. CASE HandleClientHello
  BY <1>1, <1>6, HelloKeepsPhases
<1>7. CASE HandlePairingConfirm /\ FreshIdentifiers
  BY <1>1, <1>7, ConfirmKeepsPhases
<1>8. ~NoClient.accepted
  BY DEF NoClient
<1>9. CASE \E s \in Sockets : HandleClose(s)
  <2>1. PICK s \in Sockets : HandleClose(s)
    BY <1>9
  <2>2. /\ net' = [net EXCEPT ![s] = SrvEnded(net[s])]
        /\ sv' = IF sv.client = s THEN NoClient ELSE sv
    BY <2>1 DEF HandleClose, ClearClientState
  <2>3. Turns(net[s], SrvEnded(net[s]), {}, {}) /\ Holds(net[s], SrvEnded(net[s]))
    BY <1>2, TurnsSides, HoldsSides
  <2>4. \A t \in Sockets : Turns(net[t], net'[t], {}, {}) /\ Holds(net[t], net'[t])
    BY <2>2, <2>3, OneTurns, OneHolds
  <2> QED BY <1>1, <1>8, <2>2, <2>4, SilentKeepsPhases
<1>10. CASE ResetPairing
  <2>1. /\ sv' = NoClient
        /\ net' = IF sv.client = None THEN net
                  ELSE [net EXCEPT ![sv.client] = SrvClose(net[sv.client])]
    BY <1>10 DEF ResetPairing, PersistResults, ClearClientState
  <2>2. \A t \in Sockets : Turns(net[t], net'[t], {}, {}) /\ Holds(net[t], net'[t])
    <3>1. CASE sv.client = None
      BY <1>2, <2>1, <3>1
    <3>2. CASE sv.client # None
      <4>1. sv.client \in Sockets => /\ Turns(net[sv.client], SrvClose(net[sv.client]), {}, {})
                                     /\ Holds(net[sv.client], SrvClose(net[sv.client]))
        BY <1>2, TurnsSides, HoldsSides
      <4>2. net' = [net EXCEPT ![sv.client] = SrvClose(net[sv.client])]
        BY <2>1, <3>2
      <4> QED BY <4>1, <4>2, OneTurns, OneHolds
    <3> QED BY <3>1, <3>2
  <2> QED BY <1>1, <1>8, <2>1, <2>2, SilentKeepsPhases
<1>11. CASE ChallengeExpires
  <2>1. UNCHANGED <<sv, net>>
    BY <1>11 DEF ChallengeExpires
  <2> QED BY <1>1, <1>2, <2>1, SilentKeepsPhases
<1>12. CASE ServerRestart
  <2>1. /\ sv' = NoClient
        /\ \A t \in Sockets : net'[t] = IF net[t].srv \in {"open", "closing", "ending"}
                                         THEN SrvEnded(Broken(net[t])) ELSE net[t]
    BY <1>12 DEF ServerRestart
  <2>2. ASSUME NEW t \in Sockets
        PROVE  Turns(net[t], net'[t], {}, {}) /\ Holds(net[t], net'[t])
    <3> DEFINE e == Broken(net[t])
    <3>1. e \in Conn /\ Turns(net[t], e, {}, {}) /\ Holds(net[t], e)
      BY <1>2, ConnKept, TurnsSides, HoldsSides
    <3> HIDE DEF e
    <3>2. Turns(net[t], SrvEnded(e), {}, {}) /\ Holds(net[t], SrvEnded(e))
      BY <3>1, TurnsSides, TurnsThen, HoldsSides, HoldsTwice
    <3> QED BY <1>2, <2>1, <3>2 DEF e
  <2> QED BY <1>1, <1>8, <2>1, <2>2, SilentKeepsPhases
<1> QED BY <1>3, <1>4, <1>5, <1>6, <1>7, <1>9, <1>10, <1>11, <1>12 DEF ServerStep, HandleMessage

\* The steps of a client that say nothing on a connection.
LEMMA ClientPhaseKept ==
    ASSUME NetOK, PhasesInv, UNCHANGED serverVars, NEW b \in Bridges,
           \A a \in Bridges : a # b => cl'[a] = cl[a] /\ writes'[a] = writes[a],
           NEW s \in Sockets, Turns(net[s], net'[s], {}, {}),
           \A a \in Bridges : \A p \in proofs'[a] : p.nonce = s => p \in proofs[a],
           net'[s].cli = "connecting" => net[s].cli = "connecting",
           net[s].owner # b => Holds(net[s], net'[s]),
           net[s].owner = b /\ Dialled(net'[s]) =>
              /\ cl'[b].auth = "pairing-required" => cl[b].auth = "pairing-required"
              /\ Rejects(b)' => Rejects(b)
              /\ Served(s) /\ Touching(net'[s]) /\ Showing(s) =>
                    Has(net'[s].down, "auth_accepted") \/ Shown(b)'
    PROVE  PhaseInv(s)'
<1>1. PICK a : a = net[s].owner
  OBVIOUS
<1>2. PhaseInv(s) /\ UNCHANGED sv
  BY DEF PhasesInv, serverVars
<1>3. Dialled(net'[s]) => a \in Bridges
  BY <1>1 DEF Turns, NetOK, Dialled
<1>4. (Served(s)' => Served(s)) /\ (Proving(s)' => Proving(s))
  BY <1>2 DEF Served, Proving
<1>5. a \in Bridges /\ a # b =>
         /\ Holds(net[s], net'[s]) /\ cl'[a] = cl[a]
         /\ Rejects(a)' => Rejects(a)
         /\ Shown(a) => Shown(a)'
  BY <1>1 DEF Rejects, Shown
<1>6. Touching(net'[s]) /\ Showing(s) /\ a \in Bridges /\ a # b =>
         Has(net'[s].down, "auth_accepted") \/ Shown(a)'
  BY <1>1, <1>5 DEF Holds, Showing
<1>7. Dialled(net'[s]) =>
         /\ net[s].owner = a
         /\ net'[s].cli = "connecting" => net[s].cli = "connecting"
         /\ cl'[a].auth = "pairing-required" => cl[a].auth = "pairing-required"
         /\ Rejects(a)' => Rejects(a)
         /\ Proving(s)' => Proving(s)
         /\ Served(s)' => Served(s)
         /\ Served(s)' /\ Touching(net'[s]) /\ Showing(s) =>
               Has(net'[s].down, "auth_accepted") \/ Shown(a)'
  <2>1. CASE a = b
    BY <1>1, <1>4, <2>1
  <2>2. CASE a # b
    BY <1>1, <1>3, <1>4, <1>5, <1>6, <2>2
  <2> QED BY <2>1, <2>2
<1> QED BY <1>2, <1>7, PhaseKept

\* The steps of a client after which it says nothing and shows what it showed.
LEMMA QuietKeepsPhases ==
    ASSUME NetOK, PhasesInv, UNCHANGED serverVars, NEW b \in Bridges,
           \A a \in Bridges : a # b => cl'[a] = cl[a] /\ writes'[a] = writes[a],
           \A a \in Bridges : \A p \in proofs'[a] : p \in proofs[a],
           \A s \in Sockets :
              /\ Turns(net[s], net'[s], {}, {}) /\ Holds(net[s], net'[s])
              /\ net[s].owner = b /\ Dialled(net'[s]) =>
                    /\ cl'[b].auth = "pairing-required" => cl[b].auth = "pairing-required"
                    /\ Rejects(b)' => Rejects(b)
                    /\ Served(s) /\ Showing(s) /\ Shown(b) => Shown(b)',
           Rejects(b)' => cl'[b].secret = None
    PROVE  PhasesInv'
<1>1. ASSUME NEW s \in Sockets
      PROVE  PhaseInv(s)'
  <2>1. net[s].owner = b /\ Dialled(net'[s]) =>
           /\ cl'[b].auth = "pairing-required" => cl[b].auth = "pairing-required"
           /\ Rejects(b)' => Rejects(b)
           /\ Served(s) /\ Touching(net'[s]) /\ Showing(s) =>
                 Has(net'[s].down, "auth_accepted") \/ Shown(b)'
    BY DEF Holds, Showing
  <2>2. net'[s].cli = "connecting" => net[s].cli = "connecting"
    BY DEF Holds
  <2> QED BY <2>1, <2>2, ClientPhaseKept
<1>2. RejectInv'
  BY DEF PhasesInv, RejectInv, Rejects
<1> QED BY <1>1, <1>2 DEF PhasesInv

LEMMA ConnectKeepsPhases ==
    ASSUME ConnsTyped, ClientTyped, NetOK, PhasesInv, SecretInv', UNCHANGED <<serverVars, proofs, writes>>,
           NEW b \in Bridges, NEW c \in ClientState, c.secret = cl[b].secret, Connect(b, c, net),
           \A s \in Sockets : net[s].owner = b => ~Dialled(net[s])
    PROVE  PhasesInv'
<1>1. PICK s \in Sockets : /\ FreeSocket(s)
                           /\ cl' = [cl EXCEPT ![b] = Dialing(c, s)]
                           /\ net' = [net EXCEPT ![s] = Dial(b)]
  BY DEF Connect
<1>2. \A a \in Bridges : a # b => cl'[a] = cl[a] /\ writes'[a] = writes[a]
  BY <1>1 DEF ClientTyped
<1>3. cl'[b].secret = cl[b].secret /\ cl'[b].auth = "authenticating"
  <2>1. cl'[b] = Dialing(c, s)
    BY <1>1 DEF ClientTyped
  <2> QED BY <2>1 DEF Dialing, ClientState
<1>4. ASSUME NEW t \in Sockets, t # s
      PROVE  PhaseInv(t)'
  <2>1. net'[t] = net[t] /\ net[t] \in Conn
    BY <1>1, <1>4 DEF ConnsTyped
  <2>2. /\ Turns(net[t], net'[t], {}, {}) /\ Holds(net[t], net'[t])
        /\ ~(net[t].owner = b /\ Dialled(net'[t]))
    BY <2>1, TurnsSides, HoldsSides
  <2>3. \A a \in Bridges : \A p \in proofs'[a] : p.nonce = t => p \in proofs[a]
    OBVIOUS
  <2> QED BY <1>2, <2>1, <2>2, <2>3, ClientPhaseKept
<1>5. Fields(net'[s], b, "connecting", "none", <<>>, <<>>, FALSE)
  <2>1. net'[s] = Dial(b)
    BY <1>1 DEF ConnsTyped
  <2> QED BY <2>1, DialFields
<1>6. PhaseInv(s)'
  <2>1. \A t : ~Has(<<>>, t)
    BY EmptyOwned DEF Has, Within
  <2>2. ~Asked(s)' /\ ~Greeting(s)' /\ ~Required(s)' /\ ~Confirming(s)' /\ ~Completed(s)'
    BY <1>5, <2>1 DEF Fields, Asked, Greeting, Required, Confirming, Completed
  <2>3. ~Proving(s)' /\ ~Served(s)'
    BY <1>5 DEF SecretInv, SocketInv, StillFresh, Proving, Served, Fields
  <2>4. ~Awaiting(s)' /\ net'[s].owner = b
    BY <1>3, <1>5 DEF Awaiting, Fields
  <2> QED BY <2>2, <2>3, <2>4, PhaseClosed DEF HelloDue, CodeDue
<1>7. RejectInv'
  BY <1>2, <1>3 DEF PhasesInv, RejectInv, Rejects
<1> QED BY <1>4, <1>6, <1>7 DEF PhasesInv

\* The other connections of a step that leaves them alone.
LEMMA OthersKept ==
    ASSUME ConnsTyped, NetOK, PhasesInv, UNCHANGED serverVars, NEW b \in Bridges,
           \A a \in Bridges : a # b => cl'[a] = cl[a] /\ writes'[a] = writes[a],
           NEW s \in Sockets, NEW d, net' = [net EXCEPT ![s] = d],
           NEW t \in Sockets, t # s, ~(net[t].owner = b /\ Dialled(net[t])),
           \A a \in Bridges : \A p \in proofs'[a] : p.nonce = t => p \in proofs[a]
    PROVE  PhaseInv(t)'
<1>1. net'[t] = net[t] /\ net[t] \in Conn
  BY DEF ConnsTyped
<1>2. Turns(net[t], net'[t], {}, {}) /\ Holds(net[t], net'[t])
  BY <1>1, TurnsSides, HoldsSides
<1> QED BY <1>1, <1>2, ClientPhaseKept

\* A connection whose hello is due, and still is or has just left.
LEMMA HelloGoesOn ==
    ASSUME PhasesInv, UNCHANGED serverVars, UNCHANGED <<cl, writes>>, NEW s \in Sockets, HelloDue(s),
           NEW U, Turns(net[s], net'[s], U, {}), \A m \in U : m.type = "client_hello",
           Dialled(net[s]) => (Rejects(net[s].owner) => ~Offered(s)')
    PROVE  PhaseInv(s)'
<1>1. PICK b : b = net[s].owner
  OBVIOUS
<1> SUFFICES ASSUME Dialled(net'[s])
             PROVE  /\ net'[s].owner = b /\ ~CodeDue(s)' /\ ~Decided(s)'
                    /\ Rejects(b)' => ~Offered(s)'
  BY PhaseOpen
<1>2. /\ Dialled(net[s]) /\ net'[s].owner = b
      /\ Thins(net[s].up, net'[s].up, U) /\ Thins(net[s].down, net'[s].down, {})
  BY <1>1 DEF Turns
<1>3. ~CodeDue(s) /\ ~Decided(s)
  BY <1>2 DEF PhasesInv, PhaseInv, CodePhase
<1>4. ~Confirming(s)'
  BY <1>2, <1>3, AddedOnly DEF CodeDue, Confirming
<1>5. ~Required(s)' /\ ~Answered(s)'
  BY <1>2, <1>3, NothingAdds DEF CodeDue, Decided, Required, Answered, Decisions
<1>6. ~Awaiting(s)' /\ ~Served(s)'
  BY <1>1, <1>2, <1>3 DEF CodeDue, Decided, Awaiting, Served, serverVars
<1>7. Rejects(b)' => ~Offered(s)'
  BY <1>1, <1>2 DEF Rejects
<1> QED BY <1>2, <1>4, <1>5, <1>6, <1>7 DEF CodeDue, Decided

LEMMA ChallengeKeepsPhases ==
    ASSUME ConnsTyped, ClientTyped, NetOK, SecretInv, TokensInv, PhasesInv, UNCHANGED serverVars,
           NEW b \in Bridges, NEW s \in Sockets, HandleServerChallenge(b, s)
    PROVE  PhasesInv'
<1> DEFINE m == Head(net[s].down)
           taken == TakenDown(s)
           h == Hello(b, None)
<1>1. /\ net[s] \in Conn /\ net[s].owner = b /\ net[s].cli = "open" /\ net[s].down # <<>>
      /\ m.type = "server_challenge" /\ UNCHANGED <<cl, writes>>
  BY DEF HandleServerChallenge, Receives, DataDown, ConnsTyped
<1>2. m \in Within(net[s].down)
  BY <1>1, ConnQueues, WithinFacts
<1>3. m.nonce = s /\ cl[b].ws = s
  <2>1. Told(s, m)
    BY <1>2 DEF SecretInv, SocketInv, AllTold
  <2> QED BY <1>1, <2>1, OwnSocket DEF Told, ServerChallenge, Dialled
<1>4. Asked(s) /\ HelloDue(s) /\ ~Proving(s) /\ ~Greeting(s)
  <2>1. Asked(s)
    BY <1>1, <1>2 DEF Asked, Has
  <2> QED BY <1>1, <2>1 DEF TokensInv, TokenInv, Dialled, HelloDue
<1>5. taken \in Conn /\ Turns(net[s], taken, {}, {})
  BY <1>1, ConnKept, TurnsSides DEF TakenDown
<1> HIDE DEF taken, m
<1>6. RejectInv'
  BY <1>1 DEF PhasesInv, RejectInv, Rejects
<1>7. ASSUME NEW d, net' = [net EXCEPT ![s] = d], PhaseInv(s)',
             \A a \in Bridges : \A p \in proofs'[a] : p.nonce # s => p \in proofs[a]
      PROVE  PhasesInv'
  <2>1. \A t \in Sockets : t # s => ~(net[t].owner = b /\ Dialled(net[t]))
    BY <1>3, OwnSocket
  <2>2. \A t \in Sockets : t # s => PhaseInv(t)'
    BY <1>1, <1>7, <2>1, OthersKept
  <2> QED BY <1>6, <1>7, <2>2 DEF PhasesInv
<1>8. CASE cl[b].secret = None
  <2> DEFINE d == CliSend(taken, h)
             U == {h}
  <2>1. net' = [net EXCEPT ![s] = d] /\ UNCHANGED proofs
    <3>1. SendOn(Takes(s), b, h) = [Takes(s) EXCEPT ![s] = CliSend(Takes(s)[s], h)]
      BY <1>3, NoneAssumption DEF SendOn
    <3>2. Takes(s) = [net EXCEPT ![s] = taken] /\ Takes(s)[s] = taken
      BY DEF Takes, taken, ConnsTyped
    <3>3. SendOn(Takes(s), b, h) = [net EXCEPT ![s] = d]
      BY <3>1, <3>2
    <3> QED BY <1>8, <3>3 DEF HandleServerChallenge
  <2>2. h.type = "client_hello" /\ h.proof = None
    BY DEF Hello
  <2>3. Turns(taken, d, U, {}) /\ net'[s] = d
    BY <1>5, <2>1, TurnsSides DEF ConnsTyped
  <2> HIDE DEF d, h
  <2>4. Turns(net[s], net'[s], U, {}) /\ \A x \in U : x.type = "client_hello" /\ x.proof = None
    BY <1>5, <2>2, <2>3, TurnsThen
  <2> HIDE DEF U
  <2>5. PhaseInv(s)'
    <3>1. CASE Dialled(net'[s])
      <4>1. Within(net'[s].up) \subseteq Within(net[s].up) \cup U \cup {CloseFrame}
        BY <2>4, <3>1 DEF Turns, Thins
      <4>2. \A x \in Within(net'[s].up) : x.type = "client_hello" => x.proof = None
        BY <1>4, <2>4, <4>1, CloseIsClose DEF Greeting, Has
      <4>3. ~Offered(s)'
        BY <1>4, <2>1, <4>2 DEF Offered, Proving
      <4> QED BY <1>1, <1>4, <2>4, <4>3, HelloGoesOn
    <3>2. CASE ~Dialled(net'[s])
      BY <3>2 DEF PhaseInv
    <3> QED BY <3>1, <3>2
  <2> QED BY <1>7, <2>1, <2>5
<1>9. CASE cl[b].secret # None
  <2> DEFINE q == [secret |-> cl[b].secret, nonce |-> s]
             U == {}
  <2>1. net' = [net EXCEPT ![s] = taken] /\ proofs' = [proofs EXCEPT ![b] = @ \cup {q}]
    BY <1>3, <1>9 DEF HandleServerChallenge, Takes, taken, m
  <2>2. q.nonce = s
    OBVIOUS
  <2> HIDE DEF q
  <2>3. \A a \in Bridges : \A p \in proofs'[a] : p.nonce # s => p \in proofs[a]
    BY <2>1, <2>2 DEF ClientTyped
  <2>4. ~Rejects(net[s].owner)
    BY <1>1, <1>9 DEF PhasesInv, RejectInv
  <2>5. Turns(net[s], net'[s], U, {}) /\ \A x \in U : x.type = "client_hello"
    BY <1>5, <2>1 DEF ConnsTyped
  <2> HIDE DEF U
  <2>6. PhaseInv(s)'
    BY <1>1, <1>4, <2>4, <2>5, HelloGoesOn
  <2> QED BY <1>7, <2>1, <2>3, <2>6
<1> QED BY <1>8, <1>9

LEMMA ProofKeepsPhases ==
    ASSUME "late proof" \notin Disturbances, ConnsTyped, ClientTyped, NetOK, SecretInv, PhasesInv,
           UNCHANGED serverVars, NEW b \in Bridges, NEW p \in proofs[b], ProofReady(b, p),
           IF cl[b].ws \in {None, p.nonce} THEN Calm ELSE Disturbs("late proof")
    PROVE  PhasesInv'
<1>1. /\ UNCHANGED <<cl, writes>> /\ p \in Proofs /\ cl[b].ws \in {None, p.nonce}
      /\ proofs' = [proofs EXCEPT ![b] = @ \ {p}]
  BY DEF ProofReady, Disturbs, ClientTyped
<1>2. \A a \in Bridges : \A q \in proofs'[a] : q \in proofs[a]
  BY <1>1 DEF ClientTyped
<1>3. RejectInv'
  BY <1>1 DEF PhasesInv, RejectInv, Rejects
<1>4. CASE cl[b].ws = None
  <2>1. net' = net
    BY <1>4 DEF ProofReady, SendOn
  <2>2. \A s \in Sockets : /\ Turns(net[s], net'[s], {}, {}) /\ Holds(net[s], net'[s])
                           /\ ~(net[s].owner = b /\ Dialled(net'[s]))
    BY <1>4, <2>1, TurnsSides, HoldsSides, OwnSocket, NoneAssumption DEF ConnsTyped
  <2>3. Rejects(b)' => cl'[b].secret = None
    BY <1>3 DEF RejectInv
  <2> QED BY <1>1, <1>2, <2>2, <2>3, QuietKeepsPhases
<1>5. CASE cl[b].ws # None
  <2>1. PICK s \in Sockets : s = p.nonce /\ cl[b].ws = s
    BY <1>1, <1>5 DEF Proofs
  <2> DEFINE h == Hello(b, p)
             d == CliSend(net[s], h)
             U == {h}
  <2>2. net' = [net EXCEPT ![s] = d] /\ net'[s] = d
    BY <1>5, <2>1 DEF ProofReady, SendOn, ConnsTyped
  <2>3. Turns(net[s], net'[s], U, {}) /\ \A x \in U : x.type = "client_hello"
    <3>1. h.type = "client_hello"
      BY DEF Hello
    <3> HIDE DEF h
    <3>2. Turns(net[s], net'[s], {h}, {})
      BY <2>2, TurnsSides DEF ConnsTyped
    <3> QED BY <3>1, <3>2
  <2> HIDE DEF h, d, U
  <2>4. Proving(s) /\ HelloDue(s) /\ Offered(s)
    BY <2>1 DEF Proving, HelloDue, Offered
  <2>5. Dialled(net[s]) => ~Rejects(net[s].owner)
    BY <2>4 DEF PhasesInv, PhaseInv, Unpairing
  <2>6. PhaseInv(s)'
    BY <1>1, <2>3, <2>4, <2>5, HelloGoesOn
  <2>7. \A t \in Sockets : t # s => ~(net[t].owner = b /\ Dialled(net[t]))
    BY <2>1, OwnSocket
  <2>8. \A t \in Sockets : t # s => PhaseInv(t)'
    BY <1>1, <1>2, <2>2, <2>7, OthersKept
  <2> QED BY <1>3, <2>6, <2>8 DEF PhasesInv
<1> QED BY <1>4, <1>5

LEMMA MessageKeepsPhases ==
    ASSUME ConnsTyped, ClientTyped, NetOK, SecretInv, TokensInv, PhasesInv, UNCHANGED serverVars,
           NEW b \in Bridges, NEW s \in Sockets, HandleServerMessage(b, s),
           ~HandleServerChallenge(b, s)
    PROVE  PhasesInv'
<1> DEFINE c == cl[b]
           m == Head(net[s].down)
           taken == TakenDown(s)
<1>1. /\ net[s] \in Conn /\ net[s].owner = b /\ net[s].cli = "open" /\ net[s].down # <<>>
      /\ m.type \in {"pairing_required", "pairing_complete", "auth_accepted", "auth_rejected"}
      /\ net' = [net EXCEPT ![s] = taken] /\ UNCHANGED proofs
  BY DEF HandleServerMessage, HandlePairingRequired, HandlePairingComplete,
     HandleAuthAccepted, HandleAuthRejected, Receives, DataDown, ConnsTyped, Takes
<1>2. /\ m \in Within(net[s].down) /\ m \in DownMessages /\ cl[b].ws = s
      /\ Has(net[s].down, m.type) /\ net[s].down \in Seq(DownMessages)
  <2>1. m \in Within(net[s].down) /\ Within(net[s].down) \subseteq DownMessages
    BY <1>1, ConnQueues, WithinFacts
  <2> QED BY <1>1, <2>1, OwnSocket, ConnQueues DEF Dialled, Has
<1>3. Turns(net[s], taken, {}, {}) /\ net'[s] = taken /\ Dialled(net[s])
  BY <1>1, TurnsSides DEF TakenDown, ConnsTyped, Dialled
<1>4. m.type # "auth_accepted" => Holds(net[s], taken)
  BY <1>1, HoldsSides DEF TakenDown
<1>5. Fields(taken, b, "open", net[s].srv, net[s].up, Tail(net[s].down), net[s].lost)
  BY <1>1, StepFields DEF TakenDown
<1>6. Thins(net[s].down, taken.down, {}) /\ taken.up = net[s].up
  BY <1>1, <1>2, <1>5, ThinsQueue DEF Fields
<1>7. c \in ClientState /\ cl \in [Bridges -> ClientState] /\ writes \in [Bridges -> Seq(Write)]
  BY DEF ClientTyped
<1>8. TokenInv(s) /\ CodePhase(s) /\ (Rejects(b) => Unpairing(s)) /\ (Served(s) => Showing(s))
  BY <1>1, <1>3 DEF TokensInv, PhasesInv, PhaseInv
<1>9. \A t \in Sockets : t # s => ~(net[t].owner = b /\ Dialled(net[t]))
  BY <1>2, OwnSocket
<1> HIDE DEF taken, m
<1>10. \A t \in Sockets : t # s => net'[t] = net[t]
  BY <1>1 DEF ConnsTyped
<1>11. ASSUME \A a \in Bridges : a # b => cl'[a] = cl[a] /\ writes'[a] = writes[a],
              Rejects(b)' => cl'[b].secret = None, PhaseInv(s)'
       PROVE  PhasesInv'
  <2>1. \A t \in Sockets : t # s => PhaseInv(t)'
    BY <1>1, <1>9, <1>11, OthersKept
  <2>2. RejectInv'
    BY <1>11 DEF PhasesInv, RejectInv, Rejects
  <2> QED BY <1>11, <2>1, <2>2 DEF PhasesInv
\* A message after which the client shows what it showed
<1>12. ASSUME m.type # "auth_accepted",
              \A a \in Bridges : a # b => cl'[a] = cl[a] /\ writes'[a] = writes[a],
              cl'[b].auth # "pairing-required" \/ cl'[b].auth = c.auth, Rejects(b)' => Rejects(b),
              Served(s) /\ Showing(s) /\ Shown(b) => Shown(b)', Rejects(b)' => cl'[b].secret = None
       PROVE  PhasesInv'
  <2>1. \A t \in Sockets : Turns(net[t], net'[t], {}, {}) /\ Holds(net[t], net'[t])
    BY <1>1, <1>3, <1>4, <1>12, OneTurns, OneHolds
  <2>2. \A t \in Sockets : net[t].owner = b /\ Dialled(net'[t]) => t = s
    BY <1>9, <1>10
  <2> QED BY <1>1, <1>12, <2>1, <2>2, QuietKeepsPhases
<1>13. CASE HandlePairingRequired(b, s)
  <2> DEFINE d == [c EXCEPT !.pairingId = m.id, !.auth = "pairing-required"]
  <2>1. cl' = [cl EXCEPT ![b] = d] /\ UNCHANGED writes /\ m.type = "pairing_required"
    BY <1>13 DEF HandlePairingRequired, Receives, m
  <2>2. d.secret = c.secret
    BY <1>7 DEF ClientState
  <2> HIDE DEF d
  <2>3. \A a \in Bridges : a # b => cl'[a] = cl[a] /\ writes'[a] = writes[a]
    BY <1>7, <2>1
  <2>4. Rejects(b)' => cl'[b].secret = None
    BY <1>7, <2>1, <2>2 DEF Rejects, PhasesInv, RejectInv
  <2>5. Required(s) /\ CodeDue(s) /\ ~HelloDue(s) /\ ~Decided(s) /\ ~Confirming(s)
    BY <1>2, <1>8, <2>1 DEF Required, CodeDue, CodePhase
  <2>6. ~Required(s)'
    <3>1. ~Has(Tail(net[s].down), "pairing_required")
      BY <1>1, <1>2, <1>8, <2>1, ThinsQueue DEF CodePhase, m
    <3> QED BY <1>3, <1>5, <3>1 DEF Required, Fields
  <2>7. ~HelloDue(s)' /\ ~Answered(s)'
    BY <1>1, <1>3, <1>6, <2>5, NothingAdds
       DEF HelloDue, Asked, Proving, Greeting, Decided, Answered, Decisions
  <2>8. ~Confirming(s)' /\ ~Served(s)' /\ net'[s].owner = b /\ net'[s].cli = "open"
    BY <1>3, <1>5, <2>5 DEF Decided, Served, Confirming, Fields, serverVars
  <2>9. Once(net'[s].down, "pairing_required") /\ Once(net'[s].up, "pairing_confirm")
    BY <2>6, <2>8, NotHas DEF Required, Confirming
  <2>10. PhaseInv(s)'
    BY <2>6, <2>7, <2>8, <2>9, PhaseAsked DEF Decided
  <2> QED BY <1>11, <2>3, <2>4, <2>10
<1>14. CASE HandlePairingComplete(b, s)
  <2> DEFINE w == [secret |-> m.secret, rejects |-> FALSE]
             d == [c EXCEPT !.secret = m.secret, !.granted = TRUE]
  <2>1. /\ cl' = [cl EXCEPT ![b] = d] /\ writes' = [writes EXCEPT ![b] = Append(writes[b], w)]
        /\ m.type = "pairing_complete"
    BY <1>14 DEF HandlePairingComplete, Receives, m
  <2>2. d.auth = c.auth /\ d.granted = TRUE /\ d.status = c.status /\ w.rejects = FALSE
    BY <1>7 DEF ClientState
  <2> HIDE DEF d, w
  <2>3. \A a \in Bridges : a # b => cl'[a] = cl[a] /\ writes'[a] = writes[a]
    BY <1>7, <2>1
  <2>4. ~Rejects(b)
    BY <1>2, <1>8, <2>1 DEF Unpairing, Completed
  <2>5. ~Rejects(b)'
    <3>1. writes'[b] = Append(writes[b], w) /\ writes[b] \in Seq(Write)
      BY <1>7, <2>1
    <3>2. Within(writes'[b]) = Within(writes[b]) \cup {w}
      BY <3>1, WithinFacts
    <3> QED BY <2>2, <2>4, <3>2 DEF Rejects
  <2>6. cl'[b] = d
    BY <1>7, <2>1
  <2>7. Shown(b) => Shown(b)'
    BY <2>2, <2>6 DEF Shown
  <2> QED BY <1>12, <2>1, <2>2, <2>3, <2>5, <2>6, <2>7
<1>15. CASE HandleAuthAccepted(b, s)
  <2> DEFINE d == [c EXCEPT !.pairingId = None, !.granted = TRUE,
                            !.auth = "authenticated", !.status = "connected"]
  <2>1. cl' = [cl EXCEPT ![b] = d] /\ UNCHANGED writes
    BY <1>15 DEF HandleAuthAccepted
  <2>2. /\ d.secret = c.secret /\ d.auth = "authenticated"
        /\ d.status = "connected" /\ d.granted
    BY <1>7 DEF ClientState
  <2> HIDE DEF d
  <2>3. cl'[b] = d /\ \A a \in Bridges : a # b => cl'[a] = cl[a] /\ writes'[a] = writes[a]
    BY <1>7, <2>1
  <2>4. Rejects(b)' => Rejects(b) /\ cl'[b].secret = None
    BY <2>1, <2>2, <2>3 DEF Rejects, PhasesInv, RejectInv
  <2>5. Shown(b)' /\ cl'[b].auth # "pairing-required"
    BY <2>2, <2>3 DEF Shown
  <2>6. Turns(net[s], net'[s], {}, {}) /\ net'[s].cli = "open"
    BY <1>3, <1>5 DEF Fields
  <2>7. PhaseInv(s)'
    BY <1>1, <2>3, <2>4, <2>5, <2>6, ClientPhaseKept
  <2> QED BY <1>11, <2>3, <2>4, <2>7
<1>16. CASE HandleAuthRejected(b, s) /\ ~m.reset
  <2> DEFINE d == [c EXCEPT !.auth = "rejected"]
  <2>1. cl' = [cl EXCEPT ![b] = d] /\ UNCHANGED writes /\ m.type = "auth_rejected"
    BY <1>16 DEF HandleAuthRejected, Receives, m
  <2>2. d.secret = c.secret /\ d.auth = "rejected"
    BY <1>7 DEF ClientState
  <2> HIDE DEF d
  <2>3. cl'[b] = d /\ \A a \in Bridges : a # b => cl'[a] = cl[a] /\ writes'[a] = writes[a]
    BY <1>7, <2>1
  <2>4. Rejects(b)' => Rejects(b) /\ cl'[b].secret = None
    BY <2>1, <2>2, <2>3 DEF Rejects, PhasesInv, RejectInv
  <2>5. ~Showing(s)
    BY <1>2, <2>1 DEF Showing
  <2> QED BY <1>12, <2>1, <2>2, <2>3, <2>4, <2>5
<1>17. CASE HandleAuthRejected(b, s) /\ m.reset
  <2> DEFINE d == [c EXCEPT !.secret = None]
  <2>1. /\ cl' = [cl EXCEPT ![b] = d] /\ m.type = "auth_rejected"
        /\ \E w : writes' = [writes EXCEPT ![b] = w]
    BY <1>17 DEF HandleAuthRejected, Receives, m
  <2>2. d.secret = None /\ d.auth = c.auth
    BY <1>7 DEF ClientState
  <2> HIDE DEF d
  <2>3. cl'[b] = d /\ \A a \in Bridges : a # b => cl'[a] = cl[a] /\ writes'[a] = writes[a]
    BY <1>7, <2>1
  <2>4. Dismissed(s)
    BY <1>2, <1>17, <2>1, RejectionNamed DEF Dismissed
  <2>5. ~HelloDue(s) /\ ~Completed(s)
    BY <1>3, <1>8, <2>4 DEF TokenInv, Heard
  <2>6. ~CodeDue(s) /\ ~Served(s)
    BY <1>2, <1>8, <2>1 DEF CodePhase, Decided, Answered, Decisions, Showing
  <2>7. ~HelloDue(s)' /\ ~Completed(s)' /\ ~Required(s)' /\ ~Confirming(s)'
    BY <1>1, <1>3, <1>6, <2>5, <2>6, NothingAdds
       DEF HelloDue, Asked, Proving, Greeting, Completed, CodeDue, Required, Confirming
  <2>8. ~Awaiting(s)' /\ ~Served(s)' /\ net'[s].owner = b
    BY <1>1, <1>3, <1>5, <2>2, <2>3, <2>6 DEF CodeDue, Awaiting, Served, Fields, serverVars
  <2>9. PhaseInv(s)'
    BY <2>7, <2>8, PhaseClosed DEF CodeDue
  <2> QED BY <1>11, <2>2, <2>3, <2>9
<1> QED BY <1>13, <1>14, <1>15, <1>16, <1>17 DEF HandleServerMessage

LEMMA ConfirmingKeepsPhases ==
    ASSUME ConnsTyped, ClientTyped, NetOK, ClientsOK, SecretInv, PhasesInv, UNCHANGED serverVars,
           NEW b \in Bridges, NEW code, ConfirmPairing(b, code), Awaited(b)
    PROVE  PhasesInv'
<1> DEFINE c == cl[b]
           m == [type |-> "pairing_confirm", inst |-> b, id |-> c.pairingId, code |-> code]
           d == [c EXCEPT !.auth = "authenticating"]
           U == {m}
<1>1. /\ c \in ClientState /\ cl \in [Bridges -> ClientState]
      /\ c.auth = "pairing-required" /\ writes[b] = <<>>
      /\ cl' = [cl EXCEPT ![b] = d] /\ UNCHANGED <<proofs, writes>>
  BY DEF ClientTyped, ConfirmPairing, Awaited
<1>2. PICK s \in Sockets : s = c.ws /\ net[s].cli = "open" /\ net[s] \in Conn
  BY <1>1 DEF ConfirmPairing, CliOpen, ClientState, ConnsTyped
<1>3. net' = [net EXCEPT ![s] = CliSend(net[s], m)] /\ net'[s] = CliSend(net[s], m)
  BY <1>2, NoneAssumption DEF ConfirmPairing, SendOn, ConnsTyped
<1>4. m.type = "pairing_confirm" /\ d.auth = "authenticating" /\ d.secret = c.secret
  BY <1>1 DEF ClientState
<1> HIDE DEF m, d
<1>5. Turns(net[s], net'[s], U, {}) /\ \A x \in U : x.type = "pairing_confirm"
  BY <1>2, <1>3, <1>4, TurnsSides
<1> HIDE DEF U
<1>6. /\ cl'[b] = d /\ ~Rejects(b) /\ ~Rejects(b)'
      /\ \A a \in Bridges : a # b => cl'[a] = cl[a] /\ writes'[a] = writes[a]
  <2>1. Within(<<>>) = {}
    BY EmptyOwned DEF Within
  <2> QED BY <1>1, <2>1 DEF Rejects
<1>7. ASSUME net[s].owner = b
      PROVE  PhaseInv(s)'
  <2> SUFFICES ASSUME Dialled(net'[s])
               PROVE  /\ net'[s].owner = b /\ ~HelloDue(s)' /\ ~Decided(s)'
                      /\ Once(net'[s].down, "pairing_required") /\ Once(net'[s].up, "pairing_confirm")
                      /\ ~Required(s)' /\ ~Awaiting(s)' /\ ~Rejects(b)'
    BY PhaseAsked
  <2>1. /\ Dialled(net[s]) /\ net'[s].owner = b
        /\ Thins(net[s].up, net'[s].up, U) /\ Thins(net[s].down, net'[s].down, {})
    BY <1>5, <1>7 DEF Turns
  <2>2. ~HelloDue(s) /\ ~Decided(s) /\ ~Required(s) /\ ~Confirming(s)
    BY <1>1, <1>7, <2>1 DEF PhasesInv, PhaseInv, CodePhase, CodeDue, Awaiting
  <2>3. ~Required(s)' /\ ~Asked(s)' /\ ~Answered(s)'
    BY <2>1, <2>2, NothingAdds DEF HelloDue, Decided, Required, Asked, Answered, Decisions
  <2>4. ~Greeting(s)'
    BY <1>5, <2>1, <2>2, AddedOnly DEF HelloDue, Greeting
  <2>5. ~Proving(s)' /\ ~Served(s)' /\ ~Awaiting(s)'
    BY <1>1, <1>4, <1>6, <2>1, <2>2 DEF HelloDue, Decided, Proving, Served, Awaiting, serverVars
  <2>6. Once(net'[s].up, "pairing_confirm")
    BY <2>1, <2>2, NotHas DEF Thins, Confirming
  <2>7. Once(net'[s].down, "pairing_required")
    BY <2>3, NotHas DEF Required
  <2> QED BY <1>6, <2>1, <2>3, <2>4, <2>5, <2>6, <2>7 DEF HelloDue, Decided
<1>8. net[s].owner = b
  BY <1>2, NoneAssumption DEF ClientsOK, MayHold
<1>9. \A t \in Sockets : t # s => PhaseInv(t)'
  <2>1. \A t \in Sockets : t # s => ~(net[t].owner = b /\ Dialled(net[t]))
    BY <1>2, OwnSocket
  <2> QED BY <1>1, <1>3, <1>6, <2>1, OthersKept
<1>10. RejectInv'
  BY <1>6 DEF PhasesInv, RejectInv, Rejects
<1> QED BY <1>7, <1>8, <1>9, <1>10 DEF PhasesInv

LEMMA OneTimerLess ==
    \A n \in 0..MaxTimers : n > 0 => n - 1 \in 0..MaxTimers
<1>1. MaxTimers \in Nat
  BY ClientAssumption DEF ClientAssumption
<1> QED BY <1>1

LEMMA ClientKeepsPhases ==
    ASSUME "late proof" \notin Disturbances, "reconnect" \notin Disturbances,
           "hasty" \notin Disturbances,
           ConnsTyped, ClientTyped, NetOK, ClientsOK, NewIsIdle, SecretInv, SecretInv', TokensInv,
           DownInv, PhasesInv, NEW b \in Bridges, ClientStep(b)
    PROVE  PhasesInv'
<1> DEFINE c == cl[b]
<1>1. /\ UNCHANGED serverVars /\ (c.tracked => c.live > 0)
      /\ c \in ClientState /\ cl \in [Bridges -> ClientState] /\ net \in [Sockets -> Conn]
  BY DEF ClientStep, serverVars, ClientTyped, TimersTracked, ConnsTyped
<1>2. c.ws # None => c.ws \in Sockets /\ net[c.ws].owner = b
  BY DEF ClientsOK, MayHold
<1>3. \A s \in Sockets : net[s].owner = b /\ Dialled(net[s]) => c.ws = s /\ IsLive(c.ws)
  BY OwnSocket, NoneAssumption DEF IsLive, Dialled
<1>4. \A s \in Sockets : /\ Turns(net[s], net[s], {}, {}) /\ Holds(net[s], net[s])
                         /\ net[s] \in Conn
  BY <1>1, TurnsSides, HoldsSides
<1>5. Rejects(b) => c.secret = None
  BY DEF PhasesInv, RejectInv
\* A step that dials from where no socket of the client is live
<1>6. ASSUME NEW d \in ClientState, d.secret = c.secret, Connect(b, d, net),
             UNCHANGED <<proofs, writes>>, ~IsLive(c.ws)
      PROVE  PhasesInv'
  <2>1. \A s \in Sockets : net[s].owner = b => ~Dialled(net[s])
    BY <1>3, <1>6
  <2> QED BY <1>1, <1>6, <2>1, ConnectKeepsPhases
\* A step of the client's timers
<1>7. ASSUME NEW d, cl' = [cl EXCEPT ![b] = d], d.secret = c.secret, d.auth = c.auth,
             d.status = c.status, d.granted = c.granted, UNCHANGED <<net, proofs, writes>>
      PROVE  PhasesInv'
  <2>1. cl'[b] = d /\ \A a \in Bridges : a # b => cl'[a] = cl[a] /\ writes'[a] = writes[a]
    BY <1>1, <1>7
  <2>2. /\ Rejects(b)' => Rejects(b) /\ cl'[b].secret = None
        /\ Shown(b) => Shown(b)'
    BY <1>5, <1>7, <2>1 DEF Rejects, Shown
  <2> QED BY <1>1, <1>4, <1>7, <2>1, <2>2, QuietKeepsPhases
\* A step that ends the client's sockets
<1>8. ASSUME NEW d, cl' = [cl EXCEPT ![b] = d],
             \A a \in Bridges : a # b => writes'[a] = writes[a],
             Rejects(b)' => Rejects(b) /\ d.secret = c.secret,
             \A a \in Bridges : \A p \in proofs'[a] : p \in proofs[a],
             \A s \in Sockets : /\ Turns(net[s], net'[s], {}, {}) /\ Holds(net[s], net'[s])
                                /\ net[s].owner = b => ~Dialled(net'[s])
      PROVE  PhasesInv'
  <2>1. cl'[b] = d /\ \A a \in Bridges : a # b => cl'[a] = cl[a] /\ writes'[a] = writes[a]
    BY <1>1, <1>8
  <2>2. Rejects(b)' => cl'[b].secret = None
    BY <1>5, <1>8, <2>1
  <2> QED BY <1>1, <1>8, <2>1, <2>2, QuietKeepsPhases
<1>9. CASE Start(b)
  <2> DEFINE d == [c EXCEPT !.runtime = "running"]
  <2>1. c.ws = None
    BY <1>9 DEF Start, NewIsIdle, Idle
  <2>2. d \in ClientState /\ d.secret = c.secret
    BY <1>1 DEF ClientState, RuntimeStates
  <2> QED BY <1>6, <1>9, <2>1, <2>2 DEF Start, IsLive
<1>10. /\ Canceled(c) \in ClientState /\ Canceled(c).secret = c.secret
       /\ Canceled(c).auth = c.auth /\ Canceled(c).status = c.status
       /\ Canceled(c).granted = c.granted
       /\ Disconnected(c) \in ClientState /\ Disconnected(c).secret = c.secret
  <2>1. /\ Canceled(c) \in ClientState /\ Canceled(c).secret = c.secret
        /\ Canceled(c).auth = c.auth /\ Canceled(c).status = c.status
        /\ Canceled(c).granted = c.granted
    BY <1>1, ClientRecordKept DEF Canceled, ClientState
  <2> QED BY <2>1 DEF Disconnected, Offline, ClientState, Statuses, AuthStatuses
<1>11. CASE NudgeReconnect(b)
  <2>1. CASE IsLive(c.ws)
    BY <1>7, <1>10, <1>11, <2>1 DEF NudgeReconnect
  <2>2. CASE ~IsLive(c.ws)
    BY <1>6, <1>10, <1>11, <2>2 DEF NudgeReconnect
  <2> QED BY <2>1, <2>2
<1>12. CASE RetryTimerFires(b)
  <2> DEFINE d == [c EXCEPT !.live = @ - 1, !.tracked = FALSE]
  <2>1. /\ IF IsLive(c.ws) THEN cl' = [cl EXCEPT ![b] = d] /\ UNCHANGED net ELSE Connect(b, d, net)
        /\ UNCHANGED <<proofs, writes>>
    BY <1>12 DEF RetryTimerFires
  <2>2. /\ d \in ClientState /\ d.secret = c.secret /\ d.auth = c.auth
        /\ d.status = c.status /\ d.granted = c.granted
    <3>1. c.live > 0 /\ c.live \in 0..MaxTimers
      BY <1>1, <1>12 DEF RetryTimerFires, ClientState
    <3>2. c.live - 1 \in 0..MaxTimers
      BY <3>1, OneTimerLess
    <3> QED BY <1>1, <3>2 DEF ClientState
  <2> HIDE DEF d
  <2> QED BY <1>6, <1>7, <2>1, <2>2
<1>13. CASE Shutdown(b)
  <2> DEFINE e == Disconnected(c)
             d == [e EXCEPT !.runtime = "down"]
  <2>1. /\ cl' = [cl EXCEPT ![b] = d] /\ net' = NetAfterDisconnect(b)
        /\ UNCHANGED <<proofs, writes>>
    BY <1>13 DEF Shutdown
  <2> HIDE DEF e
  <2>2. d.secret = c.secret
    BY <1>10 DEF ClientState, e
  <2> HIDE DEF d
  <2>3. ASSUME NEW s \in Sockets
        PROVE  /\ Turns(net[s], net'[s], {}, {}) /\ Holds(net[s], net'[s])
               /\ net[s].owner = b => ~Dialled(net'[s])
    <3>1. CASE c.ws = s
      <4>1. net'[s] = CliClose(net[s])
        BY <1>1, <2>1, <3>1, NoneAssumption DEF NetAfterDisconnect
      <4>2. net[s] \in Conn
        BY <1>4
      <4>3. ~Dialled(CliClose(net[s]))
        BY <4>2, CloseFields DEF Fields, Dialled
      <4> QED BY <4>1, <4>2, <4>3, TurnsSides, HoldsSides
    <3>2. CASE c.ws # s
      <4>1. net'[s] = net[s]
        BY <1>1, <2>1, <3>2 DEF NetAfterDisconnect
      <4> QED BY <1>3, <1>4, <3>2, <4>1
    <3> QED BY <3>1, <3>2
  <2>4. Rejects(b)' => Rejects(b)
    BY <2>1 DEF Rejects
  <2> QED BY <1>8, <2>1, <2>2, <2>3, <2>4
<1>14. CASE Reload(b)
  <2>1. /\ cl' = [cl EXCEPT ![b] = NewClient(stored[b])] /\ proofs' = [proofs EXCEPT ![b] = {}]
        /\ writes' = [writes EXCEPT ![b] = <<>>]
        /\ \A s \in Sockets : net'[s] = IF net[s].owner = b /\ net[s].cli # "closed"
                                         THEN CliEnded(Broken(net[s])) ELSE net[s]
    BY <1>14 DEF Reload
  <2>2. ASSUME NEW s \in Sockets
        PROVE  /\ Turns(net[s], net'[s], {}, {}) /\ Holds(net[s], net'[s])
               /\ net[s].owner = b => ~Dialled(net'[s])
    <3> DEFINE e == Broken(net[s])
    <3>1. e \in Conn /\ Turns(net[s], e, {}, {}) /\ Holds(net[s], e)
      BY <1>4, ConnKept, TurnsSides, HoldsSides
    <3> HIDE DEF e
    <3>2. Turns(net[s], CliEnded(e), {}, {}) /\ Holds(net[s], CliEnded(e))
      BY <3>1, TurnsSides, TurnsThen, HoldsSides, HoldsTwice
    <3>3. ~Dialled(CliEnded(e))
      BY <3>1, EndFields, UnusedFields DEF Fields, Dialled
    <3>4. net[s].cli = "closed" => ~Dialled(net[s])
      BY DEF Dialled
    <3> QED BY <1>4, <2>1, <3>2, <3>3, <3>4 DEF e
  <2>3. /\ \A a \in Bridges : \A p \in proofs'[a] : p \in proofs[a]
        /\ \A a \in Bridges : a # b => writes'[a] = writes[a]
        /\ writes'[b] = <<>>
    BY <2>1 DEF ClientTyped
  <2>4. ~Rejects(b)'
    BY <2>3, EmptyOwned DEF Rejects, Within
  <2> QED BY <1>8, <2>1, <2>2, <2>3, <2>4
<1>15. CASE \E s \in Sockets : OnOpen(b, s)
  <2>1. PICK s \in Sockets : OnOpen(b, s)
    BY <1>15
  <2>2. /\ net[s].cli = "connecting" /\ net[s].owner = b /\ UNCHANGED <<cl, proofs, writes>>
        /\ net' = [net EXCEPT ![s] = [net[s] EXCEPT !.cli = "open"]]
    BY <2>1 DEF OnOpen, clientVars
  <2>3. /\ net'[s] = [net[s] EXCEPT !.cli = "open"]
        /\ Turns(net[s], net'[s], {}, {}) /\ net'[s].cli = "open"
    BY <1>1, <1>4, <2>2, TurnsSides, StepFields DEF Fields
  <2>4. ~Served(s)
    BY <2>2 DEF SecretInv, SocketInv, StillFresh, Served
  <2>5. Rejects(b)' => Rejects(b)
    BY <2>2 DEF Rejects
  <2>6. PhaseInv(s)'
    BY <1>1, <2>2, <2>3, <2>4, <2>5, ClientPhaseKept
  <2>7. \A t \in Sockets : t # s => ~(net[t].owner = b /\ Dialled(net[t]))
    <3>1. c.ws = s
      BY <1>3, <2>2 DEF Dialled
    <3> QED BY <1>3, <3>1
  <2>8. \A t \in Sockets : t # s => PhaseInv(t)'
    BY <1>1, <2>2, <2>7, OthersKept
  <2>9. RejectInv'
    BY <2>2 DEF PhasesInv, RejectInv, Rejects
  <2> QED BY <2>6, <2>8, <2>9 DEF PhasesInv
<1>16. CASE \E s \in Sockets : OnClose(b, s)
  <2>1. PICK s \in Sockets : OnClose(b, s)
    BY <1>16
  <2> DEFINE w == IF c.ws = s THEN None ELSE c.ws
             e == [c EXCEPT !.ws = w, !.pairingId = None, !.granted = FALSE]
             d == Scheduled(Offline(e))
  <2>2. /\ cl' = [cl EXCEPT ![b] = d] /\ net' = [net EXCEPT ![s] = CliEnded(net[s])]
        /\ UNCHANGED <<proofs, writes>> /\ net[s].owner = b /\ net[s].cli \in Live
    BY <2>1 DEF OnClose, CliCloseEvent, Live
  <2>3. d.secret = c.secret
    <3>1. w \in Sockets \cup {None}
      BY <1>1 DEF ClientState
    <3> HIDE DEF w
    <3>2. e \in ClientState /\ e.secret = c.secret
      BY <1>1, <3>1 DEF ClientState
    <3> HIDE DEF e
    <3>3. Offline(e) \in ClientState /\ Offline(e).secret = c.secret
      BY <3>2 DEF Offline, ClientState, Statuses, AuthStatuses
    <3> QED BY <3>3 DEF Scheduled, ClientState
  <2> HIDE DEF d
  <2>4. \A t \in Sockets : t # s /\ net[t].owner = b => ~Dialled(net[t])
    <3>1. OneWayUp(b)
      BY DEF DownInv
    <3>2. c.ws \in {None, s}
      BY <2>2, <3>1 DEF OneWayUp
    <3> QED BY <1>3, <3>2, NoneAssumption DEF IsLive
  <2>5. ASSUME NEW t \in Sockets
        PROVE  /\ Turns(net[t], net'[t], {}, {}) /\ Holds(net[t], net'[t])
               /\ net[t].owner = b => ~Dialled(net'[t])
    <3>1. CASE t = s
      <4>1. net'[t] = CliEnded(net[t])
        BY <1>1, <2>2, <3>1
      <4>2. net[t] \in Conn
        BY <1>4
      <4>3. ~Dialled(CliEnded(net[t]))
        BY <4>2, EndFields, UnusedFields DEF Fields, Dialled
      <4> QED BY <4>1, <4>2, <4>3, TurnsSides, HoldsSides
    <3>2. CASE t # s
      BY <1>1, <1>4, <2>2, <2>4, <3>2
    <3> QED BY <3>1, <3>2
  <2>6. Rejects(b)' => Rejects(b)
    BY <2>2 DEF Rejects
  <2> QED BY <1>8, <2>2, <2>3, <2>5, <2>6
<1>17. CASE \E s \in Sockets : HandleServerMessage(b, s)
  BY <1>1, <1>17, ChallengeKeepsPhases, MessageKeepsPhases
<1>18. CASE \E p \in proofs[b] : /\ ProofReady(b, p)
                                 /\ IF cl[b].ws \in {None, p.nonce} THEN Calm
                                                                    ELSE Disturbs("late proof")
  BY <1>1, <1>18, ProofKeepsPhases
<1>19. CASE SecretStored(b)
  <2> DEFINE d == IF Head(writes[b]).rejects THEN [c EXCEPT !.auth = "rejected"] ELSE c
  <2>1. /\ UNCHANGED <<net, proofs>> /\ writes[b] # <<>>
        /\ writes' = [writes EXCEPT ![b] = Tail(writes[b])] /\ cl' = [cl EXCEPT ![b] = d]
    BY <1>1, <1>19 DEF SecretStored
  <2>2. /\ d.secret = c.secret /\ d.auth \in {c.auth, "rejected"}
        /\ ~Head(writes[b]).rejects => d = c
    BY <1>1 DEF ClientState
  <2> HIDE DEF d
  <2>3. /\ writes \in [Bridges -> Seq(Write)] /\ writes[b] \in Seq(Write)
        /\ Head(writes[b]) \in Within(writes[b]) /\ Within(Tail(writes[b])) \subseteq Within(writes[b])
    BY <2>1, WithinFacts DEF ClientTyped
  <2>4. cl'[b] = d /\ \A a \in Bridges : a # b => cl'[a] = cl[a] /\ writes'[a] = writes[a]
    BY <1>1, <2>1, <2>3
  <2>5. Rejects(b)' => Rejects(b) /\ cl'[b].secret = None
    BY <1>5, <2>1, <2>2, <2>3, <2>4 DEF Rejects
  <2>6. ASSUME NEW s \in Sockets, net[s].owner = b, Dialled(net[s]), Served(s), Shown(b)
        PROVE  Shown(b)'
    <3>1. ~Rejects(b)
      BY <2>6 DEF PhasesInv, PhaseInv, Unpairing
    <3>2. d = c
      BY <2>2, <2>3, <3>1 DEF Rejects
    <3> QED BY <2>4, <2>6, <3>2 DEF Shown
  <2>7. cl'[b].auth = "pairing-required" => cl[b].auth = "pairing-required"
    BY <2>2, <2>4
  <2> QED BY <1>1, <1>4, <2>1, <2>4, <2>5, <2>6, <2>7, QuietKeepsPhases
<1>20. CASE \E code \in ShownCodes : /\ ConfirmPairing(b, code)
                                     /\ IF Awaited(b) THEN Calm ELSE Disturbs("hasty")
  BY <1>1, <1>20, ConfirmingKeepsPhases DEF Disturbs
<1>21. ~(Reconnect(b) /\ Disturbs("reconnect"))
  BY DEF Disturbs
<1> QED BY <1>9, <1>11, <1>12, <1>13, <1>14, <1>15, <1>16, <1>17, <1>18, <1>19, <1>20, <1>21
        DEF ClientStep

LEMMA TransportKeepsPhases ==
    ASSUME ConnsTyped, PhasesInv, TransportStep
    PROVE  PhasesInv'
<1>1. PICK s \in Sockets : TransportEvent(s) \/ Breaks(s)
  BY DEF TransportStep
<1> DEFINE c == net[s]
           u == CliClose(c)
           v == SrvClose(c)
<1>2. /\ c \in Conn /\ u \in Conn /\ v \in Conn
      /\ Turns(c, u, {}, {}) /\ Turns(c, v, {}, {}) /\ Turns(c, Broken(c), {}, {})
      /\ Holds(c, u) /\ Holds(c, v) /\ Holds(c, Broken(c))
  BY ConnKept, TurnsSides, HoldsSides DEF ConnsTyped
<1> HIDE DEF u, v
<1> DEFINE x == [u EXCEPT !.cli = "ending", !.down = <<>>]
           y == [v EXCEPT !.srv = "ending", !.up = <<>>]
<1>3. /\ Turns(c, x, {}, {}) /\ Turns(c, y, {}, {})
      /\ Holds(c, x) /\ Holds(c, y)
  <2>1. Turns(u, x, {}, {}) /\ Turns(v, y, {}, {}) /\ Holds(u, x) /\ Holds(v, y)
    BY <1>2, TurnsSides, HoldsSides
  <2> HIDE DEF x, y
  <2> QED BY <1>2, <2>1, TurnsThen, HoldsTwice
<1>4. \E d : net' = [net EXCEPT ![s] = d] /\ Turns(c, d, {}, {}) /\ Holds(c, d)
  BY <1>1, <1>2, <1>3 DEF TransportEvent, CliReceivesClose, SrvReceivesClose, Breaks, u, v
<1>5. \A t \in Sockets : Turns(net[t], net'[t], {}, {}) /\ Holds(net[t], net'[t])
  BY <1>4, OneTurns, OneHolds
<1>6. UNCHANGED sv /\ UNCHANGED clientVars
  BY DEF TransportStep, serverVars
<1> QED BY <1>5, <1>6, SilentKeepsPhases

LEMMA PhasesInvInit == Init => PhasesInv
<1> SUFFICES ASSUME Init PROVE PhasesInv
  OBVIOUS
<1>1. \A s \in Sockets : ~Dialled(net[s])
  BY UnusedFields DEF Init, Fields, Dialled
<1>2. \A b \in Bridges : writes[b] = <<>>
  BY DEF Init, ClientInit
<1>3. \A b \in Bridges : ~Rejects(b)
  BY <1>2, EmptyOwned DEF Rejects, Within
<1> QED BY <1>1, <1>3 DEF PhasesInv, RejectInv, PhaseInv

LEMMA PhasesInvNext ==
    ASSUME "reset" \notin PersistFailures, "late proof" \notin Disturbances,
           "reconnect" \notin Disturbances, "hasty" \notin Disturbances,
           AllTyped, SessionInv, NewIsIdle, SecretInv, SecretInv', TokensInv, TokensInv', DownInv,
           PhasesInv, [Next]_vars
    PROVE  PhasesInv'
<1>1. CASE ServerStep
  BY <1>1, ServerKeepsPhases DEF AllTyped, SessionInv
<1>2. CASE \E b \in Bridges : ClientStep(b)
  BY <1>2, ClientKeepsPhases DEF AllTyped, SessionInv
<1>3. CASE TransportStep
  BY <1>3, TransportKeepsPhases DEF AllTyped
<1>4. CASE UNCHANGED vars
  <2>1. \A t \in Sockets : Turns(net[t], net'[t], {}, {}) /\ Holds(net[t], net'[t])
    BY <1>4, TurnsSides, HoldsSides DEF vars, AllTyped, ConnsTyped
  <2>2. UNCHANGED sv /\ UNCHANGED clientVars
    BY <1>4 DEF vars, clientVars
  <2> QED BY <2>1, <2>2, SilentKeepsPhases
<1> QED BY <1>1, <1>2, <1>3, <1>4 DEF Next

\* Where nothing is on its way, what the server serves is what the plugin shows.
LEMMA ServedIsShown ==
    ASSUME SecretInv, PhasesInv PROVE ConnectedAgreement
<1> SUFFICES ASSUME NEW s \in Sockets, CanServe(s), CliOpen(s), Settled(s)
             PROVE  cl[net[s].owner].ws = s /\ Shown(net[s].owner)
  BY DEF ConnectedAgreement, Shown
<1>1. Touching(net[s]) /\ Dialled(net[s]) /\ Served(s) /\ net[s].down = <<>>
  BY DEF CanServe, CliOpen, SrvOpen, Settled, Touching, Dialled, Served
<1>2. ~Has(net[s].down, "auth_accepted")
  BY <1>1, EmptyOwned DEF Has, Within
<1>3. Showing(s)
  BY <1>1 DEF PhasesInv, PhaseInv
<1> QED BY <1>1, <1>2, <1>3, OwnSocket DEF Showing

\* Unless a reset cannot be written, a proof outlasts its connection, the user
\* reconnects by hand or submits a code before it is asked for: once what was
\* in flight has arrived, a connection the server serves is one the plugin
\* shows as connected and answers requests on, through every break, restart,
\* reload, shutdown, reset and expired code.
THEOREM ServedIsAgreed ==
    ASSUME "reset" \notin PersistFailures, "late proof" \notin Disturbances,
           "reconnect" \notin Disturbances, "hasty" \notin Disturbances
    PROVE  Spec => []ConnectedAgreement
<1> DEFINE Inv == /\ AllTyped /\ SessionInv /\ NewIsIdle /\ SecretInv
                  /\ TokensInv /\ DownInv /\ PhasesInv
<1>1. Init => Inv
  BY InitTyped, SessionInvInit, NewIsIdleInit, SecretInvInit, TokensInvInit, DownInvInit,
     PhasesInvInit
<1>2. Inv /\ [Next]_vars => Inv'
  <2> SUFFICES ASSUME Inv, [Next]_vars PROVE Inv'
    OBVIOUS
  <2>1. AllTyped' /\ SessionInv' /\ NewIsIdle' /\ SecretInv'
    BY StepTyped, SessionInvNext, NewIsIdleNext, SecretInvNext DEF AllTyped
  <2>2. TokensInv' /\ DownInv'
    BY TokensInvNext, DownInvNext DEF AllTyped
  <2>3. PhasesInv'
    BY <2>1, <2>2, PhasesInvNext
  <2> QED BY <2>1, <2>2, <2>3
<1>3. Inv => ConnectedAgreement
  BY ServedIsShown
<1> QED BY <1>1, <1>2, <1>3, PTL DEF Spec
=============================================================================
