--------------------------- MODULE MCBridgeSession ---------------------------
(* The bridge session on small sets of sockets, bridges and identifiers.   *)
EXTENDS BridgeSession, TLC

Symmetry == Permutations(Sockets) \cup Permutations(Secrets) \cup Permutations(PairingIds)
=============================================================================
