----------------------------- MODULE MCTrustStore ----------------------------
(***************************************************************************)
(* Instances of TrustStore for TLC: two commands (think of sync and pair), *)
(* two peers and two keys, so that a peer can be paired again.             *)
(***************************************************************************)
EXTENDS TrustStore

CONSTANTS p1, p2, q1, q2, k1, k2

MCProcess == {p1, p2}
MCPeer == {q1, q2}
MCKey == {k1, k2}
==============================================================================
