----------------------------- MODULE MCDiscovery -----------------------------
(***************************************************************************)
(* Instances of Discovery for TLC: two peers that come and go.             *)
(***************************************************************************)
EXTENDS Discovery

CONSTANTS q1, q2

MCPeer == {q1, q2}
==============================================================================
