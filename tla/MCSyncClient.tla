----------------------------- MODULE MCSyncClient ----------------------------
(***************************************************************************)
(* Instances of SyncClient for TLC.                                        *)
(***************************************************************************)
EXTENDS SyncClient

CONSTANTS q1, q2

OnePeer == {q1}
TwoPeers == {q1, q2}
==============================================================================
