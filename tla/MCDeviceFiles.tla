---------------------------- MODULE MCDeviceFiles ----------------------------
(***************************************************************************)
(* Instances of DeviceFiles for TLC: two commands beside init.             *)
(***************************************************************************)
EXTENDS DeviceFiles

CONSTANTS p1, p2, q1, q2, k1, k2, s1, s2

MCProcess == {p1, p2}
MCPeer == {q1, q2}
MCKey == {k1, k2}
MCSigningKey == {s1, s2}
==============================================================================
