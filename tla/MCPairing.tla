------------------------------ MODULE MCPairing ------------------------------
(***************************************************************************)
(* Instances of Pairing for TLC.                                           *)
(***************************************************************************)
EXTENDS Pairing, TLC

CONSTANTS a, b, c, s1, s2

TwoDevices == {a, b}
ThreeDevices == {a, b, c}
TwoSessions == {s1, s2}
PairingSymmetry == Permutations(ThreeDevices) \cup Permutations(TwoSessions)
==============================================================================
