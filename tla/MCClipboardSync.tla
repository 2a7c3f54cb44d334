--------------------------- MODULE MCClipboardSync ---------------------------
(***************************************************************************)
(* Instances of ClipboardSync for TLC: a Mac and a Windows machine that    *)
(* both copy, and a Mac that sends to a Windows machine and to another box.*)
(***************************************************************************)
EXTENDS ClipboardSync

CONSTANTS mac, box, pc, x

MCDevice == {mac, pc}
MCDarwin == {mac}
MCStarDevice == {mac, box, pc}
MCStarDarwin == {mac, box}
MCText == {Empty, x}
MCNone == {}

\* The star: what mac's user copies goes to box and pc, which have been paired
\* with mac before sync starts on any of them; nothing is sent the other way.
MCStar == {p \in Pairs : mac \in {p[1], p[2]}}
MCStarInit ==
  /\ SyncInit
  /\ clip = [d \in Device |-> [text |-> NoText, id |-> 0]]
MCStarStep ==
  /\ trusts' \subseteq MCStar
  /\ phase' # phase => trusts = MCStar
  /\ copies' # copies => \A d \in Device : phase[d] = "running"
  /\ \A p \in links' : p[1] = mac
  /\ \A d \in Device \ {mac} : copies'[d] = <<>>
MCStarSpec == MCStarInit /\ [][SyncNext]_syncVars /\ SyncFairness
==============================================================================
