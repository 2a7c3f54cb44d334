------------------------------- MODULE PeerFeed ------------------------------
(***************************************************************************)
(* What discovery promises to those it calls back: each peer is found and  *)
(* lost in turn, beginning with found.  It is what SyncClient takes for    *)
(* granted (its `seen').  Once stop() has returned the promise is off, for *)
(* a callback may be under way and events may be queued.                   *)
(***************************************************************************)
EXTENDS Naturals

CONSTANT Peer

VARIABLES
  found,  \* found[q]: calls of on_peer_discovered for q so far
  lost,   \* lost[q]: calls of on_peer_lost for q so far
  closed  \* stop() has returned

peerVars == <<found, lost, closed>>

PeerInit ==
  /\ found = [q \in Peer |-> 0]
  /\ lost = [q \in Peer |-> 0]
  /\ closed = FALSE

Found(q) ==
  /\ closed \/ found[q] = lost[q]
  /\ found' = [found EXCEPT ![q] = @ + 1]
  /\ UNCHANGED <<lost, closed>>

Lost(q) ==
  /\ closed \/ found[q] = lost[q] + 1
  /\ lost' = [lost EXCEPT ![q] = @ + 1]
  /\ UNCHANGED <<found, closed>>

Close == closed' = TRUE /\ UNCHANGED <<found, lost>>

PeerNext == Close \/ \E q \in Peer : Found(q) \/ Lost(q)

PeerSpec == PeerInit /\ [][PeerNext]_peerVars
==============================================================================
