--------------------------- MODULE MCSyncLifecycle ---------------------------
(***************************************************************************)
(* Instances of SyncLifecycle for TLC: two devices, which may be swapped,  *)
(* so that of two initial states which differ by that one is enough.       *)
(***************************************************************************)
EXTENDS SyncLifecycle

CONSTANTS a, b

MCDevice == {a, b}

MCInit ==
  /\ LifeInit
  /\ b \in modern => a \in modern
  /\ (b \in modern <=> a \in modern) => (<<b, a>> \in trusts => <<a, b>> \in trusts)

\* The last start, which only what a restart does to the peers needs, is made without
\* prompts and before Python 3.12, which have no part in that.
MCStep == starts' = MaxStarts => modern = {} /\ \A d \in Device : ~prompt'[d]

MCLifeSpec ==
  /\ MCInit /\ [][LifeNext]_lifeVars
  /\ LoopFairness /\ \A d \in Device : WF_lifeVars(Types(d))
==============================================================================
