------------------------------ MODULE DeviceMap ------------------------------
(***************************************************************************)
(* What the trust store promises to the commands that use it: one map from *)
(* peers to the keys they were paired with, changed one peer at a time and *)
(* all at once, the same for every command that opens it.  It promises no  *)
(* more than the code can keep: a process that dies inside a change may    *)
(* leave the map unreadable, but never readable and wrong.                 *)
(***************************************************************************)
EXTENDS FiniteSets

CONSTANTS Process, Peer, Key, NoKey

VARIABLES
  trusted,  \* trusted[q]: key of the trusted peer q, or NoKey
  readable, \* can the map be opened?
  users     \* processes that have it open

mapVars == <<trusted, readable, users>>

MapInit ==
  /\ trusted = [q \in Peer |-> NoKey]
  /\ readable = TRUE
  /\ users = {}

Open(p) ==
  /\ readable
  /\ users' = users \cup {p}
  /\ UNCHANGED <<trusted, readable>>

\* The peer is paired, paired again with another key, or removed.
Change(p) ==
  /\ p \in users
  /\ \E q \in Peer, k \in Key \cup {NoKey} : trusted' = [trusted EXCEPT ![q] = k]
  /\ UNCHANGED <<readable, users>>

Close(p) ==
  /\ users' = users \ {p}
  /\ UNCHANGED <<trusted, readable>>

Die(p) ==
  /\ p \in users
  /\ trusted' = [q \in Peer |-> NoKey]
  /\ readable' = FALSE
  /\ users' = users \ {p}

MapNext == \E p \in Process : Open(p) \/ Change(p) \/ Close(p) \/ Die(p)

MapSpec == MapInit /\ [][MapNext]_mapVars
==============================================================================
