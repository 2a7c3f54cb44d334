------------------------- MODULE SyncLifecycleProofs -------------------------
(***************************************************************************)
(* Theorems about SyncLifecycle, for any set of devices.                   *)
(***************************************************************************)
EXTENDS SyncLifecycle, TLAPS

USE DEF stopVars, discoveryVars, clientVars

ConnState == {"none", "open", "full", "flushing", "closing", "gone", "lost"}

LifeTypes ==
  /\ modern \subseteq Device
  /\ stage \in [Device -> Stage]
  /\ raised \in [Device -> BOOLEAN]
  /\ todo \in [Device -> SUBSET Pairs]
  /\ blind \subseteq Device
  /\ trusts \subseteq Pairs /\ sees \subseteq Pairs /\ missed \subseteq Pairs
  /\ connecting \subseteq Pairs /\ failed \subseteq sees
  /\ conn \in [Pairs -> ConnState]
  /\ prompt \in [Device -> BOOLEAN]
  /\ late \subseteq Pairs
  /\ starts \in Nat

\* Nothing is left of a process that has ended.
Ended(d) ==
  /\ prompt[d] = FALSE /\ todo[d] = {}
  /\ sees \cap Of(d) = {} /\ missed \cap Of(d) = {} /\ connecting \cap Of(d) = {}
  /\ \A p \in Of(d) : conn[p] = "none"

LifeInv == LifeTypes /\ \A d \in Device : stage[d] = "out" => Ended(d)

LEMMA LifeInvTypeOK == LifeInv => LifeTypeOK
BY DEF LifeInv, LifeTypes, LifeTypeOK, Ended, Entries, ConnState

LEMMA LifeStart == LifeInit => LifeInv
BY StartsAssumption DEF LifeInit, LifeInv, LifeTypes, Ended, Stage, ConnState, Of

\* A step of one device adds nothing to the others.
OnlyOf(d) ==
  \A e \in Device : e # d =>
    /\ stage'[e] = stage[e] /\ prompt'[e] = prompt[e] /\ todo'[e] = todo[e]
    /\ sees' \cap Of(e) \subseteq sees /\ missed' \cap Of(e) \subseteq missed
    /\ connecting' \cap Of(e) \subseteq connecting
    /\ \A p \in Of(e) : conn[p] = "none" => conn'[p] = "none"

LEMMA OthersEnded ==
  ASSUME LifeInv, NEW d \in Device, OnlyOf(d), stage'[d] # "out"
  PROVE  \A e \in Device : stage'[e] = "out" => Ended(e)'
BY DEF LifeInv, OnlyOf, Ended, Of

LEMMA OneConn ==
  ASSUME LifeTypes, NEW p \in Pairs, NEW x \in ConnState, conn' = [conn EXCEPT ![p] = x]
  PROVE  /\ conn' \in [Pairs -> ConnState] /\ p[1] \in Device
         /\ conn'[p] = x
         /\ \A q \in Pairs : q # p => conn'[q] = conn[q]
         /\ \A e \in Device : e # p[1] => \A q \in Of(e) : conn'[q] = conn[q]
<1>1. p[1] \in Device
  BY DEF Pairs
<1>2. QED
  BY <1>1 DEF LifeTypes, Of

\* What disconnect_all does up to its next await: nothing is left, or one is closed.
Nothing(d, left) ==
  /\ StillThere(d, left) = {}
  /\ GoesOn(d, "server") /\ todo' = [todo EXCEPT ![d] = {}] /\ UNCHANGED <<raised, conn>>

Disconnecting(d, left, p) ==
  /\ todo' = [todo EXCEPT ![d] = left \ {p}]
  /\ \E x \in {"none", "flushing", "closing"} : conn' = [conn EXCEPT ![p] = x]
  /\ \E s \in {"leaving", "disconnecting"} : stage' = [stage EXCEPT ![d] = s]
  /\ raised' = raised \/ raised' = [raised EXCEPT ![d] = TRUE]
  /\ UNCHANGED <<modern, trusts, prompt, starts, discoveryVars, connecting, failed, late>>

LEMMA ContinueDoes ==
  ASSUME NEW d \in Device, NEW left, Continue(d, left)
  PROVE  Nothing(d, left) \/ \E p \in StillThere(d, left) : Disconnecting(d, left, p)
BY DEF Continue, Nothing, Disconnecting, Raises, GoesOn

LEMMA LifeStep ==
  ASSUME LifeInv, [LifeNext]_lifeVars
  PROVE  LifeInv'
<1> USE DEF LifeInv
<1>1. CASE UNCHANGED lifeVars
  BY <1>1 DEF lifeVars, LifeTypes, Ended, Of
<1>2. ASSUME NEW d \in Device,
             \/ Starts(d) \/ Announces(d) \/ WaitClosed(d) \/ StopPairing(d)
             \/ StopDiscovery(d)
      PROVE  LifeInv'
  <2>1. LifeTypes'
    BY <1>2 DEF Starts, Announces, WaitClosed, StopPairing, StopDiscovery, GoesOn, Stage,
       LifeTypes
  <2>2. OnlyOf(d) /\ stage'[d] # "out"
    BY <1>2 DEF Starts, Announces, WaitClosed, StopPairing, StopDiscovery, GoesOn,
       LifeTypes, OnlyOf
  <2>3. QED
    BY <2>1, <2>2, OthersEnded
<1>3. ASSUME NEW d \in Device, Asks(d)
      PROVE  LifeInv'
  <2>1. LifeTypes'
    BY <1>3 DEF Asks, LifeTypes
  <2>2. OnlyOf(d) /\ stage'[d] # "out"
    BY <1>3 DEF Asks, LifeTypes, OnlyOf
  <2>3. QED
    BY <2>1, <2>2, OthersEnded
<1>4. ASSUME NEW d \in Device, Types(d)
      PROVE  LifeInv'
  <2>1. LifeTypes'
    BY <1>4 DEF Types, LifeTypes
  <2>2. OnlyOf(d) /\ stage'[d] # "out"
    BY <1>4 DEF Types, LifeTypes, OnlyOf, Ended
  <2>3. QED
    BY <2>1, <2>2, OthersEnded
<1>5. ASSUME NEW d \in Device, Interrupt(d) \/ Disconnects(d)
      PROVE  LifeInv'
  <2>1. PICK left \in SUBSET Pairs : Continue(d, left)
    BY <1>5 DEF Interrupt, Disconnects, LifeTypes, Entries, Of
  <2>2. CASE Nothing(d, left)
    <3>1. LifeTypes'
      BY <2>1, <2>2 DEF Nothing, Continue, GoesOn, LifeTypes, Stage
    <3>2. OnlyOf(d) /\ stage'[d] # "out"
      BY <2>1, <2>2 DEF Nothing, Continue, GoesOn, LifeTypes, OnlyOf
    <3>3. QED
      BY <3>1, <3>2, OthersEnded
  <2>3. CASE \E p \in StillThere(d, left) : Disconnecting(d, left, p)
    <3>1. PICK p \in Of(d) : p \in Pairs /\ p[1] = d /\ Disconnecting(d, left, p)
      BY <2>3 DEF StillThere, Entries, Of
    <3>2. PICK x \in ConnState : conn' = [conn EXCEPT ![p] = x]
      BY <3>1 DEF Disconnecting, ConnState
    <3>3. PICK s \in {"leaving", "disconnecting"} : stage' = [stage EXCEPT ![d] = s]
      BY <3>1 DEF Disconnecting
    <3>4. LifeTypes'
      <4>1. raised' \in [Device -> BOOLEAN] /\ todo' \in [Device -> SUBSET Pairs]
        BY <3>1 DEF Disconnecting, LifeTypes
      <4>2. stage' \in [Device -> Stage]
        BY <3>3 DEF LifeTypes, Stage
      <4>3. QED
        BY <3>1, <3>2, <4>1, <4>2, OneConn DEF Disconnecting, LifeTypes
    <3>5. OnlyOf(d)
      <4>1. \A e \in Device : e # d => stage'[e] = stage[e] /\ todo'[e] = todo[e]
        BY <3>1, <3>3 DEF Disconnecting, LifeTypes
      <4>2. \A e \in Device : e # d => \A q \in Of(e) : conn'[q] = conn[q]
        BY <3>1, <3>2, OneConn
      <4>3. QED
        BY <3>1, <4>1, <4>2 DEF Disconnecting, OnlyOf
    <3>6. stage'[d] # "out"
      BY <3>3 DEF LifeTypes
    <3>7. QED
      BY <3>4, <3>5, <3>6, OthersEnded
  <2>4. QED
    BY <2>1, <2>2, <2>3, ContinueDoes
<1>6. ASSUME NEW d \in Device, Exits(d) \/ Dies(d)
      PROVE  LifeInv'
  <2> USE DEF Exits, Dies, End, GoesOn
  <2>1. LifeTypes'
    BY <1>6 DEF Stage, ConnState, LifeTypes
  <2>2. Ended(d)'
    <3>1. Of(d) \subseteq Pairs /\ Of(d)' = Of(d) /\ \A p \in Of(d) : p \notin To(d)
      BY DEF Of, To, Pairs
    <3>2. prompt'[d] = FALSE /\ todo'[d] = {}
      BY <1>6 DEF LifeTypes
    <3>3. \A p \in Of(d) : conn'[p] = "none"
      BY <1>6, <3>1
    <3>4. sees' \cap Of(d) = {} /\ missed' \cap Of(d) = {} /\ connecting' \cap Of(d) = {}
      BY <1>6
    <3>5. QED
      BY <3>1, <3>2, <3>3, <3>4 DEF Ended
  <2>3. \A e \in Device : e # d /\ stage'[e] = "out" => Ended(e)'
    <3>1. \A e \in Device : e # d /\ stage'[e] = "out" => stage[e] = "out" /\ Ended(e)
      BY <1>6 DEF LifeTypes
    <3>2. \A e \in Device : Of(e) \subseteq Pairs
      BY DEF Of
    <3>3. \A p \in Pairs : conn[p] = "none" => conn'[p] = "none"
      BY <1>6
    <3>4. \A e \in Device : e # d => prompt'[e] = prompt[e] /\ todo'[e] = todo[e]
      BY <1>6 DEF LifeTypes
    <3>5. QED
      BY <1>6, <3>1, <3>2, <3>3, <3>4 DEF Ended, Of
  <2>4. QED
    BY <2>1, <2>2, <2>3
<1>7. ASSUME NEW p \in Pairs, Finds(p) \/ Misses(p) \/ Forgets(p) \/ Trusts(p)
      PROVE  LifeInv'
  <2>1. LifeTypes'
    BY <1>7 DEF Finds, Misses, Forgets, Trusts, LifeTypes
  <2>2. p[1] \in Device /\ OnlyOf(p[1]) /\ stage'[p[1]] # "out"
    BY <1>7 DEF Finds, Misses, Forgets, Trusts, Unheard, Browses, Stopping, Pairs, OnlyOf, Of
  <2>3. QED
    BY <2>1, <2>2, OthersEnded
<1>8. ASSUME NEW p \in Pairs, Opens(p) \/ ConnectFails(p) \/ Stores(p)
      PROVE  LifeInv'
  <2>1. p[1] \in Device /\ p \in Of(p[1]) /\ p \in connecting
    BY <1>8 DEF Pairs, Of, Opens, ConnectFails, Stores
  <2>2. stage[p[1]] # "out" /\ stage' = stage
    BY <1>8, <2>1 DEF Opens, ConnectFails, Stores, Ended
  <2>3. LifeTypes'
    BY <1>8 DEF Opens, ConnectFails, Stores, LifeTypes, ConnState
  <2>4. OnlyOf(p[1])
    BY <1>8 DEF Opens, ConnectFails, Stores, LifeTypes, OnlyOf, Of
  <2>5. QED
    BY <2>1, <2>2, <2>3, <2>4, OthersEnded
<1>9. ASSUME NEW p \in Pairs, Loses(p)
      PROVE  LifeInv'
  <2>1. PICK x \in ConnState : conn' = [conn EXCEPT ![p] = x]
    BY <1>9 DEF Loses, LifeTypes, ConnState
  <2>2. LifeTypes'
    BY <1>9, <2>1, OneConn DEF Loses, LifeTypes
  <2>3. p[1] \in Device /\ OnlyOf(p[1]) /\ stage'[p[1]] # "out"
    BY <1>9, <2>1, OneConn DEF Loses, Browses, Stopping, OnlyOf
  <2>4. QED
    BY <2>2, <2>3, OthersEnded
<1>10. ASSUME NEW p \in Pairs, Fills(p) \/ Empties(p) \/ Breaks(p) \/ Drops(p)
                                 \/ Closes(p) \/ FlushFails(p)
       PROVE  LifeInv'
  <2> USE DEF Fills, Empties, Breaks, Drops, Closes, Becomes, FlushFails, Raises, GoesOn
  <2>1. PICK x \in ConnState : conn' = [conn EXCEPT ![p] = x]
    BY <1>10 DEF ConnState
  <2>2. LifeTypes'
    BY <1>10, <2>1, OneConn DEF LifeTypes, Stage
  <2>3. p[1] \in Device /\ p \in Of(p[1])
    BY DEF Pairs, Of
  <2>4. stage[p[1]] # "out"
    BY <1>10, <2>3 DEF Ended
  <2>5. OnlyOf(p[1]) /\ stage'[p[1]] # "out"
    BY <1>10, <2>1, <2>3, <2>4, OneConn DEF OnlyOf, LifeTypes
  <2>6. QED
    BY <2>2, <2>3, <2>5, OthersEnded
<1>11. QED
  BY <1>1, <1>2, <1>3, <1>4, <1>5, <1>6, <1>7, <1>8, <1>9, <1>10 DEF LifeNext, Stops

\* The state of the syncs stays well typed; nothing is left of one that has ended.
THEOREM LifeTypeCorrect == LifeSpec => []LifeTypeOK
BY LifeStart, LifeStep, LifeInvTypeOK, PTL DEF LifeSpec

-----------------------------------------------------------------------------
(***************************************************************************)
(* disconnect_all.                                                         *)
(***************************************************************************)
\* What disconnect_all has no more to do is done, but for late connections.
Closed(d) ==
  /\ stage[d] = "disconnecting" => Entries(d) \ todo[d] \subseteq late
  /\ stage[d] \in {"server", "pairing", "discovery"} => Entries(d) \subseteq late

DisconnectInv == LifeInv /\ \A d \in Device : Closed(d)

LEMMA DisconnectInvAll == DisconnectInv => DisconnectsAll
BY DEF DisconnectInv, Closed, DisconnectsAll

\* A step that gives d no connections but late ones, and does not advance it.
AddsLate(d) ==
  /\ stage'[d] = stage[d] \/ stage'[d] \in {"out", "starting", "running", "leaving"}
  /\ todo'[d] = todo[d]
  /\ \A p \in Of(d) : p \in Entries(d)' => p \in Entries(d) \/ p \in late'
  /\ late \cap Of(d) \subseteq late'

LEMMA StaysClosed ==
  ASSUME NEW d \in Device, Closed(d), AddsLate(d)
  PROVE  Closed(d)'
BY DEF Closed, AddsLate, Entries, Of

\* The same for a step that changes one connection.
LEMMA OneConnEntries ==
  ASSUME LifeTypes, NEW p \in Pairs, NEW x \in ConnState, conn' = [conn EXCEPT ![p] = x],
         connecting' = connecting,
         p \in connecting \/ x \notin {"open", "full", "gone", "lost"} \/ p \in Entries(p[1])
  PROVE  \A d \in Device : \A q \in Of(d) :
           q \in Entries(d)' => q \in Entries(d) \/ q \in late'
<1>1. \A d \in Device : \A q \in Of(d) : q \in Pairs /\ q[1] = d
  BY DEF Of
<1>2. QED
  BY <1>1, OneConn DEF Entries, Of

LEMMA DisconnectStep ==
  ASSUME DisconnectInv, LifeInv', [LifeNext]_lifeVars
  PROVE  DisconnectInv'
<1> USE DEF DisconnectInv, LifeInv
<1>1. CASE UNCHANGED lifeVars
  BY <1>1 DEF lifeVars, Closed, Entries, Of
<1>2. ASSUME NEW d \in Device, Starts(d) \/ Announces(d) \/ Asks(d) \/ Types(d)
      PROVE  \A e \in Device : Closed(e)'
  <2>1. \A e \in Device : AddsLate(e)
    BY <1>2 DEF Starts, Announces, Asks, Types, GoesOn, LifeTypes, AddsLate, Entries, Of
  <2>2. QED
    BY <2>1, StaysClosed
<1>3. ASSUME NEW d \in Device, WaitClosed(d) \/ StopPairing(d) \/ StopDiscovery(d)
      PROVE  \A e \in Device : Closed(e)'
  BY <1>3 DEF WaitClosed, StopPairing, StopDiscovery, GoesOn, LifeTypes, Closed, Entries, Of
<1>4. ASSUME NEW d \in Device, Interrupt(d) \/ Disconnects(d)
      PROVE  \A e \in Device : Closed(e)'
  <2>1. PICK left \in SUBSET Pairs : Continue(d, left) /\ Entries(d) \ left \subseteq late
    BY <1>4 DEF Interrupt, Disconnects, LifeTypes, Closed, Entries, Of
  <2>2. CASE Nothing(d, left)
    <3>1. \A e \in Device : Entries(e)' = Entries(e)
      BY <2>1, <2>2 DEF Nothing, Continue, Entries, Of
    <3>2. Entries(d) \subseteq late /\ late' = late
      BY <2>1, <2>2 DEF Nothing, StillThere, Continue
    <3>3. QED
      BY <2>2, <3>1, <3>2 DEF Nothing, GoesOn, LifeTypes, Closed
  <2>3. CASE \E p \in StillThere(d, left) : Disconnecting(d, left, p)
    <3>1. PICK p \in Entries(d) : p \in Pairs /\ p[1] = d /\ Disconnecting(d, left, p)
      BY <2>3 DEF StillThere, Entries, Of
    <3>2. PICK x \in {"none", "flushing", "closing"} : conn' = [conn EXCEPT ![p] = x]
      BY <3>1 DEF Disconnecting
    <3>3. PICK s \in {"leaving", "disconnecting"} : stage' = [stage EXCEPT ![d] = s]
      BY <3>1 DEF Disconnecting
    <3>4. x \in ConnState /\ late' = late /\ connecting' = connecting
      BY <3>1 DEF ConnState, Disconnecting
    <3>5. Entries(d)' \subseteq Entries(d) \ {p}
      BY <3>1, <3>2, <3>4, OneConn DEF Entries, Of
    <3>6. Closed(d)'
      BY <2>1, <3>1, <3>3, <3>4, <3>5 DEF Disconnecting, LifeTypes, Closed
    <3>7. \A e \in Device : e # d => AddsLate(e)
      <4>1. \A e \in Device : e # d => stage'[e] = stage[e] /\ todo'[e] = todo[e]
        BY <3>1, <3>3 DEF Disconnecting, LifeTypes
      <4>2. \A e \in Device : e # d => \A q \in Of(e) : conn'[q] = conn[q]
        BY <3>1, <3>2, <3>4, OneConn
      <4>3. QED
        BY <3>4, <4>1, <4>2 DEF AddsLate, Entries, Of
    <3>8. QED
      BY <3>6, <3>7, StaysClosed
  <2>4. QED
    BY <2>1, <2>2, <2>3, ContinueDoes
<1>5. ASSUME NEW d \in Device, Exits(d) \/ Dies(d)
      PROVE  \A e \in Device : Closed(e)'
  <2> USE DEF Exits, Dies, End, GoesOn
  <2>1. Closed(d)'
    BY <1>5 DEF LifeTypes, Closed
  <2>2. \A e \in Device : e # d => AddsLate(e)
    <3>1. \A e \in Device : e # d => stage'[e] = stage[e] /\ todo'[e] = todo[e]
      BY <1>5 DEF LifeTypes
    <3>2. \A e \in Device : e # d => late \cap Of(e) \subseteq late'
      BY <1>5 DEF Of
    <3>3. \A e \in Device : e # d => \A p \in Of(e) : p \in Pairs /\ p \notin Of(d)
      BY DEF Of
    <3>4. \A p \in Pairs : p \notin Of(d) => conn'[p] = conn[p] \/ conn[p] \in {"open", "full"}
      BY <1>5
    <3>5. connecting' = connecting \ Of(d)
      BY <1>5
    <3>6. QED
      BY <3>1, <3>2, <3>3, <3>4, <3>5 DEF AddsLate, Entries, Of
  <2>3. QED
    BY <2>1, <2>2, StaysClosed
<1>6. ASSUME NEW p \in Pairs,
             \/ Finds(p) \/ Misses(p) \/ Forgets(p) \/ Trusts(p) \/ ConnectFails(p)
      PROVE  \A e \in Device : Closed(e)'
  <2>1. /\ UNCHANGED <<stage, todo, conn, late>>
        /\ \A q \in connecting \ connecting' : conn[q] \in {"none", "flushing", "closing"}
    BY <1>6 DEF Finds, Misses, Forgets, Trusts, ConnectFails
  <2>2. \A e \in Device : AddsLate(e)
    BY <2>1 DEF AddsLate, Entries, Of
  <2>3. QED
    BY <2>2, StaysClosed
<1>7. ASSUME NEW p \in Pairs, Opens(p)
      PROVE  \A e \in Device : Closed(e)'
  <2>1. "open" \in ConnState
    BY DEF ConnState
  <2>2. \A e \in Device : AddsLate(e)
    BY <1>7, <2>1, OneConnEntries DEF Opens, AddsLate
  <2>3. QED
    BY <2>2, StaysClosed
<1>8. ASSUME NEW p \in Pairs, Stores(p)
      PROVE  \A e \in Device : Closed(e)'
  <2>1. p[1] \in Device /\ p \in Of(p[1])
    BY DEF Pairs, Of
  <2>2. \A e \in Device : e # p[1] => AddsLate(e)
    BY <1>8 DEF Stores, AddsLate, Entries, Of
  <2>3. CASE stage[p[1]] = "running"
    <3>1. Closed(p[1])'
      BY <1>8, <2>3 DEF Stores, Closed
    <3>2. QED
      BY <2>2, <3>1, StaysClosed
  <2>4. CASE stage[p[1]] # "running"
    <3>1. AddsLate(p[1])
      BY <1>8, <2>4 DEF Stores, AddsLate, Entries, Of
    <3>2. QED
      BY <2>2, <3>1, StaysClosed
  <2>5. QED
    BY <2>3, <2>4
<1>9. ASSUME NEW p \in Pairs, Loses(p)
      PROVE  \A e \in Device : Closed(e)'
  <2>1. PICK x \in ConnState :
          /\ conn' = [conn EXCEPT ![p] = x]
          /\ x = "none" \/ x = conn[p]
    <3>1. conn = [conn EXCEPT ![p] = conn[p]] /\ conn[p] \in ConnState
      BY DEF LifeTypes
    <3>2. conn' = [conn EXCEPT ![p] = "none"] \/ conn' = conn
      BY <1>9 DEF Loses
    <3>3. QED
      BY <3>1, <3>2 DEF ConnState
  <2>2. p \in Of(p[1]) /\ connecting' = connecting
    BY <1>9 DEF Of, Loses
  <2>3. p \in connecting \/ x \notin {"open", "full", "gone", "lost"} \/ p \in Entries(p[1])
    BY <2>1, <2>2 DEF Entries
  <2>4. \A e \in Device : \A q \in Of(e) : q \in Entries(e)' => q \in Entries(e) \/ q \in late'
    BY <2>1, <2>2, <2>3, OneConnEntries
  <2>5. \A e \in Device : AddsLate(e)
    BY <1>9, <2>4 DEF Loses, AddsLate
  <2>6. QED
    BY <2>5, StaysClosed
<1>10. ASSUME NEW p \in Pairs, Fills(p) \/ Empties(p) \/ Breaks(p) \/ Drops(p)
                                \/ Closes(p) \/ FlushFails(p)
      PROVE  \A e \in Device : Closed(e)'
  <2>1. PICK x \in ConnState :
          /\ conn' = [conn EXCEPT ![p] = x]
          /\ x # "none" => conn[p] \in {"open", "full", "gone"}
    BY <1>10 DEF Fills, Empties, Breaks, Drops, Closes, Becomes, FlushFails, ConnState
  <2>2. p \in Of(p[1]) /\ connecting' = connecting
    BY <1>10 DEF Of, Fills, Empties, Breaks, Drops, Closes, Becomes, FlushFails
  <2>3. p \in connecting \/ x \notin {"open", "full", "gone", "lost"} \/ p \in Entries(p[1])
    BY <2>1, <2>2 DEF Entries
  <2>4. \A e \in Device : \A q \in Of(e) : q \in Entries(e)' => q \in Entries(e) \/ q \in late'
    BY <2>1, <2>2, <2>3, OneConnEntries
  <2>5. late' = late /\ todo' = todo /\ \A e \in Device : stage'[e] \in {stage[e], "leaving"}
    BY <1>10 DEF Fills, Empties, Breaks, Drops, Closes, Becomes, FlushFails, Raises, GoesOn, LifeTypes
  <2>6. \A e \in Device : AddsLate(e)
    BY <2>4, <2>5 DEF AddsLate
  <2>7. QED
    BY <2>6, StaysClosed
<1>11. QED
  BY <1>1, <1>2, <1>3, <1>4, <1>5, <1>6, <1>7, <1>8, <1>9, <1>10 DEF LifeNext, Stops

\* Past disconnect_all a device has no connections but late ones, however peers come
\* and go while it waits, and whatever step of another device falls in between.
THEOREM DisconnectsAllIsInvariant == LifeSpec => []DisconnectsAll
<1>1. LifeInit => DisconnectInv
  BY LifeStart DEF LifeInit, DisconnectInv, Closed
<1>2. DisconnectInv /\ [LifeNext]_lifeVars => DisconnectInv'
  BY LifeStep, DisconnectStep DEF DisconnectInv
<1>3. QED
  BY <1>1, <1>2, DisconnectInvAll, PTL DEF LifeSpec
==============================================================================
