--------------------------- MODULE DiscoveryProofs ---------------------------
(***************************************************************************)
(* Theorems about Discovery, for any set of peers.                         *)
(***************************************************************************)
EXTENDS Discovery, TLAPS

EventType == [kind : {"Added", "Removed"}, name : Service]

LEMMA EventQueue ==
  ASSUME queue \in Seq(EventType)
  PROVE  /\ \A e \in EventType : Append(queue, e) \in Seq(EventType)
         /\ queue # <<>> => Head(queue) \in EventType
         /\ queue # <<>> => Tail(queue) \in Seq(EventType)
OBVIOUS

\* A stage of the handler about a service that is not this device.
LEMMA HandlingType ==
  ASSUME NEW at \in Stages, NEW q \in Service
  PROVE  [at |-> at, name |-> q] \in [at : Stages, name : Service]
OBVIOUS

LEMMA GoesToType ==
  ASSUME NEW at \in Stages, GoesTo(at), handling \in [at : Stages, name : Service]
  PROVE  /\ handling' \in [at : Stages, name : Service]
         /\ handling'.at = at
         /\ handling'.name = handling.name
BY DEF GoesTo

LEMMA CountType ==
  ASSUME NEW f \in [Peer -> Nat], NEW q \in Peer
  PROVE  [f EXCEPT ![q] = @ + 1] \in [Peer -> Nat]
OBVIOUS

LEMMA DiscoveryTypeInit == DiscoveryInit => DiscoveryTypeOK
<1> SUFFICES ASSUME DiscoveryInit PROVE DiscoveryTypeOK
  OBVIOUS
<1>1. queue \in Seq(EventType)
  BY DEF DiscoveryInit
<1>2. Idle \in [at : Stages, name : Service] /\ Idle.at = "idle"
  BY DEF Idle, Stages, Service
<1>3. found \in [Peer -> Nat] /\ lost \in [Peer -> Nat]
  BY DEF DiscoveryInit
<1>4. QED
  BY <1>1, <1>2, <1>3 DEF DiscoveryInit, DiscoveryTypeOK, EventType, Service

LEMMA DiscoveryTypeStep ==
  ASSUME DiscoveryTypeOK, [DiscoveryNext]_discoveryVars
  PROVE  DiscoveryTypeOK'
<1> USE SelfAssumption DEF DiscoveryTypeOK
<1>0. queue \in Seq(EventType)
  BY DEF EventType
<1>1. CASE UNCHANGED discoveryVars
  BY <1>1 DEF discoveryVars
<1>2. CASE Caller
  BY <1>2 DEF Caller, Start, StartReturns, StopsEarly, Unregister, Close, StopFails, Drop,
     Clear, networkVars, browserVars
<1>3. CASE Starter
  BY <1>3 DEF Starter, Create, ReadToRegister, Register, ReadToBrowse, Browse,
     StarterFails, networkVars, browserVars, Service
<1>4. ASSUME NEW q \in Peer, Joins(q) \/ Leaves(q)
      PROVE  DiscoveryTypeOK'
  BY <1>4, MovesAssumption DEF Joins, Leaves, threadVars, browserVars, Service
<1>5. ASSUME NEW q \in Service, Hears(q) \/ Expires(q)
      PROVE  DiscoveryTypeOK'
  <2>1. \A kind \in {"Added", "Removed"} : [kind |-> kind, name |-> q] \in EventType
    BY DEF EventType
  <2>2. queue' \in Seq(EventType)
    BY <1>0, <1>5, <2>1, EventQueue DEF Hears, Expires, Enqueue
  <2>3. QED
    BY <1>5, <2>2 DEF Hears, Expires, threadVars, EventType
<1>6. ASSUME TakeAdded \/ TakeRemoved
      PROVE  DiscoveryTypeOK'
  <2>1. Tail(queue) \in Seq(EventType) /\ Head(queue).name \in Service
    BY <1>0, <1>6, EventQueue DEF TakeAdded, TakeRemoved, EventType
  <2>2. /\ handling' \in [at : Stages, name : Service]
        /\ handling'.at \in {"finding", "removing", "losing"} => handling'.name \in Peer
    <3>1. CASE TakeAdded
      BY <2>1, <3>1, HandlingType DEF TakeAdded, Stages
    <3>2. CASE TakeRemoved
      <4>1. \/ handling' = Idle
            \/ /\ handling' = [at |-> "removing", name |-> Head(queue).name]
               /\ Head(queue).name \in Peer
        BY <3>2 DEF TakeRemoved
      <4>2. Idle \in [at : Stages, name : Service] /\ Idle.at = "idle"
        BY DEF Idle, Stages, Service
      <4>3. QED
        BY <2>1, <4>1, <4>2, HandlingType DEF Stages
    <3>3. QED
      BY <1>6, <3>1, <3>2
  <2>3. queue' = Tail(queue)
    BY <1>6 DEF TakeAdded, TakeRemoved
  <2>4. /\ UNCHANGED <<threadVars, networkVars, browser, peers, found, lost>>
        /\ missed' \subseteq missed
    BY <1>6 DEF TakeAdded, TakeRemoved
  <2>5. QED
    BY <2>1, <2>2, <2>3, <2>4 DEF threadVars, networkVars, EventType
<1>7. ASSUME \/ InfoMissing \/ InfoFound \/ CallDiscovered
             \/ Pop \/ CallLost \/ HandlerRaises
      PROVE  DiscoveryTypeOK'
  <2>1. handling.name \in Service
    OBVIOUS
  <2>2. /\ handling' \in [at : Stages, name : Service]
        /\ handling'.at \in {"finding", "removing", "losing"} => handling'.name \in Peer
    <3>1. \E at \in Stages : GoesTo(at)
      BY <1>7 DEF InfoMissing, InfoFound, CallDiscovered, Pop, CallLost, HandlerRaises, Stages
    <3>2. PICK at \in Stages : GoesTo(at)
      BY <3>1
    <3>3. /\ handling' \in [at : Stages, name : Service]
          /\ handling'.at = at
          /\ handling'.name = handling.name
      BY <3>2, GoesToType
    <3>4. \/ GoesTo("idle")
          \/ handling.name \in Peer
      BY <1>7, <2>1 DEF InfoMissing, InfoFound, CallDiscovered, Pop, CallLost, HandlerRaises,
         Handles, Service
    <3>5. GoesTo("idle") => handling'.at = "idle"
      BY GoesToType DEF Stages
    <3>6. QED
      BY <3>3, <3>4, <3>5
  <2>3. peers' \subseteq Peer /\ missed' \subseteq Peer
    BY <1>7, <2>1 DEF InfoMissing, InfoFound, CallDiscovered, Pop, CallLost, HandlerRaises,
       Service
  <2>4. found' \in [Peer -> Nat] /\ lost' \in [Peer -> Nat]
    <3>1. ASSUME CallDiscovered \/ CallLost
          PROVE  found' \in [Peer -> Nat] /\ lost' \in [Peer -> Nat]
      <4>1. handling.name \in Peer
        BY <3>1 DEF CallDiscovered, CallLost, Handles
      <4>2. CASE CallDiscovered
        BY <4>1, <4>2, CountType DEF CallDiscovered
      <4>3. CASE CallLost
        BY <4>1, <4>3, CountType DEF CallLost
      <4>4. QED
        BY <3>1, <4>2, <4>3
    <3>2. CASE ~(CallDiscovered \/ CallLost)
      BY <1>7, <3>2 DEF InfoMissing, InfoFound, Pop, HandlerRaises
    <3>3. QED
      BY <3>1, <3>2
  <2>5. queue' = queue /\ browser' \in BOOLEAN /\ UNCHANGED <<threadVars, networkVars>>
    BY <1>7 DEF InfoMissing, InfoFound, CallDiscovered, Pop, CallLost, HandlerRaises
  <2>6. QED
    BY <2>2, <2>3, <2>4, <2>5 DEF threadVars, networkVars
<1>8. QED
  BY <1>1, <1>2, <1>3, <1>4, <1>5, <1>6, <1>7 DEF DiscoveryNext, Handler

\* The state of discovery stays well typed, and no callback is about this device.
THEOREM DiscoveryTypeCorrect == DiscoverySpec => []DiscoveryTypeOK
BY DiscoveryTypeInit, DiscoveryTypeStep, PTL DEF DiscoverySpec

-----------------------------------------------------------------------------
(***************************************************************************)
(* Callbacks come in turn.                                                 *)
(*                                                                         *)
(* An Added event of a peer that the handler knows, or a second one with   *)
(* no Removed between, would report the peer twice.  Count as added, at    *)
(* place 0, a peer the handler knows from an event it has taken, and, one  *)
(* past the end of the queue, a peer the browser does not know and may add *)
(* at any time: between two places of AddedAt there is always a Removed.   *)
(***************************************************************************)
Busy(at, q) == handling.at = at /\ handling.name = q
Known(q) == (q \in peers /\ ~Busy("removing", q)) \/ Busy("resolving", q)

At(kind, q) == {i \in 1..Len(queue) : queue[i].kind = kind /\ queue[i].name = q}
AddedAt(q) ==
  At("Added", q) \cup {i \in {0} : Known(q)} \cup {i \in {Len(queue) + 1} : q \notin cache}

\* Between two places of A there is one of R.
Separates(R, A) == \A i, j \in A : i < j => \E k \in R : i < k /\ k < j

\* The caller of q has been told that it is there, and not yet that it has gone.
Told(q) == (q \in peers /\ ~Busy("finding", q)) \/ Busy("losing", q)

InTurn(q) ==
  /\ Separates(At("Removed", q), AddedAt(q))
  /\ Busy("finding", q) \/ Busy("removing", q) => q \in peers
  /\ Busy("resolving", q) \/ Busy("losing", q) => q \notin peers
  /\ found[q] = lost[q] + (IF Told(q) THEN 1 ELSE 0)

\* Before the browser there is nothing to handle.
Pristine ==
  /\ ~browser /\ queue = <<>> /\ handling = Idle
  /\ peers = {} /\ cache = {}
  /\ found = lost

FeedInv ==
  /\ caller = "new" => starter = "new"
  /\ caller # "stopped" =>
       /\ starter # "ended" => Pristine
       /\ browser => \A q \in Peer : InTurn(q)

LEMMA Places ==
  ASSUME queue \in Seq(EventType), NEW q \in Peer
  PROVE  /\ Len(queue) \in Nat
         /\ \A kind \in {"Added", "Removed"} : At(kind, q) \subseteq 1..Len(queue)
         /\ AddedAt(q) \subseteq 0..(Len(queue) + 1)
         /\ At("Added", q) \cap At("Removed", q) = {}
         /\ 0 \in AddedAt(q) <=> Known(q)
         /\ Len(queue) + 1 \in AddedAt(q) <=> q \notin cache
         /\ \A i \in 1..Len(queue) : i \in AddedAt(q) <=> i \in At("Added", q)
BY DEF At, AddedAt

\* What is put at the end of the queue leaves the rest where it is.
LEMMA PushedAt ==
  ASSUME queue \in Seq(EventType), NEW kind \in {"Added", "Removed"}, NEW p \in Service,
         Enqueue(kind, p)
  PROVE  /\ Len(queue') = Len(queue) + 1
         /\ \A k \in {"Added", "Removed"}, q \in Peer :
              At(k, q)' = At(k, q) \cup {i \in {Len(queue) + 1} : k = kind /\ q = p}
<1>1. [kind |-> kind, name |-> p] \in EventType
  BY DEF EventType
<1>2. /\ Len(queue') = Len(queue) + 1 /\ Len(queue) \in Nat
      /\ \A i \in 1..Len(queue) : queue'[i] = queue[i]
      /\ queue'[Len(queue) + 1] = [kind |-> kind, name |-> p]
  BY <1>1 DEF Enqueue
<1>3. ASSUME NEW k \in {"Added", "Removed"}, NEW q \in Peer
      PROVE  At(k, q)' = At(k, q) \cup {i \in {Len(queue) + 1} : k = kind /\ q = p}
  BY <1>2 DEF At
<1>4. QED
  BY <1>2, <1>3

\* What is taken from the front moves the rest one place forward.
LEMMA TakenAt ==
  ASSUME queue \in Seq(EventType), queue # <<>>, queue' = Tail(queue)
  PROVE  /\ Len(queue) \in Nat \ {0} /\ Len(queue') = Len(queue) - 1
         /\ \A k \in {"Added", "Removed"}, q \in Peer :
              /\ At(k, q)' = {i \in 1..(Len(queue) - 1) : i + 1 \in At(k, q)}
              /\ 1 \in At(k, q) <=> Head(queue).kind = k /\ Head(queue).name = q
<1>1. /\ Len(queue) \in Nat \ {0} /\ Len(queue') = Len(queue) - 1
      /\ \A i \in 1..(Len(queue) - 1) : queue'[i] = queue[i + 1]
      /\ Head(queue) = queue[1]
  OBVIOUS
<1>2. ASSUME NEW k \in {"Added", "Removed"}, NEW q \in Peer
      PROVE  /\ At(k, q)' = {i \in 1..(Len(queue) - 1) : i + 1 \in At(k, q)}
             /\ 1 \in At(k, q) <=> Head(queue).kind = k /\ Head(queue).name = q
  BY <1>1 DEF At
<1>3. QED
  BY <1>1, <1>2

\* Nothing moves, and the handler knows no more than before.
LEMMA KeptInTurn ==
  ASSUME NEW q \in Peer, Separates(At("Removed", q), AddedAt(q)),
         UNCHANGED <<queue, cache>>, Known(q)' => Known(q)
  PROVE  Separates(At("Removed", q), AddedAt(q))'
<1>1. At("Removed", q)' = At("Removed", q) /\ At("Added", q)' = At("Added", q)
  BY DEF At
<1>2. AddedAt(q)' \subseteq AddedAt(q)
  BY <1>1 DEF AddedAt
<1>3. QED
  BY <1>1, <1>2 DEF Separates

\* The browser adds what it does not know and removes what it knows.
LEMMA HeardInTurn ==
  ASSUME DiscoveryTypeOK, NEW p \in Service, Hears(p) \/ Expires(p),
         NEW q \in Peer, Separates(At("Removed", q), AddedAt(q))
  PROVE  Separates(At("Removed", q), AddedAt(q))'
<1> DEFINE n == Len(queue)
           R == At("Removed", q)
           A == AddedAt(q)
<1>1. queue \in Seq(EventType) /\ Known(q)' = Known(q)
  BY DEF DiscoveryTypeOK, EventType, Hears, Expires, Known, Busy
<1>2. n \in Nat /\ R \subseteq 1..n /\ A \subseteq 0..(n + 1)
  BY <1>1, Places
<1>3. CASE Hears(p)
  <2>1. /\ n' = n + 1 /\ R' = R
        /\ At("Added", q)' = At("Added", q) \cup {i \in {n + 1} : q = p}
    <3>1. Enqueue("Added", p)
      BY <1>3 DEF Hears
    <3>2. \A k \in {"Added", "Removed"} :
            At(k, q)' = At(k, q) \cup {i \in {n + 1} : k = "Added" /\ q = p}
      BY <1>1, <3>1, PushedAt
    <3>3. n' = n + 1
      BY <1>1, <3>1, PushedAt
    <3>4. QED
      BY <3>2, <3>3
  <2>2. CASE q = p
    <3>1. A' = A
      BY <1>1, <1>3, <2>1, <2>2 DEF Hears, AddedAt
    <3>2. QED
      BY <2>1, <3>1 DEF Separates
  <2>3. CASE q # p
    <3>1. \A i \in A' : (i \in A /\ i <= n) \/ (i = n + 2 /\ n + 1 \in A)
      BY <1>1, <1>2, <1>3, <2>1, <2>3 DEF Hears, AddedAt, At
    <3>2. QED
      BY <1>2, <2>1, <3>1 DEF Separates
  <2>4. QED
    BY <2>2, <2>3
<1>4. CASE Expires(p)
  <2>1. /\ n' = n + 1 /\ R' = R \cup {i \in {n + 1} : q = p}
        /\ At("Added", q)' = At("Added", q)
    <3>1. Enqueue("Removed", p)
      BY <1>4 DEF Expires
    <3>2. \A k \in {"Added", "Removed"} :
            At(k, q)' = At(k, q) \cup {i \in {n + 1} : k = "Removed" /\ q = p}
      BY <1>1, <3>1, PushedAt
    <3>3. n' = n + 1
      BY <1>1, <3>1, PushedAt
    <3>4. QED
      BY <3>2, <3>3
  <2>2. CASE q = p
    <3>1. A' = A \cup {n + 2} /\ A \subseteq 0..n
      BY <1>1, <1>2, <1>4, <2>1, <2>2 DEF Expires, AddedAt, At
    <3>2. QED
      BY <1>2, <2>1, <2>2, <3>1 DEF Separates
  <2>3. CASE q # p
    <3>1. \A i \in A' : (i \in A /\ i <= n) \/ (i = n + 2 /\ n + 1 \in A)
      BY <1>1, <1>2, <1>4, <2>1, <2>3 DEF Expires, AddedAt, At
    <3>2. QED
      BY <1>2, <2>1, <2>3, <3>1 DEF Separates
  <2>4. QED
    BY <2>2, <2>3
<1>5. QED
  BY <1>3, <1>4

\* An event is taken, and if it is a Removed the handler knows its peer no more.
LEMMA TakenInTurn ==
  ASSUME DiscoveryTypeOK, TakeAdded \/ TakeRemoved,
         NEW q \in Peer, Separates(At("Removed", q), AddedAt(q))
  PROVE  /\ Separates(At("Removed", q), AddedAt(q))'
         /\ Known(q) => ~(TakeAdded /\ Head(queue).name = q)
<1> DEFINE n == Len(queue)
           R == At("Removed", q)
           A == AddedAt(q)
<1>1. /\ queue \in Seq(EventType) /\ queue # <<>> /\ queue' = Tail(queue)
      /\ UNCHANGED <<cache, peers>> /\ handling.at = "idle"
  BY DEF DiscoveryTypeOK, EventType, TakeAdded, TakeRemoved, Handles, networkVars
<1>2. /\ n \in Nat \ {0} /\ n' = n - 1
      /\ \A i : i \in R' <=> i \in 1..(n - 1) /\ i + 1 \in R
      /\ \A i : i \in At("Added", q)' <=> i \in 1..(n - 1) /\ i + 1 \in At("Added", q)
      /\ 1 \in R <=> Head(queue).kind = "Removed" /\ Head(queue).name = q
      /\ 1 \in At("Added", q) <=> Head(queue).kind = "Added" /\ Head(queue).name = q
  BY <1>1, TakenAt
<1>3. R \subseteq 1..n /\ A \subseteq 0..(n + 1)
  BY <1>1, Places
<1>4. \A i \in A' : i = 0 \/ (i \in 1..n /\ i + 1 \in A)
  BY <1>1, <1>2 DEF AddedAt
<1>5. Known(q) => ~(TakeAdded /\ Head(queue).name = q)
  <2> SUFFICES ASSUME Known(q), TakeAdded, Head(queue).name = q
               PROVE  FALSE
    OBVIOUS
  <2>1. 0 \in A /\ 1 \in A
    BY <1>2 DEF AddedAt, TakeAdded
  <2>2. QED
    BY <1>3, <2>1 DEF Separates
<1>6. CASE ~Known(q)'
  <2>1. \A i \in A' : i \in 1..n /\ i + 1 \in A
    BY <1>2, <1>4, <1>6 DEF AddedAt, At
  <2>2. \A i, j \in A' : i < j => \E k \in R : i + 1 < k /\ k < j + 1
    BY <2>1 DEF Separates
  <2>3. \A i, j \in A' : i < j => \E k \in R' : i < k /\ k < j
    <3> SUFFICES ASSUME NEW i \in A', NEW j \in A', i < j
                 PROVE  \E k \in R' : i < k /\ k < j
      OBVIOUS
    <3>1. PICK k \in R : i + 1 < k /\ k < j + 1
      BY <2>2
    <3>2. i \in 0..n /\ j \in 0..n /\ k \in 1..n
      BY <1>2, <1>3, <1>4, <3>1
    <3>3. k - 1 \in R'
      BY <1>2, <3>1, <3>2
    <3>4. QED
      BY <3>1, <3>2, <3>3
  <2>4. QED
    BY <1>5, <2>3 DEF Separates
<1>7. CASE Known(q)'
  <2>1. (1 \in A /\ ~Known(q)) \/ (0 \in A /\ 1 \notin R)
    <3>1. CASE TakeAdded /\ Head(queue).name = q
      BY <1>2, <1>5, <3>1 DEF AddedAt, TakeAdded
    <3>2. CASE ~(TakeAdded /\ Head(queue).name = q)
      BY <1>1, <1>2, <1>7, <3>2 DEF AddedAt, Known, Busy, TakeAdded, TakeRemoved, Idle
    <3>3. QED
      BY <3>1, <3>2
  <2>2. \A i, j \in A' : i < j => \E k \in R : i + 1 < k /\ k < j + 1
    <3> SUFFICES ASSUME NEW i \in A', NEW j \in A', i < j
                 PROVE  \E k \in R : i + 1 < k /\ k < j + 1
      OBVIOUS
    <3>1. j \in 1..n /\ j + 1 \in A
      BY <1>2, <1>4
    <3>2. CASE i = 0
      BY <1>3, <2>1, <3>1, <3>2 DEF Separates
    <3>3. CASE i # 0
      BY <1>4, <3>1, <3>3 DEF Separates
    <3>4. QED
      BY <3>2, <3>3
  <2>3. \A i, j \in A' : i < j => \E k \in R' : i < k /\ k < j
    <3> SUFFICES ASSUME NEW i \in A', NEW j \in A', i < j
                 PROVE  \E k \in R' : i < k /\ k < j
      OBVIOUS
    <3>1. PICK k \in R : i + 1 < k /\ k < j + 1
      BY <2>2
    <3>2. i \in 0..n /\ j \in 0..n /\ k \in 1..n
      BY <1>2, <1>3, <1>4, <3>1
    <3>3. k - 1 \in R'
      BY <1>2, <3>1, <3>2
    <3>4. QED
      BY <3>1, <3>2, <3>3
  <2>4. QED
    BY <1>5, <2>3 DEF Separates
<1>8. QED
  BY <1>6, <1>7

LEMMA SameInTurn ==
  ASSUME NEW q \in Peer, InTurn(q), UNCHANGED <<queue, cache, handling, peers, found, lost>>
  PROVE  InTurn(q)'
<1>1. Known(q)' = Known(q) /\ Told(q)' = Told(q) /\ \A at : Busy(at, q)' = Busy(at, q)
  BY DEF Known, Told, Busy
<1>2. QED
  BY <1>1, KeptInTurn DEF InTurn

LEMMA GoesToBusy ==
  ASSUME DiscoveryTypeOK, NEW to \in Stages, GoesTo(to), NEW q \in Peer
  PROVE  \A at : Busy(at, q)' <=> at = to /\ handling.name = q
BY GoesToType DEF DiscoveryTypeOK, Busy

\* The handler, from the answer about an Added service to the callback.
LEMMA FoundInTurn ==
  ASSUME DiscoveryTypeOK, InfoMissing \/ InfoFound \/ CallDiscovered,
         NEW q \in Peer, InTurn(q)
  PROVE  InTurn(q)'
<1> USE SelfAssumption
<1>1. CASE InfoMissing
  <2>1. \A at : Busy(at, q)' <=> at = "idle" /\ handling.name = q
    BY <1>1, GoesToBusy DEF InfoMissing, Stages
  <2>2. (Known(q)' => Known(q)) /\ Told(q)' = Told(q)
    BY <1>1, <2>1 DEF InfoMissing, Handles, Known, Told, Busy
  <2>3. QED
    BY <1>1, <2>1, <2>2, KeptInTurn DEF InTurn, InfoMissing, networkVars
<1>2. CASE InfoFound
  <2>1. CASE handling.name = Self
    <3>1. \A at : Busy(at, q)' <=> at = "idle" /\ handling.name = q
      BY <1>2, <2>1, GoesToBusy DEF InfoFound, Stages
    <3>2. (Known(q)' => Known(q)) /\ Told(q)' = Told(q)
      BY <1>2, <2>1, <3>1 DEF InfoFound, Handles, Known, Told, Busy
    <3>3. QED
      BY <1>2, <2>1, <3>1, <3>2, KeptInTurn DEF InTurn, InfoFound, networkVars
  <2>2. CASE handling.name # Self
    <3>1. \A at : Busy(at, q)' <=> at = "finding" /\ handling.name = q
      BY <1>2, <2>2, GoesToBusy DEF InfoFound, Stages
    <3>2. peers' = peers \cup {handling.name} /\ handling.at = "resolving"
      BY <1>2, <2>2 DEF InfoFound, Handles
    <3>3. Known(q)' => Known(q)
      BY <3>1, <3>2 DEF Known, Busy
    <3>4. Told(q)' = Told(q)
      BY <3>1, <3>2 DEF Told, Busy, InTurn
    <3>5. QED
      BY <1>2, <3>1, <3>2, <3>3, <3>4, KeptInTurn DEF InTurn, InfoFound, networkVars
  <2>3. QED
    BY <2>1, <2>2
<1>3. CASE CallDiscovered
  <2>1. \A at : Busy(at, q)' <=> at = "idle" /\ handling.name = q
    BY <1>3, GoesToBusy DEF CallDiscovered, Stages
  <2>2. /\ handling.at = "finding" /\ UNCHANGED <<queue, cache, peers, lost>>
        /\ handling.name \in Peer
    BY <1>3 DEF CallDiscovered, Handles, networkVars, DiscoveryTypeOK
  <2>3. Known(q)' => Known(q)
    BY <2>1, <2>2 DEF Known, Busy
  <2>4. found[q] \in Nat /\ lost[q] \in Nat /\ found \in [Peer -> Nat]
    BY DEF DiscoveryTypeOK
  <2>5. CASE handling.name = q
    <3>1. found'[q] = found[q] + 1
      BY <1>3, <2>4, <2>5 DEF CallDiscovered
    <3>2. ~Told(q) /\ Told(q)'
      BY <2>1, <2>2, <2>5 DEF Told, Busy, InTurn
    <3>3. QED
      BY <2>1, <2>2, <2>3, <2>4, <3>1, <3>2, KeptInTurn DEF InTurn
  <2>6. CASE handling.name # q
    <3>1. found'[q] = found[q]
      BY <1>3, <2>2, <2>4, <2>6 DEF CallDiscovered
    <3>2. Told(q)' = Told(q)
      BY <2>1, <2>2, <2>6 DEF Told, Busy
    <3>3. QED
      BY <2>1, <2>2, <2>3, <3>1, <3>2, KeptInTurn DEF InTurn
  <2>7. QED
    BY <2>5, <2>6
<1>4. QED
  BY <1>1, <1>2, <1>3

\* The handler, from a Removed service that is known to the callback.
LEMMA LostInTurn ==
  ASSUME DiscoveryTypeOK, Pop \/ CallLost, browser', NEW q \in Peer, InTurn(q)
  PROVE  InTurn(q)'
<1>1. CASE Pop
  <2>1. peers' = peers \ {handling.name} /\ GoesTo("losing") /\ handling.at = "removing"
    BY <1>1 DEF Pop, Handles
  <2>2. \A at : Busy(at, q)' <=> at = "losing" /\ handling.name = q
    BY <2>1, GoesToBusy DEF Stages
  <2>3. Known(q)' => Known(q)
    BY <2>1, <2>2 DEF Known, Busy
  <2>4. Told(q)' = Told(q)
    BY <2>1, <2>2 DEF Told, Busy, InTurn
  <2>5. QED
    BY <1>1, <2>1, <2>2, <2>3, <2>4, KeptInTurn DEF InTurn, Pop, networkVars
<1>2. CASE CallLost
  <2>1. \A at : Busy(at, q)' <=> at = "idle" /\ handling.name = q
    BY <1>2, GoesToBusy DEF CallLost, Stages
  <2>2. /\ handling.at = "losing" /\ UNCHANGED <<queue, cache, peers, found>>
        /\ handling.name \in Peer
    BY <1>2 DEF CallLost, Handles, networkVars, DiscoveryTypeOK
  <2>3. Known(q)' => Known(q)
    BY <2>1, <2>2 DEF Known, Busy
  <2>4. found[q] \in Nat /\ lost[q] \in Nat /\ lost \in [Peer -> Nat]
    BY DEF DiscoveryTypeOK
  <2>5. CASE handling.name = q
    <3>1. lost'[q] = lost[q] + 1
      BY <1>2, <2>4, <2>5 DEF CallLost
    <3>2. Told(q) /\ ~Told(q)'
      BY <2>1, <2>2, <2>5 DEF Told, Busy, InTurn
    <3>3. QED
      BY <2>1, <2>2, <2>3, <2>4, <3>1, <3>2, KeptInTurn DEF InTurn
  <2>6. CASE handling.name # q
    <3>1. lost'[q] = lost[q]
      BY <1>2, <2>2, <2>4, <2>6 DEF CallLost
    <3>2. Told(q)' = Told(q)
      BY <2>1, <2>2, <2>6 DEF Told, Busy
    <3>3. QED
      BY <2>1, <2>2, <2>3, <3>1, <3>2, KeptInTurn DEF InTurn
  <2>7. QED
    BY <2>5, <2>6
<1>3. QED
  BY <1>1, <1>2

LEMMA QueueInTurn ==
  ASSUME DiscoveryTypeOK, NEW q \in Peer, InTurn(q),
         \/ TakeAdded \/ TakeRemoved
         \/ \E p \in Service : Hears(p) \/ Expires(p)
  PROVE  InTurn(q)'
<1> USE SelfAssumption
<1>1. ASSUME NEW p \in Service, Hears(p) \/ Expires(p)
      PROVE  InTurn(q)'
  <2>1. UNCHANGED <<handling, peers, found, lost>>
    BY <1>1 DEF Hears, Expires
  <2>2. Separates(At("Removed", q), AddedAt(q))'
    BY <1>1, HeardInTurn DEF InTurn
  <2>3. Told(q)' = Told(q) /\ \A at : Busy(at, q)' = Busy(at, q)
    BY <2>1 DEF Told, Busy
  <2>4. QED
    BY <2>1, <2>2, <2>3 DEF InTurn
<1>2. ASSUME TakeAdded \/ TakeRemoved
      PROVE  InTurn(q)'
  <2>1. /\ UNCHANGED <<peers, found, lost>> /\ handling.at = "idle"
        /\ \A at : Busy(at, q) => at = "idle"
    BY <1>2 DEF TakeAdded, TakeRemoved, Handles, Busy
  <2>2. Separates(At("Removed", q), AddedAt(q))'
    BY <1>2, TakenInTurn DEF InTurn
  <2>3. ~Busy("finding", q)' /\ ~Busy("losing", q)'
    BY <1>2 DEF TakeAdded, TakeRemoved, Busy, Idle
  <2>4. Busy("removing", q)' => q \in peers
    BY <1>2 DEF TakeAdded, TakeRemoved, Busy, Idle
  <2>5. Busy("resolving", q)' => q \notin peers
    <3> SUFFICES ASSUME Busy("resolving", q)' PROVE q \notin peers
      OBVIOUS
    <3>1. TakeAdded /\ Head(queue).name = q
      BY <1>2 DEF TakeAdded, TakeRemoved, Busy, Idle
    <3>2. ~Known(q)
      BY <1>2, <3>1, TakenInTurn DEF InTurn
    <3>3. QED
      BY <2>1, <3>2 DEF Known
  <2>6. Told(q)' = Told(q)
    BY <2>1, <2>3 DEF Told
  <2>7. QED
    BY <2>1, <2>2, <2>3, <2>4, <2>5, <2>6 DEF InTurn
<1>3. QED
  BY <1>1, <1>2

LEMMA BrowseInTurn ==
  ASSUME DiscoveryTypeOK, Pristine, Browse, NEW q \in Peer
  PROVE  InTurn(q)'
<1>1. /\ queue' = <<>> /\ handling' = Idle /\ peers' = {} /\ cache' = {} /\ found' = lost'
  BY DEF Pristine, Browse, networkVars
<1>2. Len(queue') = 0 /\ \A at : Busy(at, q)' => at = "idle"
  BY <1>1 DEF Busy, Idle
<1>3. ~Known(q)' /\ ~Told(q)'
  BY <1>1, <1>2 DEF Known, Told
<1>4. At("Added", q)' = {} /\ At("Removed", q)' = {} /\ AddedAt(q)' \subseteq {1}
  BY <1>2, <1>3 DEF At, AddedAt
<1>5. Separates(At("Removed", q), AddedAt(q))'
  BY <1>4 DEF Separates
<1>6. found'[q] = lost'[q] + 0
  BY <1>1 DEF Browse, DiscoveryTypeOK
<1>7. QED
  BY <1>1, <1>2, <1>3, <1>5, <1>6 DEF InTurn

LEMMA FeedStep ==
  ASSUME DiscoveryTypeOK, FeedInv, [DiscoveryNext]_discoveryVars
  PROVE  FeedInv'
<1>1. caller' = "new" => starter' = "new"
  BY DEF FeedInv, DiscoveryNext, discoveryVars, Caller, Start, StartReturns, StopsEarly,
     Unregister, Close, StopFails, Drop, Clear, Starter, Create, ReadToRegister, Register,
     ReadToBrowse, Browse, StarterFails, Handler, TakeAdded, InfoMissing, InfoFound,
     CallDiscovered, TakeRemoved, Pop, CallLost, HandlerRaises, Joins, Leaves, Hears,
     Expires, threadVars
<1> SUFFICES ASSUME caller' # "stopped"
             PROVE  /\ starter' # "ended" => Pristine'
                    /\ browser' => \A q \in Peer : InTurn(q)'
  BY <1>1 DEF FeedInv
<1>2. CASE UNCHANGED discoveryVars
  BY <1>2, SameInTurn DEF discoveryVars, FeedInv, Pristine
<1>3. CASE Caller
  BY <1>3, SameInTurn DEF Caller, Start, StartReturns, StopsEarly, Unregister, Close,
     StopFails, Drop, Clear, networkVars, browserVars, FeedInv, Pristine
<1>4. CASE Starter
  <2>1. CASE Browse
    <3>1. Pristine
      BY <2>1 DEF Browse, FeedInv
    <3>2. QED
      BY <2>1, <3>1, BrowseInTurn DEF Browse
  <2>2. CASE ~Browse
    BY <1>4, <2>2, SameInTurn DEF Starter, Create, ReadToRegister, Register, ReadToBrowse,
       StarterFails, networkVars, browserVars, FeedInv, Pristine
  <2>3. QED
    BY <2>1, <2>2
<1>5. ASSUME NEW p \in Peer, Joins(p) \/ Leaves(p)
      PROVE  /\ starter' # "ended" => Pristine'
             /\ browser' => \A q \in Peer : InTurn(q)'
  BY <1>5, SameInTurn DEF Joins, Leaves, threadVars, browserVars, FeedInv, Pristine
<1>6. ASSUME NEW p \in Service, Hears(p) \/ Expires(p)
      PROVE  /\ starter' # "ended" => Pristine'
             /\ browser' => \A q \in Peer : InTurn(q)'
  <2>1. browser /\ caller' = caller /\ starter' = starter
    BY <1>6 DEF Hears, Expires, threadVars
  <2>2. starter = "ended" /\ \A q \in Peer : InTurn(q)
    BY <2>1 DEF FeedInv, Pristine
  <2>3. QED
    BY <1>6, <2>1, <2>2, QueueInTurn
<1>7. CASE Handler
  <2>1. browser /\ caller' = caller /\ starter' = starter
    BY <1>7 DEF Handler, TakeAdded, InfoMissing, InfoFound, CallDiscovered, TakeRemoved, Pop,
       CallLost, HandlerRaises, Handles, threadVars
  <2>2. starter = "ended" /\ \A q \in Peer : InTurn(q)
    BY <2>1 DEF FeedInv, Pristine
  <2>3. HandlerRaises => ~browser'
    BY DEF HandlerRaises
  <2>4. QED
    BY <1>7, <2>1, <2>2, <2>3, QueueInTurn, FoundInTurn, LostInTurn DEF Handler
<1>8. QED
  BY <1>2, <1>3, <1>4, <1>5, <1>6, <1>7 DEF DiscoveryNext

\* What is called back and when is what PeerFeed allows.
LEMMA FeedNext ==
  ASSUME DiscoveryTypeOK, FeedInv, [DiscoveryNext]_discoveryVars
  PROVE  [Feed!PeerNext]_(Feed!peerVars)
<1>1. CASE UNCHANGED <<found, lost>>
  <2>1. caller = "stopped" => caller' = "stopped"
    BY DEF DiscoveryNext, discoveryVars, Caller, Start, StartReturns, StopsEarly,
     Unregister, Close, StopFails, Drop, Clear, Starter, Create, ReadToRegister, Register,
     ReadToBrowse, Browse, StarterFails, Handler, TakeAdded, InfoMissing, InfoFound,
     CallDiscovered, TakeRemoved, Pop, CallLost, HandlerRaises, Joins, Leaves, Hears,
     Expires, threadVars
  <2>2. (caller' = "stopped") = (caller = "stopped") \/ (caller' = "stopped") = TRUE
    BY <2>1
  <2>3. QED
    BY <1>1, <2>2 DEF Feed!PeerNext, Feed!Close, Feed!peerVars
<1>2. CASE CallDiscovered
  <2>1. /\ browser /\ Busy("finding", handling.name) /\ handling.name \in Peer
        /\ UNCHANGED <<lost, caller>>
        /\ found' = [found EXCEPT ![handling.name] = @ + 1]
    BY <1>2 DEF CallDiscovered, Handles, Busy, DiscoveryTypeOK, threadVars
  <2>2. caller = "stopped" \/ found[handling.name] = lost[handling.name]
    <3> SUFFICES ASSUME caller # "stopped" PROVE found[handling.name] = lost[handling.name]
      OBVIOUS
    <3>1. InTurn(handling.name)
      BY <2>1 DEF FeedInv
    <3>2. ~Told(handling.name)
      BY <2>1 DEF Told, Busy
    <3>3. QED
      BY <2>1, <3>1, <3>2 DEF InTurn, DiscoveryTypeOK
  <2>3. QED
    BY <2>1, <2>2 DEF Feed!PeerNext, Feed!Found
<1>3. CASE CallLost
  <2>1. /\ browser /\ Busy("losing", handling.name) /\ handling.name \in Peer
        /\ UNCHANGED <<found, caller>>
        /\ lost' = [lost EXCEPT ![handling.name] = @ + 1]
    BY <1>3 DEF CallLost, Handles, Busy, DiscoveryTypeOK, threadVars
  <2>2. caller = "stopped" \/ found[handling.name] = lost[handling.name] + 1
    <3> SUFFICES ASSUME caller # "stopped" PROVE found[handling.name] = lost[handling.name] + 1
      OBVIOUS
    <3>1. InTurn(handling.name)
      BY <2>1 DEF FeedInv
    <3>2. Told(handling.name)
      BY <2>1 DEF Told
    <3>3. QED
      BY <2>1, <3>1, <3>2 DEF InTurn, DiscoveryTypeOK
  <2>3. QED
    BY <2>1, <2>2 DEF Feed!PeerNext, Feed!Lost
<1>4. UNCHANGED <<found, lost>> \/ CallDiscovered \/ CallLost
  BY DEF DiscoveryNext, discoveryVars, Caller, Start, StartReturns, StopsEarly,
     Unregister, Close, StopFails, Drop, Clear, Starter, Create, ReadToRegister, Register,
     ReadToBrowse, Browse, StarterFails, Handler, TakeAdded, InfoMissing, InfoFound,
     TakeRemoved, Pop, HandlerRaises, Joins, Leaves, Hears, Expires, threadVars,
     networkVars, browserVars
<1>5. QED
  BY <1>1, <1>2, <1>3, <1>4

\* Until stop() has returned, a peer is reported as found and as lost in turn,
\* whatever the browser queues, the peers do, and get_service_info answers.
THEOREM DiscoveryIsAFeed == DiscoverySpec => ImplementsPeerFeed
<1>1. DiscoveryInit => DiscoveryTypeOK /\ FeedInv
  BY DiscoveryTypeInit DEF DiscoveryInit, FeedInv, Pristine, InTurn
<1>2. DiscoveryInit => Feed!PeerInit
  BY DEF DiscoveryInit, Feed!PeerInit
<1>3. /\ DiscoveryTypeOK /\ FeedInv /\ [DiscoveryNext]_discoveryVars
      => (DiscoveryTypeOK /\ FeedInv)'
  BY DiscoveryTypeStep, FeedStep
<1>4. /\ DiscoveryTypeOK /\ FeedInv /\ [DiscoveryNext]_discoveryVars
      => [Feed!PeerNext]_(Feed!peerVars)
  BY FeedNext
<1>5. QED
  BY <1>1, <1>2, <1>3, <1>4, PTL DEF DiscoverySpec, ImplementsPeerFeed, Feed!PeerSpec
==============================================================================
