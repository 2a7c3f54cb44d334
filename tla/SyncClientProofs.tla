--------------------------- MODULE SyncClientProofs --------------------------
(***************************************************************************)
(* Theorems about SyncClient, for any finite set of peers and any number   *)
(* of coroutines and connections.                                          *)
(***************************************************************************)
EXTENDS SyncClient, FiniteSetTheorems, SequenceTheorems, WellFoundedInduction, TLAPS

Tasks == 1 .. Len(task)
Open == {"up", "paused", "gone", "dying", "dead"}
Runnable == {"start", "opened", "next", "cleanup", "end", "raise"}

\* The fields of a coroutine and the states of a connection that go together.
Fits(r) ==
  /\ r.kind # "broadcast" => r.peer \in Peer
  /\ r.pc \in {"opening", "opened"} => r.kind = "connect"
  /\ r.pc \in {"next", "draining", "cleanup"} => r.kind = "broadcast"
  /\ r.pc = "start" => r.at = 0
  /\ r.pc = "draining" => r.at > 0

FieldsFit ==
  /\ Len(task) <= MaxTask
  /\ \A t \in Tasks : Fits(task[t])
  /\ \A c \in Conn : conn[c].state # "none" => conn[c].peer \in Peer
  /\ \A q \in Connected : connections[q].at > 0

\* Whose a connection is: that of an entry, or that of the connect_to_peer which
\* has opened it and goes on to store it; a connection is stored once.
OwnersFit ==
  /\ EntriesAreOpen
  /\ \A t \in Tasks : task[t].pc = "opened" =>
       /\ task[t].conn \in Conn
       /\ conn[task[t].conn].peer = task[t].peer
       /\ conn[task[t].conn].state \in Open
       /\ connections[task[t].peer].conn # task[t].conn
       /\ \A u \in Tasks : task[u].pc = "opened" /\ task[u].conn = task[t].conn => u = t

\* A task is in one place: it runs, it is in the loop's queue once, or it waits
\* for one connection once.
PlacesFit ==
  /\ \A i \in 1 .. Len(ready) : ready[i] \in Tasks /\ task[ready[i]].pc \in Runnable
  /\ \A i, j \in 1 .. Len(ready) : ready[i] = ready[j] => i = j
  /\ current # 0 => /\ current \in Tasks /\ task[current].pc \in Runnable
                    /\ \A i \in 1 .. Len(ready) : ready[i] # current
  /\ \A c \in Conn : \A i \in 1 .. Len(waiting[c]) :
       /\ waiting[c][i] \in Tasks
       /\ task[waiting[c][i]].pc \in {"draining", "closing"}
       /\ task[waiting[c][i]].conn = c
       /\ \A j \in 1 .. Len(waiting[c]) : waiting[c][i] = waiting[c][j] => i = j

LoopInv == ClientTypeOK /\ FieldsFit /\ OwnersFit /\ PlacesFit

-----------------------------------------------------------------------------
(***************************************************************************)
(* The first of a set of numbers, and what it chooses here.                *)
(***************************************************************************)
LEMMA Smallest ==
  ASSUME NEW S \in SUBSET Nat, S # {}
  PROVE  \E x \in S : \A y \in S : x <= y
<1> DEFINE Less == {ss \in Nat \X Nat : ss[1] < ss[2]}
<1>1. IsWellFoundedOn(Less, Nat)
  BY NatLessThanWellFounded DEF OpToRel
<1>2. \A x, y \in S : <<y, x>> \notin Less => x <= y
  OBVIOUS
<1> HIDE DEF Less
<1>3. \E x \in S : \A y \in S : ~ (<<y, x>> \in Less)
  BY <1>1, WFMin
<1>4. QED
  BY <1>2, <1>3

LEMMA NextPeerIs ==
  ASSUME ClientTypeOK, Ahead # {}
  PROVE  /\ NextPeer \in Ahead /\ NextPeer \in Connected
         /\ \A r \in Ahead : connections[NextPeer].at <= connections[r].at
<1>1. \A q \in Ahead : q \in Peer /\ connections[q].at \in Nat
  BY DEF Ahead, Connected, ClientTypeOK
<1> DEFINE places == {connections[q].at : q \in Ahead}
<1>2. places \in SUBSET Nat /\ places # {}
  BY <1>1
<1>3. PICK x \in places : \A y \in places : x <= y
  BY <1>2, Smallest
<1>4. \E q \in Ahead : \A r \in Ahead : connections[q].at <= connections[r].at
  BY <1>3
<1>5. NextPeer \in Ahead /\ \A r \in Ahead : connections[NextPeer].at <= connections[r].at
  BY <1>4 DEF NextPeer
<1>6. QED
  BY <1>5 DEF Ahead

LEMMA FirstUnopened ==
  ASSUME Unopened # {}
  PROVE  LET c == CHOOSE c \in Unopened : \A d \in Unopened : c <= d
         IN  c \in Conn /\ conn[c].state = "none"
<1>1. Unopened \in SUBSET Nat
  BY DEF Unopened, Conn
<1>2. \E c \in Unopened : \A d \in Unopened : c <= d
  BY <1>1, Smallest
<1>3. QED
  BY <1>2 DEF Unopened

-----------------------------------------------------------------------------
(***************************************************************************)
(* What the building blocks of the actions do.                             *)
(***************************************************************************)
\* One task gets another state.
TaskBecomes(t, r) ==
  /\ task' \in Seq(Coroutines) /\ Len(task') = Len(task)
  /\ task'[t] = r
  /\ \A u \in Tasks : u # t => task'[u] = task[u]

LEMMA SetTask ==
  ASSUME task \in Seq(Coroutines), NEW t \in Tasks, NEW r \in Coroutines,
         task' = [task EXCEPT ![t] = r]
  PROVE  TaskBecomes(t, r)
BY DEF Tasks, TaskBecomes

LEMMA TaskFields ==
  ASSUME task \in Seq(Coroutines), NEW t \in Tasks
  PROVE  /\ task[t] \in Coroutines
         /\ task[t].kind \in {"connect", "disconnect", "broadcast"}
         /\ task[t].peer \in Peer \cup {NoPeer} /\ task[t].pc \in PCs
         /\ task[t].conn \in 0 .. MaxConn /\ task[t].at \in 0 .. MaxConn
         /\ task[t].failed \in Seq(Peer)
         /\ task[t].first \in 0 .. MaxConn /\ task[t].failedOn \in SUBSET Conn
<1>1. task[t] \in Coroutines
  BY DEF Tasks
<1>2. QED
  BY <1>1 DEF Coroutines

\* A coroutine starts, at the end of the queue.
LEMMA StartEffect ==
  ASSUME ClientTypeOK, NEW kind \in {"connect", "disconnect", "broadcast"},
         NEW q \in Peer \cup {NoPeer}, Start(kind, q)
  PROVE  /\ task' \in Seq(Coroutines) /\ Len(task') = Len(task) + 1
         /\ Len(task') <= MaxTask /\ Len(task') \in Nat
         /\ task'[Len(task) + 1] = Coroutine(kind, q)
         /\ Coroutine(kind, q).pc = "start" /\ Coroutine(kind, q).at = 0
         /\ Coroutine(kind, q).kind = kind /\ Coroutine(kind, q).peer = q
         /\ Coroutine(kind, q).first = 0
         /\ \A t \in Tasks : task'[t] = task[t] /\ t # Len(task) + 1
         /\ \A t \in 1 .. Len(task') : t \in Tasks \/ t = Len(task) + 1
         /\ ready' \in Seq(1 .. MaxTask) /\ Len(ready') = Len(ready) + 1
         /\ ready'[Len(ready) + 1] = Len(task) + 1
         /\ \A i \in 1 .. Len(ready) : ready'[i] = ready[i]
         /\ \A i \in 1 .. Len(ready') : i \in 1 .. Len(ready) \/ i = Len(ready) + 1
         /\ UNCHANGED <<connections, conn, waiting, sent, current>>
<1>1. /\ Len(task) < MaxTask /\ Len(task) \in Nat /\ MaxTask \in Nat
      /\ task' = Append(task, Coroutine(kind, q))
      /\ ready' = Append(ready, Len(task) + 1)
      /\ UNCHANGED <<connections, conn, waiting, sent, current>>
  BY BoundAssumption DEF Start, ClientTypeOK
<1>2. Coroutine(kind, q) \in Coroutines
  <2>1. Cardinality(Peer) \in Nat
    BY PeerAssumption, FS_CardinalityType
  <2>2. QED
    BY <2>1, BoundAssumption DEF Coroutine, Coroutines, PCs
<1>3. Len(task) + 1 \in 1 .. MaxTask
  BY <1>1
<1>4. /\ Coroutine(kind, q).pc = "start" /\ Coroutine(kind, q).at = 0
      /\ Coroutine(kind, q).kind = kind /\ Coroutine(kind, q).peer = q
      /\ Coroutine(kind, q).first = 0
  BY DEF Coroutine
<1> DEFINE new == Coroutine(kind, q)
<1> HIDE DEF new
<1>5. /\ Append(task, new) \in Seq(Coroutines) /\ Len(Append(task, new)) = Len(task) + 1
      /\ Append(task, new)[Len(task) + 1] = new
      /\ \A t \in Tasks : Append(task, new)[t] = task[t]
  BY <1>2 DEF new, ClientTypeOK, Tasks
<1>6. /\ ready' \in Seq(1 .. MaxTask) /\ Len(ready') = Len(ready) + 1
      /\ ready'[Len(ready) + 1] = Len(task) + 1
      /\ \A i \in 1 .. Len(ready) : ready'[i] = ready[i]
      /\ \A i \in 1 .. Len(ready') : i \in 1 .. Len(ready) \/ i = Len(ready) + 1
  BY <1>1, <1>3 DEF ClientTypeOK
<1>7. QED
  BY <1>1, <1>4, <1>5, <1>6 DEF new, Tasks

\* The queue's head runs.
LEMMA RunEffect ==
  ASSUME ClientTypeOK, PlacesFit, RunNext
  PROVE  /\ ready # <<>> /\ current = 0 /\ current' = ready[1] /\ current' \in Tasks
         /\ current' # 0
         /\ ready' \in Seq(1 .. MaxTask) /\ Len(ready') = Len(ready) - 1
         /\ \A i \in 1 .. Len(ready') : i + 1 \in 1 .. Len(ready) /\ ready'[i] = ready[i + 1]
         /\ 1 \in 1 .. Len(ready)
         /\ UNCHANGED <<connections, conn, waiting, sent, task, seen>>
<1>1. /\ ready # <<>> /\ ready \in Seq(1 .. MaxTask)
      /\ current' = Head(ready) /\ ready' = Tail(ready)
      /\ UNCHANGED <<connections, conn, waiting, sent, task, seen>>
  BY DEF RunNext, ClientTypeOK
<1>2. 1 \in 1 .. Len(ready) /\ Head(ready) = ready[1]
  BY <1>1
<1>3. ready[1] \in Tasks /\ ready[1] # 0
  BY <1>2 DEF PlacesFit, Tasks
<1>4. /\ ready' \in Seq(1 .. MaxTask) /\ Len(ready') = Len(ready) - 1
      /\ \A i \in 1 .. Len(ready') : i + 1 \in 1 .. Len(ready) /\ ready'[i] = ready[i + 1]
  BY <1>1
<1>5. QED
  BY <1>1, <1>2, <1>3, <1>4 DEF RunNext

\* The running task goes on as r, and keeps the loop or leaves it.
LEMMA TaskKept ==
  ASSUME ClientTypeOK, PlacesFit, current # 0, NEW r \in Coroutines, Become(r) \/ Leave(r)
  PROVE  /\ current \in Tasks /\ TaskBecomes(current, r)
         /\ UNCHANGED ready /\ current' \in {0, current}
         /\ Become(r) => current' = current
<1>1. current \in Tasks
  BY DEF PlacesFit
<1>2. task' = [task EXCEPT ![current] = r] /\ UNCHANGED ready /\ current' \in {0, current}
  BY DEF Become, Leave
<1>3. QED
  BY <1>1, <1>2, SetTask DEF ClientTypeOK, Become

\* The running task waits for connection c.
LEMMA WaitEffect ==
  ASSUME ClientTypeOK, PlacesFit, current # 0, NEW c \in Conn, NEW s \in States,
         NEW r \in Coroutines, WaitOn(c, s, r)
  PROVE  /\ current \in Tasks /\ TaskBecomes(current, [r EXCEPT !.conn = c])
         /\ [r EXCEPT !.conn = c] \in Coroutines
         /\ UNCHANGED ready /\ current' = 0
         /\ conn' = [conn EXCEPT ![c].state = s]
         /\ waiting' \in [Conn -> Seq(1 .. MaxTask)]
         /\ Len(waiting'[c]) = Len(waiting[c]) + 1
         /\ waiting'[c][Len(waiting[c]) + 1] = current
         /\ \A i \in 1 .. Len(waiting[c]) : waiting'[c][i] = waiting[c][i]
         /\ \A i \in 1 .. Len(waiting'[c]) : i \in 1 .. Len(waiting[c]) \/ i = Len(waiting[c]) + 1
         /\ \A d \in Conn : d # c => waiting'[d] = waiting[d]
<1>1. /\ conn' = [conn EXCEPT ![c].state = s]
      /\ waiting' = [waiting EXCEPT ![c] = Append(@, current)]
      /\ Leave([r EXCEPT !.conn = c])
  BY DEF WaitOn
<1>2. [r EXCEPT !.conn = c] \in Coroutines
  BY BoundAssumption DEF Coroutines, Conn
<1>3. /\ current \in Tasks /\ TaskBecomes(current, [r EXCEPT !.conn = c])
      /\ UNCHANGED ready /\ current' = 0
  <2>1. current \in Tasks
    BY DEF PlacesFit
  <2>2. task' = [task EXCEPT ![current] = [r EXCEPT !.conn = c]] /\ UNCHANGED ready /\ current' = 0
    BY <1>1 DEF Leave
  <2>3. QED
    BY <1>2, <2>1, <2>2, SetTask DEF ClientTypeOK
<1>4. current \in 1 .. MaxTask /\ waiting[c] \in Seq(1 .. MaxTask)
  BY DEF ClientTypeOK
<1>5. /\ waiting'[c] = Append(waiting[c], current)
      /\ \A d \in Conn : d # c => waiting'[d] = waiting[d]
      /\ waiting' \in [Conn -> Seq(1 .. MaxTask)]
  BY <1>1, <1>4 DEF ClientTypeOK
<1>6. QED
  BY <1>1, <1>2, <1>3, <1>4, <1>5

\* What is woken with a task, and what is not.
LEMMA WokenIs ==
  ASSUME ClientTypeOK, FieldsFit, NEW t \in Tasks, NEW c \in Conn, NEW ok \in BOOLEAN,
         conn[c].peer \in Peer, task[t].pc \in {"draining", "closing"}
  PROVE  LET r == Woken(task[t], c, ok)
         IN  /\ r \in Coroutines
             /\ r.kind = task[t].kind /\ r.peer = task[t].peer /\ r.conn = task[t].conn
             /\ r.at = task[t].at /\ r.first = task[t].first
             /\ r.pc \in {"next", "cleanup", "end", "raise"}
             /\ r.pc \in {"next", "cleanup"} => r.kind = "broadcast"
             /\ r.pc = "next" => task[t].pc = "draining"
<1>1. task[t] \in Coroutines
  BY DEF ClientTypeOK, Tasks
<1>2. task[t].pc = "draining" => task[t].kind = "broadcast"
  BY DEF FieldsFit, Fits
<1> DEFINE x == task[t]  q == conn[c].peer
<1> HIDE DEF x, q
<1>3. /\ x \in Coroutines /\ q \in Peer /\ x.pc \in {"draining", "closing"}
      /\ x.pc = "draining" => x.kind = "broadcast"
  BY <1>1, <1>2 DEF x, q
<1>4. Append(x.failed, q) \in Seq(Peer) /\ x.failedOn \cup {c} \in SUBSET Conn
  BY <1>3 DEF Coroutines
<1>5. CASE x.pc = "draining" /\ ok
  <2>1. Woken(x, c, ok) = [x EXCEPT !.pc = "next"]
    BY <1>5 DEF Woken
  <2>2. QED
    BY <1>3, <1>5, <2>1 DEF Coroutines, PCs, x
<1>6. CASE x.pc = "draining" /\ ~ok
  <2>1. Woken(x, c, ok) = [x EXCEPT !.pc = "next", !.failed = Append(@, q),
                                    !.failedOn = @ \cup {c}]
    BY <1>6 DEF Woken, q
  <2>2. QED
    BY <1>3, <1>4, <1>6, <2>1 DEF Coroutines, PCs, x
<1>7. CASE x.pc = "closing" /\ ok
  <2>1. Woken(x, c, ok) = [x EXCEPT !.pc = IF x.kind = "broadcast" THEN "cleanup" ELSE "end"]
    BY <1>7 DEF Woken
  <2>2. QED
    BY <1>3, <1>7, <2>1 DEF Coroutines, PCs, x
<1>8. CASE x.pc = "closing" /\ ~ok
  <2>1. Woken(x, c, ok) = [x EXCEPT !.pc = "raise"]
    BY <1>8 DEF Woken
  <2>2. QED
    BY <1>3, <1>8, <2>1 DEF Coroutines, PCs, x
<1>9. QED
  BY <1>3, <1>5, <1>6, <1>7, <1>8

Waits(t, c) == \E i \in 1 .. Len(waiting[c]) : waiting[c][i] = t

\* A connection turns from one state to another, and who waits for it is ready.
LEMMA TurnsEffect ==
  ASSUME ClientTypeOK, FieldsFit, PlacesFit, NEW c \in Conn, NEW old, NEW new \in States,
         NEW ok \in BOOLEAN, "none" \notin old, Turns(c, old, new, ok)
  PROVE  /\ conn[c].state \in old /\ conn' = [conn EXCEPT ![c].state = new]
         /\ current = 0 /\ UNCHANGED <<connections, sent, current, seen>>
         /\ task' \in Seq(Coroutines) /\ Len(task') = Len(task)
         /\ \A t \in Tasks :
              /\ Waits(t, c) => /\ task'[t] = Woken(task[t], c, ok)
                                /\ task[t].pc \in {"draining", "closing"}
              /\ ~Waits(t, c) => task'[t] = task[t]
         /\ ready' \in Seq(1 .. MaxTask)
         /\ \A i \in 1 .. Len(ready') :
              \/ i \in 1 .. Len(ready) /\ ready'[i] = ready[i]
              \/ /\ i - Len(ready) \in 1 .. Len(waiting[c])
                 /\ ready'[i] = waiting[c][i - Len(ready)]
                 /\ Waits(ready'[i], c) /\ ready'[i] \in Tasks
         /\ \A i \in 1 .. Len(ready) : i \in 1 .. Len(ready') /\ ready'[i] = ready[i]
         /\ waiting' \in [Conn -> Seq(1 .. MaxTask)] /\ waiting'[c] = <<>>
         /\ \A d \in Conn : d # c => waiting'[d] = waiting[d]
         /\ conn[c].peer \in Peer
<1>0. /\ task \in Seq(Coroutines) /\ ready \in Seq(1 .. MaxTask)
      /\ waiting \in [Conn -> Seq(1 .. MaxTask)] /\ waiting[c] \in Seq(1 .. MaxTask)
  BY DEF ClientTypeOK
<1>1. /\ conn[c].state \in old /\ conn' = [conn EXCEPT ![c].state = new]
      /\ current = 0 /\ UNCHANGED <<connections, sent, current, seen>>
      /\ task' = [t \in Tasks |-> IF Waits(t, c) THEN Woken(task[t], c, ok) ELSE task[t]]
      /\ ready' = ready \o waiting[c]
      /\ waiting' = [waiting EXCEPT ![c] = <<>>]
  BY DEF Turns, Tasks, Waits
<1>2. conn[c].peer \in Peer
  BY <1>1 DEF FieldsFit
<1>3. \A t \in Tasks : Waits(t, c) => task[t].pc \in {"draining", "closing"}
  BY DEF PlacesFit, Waits
<1>4. \A t \in Tasks : task'[t] \in Coroutines
  <2>1. ASSUME NEW t \in Tasks
        PROVE  task'[t] \in Coroutines
    <3>1. task[t] \in Coroutines
      BY <1>0 DEF Tasks
    <3>2. Waits(t, c) => Woken(task[t], c, ok) \in Coroutines
      BY <1>2, <1>3, WokenIs
    <3>3. QED
      BY <1>1, <3>1, <3>2
  <2>2. QED
    BY <2>1
<1>5. task' \in Seq(Coroutines) /\ Len(task') = Len(task)
  <2>1. DOMAIN task' = 1 .. Len(task) /\ Len(task) \in Nat
    BY <1>0, <1>1 DEF Tasks
  <2>2. task' = [t \in 1 .. Len(task) |-> task'[t]]
    BY <1>1 DEF Tasks
  <2>3. QED
    BY <1>4, <2>1, <2>2, IsASeq DEF Tasks
<1>6. /\ ready' \in Seq(1 .. MaxTask)
      /\ \A i \in 1 .. Len(ready') :
           \/ i \in 1 .. Len(ready) /\ ready'[i] = ready[i]
           \/ /\ i - Len(ready) \in 1 .. Len(waiting[c])
              /\ ready'[i] = waiting[c][i - Len(ready)]
      /\ \A i \in 1 .. Len(ready) : i \in 1 .. Len(ready') /\ ready'[i] = ready[i]
  BY <1>0, <1>1
<1>7. \A i \in 1 .. Len(waiting[c]) : Waits(waiting[c][i], c) /\ waiting[c][i] \in Tasks
  BY DEF Waits, PlacesFit
<1>8. /\ waiting' \in [Conn -> Seq(1 .. MaxTask)] /\ waiting'[c] = <<>>
      /\ \A d \in Conn : d # c => waiting'[d] = waiting[d]
  <2>1. <<>> \in Seq(1 .. MaxTask)
    OBVIOUS
  <2>2. QED
    BY <1>0, <1>1, <2>1
<1>9. QED
  BY <1>1, <1>2, <1>3, <1>5, <1>6, <1>7, <1>8

-----------------------------------------------------------------------------
(***************************************************************************)
(* The actions of the running task, by what they do to the rest.           *)
(***************************************************************************)
\* The task whose state is x goes on as r: it remains the same coroutine, at the
\* same place of the dictionary.
SameCoroutine(x, r) ==
  r \in Coroutines /\ r.kind = x.kind /\ r.peer = x.peer /\ r.first = x.first

\* The running task goes on, and touches nothing else.
Quiet(r) ==
  /\ current # 0 /\ TaskBecomes(current, r) /\ r \in Coroutines
  /\ r.kind = task[current].kind /\ r.peer = task[current].peer
  /\ r.conn = task[current].conn /\ r.at = task[current].at
  /\ r.pc \in {"opening", "next", "cleanup", "end", "done", "raised"}
  /\ r.pc = "opening" => r.kind = "connect"
  /\ r.pc \in {"next", "cleanup"} => r.kind = "broadcast"
  /\ \/ r.first = task[current].first /\ r.pc # "next"
     \/ /\ task[current].kind = "broadcast" /\ task[current].pc = "start"
        /\ r.pc = "next" /\ Connected # {} /\ current' = current
        /\ r.first = connections[NextPeer].conn
  /\ current' \in {0, current} /\ (current' # 0 => r.pc \in Runnable)
  /\ UNCHANGED <<connections, conn, waiting, sent, ready, seen>>

\* It pops the entry of q and closes the connection c that it stood for.
Pops(q, r) ==
  LET c == connections[q].conn
  IN  /\ current # 0 /\ q \in Connected
      /\ connections' = [connections EXCEPT ![q] = [conn |-> 0, at |-> 0]]
      /\ SameCoroutine(task[current], r) /\ r.at = task[current].at
      /\ current' = 0 /\ UNCHANGED <<sent, ready, seen>>
      /\ \/ /\ r.pc = "raised" /\ TaskBecomes(current, r) /\ UNCHANGED <<conn, waiting>>
         \/ \E s \in {"closing", "flushing", "dying"} :
              r.pc = "closing" /\ WaitOn(c, s, r)

\* A broadcast goes on to the next entry of the dictionary.
Writes(q, r) ==
  LET c == connections[q].conn
  IN  /\ current # 0
      /\ task[current].kind = "broadcast" /\ task[current].pc = "next"
      /\ q \in Ahead /\ q = NextPeer
      /\ SameCoroutine(task[current], r) /\ r.at = connections[q].at
      /\ \/ UNCHANGED sent
         \/ /\ sent' = [sent EXCEPT ![c] = Append(@, current)]
            /\ conn[c].state \in {"up", "paused"}
      /\ \/ /\ r.pc = "next" /\ TaskBecomes(current, r)
            /\ current' = current /\ UNCHANGED <<conn, waiting, ready>>
         \/ \E s \in {"paused", "dying"} : r.pc = "draining" /\ WaitOn(c, s, r)
      /\ UNCHANGED <<connections, seen>>

LEMMA EntryIsOpen ==
  ASSUME ClientTypeOK, OwnersFit, NEW q \in Connected
  PROVE  LET c == connections[q].conn
         IN  /\ q \in Peer /\ c \in Conn /\ conn[c].peer = q
             /\ conn[c].state \in Open /\ conn[c].state \in States
<1>1. q \in Peer /\ connections[q].conn \in Conn
  BY BoundAssumption DEF Connected, ClientTypeOK, Conn
<1>2. QED
  BY <1>1 DEF OwnersFit, EntriesAreOpen, Open, States

\* disconnect_peer(q) of the running task.
LEMMA DisconnectPeerIs ==
  ASSUME LoopInv, current # 0, NEW q, NEW me \in Coroutines,
         SameCoroutine(task[current], me), me.at = task[current].at,
         me.conn = task[current].conn, me.pc \in {"end", "cleanup"},
         me.pc = "cleanup" => me.kind = "broadcast",
         DisconnectPeer(q, me), UNCHANGED <<sent, seen>>
  PROVE  \E r \in Coroutines : Quiet(r) \/ Pops(q, r)
<1>0. /\ current \in Tasks /\ task[current] \in Coroutines
      /\ ClientTypeOK /\ PlacesFit /\ OwnersFit
  BY DEF LoopInv, PlacesFit, ClientTypeOK, Tasks
<1>1. CASE q \notin Connected
  <2>1. Become(me) /\ UNCHANGED <<connections, conn, waiting>>
    BY <1>1 DEF DisconnectPeer
  <2>2. TaskBecomes(current, me) /\ UNCHANGED ready /\ current' = current
    BY <1>0, <2>1, TaskKept
  <2>3. Quiet(me)
    BY <2>1, <2>2 DEF Quiet, SameCoroutine, Runnable
  <2>4. QED
    BY <2>3
<1>2. CASE q \in Connected
  <2> DEFINE c == connections[q].conn
             raised == [task[current] EXCEPT !.pc = "raised"]
             closing == [me EXCEPT !.pc = "closing"]
  <2>1. /\ connections' = [connections EXCEPT ![q] = [conn |-> 0, at |-> 0]]
        /\ IF conn[c].state = "dead"
           THEN Raise /\ UNCHANGED <<conn, waiting>>
           ELSE WaitOn(c, Closing(conn[c].state), closing)
    BY <1>2 DEF DisconnectPeer
  <2>2. CASE conn[c].state = "dead"
    <3>1. /\ raised \in Coroutines /\ raised.pc = "raised"
          /\ SameCoroutine(task[current], raised) /\ raised.at = task[current].at
      BY <1>0 DEF Coroutines, PCs, SameCoroutine
    <3>2. Leave(raised) /\ UNCHANGED <<conn, waiting>>
      BY <2>1, <2>2 DEF Raise
    <3>3. TaskBecomes(current, raised) /\ UNCHANGED ready /\ current' = 0
      BY <1>0, <3>1, <3>2, TaskKept DEF Leave
    <3>4. Pops(q, raised)
      BY <1>2, <2>1, <3>1, <3>2, <3>3 DEF Pops
    <3>5. QED
      BY <3>1, <3>4
  <2>3. CASE conn[c].state # "dead"
    <3>1. /\ closing \in Coroutines /\ closing.pc = "closing"
          /\ SameCoroutine(task[current], closing) /\ closing.at = task[current].at
      BY DEF Coroutines, PCs, SameCoroutine
    <3>2. Closing(conn[c].state) \in {"closing", "flushing", "dying"}
      BY DEF Closing
    <3>3. WaitOn(c, Closing(conn[c].state), closing) /\ UNCHANGED ready /\ current' = 0
      BY <2>1, <2>3 DEF WaitOn, Leave
    <3>4. Pops(q, closing)
      BY <1>2, <2>1, <3>1, <3>2, <3>3 DEF Pops
    <3>5. QED
      BY <3>1, <3>4
  <2>4. QED
    BY <2>2, <2>3
<1>3. QED
  BY <1>1, <1>2

LEMMA StepForms ==
  ASSUME LoopInv, Step
  PROVE  \/ ConnectStores
         \/ \E r \in Coroutines : \/ Quiet(r)
                                  \/ \E q \in Peer : Pops(q, r) \/ Writes(q, r)
<1> DEFINE x == task[current]
           forms == \E r \in Coroutines : \/ Quiet(r)
                                          \/ \E q \in Peer : Pops(q, r) \/ Writes(q, r)
<1>0. current # 0
  BY DEF Step, At, ConnectStart, ConnectStores, Disconnect, End, RaiseWoken, BroadcastStart,
         BroadcastBreaks, BroadcastWrites, BroadcastCleans, CleanUp
<1>1. /\ ClientTypeOK /\ FieldsFit /\ OwnersFit /\ PlacesFit
      /\ current \in Tasks /\ x \in Coroutines /\ Fits(x)
  BY <1>0 DEF LoopInv, PlacesFit, ClientTypeOK, FieldsFit, Tasks
<1>2. ASSUME NEW r \in Coroutines, SameCoroutine(x, r), r.conn = x.conn, r.at = x.at,
             r.pc \in {"opening", "cleanup", "end", "done", "raised"},
             r.pc = "opening" => r.kind = "connect",
             r.pc = "cleanup" => r.kind = "broadcast",
             Leave(r) \/ (Become(r) /\ r.pc = "cleanup"),
             UNCHANGED <<connections, conn, waiting, sent, seen>>
      PROVE  Quiet(r)
  <2>1. /\ TaskBecomes(current, r) /\ UNCHANGED ready /\ current' \in {0, current}
        /\ Leave(r) => current' = 0
    BY <1>0, <1>1, <1>2, TaskKept DEF Leave
  <2>2. QED
    BY <1>0, <1>2, <2>1 DEF Quiet, SameCoroutine, Runnable
<1> DEFINE goes(pc) == [x EXCEPT !.pc = pc]
<1>3. \A pc \in PCs : /\ goes(pc) \in Coroutines /\ SameCoroutine(x, goes(pc))
                      /\ goes(pc).conn = x.conn /\ goes(pc).at = x.at /\ goes(pc).pc = pc
  BY <1>1 DEF Coroutines, SameCoroutine
<1>4. ASSUME Return \/ Raise, UNCHANGED <<connections, conn, waiting, sent, seen>>
      PROVE  forms
  <2>1. CASE Return
    <3>1. Leave(goes("done"))
      BY <2>1 DEF Return
    <3>2. Quiet(goes("done"))
      BY <1>2, <1>3, <1>4, <3>1 DEF PCs
    <3>3. QED
      BY <1>3, <3>2 DEF PCs
  <2>2. CASE Raise
    <3>1. Leave(goes("raised"))
      BY <2>2 DEF Raise
    <3>2. Quiet(goes("raised"))
      BY <1>2, <1>3, <1>4, <3>1 DEF PCs
    <3>3. QED
      BY <1>3, <3>2 DEF PCs
  <2>3. QED
    BY <1>4, <2>1, <2>2
<1>5. CASE ConnectStart
  <2>1. CASE Return
    BY <1>4, <1>5, <2>1 DEF ConnectStart
  <2>2. CASE Leave(goes("opening"))
    <3>1. goes("opening").kind = "connect"
      BY <1>1, <1>5 DEF ConnectStart, At, Coroutines
    <3>2. Quiet(goes("opening"))
      BY <1>2, <1>3, <1>5, <2>2, <3>1 DEF PCs, ConnectStart
    <3>3. QED
      BY <1>3, <3>2 DEF PCs
  <2>3. QED
    BY <1>5, <2>1, <2>2 DEF ConnectStart
<1>6. CASE Disconnect
  <2>1. DisconnectPeer(x.peer, goes("end")) /\ UNCHANGED <<sent, seen>>
    BY <1>6 DEF Disconnect
  <2>2. x.peer \in Peer
    BY <1>1, <1>6 DEF Disconnect, At, Fits
  <2>3. \E r \in Coroutines : Quiet(r) \/ Pops(x.peer, r)
    BY <1>0, <1>3, <2>1, DisconnectPeerIs DEF PCs
  <2>4. QED
    BY <2>2, <2>3
<1>7. CASE End
  BY <1>4, <1>7 DEF End
<1>8. CASE RaiseWoken
  BY <1>4, <1>8 DEF RaiseWoken
<1>9. CASE BroadcastBreaks
  BY <1>4, <1>9 DEF BroadcastBreaks
<1>10. CASE BroadcastCleans
  <2>1. Become(goes("cleanup")) /\ goes("cleanup").kind = "broadcast"
    BY <1>1, <1>10 DEF BroadcastCleans, At, Coroutines
  <2>2. Quiet(goes("cleanup"))
    BY <1>2, <1>3, <1>10, <2>1 DEF PCs, BroadcastCleans
  <2>3. QED
    BY <1>3, <2>2 DEF PCs
<1>11. CASE CleanUp
  <2>1. CASE x.failed = <<>>
    BY <1>4, <1>11, <2>1 DEF CleanUp
  <2>2. CASE x.failed # <<>>
    <3> DEFINE me == [x EXCEPT !.failed = Tail(@)]  q == Head(x.failed)
    <3>1. DisconnectPeer(q, me) /\ UNCHANGED <<sent, seen>>
      BY <1>11, <2>2 DEF CleanUp
    <3>2. /\ me \in Coroutines /\ SameCoroutine(x, me) /\ me.conn = x.conn /\ me.at = x.at
          /\ me.pc = "cleanup" /\ me.kind = "broadcast" /\ q \in Peer
      <4>1. x.failed \in Seq(Peer) /\ x.pc = "cleanup" /\ x.kind = "broadcast"
        BY <1>1, <1>11 DEF Coroutines, CleanUp, At
      <4>2. Head(x.failed) \in Peer /\ Tail(x.failed) \in Seq(Peer)
        BY <2>2, <4>1
      <4> DEFINE rest == Tail(x.failed)
      <4>3. me = [x EXCEPT !.failed = rest]
        OBVIOUS
      <4> HIDE DEF rest, me
      <4>4. rest \in Seq(Peer)
        BY <4>2 DEF rest
      <4>5. QED
        BY <1>1, <4>1, <4>2, <4>3, <4>4 DEF Coroutines, SameCoroutine
    <3> HIDE DEF me, q
    <3>3. \E r \in Coroutines : Quiet(r) \/ Pops(q, r)
      BY <1>0, <3>1, <3>2, DisconnectPeerIs
    <3>4. QED
      BY <3>2, <3>3
  <2>3. QED
    BY <2>1, <2>2
<1>12. CASE BroadcastStart
  <2>1. CASE Connected = {}
    BY <1>4, <1>12, <2>1 DEF BroadcastStart
  <2>2. CASE Connected # {}
    <3> DEFINE owed == {connections[q].conn : q \in Connected}
               first == connections[NextPeer].conn
               size == Cardinality(Connected)
               r == [x EXCEPT !.pc = "next", !.size = size, !.owed = owed, !.first = first]
    <3>1. size \in 0 .. Cardinality(Peer)
      <4>1. Connected \in SUBSET Peer
        BY DEF Connected
      <4>2. /\ IsFiniteSet(Connected) /\ Cardinality(Connected) <= Cardinality(Peer)
        BY <4>1, PeerAssumption, FS_Subset
      <4>3. Cardinality(Connected) \in Nat /\ Cardinality(Peer) \in Nat
        BY <4>2, PeerAssumption, FS_CardinalityType
      <4>4. QED
        BY <4>2, <4>3
    <3>2. owed \in SUBSET Conn
      BY <1>1, EntryIsOpen
    <3>3. first \in 0 .. MaxConn
      <4>1. x.at = 0
        BY <1>1, <1>12 DEF BroadcastStart, At, Fits
      <4>2. Ahead = Connected
        BY <1>1, <4>1 DEF Ahead, FieldsFit
      <4>3. NextPeer \in Connected
        BY <1>1, <2>2, <4>2, NextPeerIs
      <4>4. QED
        BY <1>1, <4>3 DEF Connected, ClientTypeOK
    <3>4. Become(r) /\ UNCHANGED <<connections, conn, waiting, sent, seen>>
      BY <1>12, <2>2 DEF BroadcastStart
    <3> HIDE DEF size, owed, first
    <3>5. /\ r \in Coroutines /\ r.kind = x.kind /\ r.peer = x.peer /\ r.conn = x.conn
          /\ r.at = x.at /\ r.pc = "next" /\ r.first = first
      BY <1>1, <3>1, <3>2, <3>3 DEF Coroutines, PCs
    <3> HIDE DEF r
    <3>6. TaskBecomes(current, r) /\ UNCHANGED ready /\ current' = current
      BY <1>0, <1>1, <3>4, <3>5, TaskKept
    <3>7. x.kind = "broadcast" /\ x.pc = "start"
      BY <1>12 DEF BroadcastStart, At
    <3>8. Quiet(r)
      BY <1>0, <2>2, <3>4, <3>5, <3>6, <3>7 DEF Quiet, Runnable, first
    <3>9. QED
      BY <3>5, <3>8
  <2>3. QED
    BY <2>1, <2>2
<1>13. CASE BroadcastWrites
  <2> DEFINE q == NextPeer  c == connections[q].conn
             me == [x EXCEPT !.at = connections[q].at]
  <2>1. /\ x.kind = "broadcast" /\ x.pc = "next" /\ Ahead # {}
        /\ WriteTo(c, me) /\ UNCHANGED <<connections, seen>>
    BY <1>13 DEF BroadcastWrites, At
  <2>2. /\ q \in Ahead /\ q \in Connected /\ q \in Peer /\ c \in Conn /\ conn[c].peer = q
        /\ connections[q].at \in 0 .. MaxConn
    BY <1>1, <2>1, NextPeerIs, EntryIsOpen DEF ClientTypeOK
  <2>3. /\ me \in Coroutines /\ SameCoroutine(x, me) /\ me.at = connections[q].at
        /\ me.pc = "next" /\ me.failed = x.failed /\ me.failedOn = x.failedOn
    BY <1>1, <2>1, <2>2 DEF Coroutines, SameCoroutine
  <2> DEFINE draining == [me EXCEPT !.pc = "draining"]
             failing == [me EXCEPT !.failed = Append(@, conn[c].peer), !.failedOn = @ \cup {c}]
  <2>4. /\ draining \in Coroutines /\ SameCoroutine(x, draining)
        /\ draining.at = connections[q].at /\ draining.pc = "draining"
    BY <2>3 DEF Coroutines, SameCoroutine, PCs
  <2>5. /\ failing \in Coroutines /\ SameCoroutine(x, failing)
        /\ failing.at = connections[q].at /\ failing.pc = "next"
    <3>1. Append(me.failed, conn[c].peer) \in Seq(Peer) /\ me.failedOn \cup {c} \in SUBSET Conn
      BY <2>2, <2>3 DEF Coroutines
    <3>2. QED
      BY <2>3, <3>1 DEF Coroutines, SameCoroutine
  <2>6. \/ Become(me) /\ UNCHANGED <<conn, waiting>>
           /\ (UNCHANGED sent \/ (/\ sent' = [sent EXCEPT ![c] = Append(@, current)]
                                  /\ conn[c].state \in {"up", "paused"}))
        \/ WaitOn(c, "paused", draining)
           /\ sent' = [sent EXCEPT ![c] = Append(@, current)] /\ conn[c].state \in {"up", "paused"}
        \/ WaitOn(c, "dying", draining) /\ UNCHANGED sent
        \/ Become(failing) /\ UNCHANGED <<conn, waiting, sent>>
    BY <2>1 DEF WriteTo
  <2> HIDE DEF q, c, me, draining, failing
  <2>7. ASSUME NEW r \in Coroutines, SameCoroutine(x, r), r.at = connections[q].at,
               UNCHANGED sent \/ (/\ sent' = [sent EXCEPT ![c] = Append(@, current)]
                                  /\ conn[c].state \in {"up", "paused"}),
               \/ r.pc = "next" /\ Become(r) /\ UNCHANGED <<conn, waiting>>
               \/ \E s \in {"paused", "dying"} : r.pc = "draining" /\ WaitOn(c, s, r)
        PROVE  Writes(q, r)
    <3>1. Become(r) => TaskBecomes(current, r) /\ UNCHANGED ready /\ current' = current
      BY <1>0, <1>1, <2>7, TaskKept
    <3>2. QED
      BY <1>0, <2>1, <2>2, <2>7, <3>1 DEF Writes, q, c
  <2>8. Writes(q, me) \/ Writes(q, draining) \/ Writes(q, failing)
    BY <2>3, <2>4, <2>5, <2>6, <2>7
  <2>9. QED
    BY <2>2, <2>3, <2>4, <2>5, <2>8
<1>14. QED
  BY <1>5, <1>6, <1>7, <1>8, <1>9, <1>10, <1>11, <1>12, <1>13 DEF Step

-----------------------------------------------------------------------------
(***************************************************************************)
(* LoopInv is inductive: what keeps each of its parts.                     *)
(***************************************************************************)
LEMMA FieldsKept ==
  ASSUME FieldsFit, task \in Seq(Coroutines), NEW t \in Tasks, NEW r, Fits(r),
         TaskBecomes(t, r)
  PROVE  /\ Tasks' = Tasks /\ Len(task') <= MaxTask /\ task' \in Seq(Coroutines)
         /\ \A u \in Tasks : Fits(task'[u])
BY DEF FieldsFit, Tasks, TaskBecomes

LEMMA ConnTurns ==
  ASSUME ClientTypeOK, NEW c \in Conn, NEW s \in States, conn' = [conn EXCEPT ![c].state = s]
  PROVE  /\ conn' \in [Conn -> [peer : Peer \cup {NoPeer}, state : States]]
         /\ \A d \in Conn : /\ conn'[d].peer = conn[d].peer
                            /\ conn'[d].state = IF d = c THEN s ELSE conn[d].state
<1>1. conn \in [Conn -> [peer : Peer \cup {NoPeer}, state : States]]
  BY DEF ClientTypeOK
<1> HIDE DEF States
<1>2. QED
  BY <1>1

\* Entries may go, and connections may close whose entry goes.
LEMMA OwnersKept ==
  ASSUME ClientTypeOK, OwnersFit,
         \A t \in Tasks' : task'[t].pc = "opened" =>
            /\ t \in Tasks /\ task[t].pc = "opened"
            /\ task'[t].conn = task[t].conn /\ task'[t].peer = task[t].peer,
         \A t \in Tasks : task[t].pc = "opened" => task[t].peer \in Peer,
         \A c \in Conn :
            /\ conn'[c].peer = conn[c].peer
            /\ conn[c].state \in Open => \/ conn'[c].state \in Open
                                         \/ \E q \in Connected : connections[q].conn = c
                                                                 /\ connections'[q].conn = 0,
         \A q \in Peer : connections'[q] = connections[q] \/ connections'[q].conn = 0
  PROVE  OwnersFit'
<1>1. /\ \A q \in Connected' : q \in Connected /\ connections'[q] = connections[q]
      /\ \A q \in Connected : /\ q \in Peer /\ connections[q].conn \in Conn
                              /\ conn[connections[q].conn].peer = q
                              /\ conn[connections[q].conn].state \in Open
  BY EntryIsOpen DEF Connected
<1>2. EntriesAreOpen'
  BY <1>1 DEF EntriesAreOpen, Open, Connected
<1>3. ASSUME NEW t \in Tasks', task'[t].pc = "opened"
      PROVE  /\ task'[t].conn \in Conn
             /\ conn'[task'[t].conn].peer = task'[t].peer
             /\ conn'[task'[t].conn].state \in Open
             /\ connections'[task'[t].peer].conn # task'[t].conn
             /\ \A u \in Tasks' : task'[u].pc = "opened" /\ task'[u].conn = task'[t].conn => u = t
  <2>1. /\ t \in Tasks /\ task[t].pc = "opened" /\ task[t].peer \in Peer
        /\ task'[t].conn = task[t].conn /\ task'[t].peer = task[t].peer
        /\ task[t].conn \in Conn /\ conn[task[t].conn].peer = task[t].peer
        /\ conn[task[t].conn].state \in Open
        /\ connections[task[t].peer].conn # task[t].conn
        /\ \A u \in Tasks : task[u].pc = "opened" /\ task[u].conn = task[t].conn => u = t
    BY <1>3 DEF OwnersFit
  <2>2. conn'[task[t].conn].state \in Open
    BY <1>1, <2>1
  <2>3. connections'[task[t].peer].conn # task[t].conn
    BY <2>1 DEF Conn
  <2>4. \A u \in Tasks' : task'[u].pc = "opened" /\ task'[u].conn = task'[t].conn => u = t
    BY <2>1
  <2>5. QED
    BY <2>1, <2>2, <2>3, <2>4
<1>4. QED
  BY <1>2, <1>3 DEF OwnersFit

LEMMA PlacesStay ==
  ASSUME PlacesFit, current # 0, NEW r, TaskBecomes(current, r),
         UNCHANGED <<ready, waiting>>, current' \in {0, current}, current' # 0 => r.pc \in Runnable
  PROVE  PlacesFit'
<1>1. /\ Tasks' = Tasks /\ current \in Tasks /\ task[current].pc \in Runnable
      /\ \A t \in Tasks : t # current => task'[t] = task[t]
      /\ task'[current] = r
  BY DEF TaskBecomes, PlacesFit, Tasks
<1>2. \A c \in Conn : \A i \in 1 .. Len(waiting[c]) :
        waiting[c][i] # current /\ waiting[c][i] \in Tasks
  BY <1>1 DEF PlacesFit, Runnable
<1>3. \A i \in 1 .. Len(ready) : ready[i] # current /\ ready[i] \in Tasks
  BY DEF PlacesFit
<1>4. QED
  BY <1>1, <1>2, <1>3 DEF PlacesFit

LEMMA PlacesWait ==
  ASSUME ClientTypeOK, PlacesFit, current # 0, NEW c \in Conn, NEW s \in States,
         NEW r \in Coroutines, r.pc \in {"draining", "closing"}, WaitOn(c, s, r)
  PROVE  PlacesFit'
<1> DEFINE w == [r EXCEPT !.conn = c]
<1>1. /\ current \in Tasks /\ TaskBecomes(current, w) /\ w \in Coroutines
      /\ UNCHANGED ready /\ current' = 0
      /\ Len(waiting'[c]) = Len(waiting[c]) + 1
      /\ waiting'[c][Len(waiting[c]) + 1] = current
      /\ \A i \in 1 .. Len(waiting[c]) : waiting'[c][i] = waiting[c][i]
      /\ \A i \in 1 .. Len(waiting'[c]) : i \in 1 .. Len(waiting[c]) \/ i = Len(waiting[c]) + 1
      /\ \A d \in Conn : d # c => waiting'[d] = waiting[d]
  BY WaitEffect
<1>2. w.pc \in {"draining", "closing"} /\ w.conn = c
  BY DEF Coroutines
<1> HIDE DEF w
<1>3. /\ Tasks' = Tasks /\ task[current].pc \in Runnable
      /\ \A t \in Tasks : t # current => task'[t] = task[t]
      /\ task'[current] = w
  BY <1>1 DEF TaskBecomes, PlacesFit, Tasks
<1>4. \A d \in Conn : \A i \in 1 .. Len(waiting[d]) :
        /\ waiting[d][i] # current /\ waiting[d][i] \in Tasks
        /\ task'[waiting[d][i]].pc \in {"draining", "closing"}
        /\ task'[waiting[d][i]].conn = d
        /\ \A j \in 1 .. Len(waiting[d]) : waiting[d][i] = waiting[d][j] => i = j
  <2>1. \A d \in Conn : \A i \in 1 .. Len(waiting[d]) :
          /\ waiting[d][i] # current /\ waiting[d][i] \in Tasks
          /\ task[waiting[d][i]].pc \in {"draining", "closing"}
          /\ task[waiting[d][i]].conn = d
          /\ \A j \in 1 .. Len(waiting[d]) : waiting[d][i] = waiting[d][j] => i = j
    BY <1>3 DEF PlacesFit, Runnable
  <2>2. QED
    BY <1>3, <2>1
<1>5. ASSUME NEW d \in Conn, NEW i \in 1 .. Len(waiting'[d])
      PROVE  /\ waiting'[d][i] \in Tasks
             /\ task'[waiting'[d][i]].pc \in {"draining", "closing"}
             /\ task'[waiting'[d][i]].conn = d
             /\ \A j \in 1 .. Len(waiting'[d]) : waiting'[d][i] = waiting'[d][j] => i = j
  <2>1. CASE d # c
    BY <1>1, <1>4, <2>1
  <2>2. CASE d = c
    <3>1. \A j \in 1 .. Len(waiting'[c]) :
            \/ j \in 1 .. Len(waiting[c]) /\ waiting'[c][j] = waiting[c][j]
            \/ j = Len(waiting[c]) + 1 /\ waiting'[c][j] = current
      BY <1>1
    <3>2. /\ waiting'[c][i] \in Tasks
          /\ task'[waiting'[c][i]].pc \in {"draining", "closing"}
          /\ task'[waiting'[c][i]].conn = c
      BY <1>1, <1>2, <1>3, <1>4, <2>2, <3>1
    <3>3. \A j \in 1 .. Len(waiting'[c]) : waiting'[c][i] = waiting'[c][j] => i = j
      BY <1>4, <2>2, <3>1
    <3>4. QED
      BY <1>3, <2>2, <3>2, <3>3
  <2>3. QED
    BY <2>1, <2>2
<1>6. \A i \in 1 .. Len(ready) : /\ ready[i] # current /\ ready[i] \in Tasks
                                 /\ task'[ready[i]].pc \in Runnable
  BY <1>3 DEF PlacesFit
<1>7. \A i, j \in 1 .. Len(ready) : ready[i] = ready[j] => i = j
  BY DEF PlacesFit
<1>8. QED
  BY <1>1, <1>3, <1>5, <1>6, <1>7 DEF PlacesFit

-----------------------------------------------------------------------------
(***************************************************************************)
(* LoopInv is inductive: each kind of step.                                *)
(***************************************************************************)
LEMMA QuietLoop ==
  ASSUME LoopInv, NEW r \in Coroutines, Quiet(r)
  PROVE  LoopInv'
<1>1. /\ ClientTypeOK /\ FieldsFit /\ OwnersFit /\ PlacesFit /\ current # 0
      /\ TaskBecomes(current, r) /\ current' \in {0, current}
      /\ current' # 0 => r.pc \in Runnable
      /\ UNCHANGED <<connections, conn, waiting, sent, ready, seen>>
      /\ current \in Tasks
  BY DEF LoopInv, Quiet, PlacesFit
<1>2. Fits(task[current])
  BY <1>1 DEF FieldsFit
<1>3. Fits(r) /\ r.pc # "opened"
  BY <1>2 DEF Quiet, Fits
<1>4. /\ Tasks' = Tasks /\ Len(task') <= MaxTask /\ task' \in Seq(Coroutines)
      /\ \A u \in Tasks : Fits(task'[u])
  BY <1>1, <1>3, FieldsKept DEF ClientTypeOK
<1>5. ClientTypeOK'
  BY <1>1, <1>4, BoundAssumption DEF ClientTypeOK
<1>6. FieldsFit'
  BY <1>1, <1>4 DEF FieldsFit, Connected
<1>7. OwnersFit'
  <2>1. \A t \in Tasks' : task'[t].pc = "opened" => t \in Tasks /\ task'[t] = task[t]
    BY <1>1, <1>3, <1>4 DEF TaskBecomes
  <2>2. \A t \in Tasks : task[t].pc = "opened" => task[t].peer \in Peer
    BY <1>1 DEF FieldsFit, Fits
  <2>3. QED
    BY <1>1, <2>1, <2>2, OwnersKept
<1>8. PlacesFit'
  BY <1>1, PlacesStay
<1>9. QED
  BY <1>5, <1>6, <1>7, <1>8 DEF LoopInv

\* What a step that pops or writes does to the tasks and to the connection.
LEMMA MovesEffect ==
  ASSUME LoopInv, current # 0, NEW c \in Conn, NEW r \in Coroutines,
         SameCoroutine(task[current], r),
         \/ /\ r.pc \in {"raised", "next"} /\ TaskBecomes(current, r)
            /\ current' \in {0, current} /\ (current' # 0 => r.pc \in Runnable)
            /\ UNCHANGED <<conn, waiting, ready>>
         \/ \E s \in States : r.pc \in {"closing", "draining"} /\ WaitOn(c, s, r),
         r.pc \in {"next", "draining"} => r.kind = "broadcast",
         r.pc = "draining" => r.at > 0
  PROVE  /\ ClientTypeOK /\ FieldsFit /\ OwnersFit
         /\ PlacesFit' /\ Tasks' = Tasks /\ Len(task') <= MaxTask /\ task' \in Seq(Coroutines)
         /\ \A u \in Tasks : Fits(task'[u])
         /\ current \in Tasks /\ task'[current].kind = r.kind /\ task'[current].peer = r.peer
         /\ task'[current].first = r.first
         /\ task'[current].at = r.at /\ task'[current].pc = r.pc
         /\ \A u \in Tasks : u # current => task'[u] = task[u]
         /\ UNCHANGED ready /\ current' \in {0, current} /\ current' \in 0 .. MaxTask
         /\ waiting' \in [Conn -> Seq(1 .. MaxTask)]
         /\ conn' \in [Conn -> [peer : Peer \cup {NoPeer}, state : States]]
         /\ \A d \in Conn : conn'[d].peer = conn[d].peer
         /\ \A d \in Conn : d # c => conn'[d] = conn[d]
         /\ \A t \in Tasks : task'[t].pc = "opened" => task[t].pc = "opened" /\ task'[t] = task[t]
<1>0. /\ ClientTypeOK /\ FieldsFit /\ OwnersFit /\ PlacesFit
      /\ current \in Tasks /\ Fits(task[current]) /\ MaxTask \in Nat
      /\ conn \in [Conn -> [peer : Peer \cup {NoPeer}, state : States]]
      /\ waiting \in [Conn -> Seq(1 .. MaxTask)] /\ current \in 0 .. MaxTask
      /\ task \in Seq(Coroutines)
  BY BoundAssumption DEF LoopInv, PlacesFit, FieldsFit, ClientTypeOK
<1>1. Fits(r) /\ r.pc # "opened"
  BY <1>0 DEF Fits, SameCoroutine
<1>2. CASE /\ TaskBecomes(current, r)
           /\ current' \in {0, current} /\ (current' # 0 => r.pc \in Runnable)
           /\ UNCHANGED <<conn, waiting, ready>>
  <2>1. PlacesFit'
    BY <1>0, <1>2, PlacesStay
  <2>2. /\ Tasks' = Tasks /\ Len(task') <= MaxTask /\ task' \in Seq(Coroutines)
        /\ \A u \in Tasks : Fits(task'[u])
    BY <1>0, <1>1, <1>2, FieldsKept
  <2>3. task'[current] = r /\ \A u \in Tasks : u # current => task'[u] = task[u]
    BY <1>2 DEF TaskBecomes
  <2>4. current' \in 0 .. MaxTask
    BY <1>0, <1>2
  <2>5. QED
    BY <1>0, <1>1, <1>2, <2>1, <2>2, <2>3, <2>4
<1>3. ASSUME NEW s \in States, r.pc \in {"closing", "draining"}, WaitOn(c, s, r)
      PROVE  /\ PlacesFit' /\ Tasks' = Tasks /\ Len(task') <= MaxTask /\ task' \in Seq(Coroutines)
             /\ \A u \in Tasks : Fits(task'[u])
             /\ task'[current].kind = r.kind /\ task'[current].peer = r.peer
             /\ task'[current].first = r.first
             /\ task'[current].at = r.at /\ task'[current].pc = r.pc
             /\ \A u \in Tasks : u # current => task'[u] = task[u]
             /\ UNCHANGED ready /\ current' = 0
             /\ waiting' \in [Conn -> Seq(1 .. MaxTask)]
             /\ conn' \in [Conn -> [peer : Peer \cup {NoPeer}, state : States]]
             /\ \A d \in Conn : conn'[d].peer = conn[d].peer
             /\ \A d \in Conn : d # c => conn'[d] = conn[d]
  <2> DEFINE w == [r EXCEPT !.conn = c]
  <2>1. PlacesFit'
    BY <1>0, <1>3, PlacesWait
  <2>2. /\ TaskBecomes(current, w) /\ w \in Coroutines
        /\ UNCHANGED ready /\ current' = 0
        /\ conn' = [conn EXCEPT ![c].state = s]
        /\ waiting' \in [Conn -> Seq(1 .. MaxTask)]
    BY <1>0, <1>3, WaitEffect
  <2>3. /\ w.kind = r.kind /\ w.peer = r.peer /\ w.at = r.at /\ w.pc = r.pc
        /\ w.first = r.first
    BY DEF Coroutines
  <2> HIDE DEF w
  <2>4. Fits(w)
    BY <1>1, <2>3 DEF Fits
  <2>5. /\ Tasks' = Tasks /\ Len(task') <= MaxTask /\ task' \in Seq(Coroutines)
        /\ \A u \in Tasks : Fits(task'[u])
    BY <1>0, <2>2, <2>4, FieldsKept
  <2>6. /\ conn' \in [Conn -> [peer : Peer \cup {NoPeer}, state : States]]
        /\ \A d \in Conn : conn'[d].peer = conn[d].peer
    BY <1>0, <2>2, ConnTurns
  <2>7. \A d \in Conn : d # c => conn'[d] = conn[d]
    BY <1>0, <2>2
  <2>8. task'[current] = w /\ \A u \in Tasks : u # current => task'[u] = task[u]
    BY <2>2 DEF TaskBecomes
  <2>9. QED
    BY <2>1, <2>2, <2>3, <2>5, <2>6, <2>7, <2>8
<1>4. CASE \E s \in States : r.pc \in {"closing", "draining"} /\ WaitOn(c, s, r)
  <2>1. 0 \in 0 .. MaxTask
    BY <1>0
  <2>2. QED
    BY <1>0, <1>1, <1>3, <1>4, <2>1
<1>5. QED
  BY <1>2, <1>4

LEMMA PopsLoop ==
  ASSUME LoopInv, NEW r \in Coroutines, NEW q \in Peer, Pops(q, r)
  PROVE  LoopInv'
<1> DEFINE c == connections[q].conn
<1>1. /\ current # 0 /\ q \in Connected
      /\ connections' = [connections EXCEPT ![q] = [conn |-> 0, at |-> 0]]
      /\ SameCoroutine(task[current], r)
      /\ UNCHANGED <<sent, ready, seen>> /\ current' = 0
      /\ \/ /\ r.pc = "raised" /\ TaskBecomes(current, r) /\ UNCHANGED <<conn, waiting>>
         \/ \E s \in {"closing", "flushing", "dying"} :
              r.pc = "closing" /\ WaitOn(c, s, r)
  BY DEF Pops
<1>2. c \in Conn /\ ClientTypeOK /\ FieldsFit /\ OwnersFit
  BY <1>1, EntryIsOpen DEF LoopInv
<1> HIDE DEF c
<1>3. /\ PlacesFit' /\ Tasks' = Tasks /\ Len(task') <= MaxTask /\ task' \in Seq(Coroutines)
      /\ \A u \in Tasks : Fits(task'[u])
      /\ current' \in 0 .. MaxTask
      /\ waiting' \in [Conn -> Seq(1 .. MaxTask)]
      /\ conn' \in [Conn -> [peer : Peer \cup {NoPeer}, state : States]]
      /\ \A d \in Conn : conn'[d].peer = conn[d].peer
      /\ \A d \in Conn : d # c => conn'[d] = conn[d]
      /\ \A t \in Tasks : task'[t].pc = "opened" => task[t].pc = "opened" /\ task'[t] = task[t]
  <2>1. \A s \in {"closing", "flushing", "dying"} : s \in States
    BY DEF States
  <2>2. /\ r.pc \in {"raised", "closing"}
        /\ \/ /\ r.pc \in {"raised", "next"} /\ TaskBecomes(current, r)
              /\ current' \in {0, current} /\ (current' # 0 => r.pc \in Runnable)
              /\ UNCHANGED <<conn, waiting, ready>>
           \/ \E s \in States : r.pc \in {"closing", "draining"} /\ WaitOn(c, s, r)
    BY <1>1, <2>1
  <2>3. QED
    BY <1>1, <1>2, <2>2, MovesEffect
<1>4. /\ connections' \in [Peer -> [conn : 0 .. MaxConn, at : 0 .. MaxConn]]
      /\ \A p \in Peer : connections'[p] = IF p = q THEN [conn |-> 0, at |-> 0] ELSE connections[p]
  BY <1>1, <1>2, BoundAssumption DEF ClientTypeOK
<1>5. ClientTypeOK'
  BY <1>1, <1>2, <1>3, <1>4 DEF ClientTypeOK
<1>6. FieldsFit'
  <2>1. \A d \in Conn : conn[d].state # "none" => conn[d].peer \in Peer
    BY <1>2 DEF FieldsFit
  <2>2. conn[c].peer \in Peer
    BY <1>1, <1>2, EntryIsOpen DEF c
  <2>3. \A d \in Conn : conn'[d].state # "none" => conn'[d].peer \in Peer
    BY <1>3, <2>1, <2>2
  <2>4. \A p \in Connected' : connections'[p].at > 0
    BY <1>2, <1>4 DEF FieldsFit, Connected
  <2>5. QED
    BY <1>3, <2>3, <2>4 DEF FieldsFit
<1>7. OwnersFit'
  <2>1. \A t \in Tasks' : task'[t].pc = "opened" =>
          t \in Tasks /\ task[t].pc = "opened" /\ task'[t] = task[t]
    BY <1>3
  <2>2. \A t \in Tasks : task[t].pc = "opened" => task[t].peer \in Peer
    BY <1>2 DEF FieldsFit, Fits
  <2>3. \A d \in Conn : conn[d].state \in Open =>
          \/ conn'[d].state \in Open
          \/ \E p \in Connected : connections[p].conn = d /\ connections'[p].conn = 0
    BY <1>1, <1>3, <1>4 DEF c
  <2>4. QED
    BY <1>2, <1>3, <1>4, <2>1, <2>2, <2>3, OwnersKept
<1>8. QED
  BY <1>3, <1>5, <1>6, <1>7 DEF LoopInv

LEMMA WritesLoop ==
  ASSUME LoopInv, NEW r \in Coroutines, NEW q \in Peer, Writes(q, r)
  PROVE  LoopInv'
<1> DEFINE c == connections[q].conn
<1>1. /\ current # 0 /\ q \in Connected /\ UNCHANGED <<connections, seen>>
      /\ task[current].kind = "broadcast"
      /\ SameCoroutine(task[current], r) /\ r.at = connections[q].at
      /\ \/ UNCHANGED sent
         \/ /\ sent' = [sent EXCEPT ![c] = Append(@, current)]
            /\ conn[c].state \in {"up", "paused"}
      /\ \/ /\ r.pc = "next" /\ TaskBecomes(current, r)
            /\ current' = current /\ UNCHANGED <<conn, waiting, ready>>
         \/ \E s \in {"paused", "dying"} : r.pc = "draining" /\ WaitOn(c, s, r)
  BY DEF Writes, Ahead
<1>2. c \in Conn /\ ClientTypeOK /\ FieldsFit /\ OwnersFit /\ conn[c].peer = q /\ r.at > 0
  BY <1>1, EntryIsOpen DEF LoopInv, FieldsFit
<1> HIDE DEF c
<1>3. /\ PlacesFit' /\ Tasks' = Tasks /\ Len(task') <= MaxTask /\ task' \in Seq(Coroutines)
      /\ \A u \in Tasks : Fits(task'[u])
      /\ UNCHANGED ready /\ current' \in 0 .. MaxTask
      /\ waiting' \in [Conn -> Seq(1 .. MaxTask)]
      /\ conn' \in [Conn -> [peer : Peer \cup {NoPeer}, state : States]]
      /\ \A d \in Conn : conn'[d].peer = conn[d].peer
      /\ \A d \in Conn : d # c => conn'[d] = conn[d]
      /\ \A t \in Tasks : task'[t].pc = "opened" => task[t].pc = "opened" /\ task'[t] = task[t]
  <2>1. \A s \in {"paused", "dying"} : s \in States
    BY DEF States
  <2>2. /\ r.kind = "broadcast"
        /\ \/ /\ r.pc \in {"raised", "next"} /\ TaskBecomes(current, r)
              /\ current' \in {0, current} /\ (current' # 0 => r.pc \in Runnable)
              /\ UNCHANGED <<conn, waiting, ready>>
           \/ \E s \in States : r.pc \in {"closing", "draining"} /\ WaitOn(c, s, r)
    BY <1>1, <2>1 DEF SameCoroutine, Runnable
  <2>3. QED
    BY <1>1, <1>2, <2>2, MovesEffect
<1>4. sent' \in [Conn -> Seq(1 .. MaxTask)]
  <2>1. current \in 1 .. MaxTask /\ sent \in [Conn -> Seq(1 .. MaxTask)]
    BY <1>1, <1>2 DEF ClientTypeOK
  <2>2. Append(sent[c], current) \in Seq(1 .. MaxTask)
    BY <1>2, <2>1
  <2>3. QED
    BY <1>1, <2>1, <2>2
<1>5. ClientTypeOK'
  BY <1>1, <1>2, <1>3, <1>4 DEF ClientTypeOK
<1>6. FieldsFit'
  BY <1>1, <1>2, <1>3 DEF FieldsFit, Connected
<1>7. OwnersFit'
  <2>1. \A t \in Tasks' : task'[t].pc = "opened" =>
          t \in Tasks /\ task[t].pc = "opened" /\ task'[t] = task[t]
    BY <1>3
  <2>2. \A t \in Tasks : task[t].pc = "opened" => task[t].peer \in Peer
    BY <1>2 DEF FieldsFit, Fits
  <2>3. conn'[c].state \in Open \/ conn'[c] = conn[c]
    <3>1. ASSUME NEW s \in {"paused", "dying"}, WaitOn(c, s, r)
          PROVE  conn'[c].state \in Open
      <4>1. s \in States /\ s \in Open /\ conn' = [conn EXCEPT ![c].state = s]
        BY <3>1 DEF WaitOn, Open, States
      <4>2. QED
        BY <1>2, <4>1, ConnTurns
    <3>2. QED
      BY <1>1, <3>1
  <2>4. \A d \in Conn : conn[d].state \in Open => conn'[d].state \in Open
    BY <1>3, <2>3
  <2>5. QED
    BY <1>1, <1>2, <1>3, <2>1, <2>2, <2>4, OwnersKept
<1>8. QED
  BY <1>3, <1>5, <1>6, <1>7 DEF LoopInv

\* connect_to_peer enters its connection.
LEMMA StoresEffect ==
  ASSUME LoopInv, ConnectStores
  PROVE  LET me == task[current]
         IN  /\ current # 0 /\ current \in Tasks /\ me \in Coroutines
             /\ me.kind = "connect" /\ me.pc = "opened" /\ me.peer \in Peer
             /\ me.conn \in Conn /\ conn[me.conn].peer = me.peer
             /\ conn[me.conn].state \in Open
             /\ connections[me.peer].conn # me.conn
             /\ \A p \in Peer : p # me.peer => connections'[p] = connections[p]
             /\ connections'[me.peer].conn = me.conn
             /\ connections[me.peer].conn # 0 => connections'[me.peer].at = connections[me.peer].at
             /\ connections'[me.peer].at > 0
             /\ connections' \in [Peer -> [conn : 0 .. MaxConn, at : 0 .. MaxConn]]
             /\ TaskBecomes(current, [me EXCEPT !.pc = "done"])
             /\ UNCHANGED <<conn, waiting, sent, seen, ready>> /\ current' = 0
<1> DEFINE me == task[current]
<1>1. /\ ClientTypeOK /\ FieldsFit /\ OwnersFit /\ PlacesFit
  BY DEF LoopInv
<1>2. /\ current # 0 /\ current \in Tasks /\ me \in Coroutines
      /\ me.kind = "connect" /\ me.pc = "opened" /\ me.peer \in Peer
  BY <1>1 DEF ConnectStores, At, PlacesFit, ClientTypeOK, Tasks, FieldsFit, Fits
<1>3. /\ me.conn \in Conn /\ conn[me.conn].peer = me.peer
      /\ conn[me.conn].state \in Open
      /\ connections[me.peer].conn # me.conn
  BY <1>1, <1>2 DEF OwnersFit
<1>4. [me EXCEPT !.pc = "done"] \in Coroutines
  BY <1>2 DEF Coroutines, PCs
<1>5. TaskBecomes(current, [me EXCEPT !.pc = "done"]) /\ UNCHANGED ready /\ current' = 0
  BY <1>1, <1>2, <1>4, TaskKept DEF ConnectStores, Return, Leave
<1> DEFINE e == [conn |-> me.conn,
                 at |-> IF connections[me.peer].conn = 0 THEN me.conn ELSE connections[me.peer].at]
<1>6. connections' = [connections EXCEPT ![me.peer] = e]
  BY DEF ConnectStores
<1>7. e \in [conn : 0 .. MaxConn, at : 0 .. MaxConn] /\ e.at > 0
  BY <1>1, <1>2, <1>3, BoundAssumption DEF Conn, ClientTypeOK, FieldsFit, Connected
<1>8. /\ connections' \in [Peer -> [conn : 0 .. MaxConn, at : 0 .. MaxConn]]
      /\ connections'[me.peer] = e
      /\ \A p \in Peer : p # me.peer => connections'[p] = connections[p]
  <2> HIDE DEF e
  <2>1. QED
    BY <1>1, <1>2, <1>6, <1>7 DEF ClientTypeOK
<1>9. /\ connections[me.peer].conn # 0 => connections'[me.peer].at = connections[me.peer].at
      /\ connections'[me.peer].conn = me.conn /\ connections'[me.peer].at > 0
  BY <1>7, <1>8
<1>10. UNCHANGED <<conn, waiting, sent, seen>>
  BY DEF ConnectStores
<1>11. QED
  BY <1>2, <1>3, <1>5, <1>8, <1>9, <1>10

LEMMA StoresLoop ==
  ASSUME LoopInv, ConnectStores
  PROVE  LoopInv'
<1> DEFINE me == task[current]  done == [me EXCEPT !.pc = "done"]
<1>1. /\ current # 0 /\ current \in Tasks /\ me \in Coroutines
      /\ me.kind = "connect" /\ me.pc = "opened" /\ me.peer \in Peer
      /\ me.conn \in Conn /\ conn[me.conn].peer = me.peer
      /\ conn[me.conn].state \in Open
      /\ connections[me.peer].conn # me.conn
      /\ \A p \in Peer : p # me.peer => connections'[p] = connections[p]
      /\ connections'[me.peer].conn = me.conn /\ connections'[me.peer].at > 0
      /\ connections' \in [Peer -> [conn : 0 .. MaxConn, at : 0 .. MaxConn]]
      /\ TaskBecomes(current, done)
      /\ UNCHANGED <<conn, waiting, sent, seen, ready>> /\ current' = 0
  BY StoresEffect
<1>2. /\ ClientTypeOK /\ FieldsFit /\ OwnersFit /\ PlacesFit /\ Fits(me)
  BY <1>1 DEF LoopInv, FieldsFit
<1>3. done \in Coroutines /\ done.pc = "done" /\ Fits(done)
  BY <1>1, <1>2 DEF Coroutines, PCs, Fits
<1> HIDE DEF done
<1>4. /\ Tasks' = Tasks /\ Len(task') <= MaxTask /\ task' \in Seq(Coroutines)
      /\ \A u \in Tasks : Fits(task'[u])
  BY <1>1, <1>2, <1>3, FieldsKept DEF ClientTypeOK
<1>5. \A t \in Tasks : task'[t].pc = "opened" =>
        t # current /\ task[t].pc = "opened" /\ task'[t] = task[t]
  BY <1>1, <1>3 DEF TaskBecomes
<1>6. PlacesFit'
  BY <1>1, <1>2, PlacesStay
<1>7. ClientTypeOK'
  BY <1>1, <1>2, <1>4, BoundAssumption DEF ClientTypeOK
<1>8. FieldsFit'
  BY <1>1, <1>2, <1>4 DEF FieldsFit, Connected
<1>9. EntriesAreOpen'
  <2>1. \A p \in Connected' : p = me.peer \/ (p \in Connected /\ connections'[p] = connections[p])
    BY <1>1 DEF Connected
  <2>2. \A p \in Connected : /\ conn[connections[p].conn].peer = p
                             /\ conn[connections[p].conn].state \in Open
    BY <1>2, EntryIsOpen
  <2>3. QED
    BY <1>1, <2>1, <2>2 DEF EntriesAreOpen, Open
<1>10. ASSUME NEW t \in Tasks, task'[t].pc = "opened"
       PROVE  /\ task'[t].conn \in Conn
              /\ conn'[task'[t].conn].peer = task'[t].peer
              /\ conn'[task'[t].conn].state \in Open
              /\ connections'[task'[t].peer].conn # task'[t].conn
              /\ \A u \in Tasks : task'[u].pc = "opened" /\ task'[u].conn = task'[t].conn => u = t
  <2>1. /\ t # current /\ task[t].pc = "opened" /\ task'[t] = task[t] /\ task[t].peer \in Peer
        /\ task[t].conn \in Conn /\ conn[task[t].conn].peer = task[t].peer
        /\ conn[task[t].conn].state \in Open
        /\ connections[task[t].peer].conn # task[t].conn
        /\ \A u \in Tasks : task[u].pc = "opened" /\ task[u].conn = task[t].conn => u = t
    BY <1>2, <1>5, <1>10 DEF OwnersFit, FieldsFit, Fits
  <2>2. me.conn # task[t].conn
    BY <1>1, <2>1
  <2>3. connections'[task[t].peer].conn # task[t].conn
    BY <1>1, <2>1, <2>2
  <2>4. \A u \in Tasks : task'[u].pc = "opened" /\ task'[u].conn = task'[t].conn => u = t
    BY <1>5, <2>1
  <2>5. QED
    BY <1>1, <2>1, <2>3, <2>4
<1>11. OwnersFit'
  BY <1>4, <1>9, <1>10 DEF OwnersFit
<1>12. QED
  BY <1>6, <1>7, <1>8, <1>11 DEF LoopInv

LEMMA StartLoop ==
  ASSUME LoopInv, NEW kind \in {"connect", "disconnect", "broadcast"},
         NEW q \in Peer \cup {NoPeer}, kind # "broadcast" => q \in Peer,
         Start(kind, q), seen' \in [Peer -> BOOLEAN]
  PROVE  LoopInv'
<1> DEFINE n == Len(task) + 1  new == Coroutine(kind, q)
<1>1. ClientTypeOK /\ FieldsFit /\ OwnersFit /\ PlacesFit
  BY DEF LoopInv
<1>2. /\ task' \in Seq(Coroutines) /\ Len(task') = n
      /\ Len(task') <= MaxTask /\ Len(task') \in Nat
      /\ task'[n] = new
      /\ new.pc = "start" /\ new.at = 0 /\ new.kind = kind /\ new.peer = q
      /\ \A t \in Tasks : task'[t] = task[t] /\ t # n
      /\ \A t \in Tasks' : t \in Tasks \/ t = n
      /\ ready' \in Seq(1 .. MaxTask) /\ Len(ready') = Len(ready) + 1
      /\ ready'[Len(ready) + 1] = n
      /\ \A i \in 1 .. Len(ready) : ready'[i] = ready[i]
      /\ \A i \in 1 .. Len(ready') : i \in 1 .. Len(ready) \/ i = Len(ready) + 1
      /\ UNCHANGED <<connections, conn, waiting, sent, current>>
  BY <1>1, StartEffect DEF Tasks
<1>3. Tasks \subseteq Tasks' /\ n \in Tasks'
  <2>1. Len(task) \in Nat
    BY <1>1 DEF ClientTypeOK
  <2>2. QED
    BY <1>2, <2>1 DEF Tasks
<1> HIDE DEF n, new
<1>4. ClientTypeOK'
  BY <1>1, <1>2 DEF ClientTypeOK
<1>5. Fits(new)
  BY <1>2 DEF Fits
<1>6. FieldsFit'
  BY <1>1, <1>2, <1>5 DEF FieldsFit, Connected
<1>7. OwnersFit'
  <2>1. \A t \in Tasks' : task'[t].pc = "opened" =>
          t \in Tasks /\ task[t].pc = "opened" /\ task'[t] = task[t]
    BY <1>2
  <2>2. \A t \in Tasks : task[t].pc = "opened" => task[t].peer \in Peer
    BY <1>1 DEF FieldsFit, Fits
  <2>3. QED
    BY <1>1, <1>2, <2>1, <2>2, OwnersKept
<1>8. PlacesFit'
  <2>1. \A i \in 1 .. Len(ready) : ready[i] \in Tasks /\ task[ready[i]].pc \in Runnable
    BY <1>1 DEF PlacesFit
  <2>2. \A i \in 1 .. Len(ready') : ready'[i] \in Tasks' /\ task'[ready'[i]].pc \in Runnable
    BY <1>2, <1>3, <2>1 DEF Runnable
  <2>3. \A i, j \in 1 .. Len(ready') : ready'[i] = ready'[j] => i = j
    BY <1>1, <1>2, <2>1 DEF PlacesFit
  <2>4. current' # 0 => /\ current' \in Tasks' /\ task'[current'].pc \in Runnable
                        /\ \A i \in 1 .. Len(ready') : ready'[i] # current'
    BY <1>1, <1>2, <1>3, <2>1 DEF PlacesFit
  <2>5. \A c \in Conn : \A i \in 1 .. Len(waiting[c]) :
          /\ waiting[c][i] \in Tasks
          /\ task[waiting[c][i]].pc \in {"draining", "closing"}
          /\ task[waiting[c][i]].conn = c
          /\ \A j \in 1 .. Len(waiting[c]) : waiting[c][i] = waiting[c][j] => i = j
    BY <1>1 DEF PlacesFit
  <2>6. \A c \in Conn : \A i \in 1 .. Len(waiting'[c]) :
          /\ waiting'[c][i] \in Tasks'
          /\ task'[waiting'[c][i]].pc \in {"draining", "closing"}
          /\ task'[waiting'[c][i]].conn = c
          /\ \A j \in 1 .. Len(waiting'[c]) : waiting'[c][i] = waiting'[c][j] => i = j
    BY <1>2, <1>3, <2>5
  <2>7. QED
    BY <2>2, <2>3, <2>4, <2>6 DEF PlacesFit
<1>9. QED
  BY <1>4, <1>6, <1>7, <1>8 DEF LoopInv

LEMMA RunLoop ==
  ASSUME LoopInv, RunNext
  PROVE  LoopInv'
<1>1. ClientTypeOK /\ FieldsFit /\ OwnersFit /\ PlacesFit
  BY DEF LoopInv
<1>2. /\ current' = ready[1] /\ current' \in Tasks
      /\ ready' \in Seq(1 .. MaxTask) /\ Len(ready') = Len(ready) - 1
      /\ \A i \in 1 .. Len(ready') : i + 1 \in 1 .. Len(ready) /\ ready'[i] = ready[i + 1]
      /\ 1 \in 1 .. Len(ready)
      /\ UNCHANGED <<connections, conn, waiting, sent, task, seen>>
  BY <1>1, RunEffect
<1>3. ClientTypeOK'
  <2>1. current' \in 0 .. MaxTask
    BY <1>1, <1>2, BoundAssumption DEF ClientTypeOK, FieldsFit, Tasks
  <2>2. QED
    BY <1>1, <1>2, <2>1 DEF ClientTypeOK
<1>4. FieldsFit'
  BY <1>1, <1>2 DEF FieldsFit, Tasks, Connected
<1>5. OwnersFit'
  BY <1>1, <1>2 DEF OwnersFit, EntriesAreOpen, Connected, Tasks
<1>6. PlacesFit'
  <2>1. /\ \A i \in 1 .. Len(ready) : ready[i] \in Tasks /\ task[ready[i]].pc \in Runnable
        /\ \A i, j \in 1 .. Len(ready) : ready[i] = ready[j] => i = j
    BY <1>1 DEF PlacesFit
  <2>2. Tasks' = Tasks
    BY <1>2 DEF Tasks
  <2>3. \A i \in 1 .. Len(ready') : /\ ready'[i] \in Tasks' /\ task'[ready'[i]].pc \in Runnable
                                    /\ ready'[i] # current'
    BY <1>2, <2>1, <2>2
  <2>4. \A i, j \in 1 .. Len(ready') : ready'[i] = ready'[j] => i = j
    BY <1>2, <2>1
  <2>5. current' \in Tasks' /\ task'[current'].pc \in Runnable
    BY <1>2, <2>1, <2>2
  <2>6. \A c \in Conn : \A i \in 1 .. Len(waiting'[c]) :
          /\ waiting'[c][i] \in Tasks'
          /\ task'[waiting'[c][i]].pc \in {"draining", "closing"}
          /\ task'[waiting'[c][i]].conn = c
          /\ \A j \in 1 .. Len(waiting'[c]) : waiting'[c][i] = waiting'[c][j] => i = j
    BY <1>1, <1>2, <2>2 DEF PlacesFit
  <2>7. QED
    BY <2>3, <2>4, <2>5, <2>6 DEF PlacesFit
<1>7. QED
  BY <1>3, <1>4, <1>5, <1>6 DEF LoopInv

\* While a task opens a connection it is in no queue.
LEMMA OpeningPlace ==
  ASSUME PlacesFit, NEW t \in Tasks, task[t].pc = "opening"
  PROVE  /\ \A i \in 1 .. Len(ready) : ready[i] # t
         /\ \A c \in Conn : \A i \in 1 .. Len(waiting[c]) : waiting[c][i] # t
BY DEF PlacesFit, Runnable

LEMMA OpenFailsLoop ==
  ASSUME LoopInv, NEW t \in Tasks, OpenFails(t)
  PROVE  LoopInv' /\ Tasks' = Tasks /\ TaskBecomes(t, [task[t] EXCEPT !.pc = "done"])
<1> DEFINE r == [task[t] EXCEPT !.pc = "done"]
<1>1. /\ ClientTypeOK /\ FieldsFit /\ OwnersFit /\ PlacesFit
      /\ task[t] \in Coroutines /\ Fits(task[t])
      /\ current = 0 /\ task[t].pc = "opening"
      /\ UNCHANGED <<connections, conn, waiting, sent, ready, current, seen>>
  BY TaskFields DEF LoopInv, OpenFails, ClientTypeOK, FieldsFit
<1>2. r \in Coroutines /\ r.pc = "done" /\ Fits(r)
  BY <1>1 DEF Coroutines, PCs, Fits
<1>3. task' = [task EXCEPT ![t] = r]
  BY DEF OpenFails
<1> HIDE DEF r
<1>4. TaskBecomes(t, r)
  BY <1>1, <1>2, <1>3, SetTask DEF ClientTypeOK
<1>5. /\ Tasks' = Tasks /\ Len(task') <= MaxTask /\ task' \in Seq(Coroutines)
      /\ \A u \in Tasks : Fits(task'[u])
      /\ task'[t] = r /\ \A u \in Tasks : u # t => task'[u] = task[u]
  BY <1>1, <1>2, <1>4, FieldsKept DEF ClientTypeOK, TaskBecomes
<1>6. ClientTypeOK'
  BY <1>1, <1>5 DEF ClientTypeOK
<1>7. FieldsFit'
  BY <1>1, <1>5 DEF FieldsFit, Connected
<1>8. OwnersFit'
  <2>1. \A u \in Tasks' : task'[u].pc = "opened" => u \in Tasks /\ task'[u] = task[u]
    BY <1>2, <1>5
  <2>2. \A u \in Tasks : task[u].pc = "opened" => task[u].peer \in Peer
    BY <1>1 DEF FieldsFit, Fits
  <2>3. QED
    BY <1>1, <2>1, <2>2, OwnersKept
<1>9. PlacesFit'
  <2>1. /\ \A i \in 1 .. Len(ready) : ready[i] # t /\ ready[i] \in Tasks
        /\ \A c \in Conn : \A i \in 1 .. Len(waiting[c]) :
             waiting[c][i] # t /\ waiting[c][i] \in Tasks
    BY <1>1, OpeningPlace DEF PlacesFit
  <2>2. QED
    BY <1>1, <1>5, <2>1 DEF PlacesFit
<1>10. QED
  BY <1>4, <1>5, <1>6, <1>7, <1>8, <1>9 DEF LoopInv, r

\* Task t has opened connection c.
Opens(t, c) ==
  /\ conn[c].state = "none"
  /\ conn' \in [Conn -> [peer : Peer \cup {NoPeer}, state : States]]
  /\ conn'[c].peer = task[t].peer /\ conn'[c].state = "up"
  /\ \A d \in Conn : d # c => conn'[d] = conn[d]
  /\ task[t].pc = "opening" /\ task[t].peer \in Peer /\ task[t].kind = "connect"
  /\ TaskBecomes(t, [task[t] EXCEPT !.pc = "opened", !.conn = c])
  /\ [task[t] EXCEPT !.pc = "opened", !.conn = c] \in Coroutines
  /\ current = 0 /\ UNCHANGED <<connections, waiting, sent, current, seen>>
  /\ ready' \in Seq(1 .. MaxTask) /\ Len(ready') = Len(ready) + 1
  /\ ready'[Len(ready) + 1] = t
  /\ \A i \in 1 .. Len(ready) : i \in 1 .. Len(ready') /\ ready'[i] = ready[i]
  /\ \A i \in 1 .. Len(ready') : i \in 1 .. Len(ready) \/ i = Len(ready) + 1

LEMMA OpenSucceedsEffect ==
  ASSUME LoopInv, NEW t \in Tasks, OpenSucceeds(t)
  PROVE  \E c \in Conn : Opens(t, c)
<1> DEFINE c == CHOOSE c \in Unopened : \A d \in Unopened : c <= d
           r == [task[t] EXCEPT !.pc = "opened", !.conn = c]
           e == [peer |-> task[t].peer, state |-> "up"]
<1>1. /\ ClientTypeOK /\ FieldsFit /\ OwnersFit /\ PlacesFit
      /\ task[t] \in Coroutines /\ Fits(task[t])
      /\ current = 0 /\ task[t].pc = "opening"
      /\ conn' = [conn EXCEPT ![c] = e]
      /\ task' = [task EXCEPT ![t].pc = "opened", ![t].conn = c]
      /\ ready' = Append(ready, t)
      /\ UNCHANGED <<connections, waiting, sent, current, seen>>
  BY TaskFields DEF LoopInv, OpenSucceeds, ClientTypeOK, FieldsFit
<1>2. c \in Conn /\ conn[c].state = "none"
  BY FirstUnopened DEF OpenSucceeds
<1>3. task[t].peer \in Peer /\ task[t].kind = "connect"
  BY <1>1 DEF Fits
<1> HIDE DEF c
<1>4. r \in Coroutines
  <2>1. c \in 0 .. MaxConn
    BY <1>2, BoundAssumption DEF Conn
  <2>2. QED
    BY <1>1, <2>1 DEF Coroutines, PCs
<1>5. task' = [task EXCEPT ![t] = r]
  <2>1. task \in Seq(Coroutines)
    BY <1>1 DEF ClientTypeOK
  <2>2. QED
    BY <1>1, <2>1 DEF Tasks
<1>6. TaskBecomes(t, r)
  <2> HIDE DEF r
  <2>1. QED
    BY <1>1, <1>4, <1>5, SetTask DEF ClientTypeOK
<1>7. e \in [peer : Peer \cup {NoPeer}, state : States]
  BY <1>3 DEF States
<1>8. /\ conn' \in [Conn -> [peer : Peer \cup {NoPeer}, state : States]]
      /\ conn'[c] = e /\ \A d \in Conn : d # c => conn'[d] = conn[d]
  <2> HIDE DEF e
  <2>1. QED
    BY <1>1, <1>2, <1>7 DEF ClientTypeOK
<1>9. t \in 1 .. MaxTask
  BY <1>1, BoundAssumption DEF FieldsFit, Tasks, ClientTypeOK
<1>10. /\ ready' \in Seq(1 .. MaxTask) /\ Len(ready') = Len(ready) + 1
       /\ ready'[Len(ready) + 1] = t
       /\ \A i \in 1 .. Len(ready) : i \in 1 .. Len(ready') /\ ready'[i] = ready[i]
       /\ \A i \in 1 .. Len(ready') : i \in 1 .. Len(ready) \/ i = Len(ready) + 1
  BY <1>1, <1>9 DEF ClientTypeOK
<1>11. conn'[c].peer = task[t].peer /\ conn'[c].state = "up"
  BY <1>8
<1>12. QED
  BY <1>1, <1>2, <1>3, <1>4, <1>6, <1>8, <1>10, <1>11 DEF Opens

LEMMA OpenSucceedsLoop ==
  ASSUME LoopInv, NEW t \in Tasks, OpenSucceeds(t)
  PROVE  LoopInv'
<1>0. PICK c \in Conn : Opens(t, c)
  BY OpenSucceedsEffect
<1>1. /\ conn[c].state = "none"
      /\ conn' \in [Conn -> [peer : Peer \cup {NoPeer}, state : States]]
      /\ conn'[c].peer = task[t].peer /\ conn'[c].state = "up"
      /\ \A d \in Conn : d # c => conn'[d] = conn[d]
      /\ task[t].pc = "opening" /\ task[t].peer \in Peer /\ task[t].kind = "connect"
      /\ TaskBecomes(t, [task[t] EXCEPT !.pc = "opened", !.conn = c])
      /\ [task[t] EXCEPT !.pc = "opened", !.conn = c] \in Coroutines
      /\ current = 0 /\ UNCHANGED <<connections, waiting, sent, current, seen>>
      /\ ready' \in Seq(1 .. MaxTask) /\ Len(ready') = Len(ready) + 1
      /\ ready'[Len(ready) + 1] = t
      /\ \A i \in 1 .. Len(ready) : i \in 1 .. Len(ready') /\ ready'[i] = ready[i]
      /\ \A i \in 1 .. Len(ready') : i \in 1 .. Len(ready) \/ i = Len(ready) + 1
  BY <1>0 DEF Opens
<1> DEFINE r == [task[t] EXCEPT !.pc = "opened", !.conn = c]
<1>2. /\ ClientTypeOK /\ FieldsFit /\ OwnersFit /\ PlacesFit
      /\ task[t] \in Coroutines /\ Fits(task[t])
  BY TaskFields DEF LoopInv, ClientTypeOK, FieldsFit
<1>3. r.pc = "opened" /\ r.conn = c /\ r.kind = task[t].kind /\ r.peer = task[t].peer
  BY <1>2 DEF Coroutines
<1>4. Fits(r)
  BY <1>1, <1>2, <1>3 DEF Fits
<1>5. TaskBecomes(t, r)
  BY <1>1
<1> HIDE DEF r
<1>6. /\ Tasks' = Tasks /\ Len(task') <= MaxTask /\ task' \in Seq(Coroutines)
      /\ \A u \in Tasks : Fits(task'[u])
      /\ task'[t] = r /\ \A u \in Tasks : u # t => task'[u] = task[u]
  BY <1>2, <1>4, <1>5, FieldsKept DEF ClientTypeOK, TaskBecomes
<1>7. ClientTypeOK'
  BY <1>1, <1>2, <1>6 DEF ClientTypeOK
<1>8. FieldsFit'
  BY <1>1, <1>2, <1>6 DEF FieldsFit, Connected
<1>9. "none" \notin Open
  BY DEF Open
<1>10. OwnersFit'
  <2>1. \A q \in Connected : /\ q \in Peer /\ connections[q].conn # c
                             /\ connections[q].conn \in Conn
                             /\ conn[connections[q].conn].peer = q
                             /\ conn[connections[q].conn].state \in Open
    BY <1>1, <1>2, <1>9, EntryIsOpen
  <2>2. EntriesAreOpen'
    BY <1>1, <2>1 DEF EntriesAreOpen, Connected, Open
  <2>3. connections[task[t].peer].conn # c
    BY <1>1, <2>1 DEF Connected, Conn
  <2>4. \A u \in Tasks : u # t /\ task'[u].pc = "opened" =>
          /\ task'[u] = task[u] /\ task[u].pc = "opened"
          /\ task[u].conn \in Conn /\ task[u].conn # c
          /\ conn[task[u].conn].peer = task[u].peer
          /\ conn[task[u].conn].state \in Open
          /\ connections[task[u].peer].conn # task[u].conn
          /\ \A v \in Tasks : task[v].pc = "opened" /\ task[v].conn = task[u].conn => v = u
    BY <1>1, <1>2, <1>6, <1>9 DEF OwnersFit
  <2>5. ASSUME NEW u \in Tasks, task'[u].pc = "opened"
        PROVE  /\ task'[u].conn \in Conn
               /\ conn'[task'[u].conn].peer = task'[u].peer
               /\ conn'[task'[u].conn].state \in Open
               /\ connections'[task'[u].peer].conn # task'[u].conn
               /\ \A v \in Tasks : task'[v].pc = "opened" /\ task'[v].conn = task'[u].conn => v = u
    <3>1. CASE u = t
      <4>1. task'[t].conn = c /\ task'[t].peer = task[t].peer /\ "up" \in Open
        BY <1>3, <1>6 DEF Open
      <4>2. connections' = connections
        BY <1>1
      <4>3. \A v \in Tasks : task'[v].pc = "opened" /\ task'[v].conn = c => v = t
        BY <2>4
      <4>4. QED
        BY <1>1, <2>3, <3>1, <4>1, <4>2, <4>3
    <3>2. CASE u # t
      BY <1>1, <1>3, <1>6, <2>4, <2>5, <3>2
    <3>3. QED
      BY <3>1, <3>2
  <2>6. QED
    BY <1>6, <2>2, <2>5 DEF OwnersFit
<1>11. PlacesFit'
  <2>1. /\ \A i \in 1 .. Len(ready) : /\ ready[i] # t /\ ready[i] \in Tasks
                                      /\ task[ready[i]].pc \in Runnable
        /\ \A i, j \in 1 .. Len(ready) : ready[i] = ready[j] => i = j
        /\ \A d \in Conn : \A i \in 1 .. Len(waiting[d]) :
             waiting[d][i] # t /\ waiting[d][i] \in Tasks
    BY <1>1, <1>2, OpeningPlace DEF PlacesFit
  <2>2. \A i \in 1 .. Len(ready') : ready'[i] \in Tasks' /\ task'[ready'[i]].pc \in Runnable
    BY <1>1, <1>3, <1>6, <2>1 DEF Runnable
  <2>3. \A i, j \in 1 .. Len(ready') : ready'[i] = ready'[j] => i = j
    BY <1>1, <2>1
  <2>4. \A d \in Conn : \A i \in 1 .. Len(waiting'[d]) :
          /\ waiting'[d][i] \in Tasks'
          /\ task'[waiting'[d][i]].pc \in {"draining", "closing"}
          /\ task'[waiting'[d][i]].conn = d
          /\ \A j \in 1 .. Len(waiting'[d]) : waiting'[d][i] = waiting'[d][j] => i = j
    BY <1>1, <1>2, <1>6, <2>1 DEF PlacesFit
  <2>5. QED
    BY <1>1, <2>2, <2>3, <2>4 DEF PlacesFit
<1>12. QED
  BY <1>7, <1>8, <1>10, <1>11 DEF LoopInv

\* A connection that turns was open, and stays open unless it had been closed.
LEMMA TurnsLoop ==
  ASSUME LoopInv, NEW c \in Conn, NEW old, NEW new \in States, NEW ok \in BOOLEAN,
         "none" \notin old, new \in Open \/ old \cap Open = {}, Turns(c, old, new, ok)
  PROVE  LoopInv'
<1>1. ClientTypeOK /\ FieldsFit /\ OwnersFit /\ PlacesFit
  BY DEF LoopInv
<1>2. /\ conn[c].state \in old /\ conn' = [conn EXCEPT ![c].state = new]
      /\ current = 0 /\ UNCHANGED <<connections, sent, current, seen>>
      /\ task' \in Seq(Coroutines) /\ Len(task') = Len(task)
      /\ \A t \in Tasks :
           /\ Waits(t, c) => /\ task'[t] = Woken(task[t], c, ok)
                             /\ task[t].pc \in {"draining", "closing"}
           /\ ~Waits(t, c) => task'[t] = task[t]
      /\ ready' \in Seq(1 .. MaxTask)
      /\ \A i \in 1 .. Len(ready') :
           \/ i \in 1 .. Len(ready) /\ ready'[i] = ready[i]
           \/ /\ i - Len(ready) \in 1 .. Len(waiting[c])
              /\ ready'[i] = waiting[c][i - Len(ready)]
              /\ Waits(ready'[i], c) /\ ready'[i] \in Tasks
      /\ \A i \in 1 .. Len(ready) : i \in 1 .. Len(ready') /\ ready'[i] = ready[i]
      /\ waiting' \in [Conn -> Seq(1 .. MaxTask)] /\ waiting'[c] = <<>>
      /\ \A d \in Conn : d # c => waiting'[d] = waiting[d]
      /\ conn[c].peer \in Peer
  BY <1>1, TurnsEffect
<1>3. Tasks' = Tasks
  BY <1>2 DEF Tasks
<1>4. ASSUME NEW t \in Tasks, Waits(t, c)
      PROVE  /\ Fits(task'[t]) /\ task'[t].conn = task[t].conn
             /\ task'[t].pc \in {"next", "cleanup", "end", "raise"}
  <2>1. task'[t] = Woken(task[t], c, ok) /\ task[t].pc \in {"draining", "closing"}
    BY <1>2, <1>4
  <2>2. /\ task'[t].kind = task[t].kind /\ task'[t].peer = task[t].peer
        /\ task'[t].conn = task[t].conn
        /\ task'[t].pc \in {"next", "cleanup", "end", "raise"}
        /\ task'[t].pc \in {"next", "cleanup"} => task'[t].kind = "broadcast"
    BY <1>1, <1>2, <2>1, WokenIs
  <2>3. Fits(task[t])
    BY <1>1 DEF FieldsFit
  <2>4. QED
    BY <2>2, <2>3 DEF Fits
<1>5. /\ conn' \in [Conn -> [peer : Peer \cup {NoPeer}, state : States]]
      /\ \A d \in Conn : /\ conn'[d].peer = conn[d].peer
                         /\ conn'[d].state = IF d = c THEN new ELSE conn[d].state
  BY <1>1, <1>2, ConnTurns
<1>6. ClientTypeOK'
  BY <1>1, <1>2, <1>5 DEF ClientTypeOK
<1>7. FieldsFit'
  <2>1. \A t \in Tasks : Fits(task'[t])
    BY <1>1, <1>2, <1>4 DEF FieldsFit
  <2>2. \A d \in Conn : conn'[d].state # "none" => conn'[d].peer \in Peer
    BY <1>1, <1>2, <1>5 DEF FieldsFit
  <2>3. QED
    BY <1>1, <1>2, <1>3, <2>1, <2>2 DEF FieldsFit, Connected
<1>8. OwnersFit'
  <2>1. \A t \in Tasks' : task'[t].pc = "opened" => t \in Tasks /\ task'[t] = task[t]
    BY <1>2, <1>3, <1>4
  <2>2. \A t \in Tasks : task[t].pc = "opened" => task[t].peer \in Peer
    BY <1>1 DEF FieldsFit, Fits
  <2>3. \A d \in Conn : conn[d].state \in Open => conn'[d].state \in Open
    BY <1>2, <1>5
  <2>4. QED
    BY <1>1, <1>2, <1>5, <2>1, <2>2, <2>3, OwnersKept
<1>9. PlacesFit'
  <2>1. \A i \in 1 .. Len(ready) : /\ ready[i] \in Tasks /\ task[ready[i]].pc \in Runnable
                                   /\ ~Waits(ready[i], c)
    BY <1>1 DEF PlacesFit, Waits, Runnable
  <2>2. \A i \in 1 .. Len(ready') : ready'[i] \in Tasks' /\ task'[ready'[i]].pc \in Runnable
    <3>1. {"next", "cleanup", "end", "raise"} \subseteq Runnable
      BY DEF Runnable
    <3>2. ASSUME NEW i \in 1 .. Len(ready')
          PROVE  ready'[i] \in Tasks /\ task'[ready'[i]].pc \in Runnable
      <4>1. CASE i \in 1 .. Len(ready) /\ ready'[i] = ready[i]
        <5>1. task'[ready[i]] = task[ready[i]]
          BY <1>2, <2>1, <4>1
        <5>2. QED
          BY <2>1, <4>1, <5>1
      <4>2. CASE Waits(ready'[i], c) /\ ready'[i] \in Tasks
        BY <1>4, <3>1, <4>2
      <4>3. QED
        BY <1>2, <4>1, <4>2
    <3>3. QED
      BY <1>3, <3>2
  <2>3. \A i, j \in 1 .. Len(ready') : ready'[i] = ready'[j] => i = j
    <3>1. \A i, j \in 1 .. Len(ready) : ready[i] = ready[j] => i = j
      BY <1>1 DEF PlacesFit
    <3>2. \A i, j \in 1 .. Len(waiting[c]) : waiting[c][i] = waiting[c][j] => i = j
      BY <1>1 DEF PlacesFit
    <3>3. Len(ready) \in Nat
      BY <1>1 DEF ClientTypeOK
    <3>4. \A i \in 1 .. Len(ready') :
            \/ i \in 1 .. Len(ready) /\ ready'[i] = ready[i] /\ ~Waits(ready'[i], c)
            \/ /\ i - Len(ready) \in 1 .. Len(waiting[c])
               /\ ready'[i] = waiting[c][i - Len(ready)] /\ Waits(ready'[i], c)
      BY <1>2, <2>1
    <3>5. ASSUME NEW i \in 1 .. Len(ready'), NEW j \in 1 .. Len(ready'), ready'[i] = ready'[j]
          PROVE  i = j
      <4>1. CASE Waits(ready'[i], c)
        <5>1. /\ i - Len(ready) \in 1 .. Len(waiting[c]) /\ j - Len(ready) \in 1 .. Len(waiting[c])
              /\ waiting[c][i - Len(ready)] = waiting[c][j - Len(ready)]
          BY <3>4, <3>5, <4>1
        <5>2. i - Len(ready) = j - Len(ready) /\ i \in Int /\ j \in Int
          BY <3>2, <5>1
        <5>3. QED
          BY <3>3, <5>2
      <4>2. CASE ~Waits(ready'[i], c)
        <5>1. /\ i \in 1 .. Len(ready) /\ j \in 1 .. Len(ready)
              /\ ready[i] = ready[j]
          BY <3>4, <3>5, <4>2
        <5>2. QED
          BY <3>1, <5>1
      <4>3. QED
        BY <4>1, <4>2
    <3>6. QED
      BY <3>5
  <2>4. ASSUME NEW d \in Conn, NEW i \in 1 .. Len(waiting'[d])
        PROVE  /\ waiting'[d][i] \in Tasks'
               /\ task'[waiting'[d][i]].pc \in {"draining", "closing"}
               /\ task'[waiting'[d][i]].conn = d
               /\ \A j \in 1 .. Len(waiting'[d]) : waiting'[d][i] = waiting'[d][j] => i = j
    <3>1. d # c /\ waiting'[d] = waiting[d]
      BY <1>2, <2>4
    <3>2. /\ waiting[d][i] \in Tasks
          /\ task[waiting[d][i]].pc \in {"draining", "closing"}
          /\ task[waiting[d][i]].conn = d
          /\ \A j \in 1 .. Len(waiting[d]) : waiting[d][i] = waiting[d][j] => i = j
      BY <1>1, <2>4, <3>1 DEF PlacesFit
    <3>3. ~Waits(waiting[d][i], c)
      BY <1>1, <3>1, <3>2 DEF Waits, PlacesFit
    <3>4. QED
      BY <1>2, <1>3, <3>1, <3>2, <3>3
  <2>5. QED
    BY <1>2, <2>2, <2>3, <2>4 DEF PlacesFit
<1>10. QED
  BY <1>6, <1>7, <1>8, <1>9 DEF LoopInv

-----------------------------------------------------------------------------
(***************************************************************************)
(* The theorems that LoopInv gives.                                        *)
(***************************************************************************)
\* A coroutine is created, as one of the callbacks does.
Starts ==
  \E kind \in {"connect", "disconnect", "broadcast"}, q \in Peer \cup {NoPeer} :
    (kind # "broadcast" => q \in Peer) /\ Start(kind, q) /\ seen' \in [Peer -> BOOLEAN]

\* A connection turns from one of the states old to new.
Network(c, old, new, ok) ==
  /\ "none" \notin old /\ new # "none" /\ (new \in Open \/ old \cap Open = {})
  /\ Turns(c, old, new, ok)

LEMMA NextForms ==
  ASSUME LoopInv, ClientNext
  PROVE  \/ Starts \/ RunNext \/ ConnectStores
         \/ \E r \in Coroutines : \/ Quiet(r)
                                  \/ \E q \in Peer : Pops(q, r) \/ Writes(q, r)
         \/ \E t \in Tasks : OpenFails(t) \/ OpenSucceeds(t)
         \/ \E c \in Conn, old \in SUBSET States, new \in States, ok \in BOOLEAN :
              Network(c, old, new, ok)
<1>1. ASSUME NEW q \in Peer, Discovered(q) \/ Lost(q)
      PROVE  Starts
  <2>1. /\ Start("connect", q) \/ Start("disconnect", q)
        /\ seen' \in [Peer -> BOOLEAN]
    BY <1>1 DEF Discovered, Lost, LoopInv, ClientTypeOK
  <2>2. QED
    BY <2>1 DEF Starts
<1>2. ASSUME Copied
      PROVE  Starts
  <2>1. Start("broadcast", NoPeer) /\ seen' \in [Peer -> BOOLEAN]
    BY <1>2 DEF Copied, LoopInv, ClientTypeOK
  <2>2. QED
    BY <2>1 DEF Starts
<1>3. ASSUME NEW c \in Conn,
             PeerLeaves(c) \/ ConnectionLost(c) \/ Resumed(c) \/ Closed(c) \/ FlushFails(c)
      PROVE  \E old \in SUBSET States, new \in States, ok \in BOOLEAN : Network(c, old, new, ok)
  <2>1. CASE PeerLeaves(c)
    <3>1. Network(c, {"up"}, "gone", TRUE)
      BY <2>1 DEF PeerLeaves, Network, Open
    <3>2. {"up"} \in SUBSET States /\ "gone" \in States
      BY DEF States
    <3>3. QED
      BY <3>1, <3>2
  <2>2. CASE ConnectionLost(c)
    <3>1. Network(c, {"up", "paused", "gone", "dying"}, "dead", FALSE)
      BY <2>2 DEF ConnectionLost, Network, Open
    <3>2. {"up", "paused", "gone", "dying"} \in SUBSET States /\ "dead" \in States
      BY DEF States
    <3>3. QED
      BY <3>1, <3>2
  <2>3. CASE Resumed(c)
    <3>1. Network(c, {"paused"}, "up", TRUE)
      BY <2>3 DEF Resumed, Network, Open
    <3>2. {"paused"} \in SUBSET States /\ "up" \in States
      BY DEF States
    <3>3. QED
      BY <3>1, <3>2
  <2>4. CASE Closed(c)
    <3>1. Network(c, {"closing", "flushing"}, "closed", TRUE)
      BY <2>4 DEF Closed, Network, Open
    <3>2. {"closing", "flushing"} \in SUBSET States /\ "closed" \in States
      BY DEF States
    <3>3. QED
      BY <3>1, <3>2
  <2>5. CASE FlushFails(c)
    <3>1. Network(c, {"flushing"}, "closed", FALSE)
      BY <2>5 DEF FlushFails, Network, Open
    <3>2. {"flushing"} \in SUBSET States /\ "closed" \in States
      BY DEF States
    <3>3. QED
      BY <3>1, <3>2
  <2>6. QED
    BY <1>3, <2>1, <2>2, <2>3, <2>4, <2>5
<1>4. CASE Step
  BY <1>4, StepForms
<1>5. QED
  BY <1>1, <1>2, <1>3, <1>4 DEF ClientNext, Tasks

LEMMA LoopInit == ClientInit => LoopInv
<1> SUFFICES ASSUME ClientInit PROVE LoopInv
  OBVIOUS
<1>1. MaxTask \in Nat /\ MaxConn \in Nat
  BY BoundAssumption
<1>2. /\ connections = [q \in Peer |-> [conn |-> 0, at |-> 0]]
      /\ conn = [c \in Conn |-> [peer |-> NoPeer, state |-> "none"]]
      /\ waiting = [c \in Conn |-> <<>>] /\ sent = [c \in Conn |-> <<>>]
      /\ task = <<>> /\ ready = <<>> /\ current = 0 /\ seen = [q \in Peer |-> FALSE]
  BY DEF ClientInit
<1>3. ClientTypeOK
  <2>1. connections \in [Peer -> [conn : 0 .. MaxConn, at : 0 .. MaxConn]]
    BY <1>1, <1>2
  <2>2. conn \in [Conn -> [peer : Peer \cup {NoPeer}, state : States]]
    BY <1>2 DEF States
  <2>3. waiting \in [Conn -> Seq(1 .. MaxTask)] /\ sent \in [Conn -> Seq(1 .. MaxTask)]
    BY <1>2
  <2>4. task \in Seq(Coroutines) /\ ready \in Seq(1 .. MaxTask) /\ current \in 0 .. MaxTask
    BY <1>1, <1>2
  <2>5. seen \in [Peer -> BOOLEAN]
    BY <1>2
  <2>6. QED
    BY <2>1, <2>2, <2>3, <2>4, <2>5 DEF ClientTypeOK
<1>4. Tasks = {} /\ Connected = {}
  BY <1>2 DEF Tasks, Connected
<1>5. FieldsFit
  BY <1>1, <1>2, <1>4 DEF FieldsFit
<1>6. OwnersFit
  BY <1>4 DEF OwnersFit, EntriesAreOpen
<1>7. PlacesFit
  BY <1>2 DEF PlacesFit
<1>8. QED
  BY <1>3, <1>5, <1>6, <1>7 DEF LoopInv

LEMMA LoopStep == LoopInv /\ [ClientNext]_clientVars => LoopInv'
<1> SUFFICES ASSUME LoopInv, [ClientNext]_clientVars PROVE LoopInv'
  OBVIOUS
<1>1. CASE UNCHANGED clientVars
  <2>1. UNCHANGED <<connections, conn, waiting, sent, task, ready, current, seen>>
    BY <1>1 DEF clientVars
  <2>2. Tasks' = Tasks /\ Connected' = Connected
    BY <2>1 DEF Tasks, Connected
  <2>3. ClientTypeOK'
    BY <2>1 DEF LoopInv, ClientTypeOK
  <2>4. FieldsFit'
    BY <2>1, <2>2 DEF LoopInv, FieldsFit
  <2>5. OwnersFit'
    BY <2>1, <2>2 DEF LoopInv, OwnersFit, EntriesAreOpen
  <2>6. PlacesFit'
    BY <2>1, <2>2 DEF LoopInv, PlacesFit
  <2>7. QED
    BY <2>3, <2>4, <2>5, <2>6 DEF LoopInv
<1>2. CASE ClientNext
  BY <1>2, NextForms, StartLoop, RunLoop, StoresLoop, QuietLoop, PopsLoop, WritesLoop,
     OpenFailsLoop, OpenSucceedsLoop, TurnsLoop DEF Starts, Network
<1>3. QED
  BY <1>1, <1>2

THEOREM LoopInvariant == ClientSpec => []LoopInv
BY LoopInit, LoopStep, PTL DEF ClientSpec

\* Type correctness of the client.
THEOREM ClientTypeCorrect == ClientSpec => []ClientTypeOK
<1>1. LoopInv => ClientTypeOK
  BY DEF LoopInv
<1>2. QED
  BY <1>1, LoopInvariant, PTL

\* What is in SyncClient._connections is a connection to that peer which nobody
\* has closed, whatever the coroutines of the client do meanwhile.
THEOREM EntriesStayOpen == ClientSpec => []EntriesAreOpen
<1>1. LoopInv => EntriesAreOpen
  BY DEF LoopInv, OwnersFit
<1>2. QED
  BY <1>1, LoopInvariant, PTL

\* What `sent' gains, a broadcast wrote to an entry of the dictionary.
LEMMA SentGrows ==
  ASSUME LoopInv, ClientNext
  PROVE  \/ UNCHANGED sent
         \/ \E r \in Coroutines, q \in Peer : Writes(q, r)
BY NextForms, StoresEffect
   DEF Starts, Start, RunNext, Quiet, Pops, OpenFails, OpenSucceeds, Network, Turns

\* No frame is written to a connection that has been closed.
THEOREM NothingAfterClose == ClientSpec => NoFrameAfterClose
<1> DEFINE kept == \A c \in Conn :
             conn[c].state \in {"closing", "flushing", "closed"} => sent'[c] = sent[c]
<1>1. LoopInv /\ [ClientNext]_clientVars => [kept]_clientVars
  <2> SUFFICES ASSUME LoopInv, ClientNext PROVE kept
    OBVIOUS
  <2>1. CASE UNCHANGED sent
    BY <2>1
  <2>2. ASSUME NEW r \in Coroutines, NEW q \in Peer, Writes(q, r)
        PROVE  kept
    <3> DEFINE d == connections[q].conn
    <3>1. \/ UNCHANGED sent
          \/ /\ sent' = [sent EXCEPT ![d] = Append(@, current)]
             /\ conn[d].state \in {"up", "paused"}
      BY <2>2 DEF Writes
    <3>2. sent \in [Conn -> Seq(1 .. MaxTask)]
      BY DEF LoopInv, ClientTypeOK
    <3> HIDE DEF d
    <3>3. QED
      BY <3>1, <3>2
  <2>3. QED
    BY <2>1, <2>2, SentGrows
<1>2. QED
  BY <1>1, LoopInvariant, PTL DEF ClientSpec, NoFrameAfterClose

-----------------------------------------------------------------------------
(***************************************************************************)
(* What is written to a connection, and where the writers are.             *)
(***************************************************************************)
\* Nothing is written before the connection is in the dictionary; a broadcast
\* that has written to an entry is at its place of the dictionary, or beyond it.
SentInv ==
  /\ \A c \in Conn : conn[c].state = "none" => sent[c] = <<>>
  /\ \A t \in Tasks : task[t].pc = "opened" => sent[task[t].conn] = <<>>
  /\ \A c \in Conn : \A i \in 1 .. Len(sent[c]) :
       sent[c][i] \in Tasks /\ task[sent[c][i]].pc # "start"
  /\ \A q \in Connected : \A i \in 1 .. Len(sent[connections[q].conn]) :
       connections[q].at <= task[sent[connections[q].conn][i]].at
  /\ OncePerConnection

\* Most steps write nothing, enter nothing in the dictionary and leave every
\* coroutine at its place.
Calm ==
  /\ UNCHANGED sent
  /\ \A t \in Tasks :
       /\ t \in Tasks' /\ task'[t].kind = task[t].kind /\ task'[t].at = task[t].at
       /\ task[t].pc # "start" => task'[t].pc # "start"
       /\ task[t].pc = "start" => task'[t].pc = "start" \/ t = current
  /\ \A t \in Tasks' : t \in Tasks \/ (task'[t].pc = "start" /\ task'[t].first = 0)
  /\ \A t \in Tasks' : task'[t].pc = "opened" =>
       \/ t \in Tasks /\ task[t].pc = "opened" /\ task'[t].conn = task[t].conn
       \/ task'[t].conn \in Conn /\ conn[task'[t].conn].state = "none"
  /\ \A c \in Conn : conn'[c].state = "none" => conn[c].state = "none"
  /\ \A q \in Peer : connections'[q] = connections[q] \/ connections'[q].conn = 0

\* Most steps begin no broadcast either.
NoneBegins ==
  \A t \in Tasks :
    /\ task'[t].kind = task[t].kind /\ task'[t].first = task[t].first
    /\ task'[t].pc = "next" /\ task'[t].at = 0 =>
         /\ task[t].pc = "next" /\ task[t].at = 0
         /\ current = t => UNCHANGED <<connections, current>>

\* broadcast_clipboard begins its loop.
Begins(r) ==
  /\ Quiet(r)
  /\ task[current].kind = "broadcast" /\ task[current].pc = "start"
  /\ r.pc = "next" /\ Connected # {} /\ current' = current
  /\ r.first = connections[NextPeer].conn

LEMMA StartCalm ==
  ASSUME LoopInv, Starts
  PROVE  Calm /\ NoneBegins
<1>1. PICK kind \in {"connect", "disconnect", "broadcast"}, q \in Peer \cup {NoPeer} :
        Start(kind, q)
  BY DEF Starts
<1> DEFINE n == Len(task) + 1
<1>2. /\ Len(task') = n /\ Len(task) \in Nat
      /\ task'[n].pc = "start" /\ task'[n].first = 0
      /\ \A t \in Tasks : task'[t] = task[t]
      /\ UNCHANGED <<connections, conn, sent, current>>
  BY <1>1, StartEffect DEF LoopInv, ClientTypeOK
<1>3. \A t \in Tasks' : t \in Tasks \/ t = n
  BY <1>2 DEF Tasks
<1>4. \A t \in Tasks : t \in Tasks'
  BY <1>2 DEF Tasks
<1> HIDE DEF n
<1>5. Calm
  BY <1>2, <1>3, <1>4 DEF Calm
<1>6. NoneBegins
  BY <1>2 DEF NoneBegins
<1>7. QED
  BY <1>5, <1>6

LEMMA RunCalm ==
  ASSUME LoopInv, RunNext
  PROVE  Calm /\ NoneBegins
<1>1. UNCHANGED <<connections, conn, sent, task>> /\ current = 0
  BY DEF RunNext
<1>2. Tasks' = Tasks /\ 0 \notin Tasks
  BY <1>1 DEF Tasks
<1>3. QED
  BY <1>1, <1>2 DEF Calm, NoneBegins

LEMMA QuietCalm ==
  ASSUME LoopInv, NEW r \in Coroutines, Quiet(r)
  PROVE  Calm /\ (NoneBegins \/ Begins(r))
<1>1. /\ current \in Tasks /\ TaskBecomes(current, r)
      /\ UNCHANGED <<connections, conn, sent>>
      /\ r.kind = task[current].kind /\ r.at = task[current].at
      /\ r.pc # "opened" /\ r.pc # "start"
  BY DEF Quiet, LoopInv, PlacesFit
<1>2. /\ Tasks' = Tasks /\ task'[current] = r
      /\ \A t \in Tasks : t # current => task'[t] = task[t]
  BY <1>1 DEF TaskBecomes, Tasks
<1>3. Calm
  BY <1>1, <1>2 DEF Calm
<1>4. CASE r.first = task[current].first /\ r.pc # "next"
  BY <1>1, <1>2, <1>3, <1>4 DEF NoneBegins
<1>5. CASE ~(r.first = task[current].first /\ r.pc # "next")
  BY <1>3, <1>5 DEF Quiet, Begins
<1>6. QED
  BY <1>4, <1>5

\* What Pops and Writes do to the tasks and to the states of the connections.
LEMMA MovesTasks ==
  ASSUME LoopInv, NEW r \in Coroutines, NEW q \in Peer, Pops(q, r) \/ Writes(q, r)
  PROVE  /\ current # 0 /\ current \in Tasks /\ Tasks' = Tasks
         /\ task'[current].kind = task[current].kind
         /\ task'[current].first = task[current].first
         /\ task'[current].at = r.at /\ task'[current].pc = r.pc
         /\ r.pc \in {"raised", "closing", "next", "draining"}
         /\ \A u \in Tasks : u # current => task'[u] = task[u]
         /\ UNCHANGED ready /\ current' \in {0, current}
         /\ \A c \in Conn : conn'[c].state = "none" => conn[c].state = "none"
<1> DEFINE c == connections[q].conn
<1>1. /\ current # 0 /\ q \in Connected /\ SameCoroutine(task[current], r)
      /\ \/ /\ r.pc \in {"raised", "next"} /\ TaskBecomes(current, r)
            /\ current' \in {0, current} /\ (current' # 0 => r.pc \in Runnable)
            /\ UNCHANGED <<conn, waiting, ready>>
         \/ \E s \in {"closing", "flushing", "dying", "paused"} :
              r.pc \in {"closing", "draining"} /\ WaitOn(c, s, r)
      /\ r.pc \in {"next", "draining"} => task[current].kind = "broadcast"
      /\ r.pc = "draining" => r.at = connections[q].at
  BY DEF Pops, Writes, Runnable, Ahead
<1>2. /\ c \in Conn /\ conn[c].state \in Open /\ r.pc = "draining" => r.at > 0
  BY <1>1, EntryIsOpen DEF LoopInv, FieldsFit
<1>3. c \in Conn /\ conn[c].state \in Open
  BY <1>1, EntryIsOpen DEF LoopInv
<1> HIDE DEF c
<1>4. \A s \in {"closing", "flushing", "dying", "paused"} : s \in States /\ s # "none"
  BY DEF States
<1>5. /\ r.kind = task[current].kind /\ r.first = task[current].first
      /\ r.pc \in {"raised", "closing", "next", "draining"}
  BY <1>1 DEF SameCoroutine
<1>6. /\ \/ /\ r.pc \in {"raised", "next"} /\ TaskBecomes(current, r)
            /\ current' \in {0, current} /\ (current' # 0 => r.pc \in Runnable)
            /\ UNCHANGED <<conn, waiting, ready>>
         \/ \E s \in States : r.pc \in {"closing", "draining"} /\ WaitOn(c, s, r)
      /\ r.pc \in {"next", "draining"} => r.kind = "broadcast"
      /\ r.pc = "draining" => r.at > 0
  BY <1>1, <1>2, <1>3, <1>4, <1>5
<1>7. /\ Tasks' = Tasks /\ current \in Tasks
      /\ task'[current].kind = r.kind /\ task'[current].first = r.first
      /\ task'[current].at = r.at /\ task'[current].pc = r.pc
      /\ \A u \in Tasks : u # current => task'[u] = task[u]
      /\ UNCHANGED ready /\ current' \in {0, current}
  BY <1>1, <1>3, <1>6, MovesEffect
<1>8. \A d \in Conn : conn'[d].state = "none" => conn[d].state = "none"
  <2>1. ASSUME NEW s \in {"closing", "flushing", "dying", "paused"}, WaitOn(c, s, r)
        PROVE  \A d \in Conn : conn'[d].state = "none" => conn[d].state = "none"
    <3>1. conn' = [conn EXCEPT ![c].state = s]
      BY <2>1 DEF WaitOn
    <3>2. \A d \in Conn : conn'[d].state = IF d = c THEN s ELSE conn[d].state
      BY <1>3, <1>4, <3>1, ConnTurns DEF LoopInv
    <3>3. QED
      BY <1>4, <3>2
  <2>2. QED
    BY <1>1, <2>1
<1>9. QED
  BY <1>1, <1>5, <1>7, <1>8

LEMMA PopsCalm ==
  ASSUME LoopInv, NEW r \in Coroutines, NEW q \in Peer, Pops(q, r)
  PROVE  Calm /\ NoneBegins
<1>1. /\ current # 0 /\ current \in Tasks /\ Tasks' = Tasks
      /\ task'[current].kind = task[current].kind
      /\ task'[current].first = task[current].first
      /\ task'[current].at = r.at /\ task'[current].pc = r.pc
      /\ \A u \in Tasks : u # current => task'[u] = task[u]
      /\ \A c \in Conn : conn'[c].state = "none" => conn[c].state = "none"
  BY MovesTasks
<1>2. /\ connections' = [connections EXCEPT ![q] = [conn |-> 0, at |-> 0]]
      /\ UNCHANGED sent /\ r.at = task[current].at /\ r.pc \in {"raised", "closing"}
  BY DEF Pops
<1>3. \A p \in Peer : connections'[p] = connections[p] \/ connections'[p].conn = 0
  BY <1>2 DEF LoopInv, ClientTypeOK
<1>4. QED
  BY <1>1, <1>2, <1>3 DEF Calm, NoneBegins

LEMMA OpenCalm ==
  ASSUME LoopInv, NEW t \in Tasks, OpenFails(t) \/ OpenSucceeds(t)
  PROVE  Calm /\ NoneBegins
<1>0. task[t] \in Coroutines /\ 0 \notin Tasks
  BY TaskFields DEF LoopInv, ClientTypeOK, Tasks
<1>1. CASE OpenFails(t)
  <2> DEFINE r == [task[t] EXCEPT !.pc = "done"]
  <2>1. /\ Tasks' = Tasks /\ TaskBecomes(t, r) /\ current = 0
        /\ UNCHANGED <<connections, conn, sent>> /\ task[t].pc = "opening"
    BY <1>1, OpenFailsLoop DEF OpenFails
  <2>2. /\ r.kind = task[t].kind /\ r.at = task[t].at /\ r.first = task[t].first /\ r.pc = "done"
    BY <1>0 DEF Coroutines
  <2> HIDE DEF r
  <2>3. QED
    BY <1>0, <2>1, <2>2 DEF Calm, NoneBegins, TaskBecomes
<1>2. CASE OpenSucceeds(t)
  <2>0. PICK c \in Conn : Opens(t, c)
    BY <1>2, OpenSucceedsEffect
  <2>1. /\ conn[c].state = "none" /\ conn'[c].state = "up"
        /\ \A d \in Conn : d # c => conn'[d] = conn[d]
        /\ TaskBecomes(t, [task[t] EXCEPT !.pc = "opened", !.conn = c])
        /\ current = 0 /\ UNCHANGED <<connections, sent>> /\ task[t].pc = "opening"
    BY <2>0 DEF Opens
  <2> DEFINE r == [task[t] EXCEPT !.pc = "opened", !.conn = c]
  <2>2. /\ r.kind = task[t].kind /\ r.at = task[t].at /\ r.first = task[t].first
        /\ r.pc = "opened" /\ r.conn = c
    BY <1>0 DEF Coroutines
  <2>3. TaskBecomes(t, r)
    BY <2>1
  <2> HIDE DEF r
  <2>4. /\ Tasks' = Tasks /\ task'[t] = r
        /\ \A u \in Tasks : u # t => task'[u] = task[u]
    BY <2>3 DEF TaskBecomes, Tasks
  <2>5. \A d \in Conn : conn'[d].state = "none" => conn[d].state = "none"
    BY <2>1
  <2>6. QED
    BY <1>0, <2>1, <2>2, <2>4, <2>5 DEF Calm, NoneBegins
<1>3. QED
  BY <1>1, <1>2

LEMMA NetworkCalm ==
  ASSUME LoopInv, NEW c \in Conn, NEW old, NEW new \in States, NEW ok \in BOOLEAN,
         Network(c, old, new, ok)
  PROVE  Calm /\ NoneBegins
<1>1. ClientTypeOK /\ FieldsFit /\ OwnersFit /\ PlacesFit /\ 0 \notin Tasks
  BY DEF LoopInv, Tasks
<1>2. /\ conn' = [conn EXCEPT ![c].state = new] /\ current = 0
      /\ UNCHANGED <<connections, sent>>
      /\ Len(task') = Len(task) /\ conn[c].peer \in Peer
      /\ \A t \in Tasks :
           /\ Waits(t, c) => /\ task'[t] = Woken(task[t], c, ok)
                             /\ task[t].pc \in {"draining", "closing"}
           /\ ~Waits(t, c) => task'[t] = task[t]
  BY <1>1, TurnsEffect DEF Network
<1>3. Tasks' = Tasks
  BY <1>2 DEF Tasks
<1>4. ASSUME NEW t \in Tasks, Waits(t, c)
      PROVE  /\ task'[t].kind = task[t].kind /\ task'[t].first = task[t].first
             /\ task'[t].at = task[t].at
             /\ task'[t].pc \in {"next", "cleanup", "end", "raise"}
             /\ task'[t].pc = "next" => task'[t].at > 0
  <2>1. task'[t] = Woken(task[t], c, ok) /\ task[t].pc \in {"draining", "closing"}
    BY <1>2, <1>4
  <2>2. /\ task'[t].kind = task[t].kind /\ task'[t].first = task[t].first
        /\ task'[t].at = task[t].at
        /\ task'[t].pc \in {"next", "cleanup", "end", "raise"}
        /\ task'[t].pc = "next" => task[t].pc = "draining"
    BY <1>1, <1>2, <2>1, WokenIs
  <2>3. Fits(task[t])
    BY <1>1 DEF FieldsFit
  <2>4. QED
    BY <2>2, <2>3 DEF Fits
<1>5. \A d \in Conn : conn'[d].state = "none" => conn[d].state = "none"
  BY <1>1, <1>2, ConnTurns DEF Network
<1>6. \A t \in Tasks : task[t].at \in Nat
  BY <1>1, TaskFields DEF ClientTypeOK
<1>7. Calm
  BY <1>2, <1>3, <1>4, <1>5 DEF Calm
<1>8. NoneBegins
  BY <1>1, <1>2, <1>4, <1>6 DEF NoneBegins
<1>9. QED
  BY <1>7, <1>8

LEMMA StepKinds ==
  ASSUME LoopInv, ClientNext
  PROVE  \/ Calm /\ (NoneBegins \/ \E r \in Coroutines : Begins(r))
         \/ ConnectStores
         \/ \E r \in Coroutines, q \in Peer : Writes(q, r)
BY NextForms, StartCalm, RunCalm, QuietCalm, PopsCalm, OpenCalm, NetworkCalm

LEMMA CalmSent ==
  ASSUME LoopInv, SentInv, Calm
  PROVE  SentInv'
<1>0. \A t \in Tasks : task[t].pc = "opened" => task[t].conn \in Conn
  BY DEF LoopInv, OwnersFit
<1>1. \A c \in Conn : conn'[c].state = "none" => sent'[c] = <<>>
  BY DEF SentInv, Calm
<1>2. \A t \in Tasks' : task'[t].pc = "opened" => sent'[task'[t].conn] = <<>>
  BY <1>0 DEF SentInv, Calm
<1>3. \A c \in Conn : \A i \in 1 .. Len(sent'[c]) :
        sent'[c][i] \in Tasks' /\ task'[sent'[c][i]].pc # "start"
  BY DEF SentInv, Calm
<1>4. \A q \in Connected' : \A i \in 1 .. Len(sent'[connections'[q].conn]) :
        connections'[q].at <= task'[sent'[connections'[q].conn][i]].at
  <2>1. \A q \in Connected' : /\ q \in Connected /\ connections'[q] = connections[q]
                              /\ connections[q].conn \in Conn
    BY EntryIsOpen DEF Calm, Connected, LoopInv
  <2>2. \A q \in Connected : \A i \in 1 .. Len(sent[connections[q].conn]) :
          /\ connections[q].at <= task[sent[connections[q].conn][i]].at
          /\ sent[connections[q].conn][i] \in Tasks
    BY EntryIsOpen DEF SentInv, LoopInv
  <2>3. QED
    BY <2>1, <2>2 DEF Calm
<1>5. OncePerConnection'
  BY DEF SentInv, Calm, OncePerConnection
<1>6. QED
  BY <1>1, <1>2, <1>3, <1>4, <1>5 DEF SentInv

\* Nothing has been written to the connection that connect_to_peer enters.
LEMMA StoresTasks ==
  ASSUME LoopInv, ConnectStores
  PROVE  /\ Tasks' = Tasks /\ current \in Tasks /\ task[current].pc = "opened"
         /\ task'[current].pc = "done" /\ task'[current].at = task[current].at
         /\ task'[current].kind = task[current].kind
         /\ task'[current].first = task[current].first
         /\ \A t \in Tasks : t # current => task'[t] = task[t]
         /\ current # 0 /\ current' = 0
<1> DEFINE r == [task[current] EXCEPT !.pc = "done"]
<1>1. /\ current # 0 /\ current' = 0 /\ current \in Tasks /\ task[current].pc = "opened"
      /\ task[current] \in Coroutines /\ TaskBecomes(current, r)
  BY StoresEffect
<1>2. /\ r.pc = "done" /\ r.at = task[current].at /\ r.kind = task[current].kind
      /\ r.first = task[current].first
  BY <1>1 DEF Coroutines
<1> HIDE DEF r
<1>3. QED
  BY <1>1, <1>2 DEF TaskBecomes, Tasks

LEMMA StoresSent ==
  ASSUME LoopInv, SentInv, ConnectStores
  PROVE  SentInv'
<1> DEFINE me == task[current]
<1>1. /\ me.conn \in Conn /\ me.peer \in Peer
      /\ \A p \in Peer : p # me.peer => connections'[p] = connections[p]
      /\ connections'[me.peer].conn = me.conn
      /\ UNCHANGED <<conn, sent>>
  BY StoresEffect
<1>2. /\ Tasks' = Tasks /\ current \in Tasks /\ me.pc = "opened"
      /\ task'[current].pc = "done" /\ task'[current].at = me.at
      /\ \A t \in Tasks : t # current => task'[t] = task[t]
  BY StoresTasks
<1> HIDE DEF me
<1>3. sent[me.conn] = <<>>
  BY <1>2 DEF SentInv, me
<1>4. \A c \in Conn : \A i \in 1 .. Len(sent[c]) : /\ sent[c][i] \in Tasks
                                                   /\ task[sent[c][i]].pc # "start"
                                                   /\ task'[sent[c][i]].pc # "start"
  BY <1>2 DEF SentInv
<1>5. \A q \in Connected' : \A i \in 1 .. Len(sent'[connections'[q].conn]) :
        connections'[q].at <= task'[sent'[connections'[q].conn][i]].at
  <2>1. ASSUME NEW q \in Connected', NEW i \in 1 .. Len(sent'[connections'[q].conn])
        PROVE  connections'[q].at <= task'[sent'[connections'[q].conn][i]].at
    <3>1. q # me.peer
      BY <1>1, <1>3, <2>1
    <3>2. q \in Connected /\ connections'[q] = connections[q] /\ connections[q].conn \in Conn
      BY <1>1, <3>1, EntryIsOpen DEF Connected, LoopInv
    <3>3. /\ connections[q].at <= task[sent[connections[q].conn][i]].at
          /\ sent[connections[q].conn][i] \in Tasks
      BY <1>1, <1>4, <2>1, <3>2 DEF SentInv
    <3>4. task'[sent[connections[q].conn][i]].at = task[sent[connections[q].conn][i]].at
      BY <1>2, <3>3 DEF me
    <3>5. QED
      BY <1>1, <3>2, <3>3, <3>4
  <2>2. QED
    BY <2>1
<1>6. \A t \in Tasks' : task'[t].pc = "opened" => sent'[task'[t].conn] = <<>>
  BY <1>1, <1>2 DEF SentInv
<1>7. QED
  BY <1>1, <1>2, <1>4, <1>5, <1>6 DEF SentInv, OncePerConnection

\* A broadcast writes to a connection it has not written to before.
LEMMA WritesNew ==
  ASSUME LoopInv, SentInv, NEW r \in Coroutines, NEW q \in Peer, Writes(q, r)
  PROVE  LET c == connections[q].conn
         IN  /\ c \in Conn /\ conn[c].peer = q /\ conn[c].state \in Open /\ q \in Connected
             /\ \A i \in 1 .. Len(sent[c]) : sent[c][i] # current
             /\ \A p \in Connected : connections[p].conn = c => p = q
             /\ \A t \in Tasks : task[t].pc = "opened" => task[t].conn # c
             /\ task[current].at < connections[q].at
             /\ connections[q].at \in Nat /\ task[current].at \in Nat
<1> DEFINE c == connections[q].conn
<1>1. q \in Connected /\ connections[q].at > task[current].at /\ current \in Tasks
  BY DEF Writes, Ahead, LoopInv, PlacesFit
<1>2. /\ c \in Conn /\ conn[c].peer = q /\ conn[c].state \in Open
      /\ \A p \in Connected : conn[connections[p].conn].peer = p
  BY <1>1, EntryIsOpen DEF LoopInv
<1>3. connections[q].at \in Nat /\ task[current].at \in Nat
  BY <1>1, TaskFields DEF LoopInv, ClientTypeOK
<1>4. \A i \in 1 .. Len(sent[c]) : sent[c][i] # current
  BY <1>1, <1>3 DEF SentInv
<1>5. \A t \in Tasks : task[t].pc = "opened" => task[t].conn # c
  BY <1>2 DEF LoopInv, OwnersFit
<1>6. QED
  BY <1>1, <1>2, <1>3, <1>4, <1>5

\* A broadcast appends its frame to one connection, or loses it.
LEMMA WritesGrows ==
  ASSUME LoopInv, SentInv, NEW r \in Coroutines, NEW q \in Peer, Writes(q, r)
  PROVE  LET c == connections[q].conn
         IN  /\ sent \in [Conn -> Seq(1 .. MaxTask)] /\ current \in 1 .. MaxTask
             /\ UNCHANGED sent \/ sent' = [sent EXCEPT ![c] = Append(@, current)]
             /\ \A d \in Conn : d # c => sent'[d] = sent[d]
             /\ \A d \in Conn : \A i \in 1 .. Len(sent'[d]) :
                  \/ i \in 1 .. Len(sent[d]) /\ sent'[d][i] = sent[d][i]
                  \/ d = c /\ i = Len(sent[c]) + 1 /\ sent'[d][i] = current
<1> DEFINE c == connections[q].conn
<1>1. c \in Conn /\ current \in Tasks
  BY WritesNew, MovesTasks
<1>2. UNCHANGED sent \/ sent' = [sent EXCEPT ![c] = Append(@, current)]
  BY DEF Writes
<1>3. sent \in [Conn -> Seq(1 .. MaxTask)] /\ current \in 1 .. MaxTask
  <2>1. /\ sent \in [Conn -> Seq(1 .. MaxTask)] /\ Len(task) <= MaxTask /\ MaxTask \in Nat
        /\ Len(task) \in Nat
    BY BoundAssumption DEF LoopInv, ClientTypeOK, FieldsFit
  <2>2. QED
    BY <1>1, <2>1 DEF Tasks
<1>4. \A d \in Conn : d # c => sent'[d] = sent[d]
  <2> HIDE DEF c
  <2>1. QED
    BY <1>1, <1>2, <1>3
<1>5. \A d \in Conn : \A i \in 1 .. Len(sent'[d]) :
        \/ i \in 1 .. Len(sent[d]) /\ sent'[d][i] = sent[d][i]
        \/ d = c /\ i = Len(sent[c]) + 1 /\ sent'[d][i] = current
  <2> HIDE DEF c
  <2>1. \A d \in Conn : sent[d] \in Seq(1 .. MaxTask)
    BY <1>3
  <2>2. CASE UNCHANGED sent
    BY <2>2
  <2>3. CASE sent' = [sent EXCEPT ![c] = Append(@, current)]
    <3>1. sent'[c] = Append(sent[c], current) /\ \A d \in Conn : d # c => sent'[d] = sent[d]
      BY <1>1, <1>3, <2>3
    <3>2. /\ Len(sent'[c]) = Len(sent[c]) + 1 /\ sent'[c][Len(sent[c]) + 1] = current
          /\ \A i \in 1 .. Len(sent[c]) : sent'[c][i] = sent[c][i]
          /\ \A i \in 1 .. Len(sent[c]) + 1 : i \in 1 .. Len(sent[c]) \/ i = Len(sent[c]) + 1
      BY <1>1, <1>3, <2>1, <3>1
    <3>3. QED
      BY <3>1, <3>2
  <2>4. QED
    BY <1>2, <2>2, <2>3
<1>6. QED
  BY <1>2, <1>3, <1>4, <1>5

LEMMA WritesSent ==
  ASSUME LoopInv, SentInv, NEW r \in Coroutines, NEW q \in Peer, Writes(q, r)
  PROVE  SentInv'
<1> DEFINE c == connections[q].conn
<1>1. /\ c \in Conn /\ conn[c].state \in Open /\ q \in Connected
      /\ \A i \in 1 .. Len(sent[c]) : sent[c][i] # current
      /\ \A p \in Connected : connections[p].conn = c => p = q
      /\ \A t \in Tasks : task[t].pc = "opened" => task[t].conn # c
      /\ task[current].at < connections[q].at
      /\ connections[q].at \in Nat /\ task[current].at \in Nat
  BY WritesNew
<1>2. /\ current \in Tasks /\ Tasks' = Tasks
      /\ task'[current].at = r.at /\ task'[current].pc = r.pc
      /\ \A u \in Tasks : u # current => task'[u] = task[u]
      /\ \A d \in Conn : conn'[d].state = "none" => conn[d].state = "none"
  BY MovesTasks
<1>3. /\ UNCHANGED connections /\ r.at = connections[q].at /\ r.pc \in {"next", "draining"}
      /\ UNCHANGED sent \/ sent' = [sent EXCEPT ![c] = Append(@, current)]
  BY DEF Writes
<1>4. sent \in [Conn -> Seq(1 .. MaxTask)] /\ current \in 1 .. MaxTask
  BY WritesGrows
<1>5. \A t \in Tasks : task'[t].at >= task[t].at /\ task[t].at \in Nat
  <2>1. \A t \in Tasks : task[t].at \in Nat
    BY TaskFields DEF LoopInv, ClientTypeOK
  <2>2. QED
    BY <1>1, <1>2, <1>3, <2>1
<1>6. \A d \in Conn : \A i \in 1 .. Len(sent'[d]) :
        \/ i \in 1 .. Len(sent[d]) /\ sent'[d][i] = sent[d][i]
        \/ d = c /\ i = Len(sent[c]) + 1 /\ sent'[d][i] = current
  BY WritesGrows
<1>7. \A d \in Conn : sent'[d] = sent[d] \/ d = c
  BY WritesGrows
<1>8. \A d \in Conn : conn'[d].state = "none" => sent'[d] = <<>>
  BY <1>1, <1>2, <1>7 DEF SentInv, Open
<1>9. \A t \in Tasks' : task'[t].pc = "opened" => sent'[task'[t].conn] = <<>>
  <2>1. \A t \in Tasks : task[t].pc = "opened" =>
          task[t].conn \in Conn /\ sent[task[t].conn] = <<>>
    BY DEF SentInv, LoopInv, OwnersFit
  <2>2. QED
    BY <1>1, <1>2, <1>3, <1>7, <2>1
<1>10. \A d \in Conn : \A i \in 1 .. Len(sent'[d]) :
         sent'[d][i] \in Tasks' /\ task'[sent'[d][i]].pc # "start"
  <2>1. \A d \in Conn : \A i \in 1 .. Len(sent[d]) :
         sent[d][i] \in Tasks /\ task[sent[d][i]].pc # "start"
    BY DEF SentInv
  <2>2. \A t \in Tasks : task[t].pc # "start" => task'[t].pc # "start"
    BY <1>2, <1>3
  <2>3. task'[current].pc # "start"
    BY <1>2, <1>3
  <2>4. QED
    BY <1>2, <1>6, <2>1, <2>2, <2>3
<1>11. \A p \in Connected' : \A i \in 1 .. Len(sent'[connections'[p].conn]) :
         connections'[p].at <= task'[sent'[connections'[p].conn][i]].at
  <2>1. ASSUME NEW p \in Connected, NEW i \in 1 .. Len(sent'[connections[p].conn])
        PROVE  connections[p].at <= task'[sent'[connections[p].conn][i]].at
    <3> DEFINE d == connections[p].conn
    <3>1. d \in Conn /\ connections[p].at \in Nat
      BY EntryIsOpen DEF LoopInv, ClientTypeOK, Connected
    <3>2. CASE i \in 1 .. Len(sent[d]) /\ sent'[d][i] = sent[d][i]
      <4>1. connections[p].at <= task[sent[d][i]].at /\ sent[d][i] \in Tasks
        BY <3>1, <3>2 DEF SentInv
      <4>2. task'[sent[d][i]].at >= task[sent[d][i]].at /\ task[sent[d][i]].at \in Nat
        BY <1>5, <4>1
      <4>3. task'[sent[d][i]].at \in Nat
        BY <1>1, <1>2, <1>3, <4>1, <4>2
      <4>4. QED
        BY <3>1, <3>2, <4>1, <4>2, <4>3
    <3>3. CASE d = c /\ sent'[d][i] = current
      BY <1>1, <1>2, <1>3, <3>3
    <3>4. QED
      BY <1>6, <2>1, <3>1, <3>2, <3>3
  <2>2. QED
    BY <1>3, <2>1 DEF Connected
<1>12. OncePerConnection'
  <2>1. ASSUME NEW d \in Conn, NEW i \in 1 .. Len(sent'[d]), NEW j \in 1 .. Len(sent'[d]),
               sent'[d][i] = sent'[d][j]
        PROVE  i = j
    <3>1. \A k, l \in 1 .. Len(sent[d]) : sent[d][k] = sent[d][l] => k = l
      BY DEF SentInv, OncePerConnection
    <3>2. \/ i \in 1 .. Len(sent[d]) /\ sent'[d][i] = sent[d][i]
          \/ d = c /\ i = Len(sent[c]) + 1 /\ sent'[d][i] = current
      BY <1>6
    <3>3. \/ j \in 1 .. Len(sent[d]) /\ sent'[d][j] = sent[d][j]
          \/ d = c /\ j = Len(sent[c]) + 1 /\ sent'[d][j] = current
      BY <1>6
    <3> HIDE DEF c
    <3>4. QED
      BY <1>1, <2>1, <3>1, <3>2, <3>3
  <2>2. QED
    BY <2>1 DEF OncePerConnection
<1>13. QED
  BY <1>8, <1>9, <1>10, <1>11, <1>12 DEF SentInv

LEMMA SentInit == ClientInit => SentInv
<1> SUFFICES ASSUME ClientInit PROVE SentInv
  OBVIOUS
<1>1. /\ \A c \in Conn : sent[c] = <<>> /\ Len(sent[c]) = 0
      /\ task = <<>> /\ connections = [q \in Peer |-> [conn |-> 0, at |-> 0]]
  BY DEF ClientInit
<1>2. Tasks = {} /\ Connected = {}
  BY <1>1 DEF Tasks, Connected
<1>3. QED
  BY <1>1, <1>2 DEF SentInv, OncePerConnection

LEMMA SentStep == LoopInv /\ SentInv /\ [ClientNext]_clientVars => SentInv'
<1> SUFFICES ASSUME LoopInv, SentInv, [ClientNext]_clientVars PROVE SentInv'
  OBVIOUS
<1>1. CASE UNCHANGED clientVars
  <2>1. UNCHANGED <<connections, conn, sent, task>>
    BY <1>1 DEF clientVars
  <2>2. Tasks' = Tasks /\ Connected' = Connected
    BY <2>1 DEF Tasks, Connected
  <2>3. QED
    BY <2>1, <2>2 DEF SentInv, OncePerConnection
<1>2. CASE ClientNext
  BY <1>2, StepKinds, CalmSent, StoresSent, WritesSent
<1>3. QED
  BY <1>1, <1>2

THEOREM SentInvariant == ClientSpec => []SentInv
<1>1. ClientSpec => [](LoopInv /\ SentInv)
  BY LoopInit, LoopStep, SentInit, SentStep, PTL DEF ClientSpec
<1>2. QED
  BY <1>1, PTL

\* A broadcast writes its frame to a connection at most once, though its loop
\* over the dictionary awaits while other coroutines change the dictionary.
THEOREM OnePerConnection == ClientSpec => []OncePerConnection
<1>1. SentInv => OncePerConnection
  BY DEF SentInv
<1>2. QED
  BY <1>1, SentInvariant, PTL

-----------------------------------------------------------------------------
(***************************************************************************)
(* The loop runs new coroutines in the order they were created.            *)
(***************************************************************************)
Unstarted == {t \in Tasks : task[t].pc = "start"}

QueueInv ==
  /\ \A t \in Unstarted : t = current \/ \E i \in 1 .. Len(ready) : ready[i] = t
  /\ \A i, j \in 1 .. Len(ready) :
       i < j /\ ready[i] \in Unstarted /\ ready[j] \in Unstarted => ready[i] < ready[j]
  /\ current # 0 /\ current \in Unstarted =>
       \A i \in 1 .. Len(ready) : ready[i] \in Unstarted => current < ready[i]
  /\ \A t \in Unstarted, u \in Tasks \ Unstarted : u < t

\* Only the running task stops being new; who joins the queue is not new.
LEMMA QueueKept ==
  ASSUME LoopInv, QueueInv, Tasks' = Tasks, current' \in {0, current},
         \A t \in Tasks : (t \in Unstarted') <=> (t \in Unstarted /\ t # current),
         \A i \in 1 .. Len(ready) : i \in 1 .. Len(ready') /\ ready'[i] = ready[i],
         \A i \in 1 .. Len(ready') : /\ ready'[i] \in Tasks
                                     /\ i \in 1 .. Len(ready) \/ ready'[i] \notin Unstarted'
  PROVE  QueueInv'
<1>1. \A i \in 1 .. Len(ready) : ready[i] \in Tasks
  BY DEF LoopInv, PlacesFit
<1>2. \A t \in Tasks : t \in Unstarted' =>
        t \in Unstarted /\ t # current /\ \E i \in 1 .. Len(ready) : ready[i] = t
  BY DEF QueueInv
<1>3. \A t \in Unstarted' : t = current' \/ \E i \in 1 .. Len(ready') : ready'[i] = t
  BY <1>2 DEF Unstarted
<1>4. \A i \in 1 .. Len(ready') : ready'[i] \in Unstarted' =>
        i \in 1 .. Len(ready) /\ ready'[i] = ready[i] /\ ready[i] \in Unstarted
  BY <1>2
<1>5. \A i, j \in 1 .. Len(ready') :
        i < j /\ ready'[i] \in Unstarted' /\ ready'[j] \in Unstarted' => ready'[i] < ready'[j]
  BY <1>4 DEF QueueInv
<1>6. ~(current' # 0 /\ current' \in Unstarted')
  <2>1. current # 0 => current \in Tasks
    BY DEF LoopInv, PlacesFit
  <2>2. current' # 0 => current \notin Unstarted'
    BY <1>2, <2>1
  <2>3. current' # 0 => current' = current
    OBVIOUS
  <2>4. QED
    BY <2>2, <2>3
<1>7. ASSUME NEW t \in Tasks, NEW u \in Tasks, t \in Unstarted', u \notin Unstarted'
      PROVE  u < t
  <2>1. PICK i \in 1 .. Len(ready) : ready[i] = t
    BY <1>2, <1>7
  <2>2. CASE u \in Unstarted /\ u = current
    <3>1. current # 0
      BY <2>2 DEF Tasks
    <3>2. QED
      BY <1>2, <1>7, <2>1, <2>2, <3>1 DEF QueueInv
  <2>3. CASE u \notin Unstarted
    BY <1>2, <1>7, <2>3 DEF QueueInv
  <2>4. QED
    BY <1>7, <2>2, <2>3
<1>8. \A t \in Unstarted', u \in Tasks' \ Unstarted' : u < t
  BY <1>7 DEF Unstarted
<1>9. QED
  BY <1>3, <1>5, <1>6, <1>8 DEF QueueInv

\* The running task goes on; none is created or queued.
LEMMA QueueMoves ==
  ASSUME LoopInv, QueueInv, Tasks' = Tasks, UNCHANGED ready, current' \in {0, current},
         current \in Tasks, task'[current].pc # "start",
         \A u \in Tasks : u # current => task'[u] = task[u]
  PROVE  QueueInv'
<1>1. \A u \in Tasks : (u \in Unstarted') <=> (u \in Unstarted /\ u # current)
  BY DEF Unstarted, Tasks
<1>2. \A i \in 1 .. Len(ready) : ready[i] \in Tasks
  BY DEF LoopInv, PlacesFit
<1>3. QED
  BY <1>1, <1>2, QueueKept

LEMMA StartQueue ==
  ASSUME LoopInv, QueueInv, Starts
  PROVE  QueueInv'
<1>1. PICK kind \in {"connect", "disconnect", "broadcast"}, q \in Peer \cup {NoPeer} :
        Start(kind, q)
  BY DEF Starts
<1> DEFINE n == Len(task) + 1
<1>2. /\ Len(task') = n /\ Len(task) \in Nat
      /\ task'[n].pc = "start"
      /\ \A t \in Tasks : task'[t] = task[t]
      /\ Len(ready') = Len(ready) + 1
      /\ ready'[Len(ready) + 1] = n
      /\ \A i \in 1 .. Len(ready) : ready'[i] = ready[i]
      /\ \A i \in 1 .. Len(ready') : i \in 1 .. Len(ready) \/ i = Len(ready) + 1
      /\ current' = current
  BY <1>1, StartEffect DEF LoopInv, ClientTypeOK
<1>3. /\ \A t \in Tasks' : t \in Tasks \/ t = n
      /\ \A t \in Tasks : t \in Tasks' /\ t < n /\ t \in Nat
      /\ Len(ready) \in Nat
  BY <1>2 DEF Tasks, LoopInv, ClientTypeOK
<1>4. /\ \A i \in 1 .. Len(ready) : ready[i] \in Tasks
      /\ current # 0 => current \in Tasks
  BY DEF LoopInv, PlacesFit
<1> HIDE DEF n
<1>5. n \in Tasks' /\ n \notin Tasks /\ n \in Nat
  BY <1>2, <1>3 DEF Tasks, n
<1>6. \A t \in Tasks : (t \in Unstarted') <=> (t \in Unstarted)
  BY <1>2, <1>3 DEF Unstarted
<1>7. n \in Unstarted' /\ \A t \in Unstarted' : t = n \/ t \in Unstarted
  BY <1>2, <1>3, <1>5, <1>6 DEF Unstarted
<1>8. \A t \in Unstarted' : t = current' \/ \E i \in 1 .. Len(ready') : ready'[i] = t
  <2>1. \E i \in 1 .. Len(ready') : ready'[i] = n
    BY <1>2, <1>3
  <2>2. \A t \in Unstarted : t = current \/ \E i \in 1 .. Len(ready) : ready[i] = t
    BY DEF QueueInv
  <2>3. \A i \in 1 .. Len(ready) : i \in 1 .. Len(ready') /\ ready'[i] = ready[i]
    BY <1>2, <1>3
  <2>4. QED
    BY <1>2, <1>7, <2>1, <2>2, <2>3
<1>9. \A i, j \in 1 .. Len(ready') :
        i < j /\ ready'[i] \in Unstarted' /\ ready'[j] \in Unstarted' => ready'[i] < ready'[j]
  <2>1. ASSUME NEW i \in 1 .. Len(ready'), NEW j \in 1 .. Len(ready'),
               i < j, ready'[i] \in Unstarted', ready'[j] \in Unstarted'
        PROVE  ready'[i] < ready'[j]
    <3>1. i \in 1 .. Len(ready) /\ ready'[i] = ready[i] /\ ready[i] \in Tasks
      BY <1>2, <1>3, <1>4, <2>1
    <3>2. CASE j \in 1 .. Len(ready)
      BY <1>2, <1>4, <1>6, <2>1, <3>1, <3>2 DEF QueueInv
    <3>3. CASE j = Len(ready) + 1
      BY <1>2, <1>3, <3>1, <3>3
    <3>4. QED
      BY <1>2, <3>2, <3>3
  <2>2. QED
    BY <2>1
<1>10. current' # 0 /\ current' \in Unstarted' =>
         \A i \in 1 .. Len(ready') : ready'[i] \in Unstarted' => current' < ready'[i]
  <2>1. ASSUME current # 0, current \in Unstarted', NEW i \in 1 .. Len(ready'),
               ready'[i] \in Unstarted'
        PROVE  current < ready'[i]
    <3>1. current \in Unstarted /\ current \in Tasks
      BY <1>4, <1>6, <2>1
    <3>2. CASE i \in 1 .. Len(ready)
      BY <1>2, <1>4, <1>6, <2>1, <3>1, <3>2 DEF QueueInv
    <3>3. CASE i = Len(ready) + 1
      BY <1>2, <1>3, <3>1, <3>3
    <3>4. QED
      BY <1>2, <3>2, <3>3
  <2>2. QED
    BY <1>2, <2>1
<1>11. \A t \in Unstarted', u \in Tasks' \ Unstarted' : u < t
  <2>1. ASSUME NEW t \in Unstarted', NEW u \in Tasks' \ Unstarted'
        PROVE  u < t
    <3>1. u \in Tasks \ Unstarted
      BY <1>3, <1>6, <1>7
    <3>2. CASE t = n
      BY <1>3, <3>1, <3>2
    <3>3. CASE t \in Unstarted
      BY <3>1, <3>3 DEF QueueInv
    <3>4. QED
      BY <1>7, <3>2, <3>3
  <2>2. QED
    BY <2>1
<1>12. QED
  BY <1>8, <1>9, <1>10, <1>11 DEF QueueInv

LEMMA RunQueue ==
  ASSUME LoopInv, QueueInv, RunNext
  PROVE  QueueInv'
<1>1. /\ current = 0 /\ current' = ready[1]
      /\ Len(ready') = Len(ready) - 1
      /\ \A i \in 1 .. Len(ready') : i + 1 \in 1 .. Len(ready) /\ ready'[i] = ready[i + 1]
      /\ 1 \in 1 .. Len(ready) /\ UNCHANGED task /\ Len(ready) \in Nat
  BY RunEffect DEF LoopInv, ClientTypeOK
<1>2. Tasks' = Tasks /\ Unstarted' = Unstarted /\ 0 \notin Unstarted
  BY <1>1 DEF Tasks, Unstarted
<1>3. \A t \in Unstarted : t = current' \/ \E i \in 1 .. Len(ready') : ready'[i] = t
  <2>1. ASSUME NEW t \in Unstarted
        PROVE  t = current' \/ \E i \in 1 .. Len(ready') : ready'[i] = t
    <3>1. PICK i \in 1 .. Len(ready) : ready[i] = t
      BY <1>1, <1>2 DEF QueueInv
    <3>2. CASE i = 1
      BY <1>1, <3>1, <3>2
    <3>3. CASE i # 1
      <4>1. i - 1 \in 1 .. Len(ready') /\ (i - 1) + 1 = i
        BY <1>1, <3>3
      <4>2. ready'[i - 1] = t
        BY <1>1, <3>1, <4>1
      <4>3. QED
        BY <4>1, <4>2
    <3>4. QED
      BY <3>2, <3>3
  <2>2. QED
    BY <2>1
<1>4. \A i, j \in 1 .. Len(ready') :
        i < j /\ ready'[i] \in Unstarted /\ ready'[j] \in Unstarted => ready'[i] < ready'[j]
  BY <1>1 DEF QueueInv
<1>5. current' \in Unstarted =>
        \A i \in 1 .. Len(ready') : ready'[i] \in Unstarted => current' < ready'[i]
  BY <1>1 DEF QueueInv
<1>6. QED
  BY <1>2, <1>3, <1>4, <1>5 DEF QueueInv

LEMMA NetworkQueue ==
  ASSUME LoopInv, QueueInv, NEW c \in Conn, NEW old, NEW new \in States, NEW ok \in BOOLEAN,
         Network(c, old, new, ok)
  PROVE  QueueInv'
<1>1. ClientTypeOK /\ FieldsFit /\ OwnersFit /\ PlacesFit /\ 0 \notin Tasks
  BY DEF LoopInv, Tasks
<1>2. /\ current = 0 /\ current' = current
      /\ Len(task') = Len(task) /\ conn[c].peer \in Peer
      /\ \A t \in Tasks :
           /\ Waits(t, c) => /\ task'[t] = Woken(task[t], c, ok)
                             /\ task[t].pc \in {"draining", "closing"}
           /\ ~Waits(t, c) => task'[t] = task[t]
      /\ \A i \in 1 .. Len(ready') :
           \/ i \in 1 .. Len(ready) /\ ready'[i] = ready[i]
           \/ Waits(ready'[i], c) /\ ready'[i] \in Tasks
      /\ \A i \in 1 .. Len(ready) : i \in 1 .. Len(ready') /\ ready'[i] = ready[i]
  BY <1>1, TurnsEffect DEF Network
<1>3. Tasks' = Tasks
  BY <1>2 DEF Tasks
<1>4. \A t \in Tasks : Waits(t, c) => task'[t].pc # "start" /\ task[t].pc # "start"
  <2>1. ASSUME NEW t \in Tasks, Waits(t, c)
        PROVE  task'[t].pc # "start" /\ task[t].pc # "start"
    <3>1. task'[t] = Woken(task[t], c, ok) /\ task[t].pc \in {"draining", "closing"}
      BY <1>2, <2>1
    <3>2. task'[t].pc \in {"next", "cleanup", "end", "raise"}
      BY <1>1, <1>2, <3>1, WokenIs
    <3>3. QED
      BY <3>1, <3>2
  <2>2. QED
    BY <2>1
<1>5. \A t \in Tasks : (t \in Unstarted') <=> (t \in Unstarted /\ t # current)
  BY <1>1, <1>2, <1>3, <1>4 DEF Unstarted
<1>6. \A i \in 1 .. Len(ready') : /\ ready'[i] \in Tasks
                                  /\ i \in 1 .. Len(ready) \/ ready'[i] \notin Unstarted'
  BY <1>1, <1>2, <1>3, <1>4 DEF PlacesFit, Unstarted
<1>7. QED
  BY <1>2, <1>3, <1>5, <1>6, QueueKept

LEMMA OpenQueue ==
  ASSUME LoopInv, QueueInv, NEW t \in Tasks, OpenFails(t) \/ OpenSucceeds(t)
  PROVE  QueueInv'
<1>0. task[t] \in Coroutines /\ 0 \notin Tasks
  BY TaskFields DEF LoopInv, ClientTypeOK, Tasks
<1>1. CASE OpenFails(t)
  <2> DEFINE r == [task[t] EXCEPT !.pc = "done"]
  <2>1. /\ Tasks' = Tasks /\ TaskBecomes(t, r) /\ current = 0 /\ task[t].pc = "opening"
        /\ UNCHANGED <<ready, current>>
    BY <1>1, OpenFailsLoop DEF OpenFails
  <2>2. r.pc = "done"
    BY <1>0 DEF Coroutines
  <2> HIDE DEF r
  <2>3. \A u \in Tasks : (u \in Unstarted') <=> (u \in Unstarted /\ u # current)
    BY <1>0, <2>1, <2>2 DEF Unstarted, TaskBecomes
  <2>4. \A i \in 1 .. Len(ready) : ready[i] \in Tasks
    BY DEF LoopInv, PlacesFit
  <2>5. QED
    BY <2>1, <2>3, <2>4, QueueKept
<1>2. CASE OpenSucceeds(t)
  <2> DEFINE r(c) == [task[t] EXCEPT !.pc = "opened", !.conn = c]
  <2>1. PICK c \in Conn : Opens(t, c)
    BY <1>2, OpenSucceedsEffect
  <2>2. /\ TaskBecomes(t, r(c)) /\ current = 0 /\ current' = current
        /\ task[t].pc = "opening" /\ Len(ready') = Len(ready) + 1
        /\ ready'[Len(ready) + 1] = t
        /\ \A i \in 1 .. Len(ready) : i \in 1 .. Len(ready') /\ ready'[i] = ready[i]
        /\ \A i \in 1 .. Len(ready') : i \in 1 .. Len(ready) \/ i = Len(ready) + 1
    BY <2>1 DEF Opens
  <2>3. r(c).pc = "opened"
    BY <1>0 DEF Coroutines
  <2> HIDE DEF r
  <2>4. /\ Tasks' = Tasks /\ task'[t].pc = "opened"
        /\ \A u \in Tasks : u # t => task'[u] = task[u]
    BY <2>2, <2>3 DEF TaskBecomes, Tasks
  <2>5. \A u \in Tasks : (u \in Unstarted') <=> (u \in Unstarted /\ u # current)
    BY <1>0, <2>2, <2>4 DEF Unstarted
  <2>6. \A i \in 1 .. Len(ready') : /\ ready'[i] \in Tasks
                                    /\ i \in 1 .. Len(ready) \/ ready'[i] \notin Unstarted'
    BY <2>2, <2>4 DEF LoopInv, PlacesFit, Unstarted
  <2>7. QED
    BY <2>2, <2>4, <2>5, <2>6, QueueKept
<1>3. QED
  BY <1>1, <1>2

LEMMA QueueInit == ClientInit => QueueInv
<1> SUFFICES ASSUME ClientInit PROVE QueueInv
  OBVIOUS
<1>1. task = <<>> /\ ready = <<>> /\ current = 0
  BY DEF ClientInit
<1>2. Tasks = {} /\ Unstarted = {} /\ Len(ready) = 0
  BY <1>1 DEF Tasks, Unstarted
<1>3. QED
  BY <1>1, <1>2 DEF QueueInv

LEMMA QueueStep == LoopInv /\ QueueInv /\ [ClientNext]_clientVars => QueueInv'
<1> SUFFICES ASSUME LoopInv, QueueInv, [ClientNext]_clientVars PROVE QueueInv'
  OBVIOUS
<1>1. CASE UNCHANGED clientVars
  <2>1. UNCHANGED <<task, ready, current>>
    BY <1>1 DEF clientVars
  <2>2. Tasks' = Tasks /\ Unstarted' = Unstarted
    BY <2>1 DEF Tasks, Unstarted
  <2>3. QED
    BY <2>1, <2>2 DEF QueueInv
<1>2. CASE ConnectStores
  BY <1>2, StoresTasks, StoresEffect, QueueMoves
<1>3. ASSUME NEW r \in Coroutines, Quiet(r)
      PROVE  QueueInv'
  <2>1. /\ current # 0 /\ current \in Tasks /\ TaskBecomes(current, r) /\ r.pc # "start"
        /\ UNCHANGED ready /\ current' \in {0, current}
    BY <1>3 DEF Quiet, LoopInv, PlacesFit
  <2>2. Tasks' = Tasks /\ task'[current] = r /\ \A u \in Tasks : u # current => task'[u] = task[u]
    BY <2>1 DEF TaskBecomes, Tasks
  <2>3. QED
    BY <2>1, <2>2, QueueMoves
<1>4. ASSUME NEW r \in Coroutines, NEW q \in Peer, Pops(q, r) \/ Writes(q, r)
      PROVE  QueueInv'
  <2>1. /\ current # 0 /\ current \in Tasks /\ Tasks' = Tasks
        /\ task'[current].pc # "start"
        /\ \A u \in Tasks : u # current => task'[u] = task[u]
        /\ UNCHANGED ready /\ current' \in {0, current}
    BY <1>4, MovesTasks
  <2>2. QED
    BY <2>1, QueueMoves
<1>5. CASE ClientNext
  BY <1>2, <1>3, <1>4, <1>5, NextForms, StartQueue, RunQueue, OpenQueue, NetworkQueue
<1>6. QED
  BY <1>1, <1>5

-----------------------------------------------------------------------------
(***************************************************************************)
(* The first connection of the dictionary gets the copies in order.        *)
(***************************************************************************)
\* Broadcasts that have begun their loop and written nothing.
Fresh == {t \in Tasks : task[t].kind = "broadcast" /\ task[t].pc = "next" /\ task[t].at = 0}

\* Between its start and its first write a broadcast keeps the loop, and it is
\* the newest that has begun: it writes to `first' after all that are older.
\* Later it has left that connection behind, and no new entry is that one.
OrderInv ==
  /\ \A t \in Fresh : /\ t = current /\ Ahead # {} /\ connections[NextPeer].conn = task[t].first
                      /\ \A u \in Tasks \ Unstarted : u <= t
  /\ \A t \in Tasks : task[t].kind = "broadcast" /\ task[t].at > 0 =>
       \A q \in Connected : connections[q].conn = task[t].first => connections[q].at <= task[t].at
  /\ \A t \in Tasks : task[t].first \in Conn => conn[task[t].first].state # "none"
  /\ \A t, u \in Tasks : task[u].pc = "opened" => task[t].first # task[u].conn
  /\ InOrder

\* The iterator's next entry depends on the dictionary and its place only.
LEMMA SameNext ==
  ASSUME UNCHANGED <<connections, current>>, task'[current].at = task[current].at
  PROVE  Ahead' = Ahead /\ NextPeer' = NextPeer
<1>1. Connected' = Connected
  BY DEF Connected
<1>2. Ahead' = Ahead
  BY <1>1 DEF Ahead
<1>3. QED
  BY <1>2 DEF NextPeer

LEMMA CalmOrder ==
  ASSUME LoopInv, LoopInv', SentInv, OrderInv, Calm, NoneBegins
  PROVE  OrderInv'
<1>1. \A t \in Tasks : /\ t \in Tasks' /\ task'[t].kind = task[t].kind
                       /\ task'[t].at = task[t].at /\ task'[t].first = task[t].first
  BY DEF Calm, NoneBegins
<1>2. \A t \in Tasks' : t \notin Tasks =>
        task'[t].pc = "start" /\ task'[t].first = 0 /\ task'[t].at = 0
  BY DEF Calm, LoopInv, FieldsFit, Fits
<1>3. \A q \in Connected' : q \in Connected /\ connections'[q] = connections[q]
  BY DEF Calm, Connected
<1>4. ASSUME NEW t \in Fresh'
      PROVE  /\ t = current' /\ Ahead' # {} /\ connections'[NextPeer'].conn = task'[t].first
             /\ \A u \in Tasks' \ Unstarted' : u <= t
  <2>1. t \in Tasks /\ t \in Fresh
    BY <1>1, <1>2 DEF Fresh, NoneBegins
  <2>2. /\ t = current /\ Ahead # {} /\ connections[NextPeer].conn = task[t].first
        /\ \A u \in Tasks \ Unstarted : u <= t
    BY <2>1 DEF OrderInv
  <2>3. UNCHANGED <<connections, current>>
    BY <1>4, <2>1, <2>2 DEF NoneBegins, Fresh
  <2>4. Ahead' = Ahead /\ NextPeer' = NextPeer
    BY <1>1, <2>1, <2>2, <2>3, SameNext
  <2>5. task[current].pc # "start"
    BY <2>1, <2>2 DEF Fresh
  <2>6. \A u \in Tasks' \ Unstarted' : u \in Tasks \ Unstarted
    BY <1>2, <2>5 DEF Calm, Unstarted
  <2>7. QED
    BY <1>1, <2>1, <2>2, <2>3, <2>4, <2>6
<1>5. \A t \in Tasks' : task'[t].kind = "broadcast" /\ task'[t].at > 0 =>
        \A q \in Connected' :
          connections'[q].conn = task'[t].first => connections'[q].at <= task'[t].at
  BY <1>1, <1>2, <1>3 DEF OrderInv
<1>6. \A t \in Tasks' : task'[t].first \in Conn => conn'[task'[t].first].state # "none"
  BY <1>1, <1>2 DEF OrderInv, Calm, Conn
<1>7. \A t, u \in Tasks' : task'[u].pc = "opened" => task'[t].first # task'[u].conn
  <2>1. ASSUME NEW t \in Tasks', NEW u \in Tasks', task'[u].pc = "opened"
        PROVE  task'[t].first # task'[u].conn
    <3>1. task'[u].conn \in Conn
      BY <2>1 DEF LoopInv, OwnersFit
    <3>2. CASE t \notin Tasks
      BY <1>2, <3>1, <3>2 DEF Conn
    <3>3. CASE t \in Tasks
      BY <1>1, <2>1, <3>1, <3>3 DEF Calm, OrderInv
    <3>4. QED
      BY <3>2, <3>3
  <2>2. QED
    BY <2>1
<1>8. InOrder'
  <2>1. \A c \in Conn : \A i \in 1 .. Len(sent[c]) : sent[c][i] \in Tasks
    BY DEF SentInv
  <2>2. QED
    BY <1>1, <2>1 DEF Calm, OrderInv, InOrder
<1>9. QED
  BY <1>4, <1>5, <1>6, <1>7, <1>8 DEF OrderInv

LEMMA BeginsOrder ==
  ASSUME LoopInv, SentInv, QueueInv, OrderInv, NEW r \in Coroutines, Begins(r)
  PROVE  OrderInv'
<1>1. /\ current \in Tasks /\ current # 0 /\ TaskBecomes(current, r)
      /\ UNCHANGED <<connections, conn, sent, current>>
      /\ task[current].kind = "broadcast" /\ task[current].pc = "start" /\ Connected # {}
      /\ r.kind = "broadcast" /\ r.pc = "next" /\ r.at = task[current].at
      /\ r.first = connections[NextPeer].conn
  BY DEF Begins, Quiet, LoopInv, PlacesFit
<1>2. /\ Tasks' = Tasks /\ Connected' = Connected /\ task'[current] = r
      /\ \A u \in Tasks : u # current => task'[u] = task[u]
  BY <1>1 DEF TaskBecomes, Tasks, Connected
<1>3. task[current].at = 0
  BY <1>1 DEF LoopInv, FieldsFit, Fits
<1>4. /\ Ahead' = Ahead /\ NextPeer' = NextPeer /\ Ahead = Connected
  <2>1. Ahead = Connected
    BY <1>3 DEF Ahead, LoopInv, FieldsFit
  <2>2. QED
    BY <1>1, <1>2, <2>1, SameNext
<1>5. NextPeer \in Connected
  BY <1>1, <1>4, NextPeerIs DEF LoopInv
<1>6. /\ r.first \in Conn /\ conn[r.first].state \in Open
      /\ \A u \in Tasks : task[u].pc = "opened" => r.first # task[u].conn
  <2>1. /\ r.first \in Conn /\ conn[r.first].peer = NextPeer /\ conn[r.first].state \in Open
    BY <1>1, <1>5, EntryIsOpen DEF LoopInv
  <2>2. QED
    BY <1>1, <2>1 DEF LoopInv, OwnersFit
<1>7. \A u \in Tasks \ Unstarted : u < current
  BY <1>1 DEF QueueInv, Unstarted
<1>8. current \in Nat
  BY <1>1 DEF Tasks
<1>9. ASSUME NEW t \in Fresh'
      PROVE  /\ t = current' /\ Ahead' # {} /\ connections'[NextPeer'].conn = task'[t].first
             /\ \A u \in Tasks' \ Unstarted' : u <= t
  <2>1. t = current
    BY <1>1, <1>2 DEF Fresh, OrderInv
  <2>2. \A u \in Tasks' \ Unstarted' : u = current \/ u \in Tasks \ Unstarted
    BY <1>2 DEF Unstarted
  <2>3. \A u \in Tasks' \ Unstarted' : u <= t
    BY <1>7, <1>8, <2>1, <2>2 DEF Tasks
  <2>4. QED
    BY <1>1, <1>2, <1>4, <2>1, <2>3
<1>10. \A t \in Tasks' : task'[t].kind = "broadcast" /\ task'[t].at > 0 =>
        \A q \in Connected' :
          connections'[q].conn = task'[t].first => connections'[q].at <= task'[t].at
  BY <1>1, <1>2, <1>3 DEF OrderInv
<1>11. \A t \in Tasks' : task'[t].first \in Conn => conn'[task'[t].first].state # "none"
  BY <1>1, <1>2, <1>6 DEF OrderInv, Open
<1>12. \A t, u \in Tasks' : task'[u].pc = "opened" => task'[t].first # task'[u].conn
  BY <1>1, <1>2, <1>6 DEF OrderInv
<1>13. InOrder'
  <2>1. \A c \in Conn : \A i \in 1 .. Len(sent[c]) :
          sent[c][i] \in Tasks /\ sent[c][i] # current
    BY <1>1 DEF SentInv
  <2>2. QED
    BY <1>1, <1>2, <2>1 DEF OrderInv, InOrder
<1>14. QED
  BY <1>9, <1>10, <1>11, <1>12, <1>13 DEF OrderInv

LEMMA StoresOrder ==
  ASSUME LoopInv, SentInv, OrderInv, ConnectStores
  PROVE  OrderInv'
<1> DEFINE me == task[current]
<1>1. /\ me.conn \in Conn /\ me.peer \in Peer
      /\ \A p \in Peer : p # me.peer => connections'[p] = connections[p]
      /\ connections'[me.peer].conn = me.conn
      /\ UNCHANGED <<conn, sent>>
  BY StoresEffect
<1>2. /\ Tasks' = Tasks /\ current \in Tasks /\ me.pc = "opened"
      /\ task'[current].pc = "done" /\ task'[current].at = me.at
      /\ task'[current].kind = me.kind /\ task'[current].first = me.first
      /\ \A t \in Tasks : t # current => task'[t] = task[t]
  BY StoresTasks
<1>3. \A t \in Tasks : /\ task'[t].kind = task[t].kind /\ task'[t].at = task[t].at
                       /\ task'[t].first = task[t].first
                       /\ task'[t].pc = "opened" => task'[t] = task[t]
  BY <1>2
<1>4. Fresh' = {}
  <2>1. \A t \in Tasks : t # current => t \notin Fresh
    BY DEF OrderInv
  <2>2. QED
    BY <1>2, <2>1 DEF Fresh
<1>5. \A t \in Tasks : me.conn # task[t].first
  BY <1>2 DEF OrderInv
<1> HIDE DEF me
<1>6. \A t \in Tasks' : task'[t].kind = "broadcast" /\ task'[t].at > 0 =>
        \A q \in Connected' :
          connections'[q].conn = task'[t].first => connections'[q].at <= task'[t].at
  <2>1. ASSUME NEW t \in Tasks, task[t].kind = "broadcast", task[t].at > 0,
               NEW q \in Connected', connections'[q].conn = task[t].first
        PROVE  connections'[q].at <= task[t].at
    <3>1. q # me.peer
      BY <1>1, <1>5, <2>1
    <3>2. q \in Connected /\ connections'[q] = connections[q]
      BY <1>1, <3>1 DEF Connected
    <3>3. QED
      BY <2>1, <3>2 DEF OrderInv
  <2>2. QED
    BY <1>2, <1>3, <2>1
<1>7. \A t \in Tasks' : task'[t].first \in Conn => conn'[task'[t].first].state # "none"
  BY <1>1, <1>2, <1>3 DEF OrderInv
<1>8. \A t, u \in Tasks' : task'[u].pc = "opened" => task'[t].first # task'[u].conn
  BY <1>2, <1>3 DEF OrderInv
<1>9. InOrder'
  <2>1. \A c \in Conn : \A i \in 1 .. Len(sent[c]) : sent[c][i] \in Tasks
    BY DEF SentInv
  <2>2. QED
    BY <1>1, <1>3, <2>1 DEF OrderInv, InOrder
<1>10. QED
  BY <1>4, <1>6, <1>7, <1>8, <1>9 DEF OrderInv

\* A broadcast that writes to its first connection is newer than all that have.
LEMMA WritesLast ==
  ASSUME LoopInv, SentInv, OrderInv, NEW r \in Coroutines, NEW q \in Peer, Writes(q, r),
         connections[q].conn = task[current].first
  PROVE  \A i \in 1 .. Len(sent[connections[q].conn]) :
           sent[connections[q].conn][i] < current
<1> DEFINE c == connections[q].conn
<1>1. /\ c \in Conn /\ q \in Connected
      /\ \A i \in 1 .. Len(sent[c]) : sent[c][i] # current
      /\ task[current].at < connections[q].at
      /\ connections[q].at \in Nat /\ task[current].at \in Nat
  BY WritesNew
<1>2. current \in Tasks /\ task[current].kind = "broadcast" /\ task[current].pc = "next"
  BY MovesTasks DEF Writes
<1>3. task[current].at = 0
  <2>1. task[current].at > 0 => connections[q].at <= task[current].at
    BY <1>1, <1>2 DEF OrderInv
  <2>2. QED
    BY <1>1, <2>1
<1>4. \A u \in Tasks \ Unstarted : u <= current
  BY <1>2, <1>3 DEF Fresh, OrderInv
<1>5. \A i \in 1 .. Len(sent[c]) : sent[c][i] \in Tasks \ Unstarted
  BY <1>1 DEF SentInv, Unstarted
<1>6. QED
  BY <1>1, <1>2, <1>4, <1>5 DEF Tasks

LEMMA WritesOrder ==
  ASSUME LoopInv, SentInv, OrderInv, NEW r \in Coroutines, NEW q \in Peer, Writes(q, r)
  PROVE  OrderInv'
<1> DEFINE c == connections[q].conn
<1>1. /\ c \in Conn /\ q \in Connected
      /\ \A p \in Connected : connections[p].conn = c => p = q
      /\ task[current].at < connections[q].at
      /\ connections[q].at \in Nat /\ task[current].at \in Nat
  BY WritesNew
<1>2. /\ current \in Tasks /\ Tasks' = Tasks
      /\ task'[current].kind = task[current].kind
      /\ task'[current].first = task[current].first
      /\ task'[current].at = r.at /\ task'[current].pc = r.pc
      /\ \A u \in Tasks : u # current => task'[u] = task[u]
      /\ \A d \in Conn : conn'[d].state = "none" => conn[d].state = "none"
  BY MovesTasks
<1>3. /\ UNCHANGED connections /\ r.at = connections[q].at /\ r.pc \in {"next", "draining"}
      /\ UNCHANGED sent \/ sent' = [sent EXCEPT ![c] = Append(@, current)]
      /\ task[current].kind = "broadcast" /\ task[current].pc = "next" /\ q = NextPeer
  BY DEF Writes
<1>4. Connected' = Connected
  BY <1>3 DEF Connected
<1>5. Fresh' = {}
  <2>1. \A t \in Tasks : t # current => t \notin Fresh
    BY DEF OrderInv
  <2>2. task'[current].at # 0
    BY <1>1, <1>2, <1>3
  <2>3. QED
    BY <1>2, <2>1, <2>2 DEF Fresh
<1>6. \A p \in Connected : connections[p].conn = task[current].first =>
        connections[p].at <= connections[q].at
  <2>1. CASE task[current].at = 0
    <3>1. c = task[current].first
      BY <1>2, <1>3, <2>1 DEF Fresh, OrderInv
    <3>2. QED
      BY <1>1, <3>1
  <2>2. CASE task[current].at # 0
    <3>1. \A p \in Connected : connections[p].conn = task[current].first =>
            connections[p].at <= task[current].at
      BY <1>1, <1>2, <1>3, <2>2 DEF OrderInv
    <3>2. \A p \in Connected : connections[p].at \in Nat
      BY DEF LoopInv, ClientTypeOK, Connected
    <3>3. QED
      BY <1>1, <3>1, <3>2
  <2>3. QED
    BY <2>1, <2>2
<1>7. \A t \in Tasks' : task'[t].kind = "broadcast" /\ task'[t].at > 0 =>
        \A p \in Connected' :
          connections'[p].conn = task'[t].first => connections'[p].at <= task'[t].at
  <2>1. ASSUME NEW t \in Tasks, task'[t].kind = "broadcast", task'[t].at > 0,
               NEW p \in Connected, connections[p].conn = task'[t].first
        PROVE  connections[p].at <= task'[t].at
    <3>1. CASE t = current
      BY <1>2, <1>3, <1>6, <2>1, <3>1
    <3>2. CASE t # current
      BY <1>2, <2>1, <3>2 DEF OrderInv
    <3>3. QED
      BY <3>1, <3>2
  <2>2. QED
    BY <1>2, <1>3, <1>4, <2>1
<1>8. \A t \in Tasks : task'[t].first = task[t].first
  BY <1>2
<1>9. \A t \in Tasks' : task'[t].first \in Conn => conn'[task'[t].first].state # "none"
  BY <1>2, <1>8 DEF OrderInv
<1>10. \A t, u \in Tasks' : task'[u].pc = "opened" => task'[t].first # task'[u].conn
  BY <1>2, <1>3, <1>8 DEF OrderInv
<1>11. InOrder'
  <2>1. \A d \in Conn : \A i \in 1 .. Len(sent'[d]) :
          \/ i \in 1 .. Len(sent[d]) /\ sent'[d][i] = sent[d][i]
          \/ d = c /\ i = Len(sent[c]) + 1 /\ sent'[d][i] = current
    BY WritesGrows
  <2>2. \A d \in Conn : Len(sent[d]) \in Nat
    BY DEF LoopInv, ClientTypeOK
  <2>3. \A d \in Conn : \A i \in 1 .. Len(sent[d]) : sent[d][i] \in Tasks
    BY DEF SentInv
  <2>4. ASSUME NEW d \in Conn, NEW i \in 1 .. Len(sent'[d]), NEW j \in 1 .. Len(sent'[d]),
               i < j, task'[sent'[d][j]].first = d
        PROVE  sent'[d][i] < sent'[d][j]
    <3>1. i \in 1 .. Len(sent[d]) /\ sent'[d][i] = sent[d][i]
      BY <1>1, <2>1, <2>2, <2>4
    <3>2. CASE j \in 1 .. Len(sent[d]) /\ sent'[d][j] = sent[d][j]
      BY <1>8, <2>3, <2>4, <3>1, <3>2 DEF OrderInv, InOrder
    <3>3. CASE d = c /\ sent'[d][j] = current
      BY <1>2, <1>8, <2>4, <3>1, <3>3, WritesLast
    <3>4. QED
      BY <2>1, <3>2, <3>3
  <2>5. QED
    BY <2>4 DEF InOrder
<1>12. QED
  BY <1>5, <1>7, <1>9, <1>10, <1>11 DEF OrderInv

LEMMA OrderInit == ClientInit => OrderInv
<1> SUFFICES ASSUME ClientInit PROVE OrderInv
  OBVIOUS
<1>1. task = <<>> /\ \A c \in Conn : sent[c] = <<>> /\ Len(sent[c]) = 0
  BY DEF ClientInit
<1>2. Tasks = {} /\ Fresh = {}
  BY <1>1 DEF Tasks, Fresh
<1>3. QED
  BY <1>1, <1>2 DEF OrderInv, InOrder

LEMMA OrderStep ==
  LoopInv /\ LoopInv' /\ SentInv /\ QueueInv /\ OrderInv /\ [ClientNext]_clientVars => OrderInv'
<1> SUFFICES ASSUME LoopInv, LoopInv', SentInv, QueueInv, OrderInv, [ClientNext]_clientVars
             PROVE  OrderInv'
  OBVIOUS
<1>1. CASE UNCHANGED clientVars
  <2>1. UNCHANGED <<connections, conn, sent, task, current>>
    BY <1>1 DEF clientVars
  <2>2. Tasks' = Tasks /\ Connected' = Connected /\ Ahead' = Ahead /\ NextPeer' = NextPeer
    BY <2>1, SameNext DEF Tasks, Connected
  <2>3. Fresh' = Fresh /\ Unstarted' = Unstarted
    BY <2>1, <2>2 DEF Fresh, Unstarted
  <2>4. QED
    BY <2>1, <2>2, <2>3 DEF OrderInv, InOrder
<1>2. CASE ClientNext
  BY <1>2, StepKinds, CalmOrder, BeginsOrder, StoresOrder, WritesOrder
<1>3. QED
  BY <1>1, <1>2

THEOREM OrderInvariant == ClientSpec => []OrderInv
<1>1. ClientSpec => [](LoopInv /\ SentInv /\ QueueInv /\ OrderInv)
  BY LoopInit, LoopStep, SentInit, SentStep, QueueInit, QueueStep, OrderInit, OrderStep, PTL
     DEF ClientSpec
<1>2. QED
  BY <1>1, PTL

\* The peer that is first in the dictionary gets the copies in the order they
\* were made, whatever waits, wakes, fails or disconnects in between.
THEOREM FirstInOrder == ClientSpec => []InOrder
<1>1. OrderInv => InOrder
  BY DEF OrderInv
<1>2. QED
  BY <1>1, OrderInvariant, PTL
==============================================================================
