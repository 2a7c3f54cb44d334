------------------------------ MODULE SyncClient -----------------------------
(***************************************************************************)
(* ghost_sync/network/sync.py, SyncClient: the outgoing connections of one *)
(* device and the coroutines that use them, as `ghostsync sync' runs them. *)
(*                                                                         *)
(* The coroutines interleave at their awaits only: the event loop runs one *)
(* task up to its next await, then the oldest of those that are ready.     *)
(* What a coroutine does between two awaits is still several actions, for  *)
(* a broadcast may write to several peers: `current' is the task that has  *)
(* the loop.  Transports report what the network does from the loop too.   *)
(***************************************************************************)
EXTENDS Naturals, Sequences, FiniteSets

CONSTANTS
  Peer,    \* device ids of the trusted peers
  NoPeer,  \* the peer field of a broadcast
  MaxTask, \* bound: coroutines started
  MaxConn  \* bound: TCP connections opened

ASSUME PeerAssumption == NoPeer \notin Peer /\ IsFiniteSet(Peer)
ASSUME BoundAssumption == MaxTask \in Nat /\ MaxConn \in Nat

VARIABLES
  connections, \* _connections: connections[q].conn is 0 when q is not in it;
               \* .at is the place of q in the dictionary's insertion order
  conn,        \* conn[c]: the peer and the state of connection c
  waiting,     \* waiting[c]: tasks in drain() or wait_closed() on c, in order
  sent,        \* sent[c]: broadcasts written to c that its peer will read
  task,        \* the coroutines started, oldest first
  ready,       \* the event loop's queue of tasks that can run
  current,     \* the task that runs, 0 when the loop is free
  seen         \* seen[q]: q is in the discovery's _peers

clientVars == <<connections, conn, waiting, sent, task, ready, current, seen>>

Conn == 1 .. MaxConn
InUse(c) == connections[conn[c].peer].conn = c   \* for a c that was opened
Connected == {q \in Peer : connections[q].conn # 0}
Unopened == {c \in Conn : conn[c].state = "none"}

\* A coroutine: for a broadcast, `at' and `size' are the dictionary iterator's
\* position and the size it expects, `failed' is the list `disconnected'.
\* History: the connections it set out to write to, the first of them in the
\* dictionary, and those it failed on.
Coroutine(kind, q) ==
  [kind |-> kind, peer |-> q, pc |-> "start", conn |-> 0, at |-> 0, size |-> 0,
   failed |-> <<>>, owed |-> {}, first |-> 0, failedOn |-> {}]

ClientInit ==
  /\ connections = [q \in Peer |-> [conn |-> 0, at |-> 0]]
  /\ conn = [c \in Conn |-> [peer |-> NoPeer, state |-> "none"]]
  /\ waiting = [c \in Conn |-> <<>>]
  /\ sent = [c \in Conn |-> <<>>]
  /\ task = <<>>
  /\ ready = <<>>
  /\ current = 0
  /\ seen = [q \in Peer |-> FALSE]

-----------------------------------------------------------------------------
(***************************************************************************)
(* Calls from outside the loop's tasks: discovery callbacks, the watcher.  *)
(***************************************************************************)
Start(kind, q) ==
  /\ Len(task) < MaxTask
  /\ task' = Append(task, Coroutine(kind, q))
  /\ ready' = Append(ready, Len(task) + 1)
  /\ UNCHANGED <<connections, conn, waiting, sent, current>>

\* on_peer_discovered schedules connect_to_peer.
Discovered(q) ==
  /\ ~seen[q] /\ seen' = [seen EXCEPT ![q] = TRUE]
  /\ Start("connect", q)

\* on_peer_lost schedules disconnect_peer.
Lost(q) ==
  /\ seen[q] /\ seen' = [seen EXCEPT ![q] = FALSE]
  /\ Start("disconnect", q)

\* The watcher creates the on_clipboard_change task of a local copy.
Copied == Start("broadcast", NoPeer) /\ UNCHANGED seen

-----------------------------------------------------------------------------
(***************************************************************************)
(* The task that has the loop.                                             *)
(***************************************************************************)
RunNext ==
  /\ current = 0 /\ ready # <<>>
  /\ current' = Head(ready)
  /\ ready' = Tail(ready)
  /\ UNCHANGED <<connections, conn, waiting, sent, task, seen>>

At(kind, pc) == current # 0 /\ task[current].kind = kind /\ task[current].pc = pc

\* The running task goes on, and keeps the loop or leaves it.
Become(t) == task' = [task EXCEPT ![current] = t] /\ UNCHANGED <<ready, current>>
Leave(t) == task' = [task EXCEPT ![current] = t] /\ current' = 0 /\ UNCHANGED ready
Return == Leave([task[current] EXCEPT !.pc = "done"])
Raise == Leave([task[current] EXCEPT !.pc = "raised"])

\* The task waits for connection c, whose state becomes s.
WaitOn(c, s, t) ==
  /\ conn' = [conn EXCEPT ![c].state = s]
  /\ waiting' = [waiting EXCEPT ![c] = Append(@, current)]
  /\ Leave([t EXCEPT !.conn = c])

\* connect_to_peer: "Already connected", or wait for open_connection ...
ConnectStart ==
  /\ At("connect", "start")
  /\ IF task[current].peer \in Connected
     THEN Return
     ELSE Leave([task[current] EXCEPT !.pc = "opening"])
  /\ UNCHANGED <<connections, conn, waiting, sent, seen>>

\* ... which fails or takes more than five seconds ...
OpenFails(t) ==
  /\ current = 0 /\ task[t].pc = "opening"
  /\ task' = [task EXCEPT ![t].pc = "done"]
  /\ UNCHANGED <<connections, conn, waiting, sent, ready, current, seen>>

\* ... or gives a connection ...
OpenSucceeds(t) ==
  /\ current = 0 /\ task[t].pc = "opening"
  /\ Unopened # {}
  /\ LET c == CHOOSE c \in Unopened : \A d \in Unopened : c <= d
     IN  /\ conn' = [conn EXCEPT ![c] = [peer |-> task[t].peer, state |-> "up"]]
         /\ task' = [task EXCEPT ![t].pc = "opened", ![t].conn = c]
  /\ ready' = Append(ready, t)
  /\ UNCHANGED <<connections, waiting, sent, current, seen>>

\* ... that goes into the dictionary.  The place of a key that is there stays.
ConnectStores ==
  /\ At("connect", "opened")
  /\ LET me == task[current]
     IN  connections' = [connections EXCEPT ![me.peer] =
           [conn |-> me.conn, at |-> IF @.conn = 0 THEN me.conn ELSE @.at]]
  /\ Return
  /\ UNCHANGED <<conn, waiting, sent, seen>>

\* transport.close() still writes out what is buffered.
Closing(state) ==
  CASE state = "paused" -> "flushing"
    [] state = "dying" -> "dying"
    [] OTHER -> "closing"

\* Mutant: the entry is looked up and its transport closed, but it is not popped.
DisconnectKeepsEntry(q, me) ==
  IF q \notin Connected
  THEN Become(me) /\ UNCHANGED <<connections, conn, waiting>>
  ELSE LET c == connections[q].conn IN
       /\ WaitOn(c, Closing(conn[c].state), [me EXCEPT !.pc = "closing"])
       /\ UNCHANGED connections

\* disconnect_peer(q): nothing for a peer that is not there; else the entry is
\* removed, the transport closed, and wait_closed awaited.  That raises at once
\* the error that the transport was lost with, if there was one.
DisconnectPeer(q, me) ==
  IF q \notin Connected
  THEN Become(me) /\ UNCHANGED <<connections, conn, waiting>>
  ELSE LET c == connections[q].conn IN
       /\ connections' = [connections EXCEPT ![q] = [conn |-> 0, at |-> 0]]
       /\ IF conn[c].state = "dead"
          THEN Raise /\ UNCHANGED <<conn, waiting>>
          ELSE WaitOn(c, Closing(conn[c].state), [me EXCEPT !.pc = "closing"])

Disconnect ==
  /\ At("disconnect", "start")
  /\ DisconnectPeer(task[current].peer, [task[current] EXCEPT !.pc = "end"])
  /\ UNCHANGED <<sent, seen>>

End ==
  /\ current # 0 /\ task[current].pc = "end"
  /\ Return
  /\ UNCHANGED <<connections, conn, waiting, sent, seen>>

-----------------------------------------------------------------------------
(***************************************************************************)
(* broadcast_clipboard.                                                    *)
(***************************************************************************)
\* Peers that the iterator has not reached.
Ahead == {q \in Connected : connections[q].at > task[current].at}
NextPeer == CHOOSE q \in Ahead : \A r \in Ahead : connections[q].at <= connections[r].at

\* Mutant: the size expected counts one entry too many.
BroadcastStartOffByOne ==
  /\ At("broadcast", "start")
  /\ IF Connected = {}
     THEN Return
     ELSE Become([task[current] EXCEPT !.pc = "next", !.size = Cardinality(Connected) + 1,
                    !.owed = {connections[q].conn : q \in Connected},
                    !.first = connections[NextPeer].conn])
  /\ UNCHANGED <<connections, conn, waiting, sent, seen>>

BroadcastStart ==
  /\ At("broadcast", "start")
  /\ IF Connected = {}
     THEN Return
     ELSE Become([task[current] EXCEPT !.pc = "next", !.size = Cardinality(Connected),
                    !.owed = {connections[q].conn : q \in Connected},
                    !.first = connections[NextPeer].conn])
  /\ UNCHANGED <<connections, conn, waiting, sent, seen>>

\* The dictionary has changed size since the loop over it began: RuntimeError.
BroadcastBreaks ==
  /\ At("broadcast", "next")
  /\ Cardinality(Connected) # task[current].size
  /\ Raise
  /\ UNCHANGED <<connections, conn, waiting, sent, seen>>

\* Mutant: drain waits though the buffer is below its limit.
WriteToWaits(c, me) ==
  /\ conn[c].state \in {"up", "paused", "gone", "dying"}
  /\ sent' = [sent EXCEPT ![c] = Append(@, current)]
  /\ WaitOn(c, conn[c].state, [me EXCEPT !.pc = "draining"])

\* The next peer: write the frame, then drain, which only waits while the
\* transport's buffer is above its limit.  A peer that has gone unnoticed takes
\* the frame and loses it, or the kernel refuses it and drain yields before it
\* raises; a transport already reported lost raises at once.
WriteTo(c, me) ==
  \/ /\ conn[c].state = "up"
     /\ sent' = [sent EXCEPT ![c] = Append(@, current)]
     /\ Become(me) /\ UNCHANGED <<conn, waiting>>
  \/ /\ conn[c].state \in {"up", "paused"}
     /\ sent' = [sent EXCEPT ![c] = Append(@, current)]
     /\ WaitOn(c, "paused", [me EXCEPT !.pc = "draining"])
  \/ /\ conn[c].state = "gone"
     /\ Become(me) /\ UNCHANGED <<conn, waiting, sent>>
  \/ /\ conn[c].state \in {"gone", "dying"}
     /\ WaitOn(c, "dying", [me EXCEPT !.pc = "draining"])
     /\ UNCHANGED sent
  \/ /\ conn[c].state = "dead"
     /\ Become([me EXCEPT !.failed = Append(@, conn[c].peer),
                          !.failedOn = @ \cup {c}])
     /\ UNCHANGED <<conn, waiting, sent>>

\* Mutant: the loop runs over a copy of the dictionary made at its start.
BroadcastWritesCopy ==
  /\ At("broadcast", "next")
  /\ \E c \in task[current].owed :
       /\ c > task[current].at
       /\ sent' = [sent EXCEPT ![c] = Append(@, current)]
       /\ \/ Become([task[current] EXCEPT !.at = c]) /\ UNCHANGED <<conn, waiting>>
          \/ conn[c].state = "up"
             /\ WaitOn(c, "paused", [task[current] EXCEPT !.at = c, !.pc = "draining"])
  /\ UNCHANGED <<connections, seen>>

\* Mutant: a peer is tried again after it has been written to.
BroadcastWritesTwice ==
  /\ At("broadcast", "next")
  /\ Cardinality(Connected) = task[current].size /\ Ahead # {}
  /\ WriteTo(connections[NextPeer].conn, task[current])
  /\ UNCHANGED <<connections, seen>>

\* Mutant: drain first, write afterwards.
BroadcastDrainsFirst ==
  /\ At("broadcast", "next")
  /\ Cardinality(Connected) = task[current].size /\ Ahead # {}
  /\ LET c == connections[NextPeer].conn IN
     IF conn[c].state = "paused"
     THEN WaitOn(c, "paused", [task[current] EXCEPT !.pc = "draining"]) /\ UNCHANGED sent
     ELSE WriteTo(c, [task[current] EXCEPT !.at = connections[NextPeer].at])
  /\ UNCHANGED <<connections, seen>>

BroadcastWrites ==
  /\ At("broadcast", "next")
  /\ Cardinality(Connected) = task[current].size /\ Ahead # {}
  /\ WriteTo(connections[NextPeer].conn,
             [task[current] EXCEPT !.at = connections[NextPeer].at])
  /\ UNCHANGED <<connections, seen>>

\* The loop is over: disconnect the failed peers, one after the other.
BroadcastCleans ==
  /\ At("broadcast", "next")
  /\ Cardinality(Connected) = task[current].size /\ Ahead = {}
  /\ Become([task[current] EXCEPT !.pc = "cleanup"])
  /\ UNCHANGED <<connections, conn, waiting, sent, seen>>

CleanUp ==
  /\ At("broadcast", "cleanup")
  /\ LET me == task[current] IN
     IF me.failed = <<>>
     THEN Return /\ UNCHANGED <<connections, conn, waiting>>
     ELSE DisconnectPeer(Head(me.failed), [me EXCEPT !.failed = Tail(@)])
  /\ UNCHANGED <<sent, seen>>

-----------------------------------------------------------------------------

\* A waiting task goes on, with an exception unless ok.
Woken(t, c, ok) ==
  CASE t.pc = "draining" /\ ok -> [t EXCEPT !.pc = "next"]
    [] t.pc = "draining" /\ ~ok ->
         [t EXCEPT !.pc = "next", !.failed = Append(@, conn[c].peer),
                   !.failedOn = @ \cup {c}]
    [] t.pc = "closing" /\ ok ->
         [t EXCEPT !.pc = IF t.kind = "broadcast" THEN "cleanup" ELSE "end"]
    [] OTHER -> [t EXCEPT !.pc = "raise"]

Turns(c, old, new, ok) ==
  /\ current = 0
  /\ conn[c].state \in old
  /\ conn' = [conn EXCEPT ![c].state = new]
  /\ task' = [t \in 1 .. Len(task) |->
                IF \E i \in 1 .. Len(waiting[c]) : waiting[c][i] = t
                THEN Woken(task[t], c, ok) ELSE task[t]]
  /\ ready' = ready \o waiting[c]
  /\ waiting' = [waiting EXCEPT ![c] = <<>>]
  /\ UNCHANGED <<connections, sent, current, seen>>

PeerLeaves(c) == Turns(c, {"up"}, "gone", TRUE)
ConnectionLost(c) == Turns(c, {"up", "paused", "gone", "dying"}, "dead", FALSE)
Resumed(c) == Turns(c, {"paused"}, "up", TRUE)
Closed(c) == Turns(c, {"closing", "flushing"}, "closed", TRUE)
FlushFails(c) == Turns(c, {"flushing"}, "closed", FALSE)

\* wait_closed raises in a task that has been woken for it.
RaiseWoken ==
  /\ current # 0 /\ task[current].pc = "raise"
  /\ Raise
  /\ UNCHANGED <<connections, conn, waiting, sent, seen>>

Step ==
  \/ ConnectStart \/ ConnectStores \/ Disconnect \/ End \/ RaiseWoken
  \/ BroadcastStart \/ BroadcastBreaks \/ BroadcastWrites \/ BroadcastCleans \/ CleanUp

ClientNext ==
  \/ \E q \in Peer : Discovered(q) \/ Lost(q)
  \/ Copied
  \/ RunNext \/ Step
  \/ \E t \in 1 .. Len(task) : OpenFails(t) \/ OpenSucceeds(t)
  \/ \E c \in Conn :
       PeerLeaves(c) \/ ConnectionLost(c) \/ Resumed(c) \/ Closed(c) \/ FlushFails(c)

ClientSpec == ClientInit /\ [][ClientNext]_clientVars

\* The loop keeps running; opening a connection ends within five seconds, and
\* a transport that has nothing left to write closes.  The network owes nothing.
FairClientSpec ==
  /\ ClientSpec
  /\ WF_clientVars(RunNext \/ Step)
  /\ \A t \in 1 .. MaxTask : WF_clientVars(t <= Len(task) /\ (OpenFails(t) \/ OpenSucceeds(t)))
  /\ \A c \in Conn : /\ WF_clientVars(conn[c].state = "closing" /\ Closed(c))
                     /\ WF_clientVars(conn[c].state = "dying" /\ ConnectionLost(c))

-----------------------------------------------------------------------------
(***************************************************************************)
(* Properties.                                                             *)
(***************************************************************************)
Broadcasts == {t \in 1 .. Len(task) : task[t].kind = "broadcast"}
Ended(t) == task[t].pc \in {"done", "raised"}
Carries(c, t) == \E i \in 1 .. Len(sent[c]) : sent[c][i] = t

States == {"none", "up", "paused", "gone", "dying", "dead", "closing", "flushing", "closed"}
PCs == {"start", "opening", "opened", "next", "draining", "cleanup", "closing",
        "end", "raise", "done", "raised"}

Coroutines ==
  [kind : {"connect", "disconnect", "broadcast"}, peer : Peer \cup {NoPeer}, pc : PCs,
   conn : 0 .. MaxConn, at : 0 .. MaxConn, size : 0 .. Cardinality(Peer),
   failed : Seq(Peer), owed : SUBSET Conn, first : 0 .. MaxConn, failedOn : SUBSET Conn]

ClientTypeOK ==
  /\ connections \in [Peer -> [conn : 0 .. MaxConn, at : 0 .. MaxConn]]
  /\ conn \in [Conn -> [peer : Peer \cup {NoPeer}, state : States]]
  /\ waiting \in [Conn -> Seq(1 .. MaxTask)]
  /\ sent \in [Conn -> Seq(1 .. MaxTask)]
  /\ task \in Seq(Coroutines)
  /\ ready \in Seq(1 .. MaxTask)
  /\ current \in 0 .. MaxTask
  /\ seen \in [Peer -> BOOLEAN]

\* A broadcast ends with its frame on every connection that was there when it
\* began, is still there, and never failed ("Send clipboard content to all
\* connected peers").
SendsToAll ==
  \A t \in Broadcasts : Ended(t) =>
    \A c \in task[t].owed :
      InUse(c) /\ conn[c].state \in {"up", "paused"} => Carries(c, t)


\* "Clean up failed connections": a broadcast that has ended leaves none of the
\* connections it failed on in the dictionary.
CleansUp ==
  \A t \in Broadcasts : Ended(t) => \A c \in task[t].failedOn : ~InUse(c)

\* A broadcast disconnects only connections that failed it.
ClosesOnlyFailed ==
  \A t \in Broadcasts : task[t].pc = "closing" => task[t].conn \in task[t].failedOn

\* At most one live connection to a peer ("Already connected").
OneConnectionPerPeer ==
  \A c, d \in Conn :
    /\ conn[c].state \in {"up", "paused"} /\ conn[d].state \in {"up", "paused"}
    /\ conn[c].peer = conn[d].peer
    => c = d

\* What is in the dictionary has been opened to the peer it stands for, and has
\* not been closed: an entry goes before its transport is closed, so that no
\* broadcast that awaits meanwhile finds a closed transport in its loop.
EntriesAreOpen ==
  \A q \in Connected :
    /\ conn[connections[q].conn].peer = q
    /\ conn[connections[q].conn].state \in {"up", "paused", "gone", "dying", "dead"}

\* Nothing is written to a connection once it has been closed, though the loop
\* of a broadcast awaits while other tasks close connections.
NoFrameAfterClose ==
  [][\A c \in Conn :
       conn[c].state \in {"closing", "flushing", "closed"} => sent'[c] = sent[c]]_clientVars

\* A broadcast puts its frame on a connection at most once.
OncePerConnection ==
  \A c \in Conn : \A i, j \in 1 .. Len(sent[c]) : sent[c][i] = sent[c][j] => i = j

\* The peer that comes first in the dictionary gets the copies in the order they
\* were made: whatever waits and wakes between the two frames, a broadcast that
\* begins with this connection is not overtaken on it by a newer one.
InOrder ==
  \A c \in Conn : \A i, j \in 1 .. Len(sent[c]) :
    i < j /\ task[sent[c][j]].first = c => sent[c][i] < sent[c][j]

\* No copy is overtaken on its way to a peer ("When you copy text on your laptop,
\* it's instantly available to paste on any other paired device").
NeverStale ==
  \A c \in Conn : \A i, j \in 1 .. Len(sent[c]) : i < j => sent[c][i] < sent[c][j]

\* A broadcast ends unless some peer stops reading for ever: there is no timeout
\* on drain, so nothing better holds.
NothingStuck == \A c \in Conn : []<>(conn[c].state \notin {"paused", "flushing"})
BroadcastEnds ==
  NothingStuck =>
    \A t \in 1 .. MaxTask : t \in Broadcasts ~> (t \in Broadcasts /\ Ended(t))
==============================================================================
