---------------------------- MODULE ClipboardSync ----------------------------
(***************************************************************************)
(* `ghostsync sync' on several devices: each runs the watcher of           *)
(* ClipboardWatcher, sends what it detects over its connections and writes *)
(* what it receives.                                                       *)
(*                                                                         *)
(* A TCP connection is a FIFO queue from one device to another.  A device  *)
(* may have opened several to a peer, one after the other; what it sends   *)
(* goes to the last one, and the peer reads them all, each in its own      *)
(* _handle_client task.  A connection that breaks stays in _connections    *)
(* until a broadcast fails on it.  A broadcast writes to some entries in   *)
(* one step; it may then hang in drain and go on later, to entries that    *)
(* other broadcasts have written to meanwhile.  It ends when it has tried  *)
(* them all, or is cut short when an entry comes or goes.  The loop that   *)
(* does this is the subject of SyncClient.                                 *)
(***************************************************************************)
EXTENDS ClipboardWatcher

CONSTANTS
  SaveMayFail, \* may the save in update_last_seen raise OSError?
  MaxLinks,    \* bound: connections opened from one device to another
  MaxInFlight  \* bound: messages on a connection

ASSUME SyncAssumption ==
  SaveMayFail \in BOOLEAN /\ MaxLinks \in Nat /\ MaxInFlight \in Nat

VARIABLES
  trusts,  \* <<d, e>>: e is in the trust store that the sync of d has loaded
  links,   \* <<d, e>>: d has an entry for e in its _connections
  broken,  \* those of links whose connection no longer carries anything
  hung,    \* hung[d]: broadcasts of d that wait in drain, with the connections
           \* <<p, k>> that they have written to
  channel  \* channel[<<d, e>>]: connections opened so far, each with the messages
           \* that e has yet to process; links stands for the last one

netVars == <<trusts, links, broken, hung, channel>>
syncVars == <<clip, unseen, lastHash, phase, reading, writing, tasks, copies, delivered,
              trusts, links, broken, hung, channel>>

Pairs == {p \in Device \X Device : p[1] # p[2]}

SyncInit ==
  /\ WatcherInit
  /\ trusts = {}
  /\ links = {}
  /\ broken = {}
  /\ hung = [d \in Device |-> {}]
  /\ channel = [p \in Pairs |-> <<>>]

-----------------------------------------------------------------------------
\* The watcher of d and its clipboard, on their own.
Watches(d) ==
  /\ \/ \E t \in Text \cup {NoText} : Copy(d, t)
     \/ StartUnchanged(d) \/ Poll(d) \/ FinishWriteDarwin(d)
  /\ UNCHANGED netVars

\* e was paired before sync loaded the store, or by its pairing server since.
Trust(d, e) ==
  /\ <<d, e>> \in Pairs \ trusts
  /\ trusts' = trusts \cup {<<d, e>>}
  /\ UNCHANGED <<watcherVars, links, broken, hung, channel>>

\* An entry of d has come or gone: a broadcast of those that wait finds the size
\* of the dictionary changed when it goes on, and ends with a RuntimeError, unless
\* by then as many have come as gone.
CutShort(d, waiting) ==
  \E rest \in SUBSET waiting : hung' = [hung EXCEPT ![d] = rest]

\* d discovers e while it trusts it, and connects, unless it has an entry for
\* it; a device announces itself when its watcher and its server are running.
Connect(d, e) ==
  /\ <<d, e>> \in trusts \ links
  /\ phase[d] = "running" /\ phase[e] = "running"
  /\ Len(channel[<<d, e>>]) < MaxLinks
  /\ links' = links \cup {<<d, e>>}
  /\ channel' = [channel EXCEPT ![<<d, e>>] = Append(@, <<>>)]
  /\ CutShort(d, hung[d])
  /\ UNCHANGED <<watcherVars, trusts, broken>>

\* Mutant: what was known of the connection is not forgotten with it.
DisconnectLeavesBroken(d, e) ==
  /\ <<d, e>> \in links
  /\ links' = links \ {<<d, e>>}
  /\ CutShort(d, hung[d])
  /\ UNCHANGED <<watcherVars, trusts, broken, channel>>

\* Discovery reports e as lost: the connection is closed, and what is on it
\* still arrives unless it was broken.
Disconnect(d, e) ==
  /\ <<d, e>> \in links
  /\ links' = links \ {<<d, e>>}
  /\ broken' = broken \ {<<d, e>>}
  /\ CutShort(d, hung[d])
  /\ UNCHANGED <<watcherVars, trusts, channel>>

\* The connection breaks, with the messages last put on it.
Break(d, e) ==
  LET last == Len(channel[<<d, e>>])
  IN /\ <<d, e>> \in links \ broken
     /\ broken' = broken \cup {<<d, e>>}
     /\ \E n \in 0 .. Len(channel[<<d, e>>][last]) :
          channel' = [channel EXCEPT ![<<d, e>>][last] = SubSeq(@, 1, n)]
     /\ UNCHANGED <<watcherVars, trusts, hung, links>>

\* The connection that an entry stands for.
Last(p) == <<p, Len(channel[p])>>
Mine(d) == {p \in links : p[1] = d}
HasRoom(p) == Len(channel[p][Len(channel[p])]) < MaxInFlight

\* The event is written to the entries in reached; on a broken connection it is
\* lost.
WriteTo(reached, event) ==
  channel' = [p \in Pairs |->
                IF p \in reached \ broken
                THEN [channel[p] EXCEPT ![Len(channel[p])] = Append(@, event)]
                ELSE channel[p]]

\* Entries that the broadcast may find in its list `disconnected': it failed on
\* their connection, or on an earlier one to the same peer.
MayHaveFailed(d, broadcast) ==
  {p \in Mine(d) : \/ p \in broken /\ Last(p) \in broadcast.on
                   \/ \E k \in 1 .. (Len(channel[p]) - 1) : <<p, k>> \in broadcast.on}

\* The loop is over, for every entry has been tried: the failed ones go.
Ends(d, others, broadcast) ==
  /\ \A p \in Mine(d) : Last(p) \in broadcast.on
  /\ \E failed \in SUBSET MayHaveFailed(d, broadcast) :
       /\ links' = links \ failed
       /\ broken' = broken \ failed
       /\ IF failed = {} THEN hung' = [hung EXCEPT ![d] = others] ELSE CutShort(d, others)

\* The broadcast waits in drain.  It may go on from there to another entry, or
\* to one for a connection that is still to be opened.
Hangs(d, others, broadcast) ==
  /\ \E p \in Pairs : /\ p[1] = d
                     /\ \/ p \in links /\ Last(p) \notin broadcast.on
                        \/ Len(channel[p]) < MaxLinks
  /\ hung' = [hung EXCEPT ![d] = others \cup {broadcast}]
  /\ UNCHANGED <<links, broken>>

\* Mutant: the exception of one write ends the loop.
LoopsUntilFailure(d, others, broadcast, reached) ==
  LET after == [broadcast EXCEPT !.on = @ \cup {Last(p) : p \in reached}]
  IN /\ \A p \in reached : Last(p) \notin broadcast.on /\ HasRoom(p)
     /\ WriteTo(reached, broadcast.event)
     /\ \/ Ends(d, others, after)
        \/ reached # {} /\ Hangs(d, others, after)
        \/ /\ reached \cap broken # {}
           /\ hung' = [hung EXCEPT ![d] = others] /\ UNCHANGED <<links, broken>>

\* Mutant: after a drain the loop begins again.
LoopsAgain(d, others, broadcast, reached) ==
  LET after == [broadcast EXCEPT !.on = @ \cup {Last(p) : p \in reached}]
  IN /\ \A p \in reached : HasRoom(p)
     /\ WriteTo(reached, broadcast.event)
     /\ \/ Ends(d, others, after)
        \/ reached # {} /\ Hangs(d, others, after)

\* The loop of a broadcast runs, over entries that it has not written to: the
\* iterator does not come back, and meets what has been stored meanwhile as well.
Loops(d, others, broadcast, reached) ==
  LET after == [broadcast EXCEPT !.on = @ \cup {Last(p) : p \in reached}]
  IN /\ \A p \in reached : Last(p) \notin broadcast.on /\ HasRoom(p)
     /\ WriteTo(reached, broadcast.event)
     /\ \/ Ends(d, others, after)
        \/ reached # {} /\ Hangs(d, others, after)

\* on_clipboard_change: the oldest waiting event goes to the connected peers.
Broadcast(d) ==
  /\ RunOnChange(d)
  /\ \E reached \in SUBSET Mine(d) :
       Loops(d, hung[d], [event |-> Head(tasks[d]), on |-> {}], reached)
  /\ UNCHANGED trusts

\* drain returns, or raises, in a broadcast that waits there.
GoesOn(d) ==
  /\ \E b \in hung[d] : \E reached \in SUBSET Mine(d) :
       Loops(d, hung[d] \ {b}, b, reached)
  /\ UNCHANGED <<watcherVars, trusts>>

-----------------------------------------------------------------------------
\* The _handle_client task of e for connection k of d has its next message.
Arrives(d, e, k) ==
  /\ k \in 1 .. Len(channel[<<d, e>>]) /\ channel[<<d, e>>][k] # <<>>
  /\ Idle(e)

Takes(d, e, k) == channel' = [channel EXCEPT ![<<d, e>>][k] = Tail(@)]

\* Mutant: whoever connects is believed.
ReceiveFromAnyone(d, e, k) ==
  /\ Arrives(d, e, k) /\ Takes(d, e, k)
  /\ Write(e, Head(channel[<<d, e>>][k]).text)
  /\ UNCHANGED <<trusts, links, broken, hung>>

\* _process_message: what an untrusted device sends is dropped; the signature
\* is that of the sender's key, which is the one it was paired with.
Receive(d, e, k) ==
  /\ Arrives(d, e, k) /\ Takes(d, e, k)
  /\ IF <<e, d>> \in trusts
     THEN Write(e, Head(channel[<<d, e>>][k]).text)
     ELSE UNCHANGED watcherVars
  /\ UNCHANGED <<trusts, links, broken, hung>>

\* The text is written, then update_last_seen raises: _handle_client ends and
\* closes the connection, with whatever else is on it.
ReceiveUnsaved(d, e, k) ==
  /\ SaveMayFail
  /\ Arrives(d, e, k)
  /\ <<e, d>> \in trusts
  /\ Write(e, Head(channel[<<d, e>>][k]).text)
  /\ channel' = [channel EXCEPT ![<<d, e>>][k] = <<>>]
  /\ broken' = IF k = Len(channel[<<d, e>>])
               THEN broken \cup ({<<d, e>>} \cap links) ELSE broken
  /\ UNCHANGED <<trusts, links, hung>>

SyncNext ==
  \/ \E d \in Device : Watches(d) \/ Broadcast(d) \/ GoesOn(d)
  \/ \E p \in Pairs :
       \/ Trust(p[1], p[2]) \/ Connect(p[1], p[2])
       \/ Disconnect(p[1], p[2]) \/ Break(p[1], p[2])
       \/ \E k \in 1 .. MaxLinks : Receive(p[1], p[2], k) \/ ReceiveUnsaved(p[1], p[2], k)

SyncSpec == SyncInit /\ [][SyncNext]_syncVars

\* The event loop of every device runs its ready tasks in order, and TCP
\* delivers, so that drain ends: the peer reads, or the connection is given up.
\* Users, pairing, discovery and connections owe nothing.  A read is ready again
\* and again while the device's clipboard calls come between.
SyncFairness ==
  /\ \A d \in Device :
       /\ WF_syncVars(Poll(d) /\ UNCHANGED netVars)
       /\ WF_syncVars(FinishWriteDarwin(d) /\ UNCHANGED netVars)
       /\ WF_syncVars(Broadcast(d))
       /\ WF_syncVars(GoesOn(d))
  /\ \A p \in Pairs : \A k \in 1 .. MaxLinks :
       SF_syncVars(Receive(p[1], p[2], k) \/ ReceiveUnsaved(p[1], p[2], k))

FairSyncSpec == SyncSpec /\ SyncFairness

-----------------------------------------------------------------------------
(***************************************************************************)
(* Properties.                                                             *)
(***************************************************************************)
SyncTypeOK ==
  /\ broken \subseteq links /\ links \subseteq trusts /\ trusts \subseteq Pairs
  /\ channel \in [Pairs -> Seq(Seq(Event))]
  /\ \A p \in links : channel[p] # <<>>
  /\ hung \in [Device -> SUBSET [event : Event, on : SUBSET (Pairs \X Nat)]]

\* Anti-echo across devices ("clipboard writes from remote peers don't trigger
\* sync loops"): a connection carries copies of its sender's own user, never a
\* text that came from elsewhere; and each once, whichever broadcasts hang and
\* go on, unless a Windows clipboard call of the sender has failed.
LinksCarryOwnCopies ==
  \A p \in Pairs : \A k \in 1 .. Len(channel[p]) :
    LET sent == channel[p][k]
    IN \A i \in 1 .. Len(sent) :
         /\ sent[i].id \in 1 .. Len(copies[p[1]])
         /\ sent[i].text = copies[p[1]][sent[i].id]
         /\ p[1] \notin Unreliable => \A j \in 1 .. (i - 1) : sent[j].id # sent[i].id

\* The program only ever sets a device's clipboard to a text that was copied on
\* a device it trusts: texts are not passed on from one peer to another.
OnlyTrustedTexts ==
  [][\A d \in Device :
       clip'[d] # clip[d] /\ clip'[d].text # NoText /\ copies'[d] = copies[d] =>
         \E e \in Device : /\ <<d, e>> \in trusts
                           /\ \E i \in 1 .. Len(copies[e]) : copies[e][i] = clip'[d].text]_syncVars

\* "When you copy text on your laptop, it's instantly available to paste on any
\* other paired device": a copy that has been detected gets to the clipboard of
\* every connected peer that trusts the device, whichever other peers keep its
\* broadcast waiting and whatever is copied next.  Two things may stop it: the
\* connection breaks (so it does when the peer fails to save), or an entry of the
\* device comes or goes meanwhile, be it for another peer, and the broadcast is
\* cut short (SyncClient's SendsToAll).
CopyArrives ==
  \A p \in Pairs : \A k \in 1 .. MaxCopies : \A M \in {S \in SUBSET Pairs : p \in S /\ \A q \in S : q[1] = p[1]} :
    (/\ delivered[p[1]] = k /\ tasks[p[1]] # <<>>
     /\ Mine(p[1]) = M /\ p \in M \ broken /\ <<p[2], p[1]>> \in trusts)
      ~> (\/ k \in DOMAIN copies[p[1]] /\ clip[p[2]].text = copies[p[1]][k]
          \/ Mine(p[1]) # M \/ p \in broken)
==============================================================================
