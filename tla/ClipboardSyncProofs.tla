------------------------- MODULE ClipboardSyncProofs -------------------------
(***************************************************************************)
(* Theorems about ClipboardSync, for any set of devices, texts and any     *)
(* number of connections and messages.                                     *)
(***************************************************************************)
EXTENDS ClipboardSync, ClipboardWatcherProofs

Channels == [Pairs -> Seq(Seq(Event))]

\* Other contents on one connection.
LEMMA SetConnection ==
  ASSUME channel \in Channels, NEW p \in Pairs, NEW k \in 1 .. Len(channel[p]),
         NEW s \in Seq(Event), channel' = [channel EXCEPT ![p][k] = s]
  PROVE  /\ channel' \in Channels
         /\ Len(channel'[p]) = Len(channel[p])
         /\ channel'[p][k] = s
         /\ \A j \in 1 .. Len(channel[p]) : j # k => channel'[p][j] = channel[p][j]
         /\ \A q \in Pairs : q # p => channel'[q] = channel[q]
<1> DEFINE new == [channel[p] EXCEPT ![k] = s]
<1>1. channel[p] \in Seq(Seq(Event))
  BY DEF Channels
<1>2. /\ new \in Seq(Seq(Event)) /\ Len(new) = Len(channel[p])
      /\ new[k] = s
      /\ \A j \in 1 .. Len(channel[p]) : j # k => new[j] = channel[p][j]
  BY <1>1
<1>3. channel' = [channel EXCEPT ![p] = new]
  OBVIOUS
<1> HIDE DEF new
<1>4. channel'[p] = new /\ \A q \in Pairs : q # p => channel'[q] = channel[q]
  BY <1>3 DEF Channels
<1>5. channel' \in Channels
  BY <1>2, <1>3 DEF Channels
<1>6. QED
  BY <1>2, <1>4, <1>5

\* A message that has arrived is the first on its connection.
LEMMA Message ==
  ASSUME SyncTypeOK, NEW p \in Pairs, NEW k \in 1 .. MaxLinks, Arrives(p[1], p[2], k)
  PROVE  /\ p = <<p[1], p[2]>>
         /\ k \in 1 .. Len(channel[p])
         /\ channel[p][k] \in Seq(Event) /\ channel[p][k] # <<>>
         /\ Head(channel[p][k]) \in Event
         /\ Tail(channel[p][k]) \in Seq(Event)
<1>1. p = <<p[1], p[2]>> /\ channel[p] \in Seq(Seq(Event))
  BY DEF Pairs, SyncTypeOK
<1>2. k \in 1 .. Len(channel[p]) /\ channel[p][k] # <<>>
  BY <1>1 DEF Arrives
<1>3. channel[p][k] \in Seq(Event)
  BY <1>1, <1>2
<1>4. QED
  BY <1>1, <1>2, <1>3

\* What a step of the whole is to the watchers.
LEMMA StepOfWatchers ==
  ASSUME SyncTypeOK, [SyncNext]_syncVars
  PROVE  [WatcherNext]_watcherVars
<1>1. CASE UNCHANGED syncVars
  BY <1>1 DEF syncVars, watcherVars
<1>2. ASSUME NEW d \in Device, Watches(d)
      PROVE  WatcherNext
  BY <1>2 DEF Watches, WatcherNext
<1>3. ASSUME NEW d \in Device, Broadcast(d)
      PROVE  WatcherNext
  BY <1>3 DEF Broadcast, WatcherNext
<1>4. ASSUME NEW p \in Pairs,
             \/ Trust(p[1], p[2]) \/ Connect(p[1], p[2])
             \/ Disconnect(p[1], p[2]) \/ Break(p[1], p[2])
      PROVE  UNCHANGED watcherVars
  BY <1>4 DEF Trust, Connect, Disconnect, Break
<1>7. ASSUME NEW d \in Device, GoesOn(d)
      PROVE  UNCHANGED watcherVars
  BY <1>7 DEF GoesOn
<1>5. ASSUME NEW p \in Pairs, NEW k \in 1 .. MaxLinks,
             Receive(p[1], p[2], k) \/ ReceiveUnsaved(p[1], p[2], k)
      PROVE  [WatcherNext]_watcherVars
  <2>1. Arrives(p[1], p[2], k)
    BY <1>5 DEF Receive, ReceiveUnsaved
  <2>2. /\ Head(channel[p][k]) \in Event /\ p = <<p[1], p[2]>>
        /\ p[2] \in Device
    BY <2>1, Message DEF Pairs
  <2>3. Head(channel[<<p[1], p[2]>>][k]).text \in Text
    BY <2>2 DEF Event
  <2>4. \/ Write(p[2], Head(channel[<<p[1], p[2]>>][k]).text)
        \/ UNCHANGED watcherVars
    BY <1>5 DEF Receive, ReceiveUnsaved
  <2>5. QED
    BY <2>2, <2>3, <2>4 DEF WatcherNext
<1>6. QED
  BY <1>1, <1>2, <1>3, <1>4, <1>5, <1>7 DEF SyncNext

\* What a write does to the channel of one of the entries that it reaches.
Sends(p, event) ==
  channel'[p] = [channel[p] EXCEPT ![Len(channel[p])] = Append(@, event)]

LEMMA Written ==
  ASSUME SyncTypeOK, NEW reached \in SUBSET links, NEW event \in Event,
         WriteTo(reached, event)
  PROVE  /\ channel' \in Channels
         /\ \A p \in Pairs :
              \/ channel'[p] = channel[p]
              \/ p \in reached /\ Sends(p, event)
<1>1. \A p \in Pairs : channel'[p] = channel[p] \/ (p \in reached /\ Sends(p, event))
  BY DEF WriteTo, Sends
<1>2. ASSUME NEW p \in Pairs
      PROVE  channel'[p] \in Seq(Seq(Event))
  <2>1. channel[p] \in Seq(Seq(Event))
    BY DEF SyncTypeOK
  <2>2. CASE p \in reached /\ Sends(p, event)
    <3>1. channel[p] # <<>> /\ Len(channel[p]) \in 1 .. Len(channel[p])
      BY <2>1, <2>2 DEF SyncTypeOK
    <3>2. Append(channel[p][Len(channel[p])], event) \in Seq(Event)
      BY <2>1, <3>1
    <3>3. QED
      BY <2>1, <2>2, <3>1, <3>2 DEF Sends
  <2>3. QED
    BY <1>1, <2>1, <2>2
<1>3. channel' \in Channels
  BY <1>2 DEF Channels, WriteTo
<1>4. QED
  BY <1>1, <1>3

Broadcasts == [event : Event, on : SUBSET (Pairs \X Nat)]

\* What a loop leaves behind: of those that hang others may be cut short, and
\* the broadcast itself may hang.
Leaves(d, others, b) ==
  /\ hung' \in [Device -> SUBSET Broadcasts]
  /\ hung'[d] \subseteq others \cup {b}
  /\ \A e \in Device : e # d => hung'[e] = hung[e]
  /\ broken' \subseteq links' /\ links' \subseteq links

LEMMA CutIs ==
  ASSUME SyncTypeOK, NEW d \in Device, NEW waiting \in SUBSET Broadcasts, CutShort(d, waiting)
  PROVE  /\ hung' \in [Device -> SUBSET Broadcasts] /\ hung'[d] \subseteq waiting
         /\ \A e \in Device : e # d => hung'[e] = hung[e]
BY DEF SyncTypeOK, CutShort, Broadcasts

LEMMA LastIs ==
  ASSUME SyncTypeOK, NEW p \in links
  PROVE  /\ Last(p) \in Pairs \X Nat
         /\ channel[p] \in Seq(Seq(Event)) /\ Len(channel[p]) \in 1 .. Len(channel[p])
<1>1. p \in Pairs /\ channel[p] \in Seq(Seq(Event)) /\ channel[p] # <<>>
  BY DEF SyncTypeOK
<1>2. QED
  BY <1>1 DEF Last

\* A loop writes to entries that the broadcast has not written to.
LEMMA LoopIs ==
  ASSUME SyncTypeOK, NEW d \in Device, NEW others \in SUBSET hung[d], NEW b \in Broadcasts,
         NEW reached \in SUBSET Mine(d), Loops(d, others, b, reached)
  PROVE  /\ \A p \in reached : Last(p) \notin b.on
         /\ WriteTo(reached, b.event)
         /\ \E after \in Broadcasts :
              /\ after.event = b.event /\ after.on = b.on \cup {Last(p) : p \in reached}
              /\ Leaves(d, others, after)
<1> DEFINE after == [b EXCEPT !.on = @ \cup {Last(p) : p \in reached}]
<1>1. \A p \in reached : Last(p) \in Pairs \X Nat
  BY LastIs DEF Mine
<1>2. after \in Broadcasts /\ after.event = b.event /\ after.on = b.on \cup {Last(p) : p \in reached}
  BY <1>1 DEF Broadcasts
<1>3. /\ \A p \in reached : Last(p) \notin b.on
      /\ WriteTo(reached, b.event)
      /\ Ends(d, others, after) \/ Hangs(d, others, after)
  BY DEF Loops
<1>4. others \in SUBSET Broadcasts
  BY DEF SyncTypeOK, Broadcasts
<1> HIDE DEF after
<1>5. CASE Ends(d, others, after)
  <2>1. PICK failed \in SUBSET MayHaveFailed(d, after) :
          /\ links' = links \ failed /\ broken' = broken \ failed
          /\ IF failed = {} THEN hung' = [hung EXCEPT ![d] = others] ELSE CutShort(d, others)
    BY <1>5 DEF Ends
  <2>2. CutShort(d, others)
    BY <2>1 DEF CutShort
  <2>3. Leaves(d, others, after)
    BY <1>4, <2>1, <2>2, CutIs DEF Leaves, SyncTypeOK
  <2>4. QED
    BY <1>2, <1>3, <2>3
<1>6. CASE Hangs(d, others, after)
  <2>1. Leaves(d, others, after)
    BY <1>2, <1>4, <1>6 DEF Hangs, Leaves, SyncTypeOK, Broadcasts
  <2>2. QED
    BY <1>2, <1>3, <2>1
<1>7. QED
  BY <1>3, <1>5, <1>6

\* on_clipboard_change writes to some entries, if there are any.
LEMMA BroadcastIs ==
  ASSUME SyncTypeOK, WatcherTypeOK, NEW d \in Device, Broadcast(d)
  PROVE  /\ tasks[d] # <<>> /\ Head(tasks[d]) \in Event
         /\ \E reached \in SUBSET Mine(d), b \in Broadcasts :
              /\ b.event = Head(tasks[d]) /\ b.on = {Last(p) : p \in reached}
              /\ WriteTo(reached, Head(tasks[d]))
              /\ Leaves(d, hung[d], b)
<1>1. tasks[d] # <<>> /\ tasks[d] \in Seq(Event)
  BY DEF Broadcast, RunOnChange, WatcherTypeOK
<1>2. Head(tasks[d]) \in Event
  BY <1>1
<1>3. PICK reached \in SUBSET Mine(d) :
        Loops(d, hung[d], [event |-> Head(tasks[d]), on |-> {}], reached)
  BY DEF Broadcast
<1> DEFINE begun == [event |-> Head(tasks[d]), on |-> {}]
<1>8. begun \in Broadcasts /\ begun.event = Head(tasks[d]) /\ begun.on = {}
  BY <1>2 DEF Broadcasts
<1>9. Loops(d, hung[d], begun, reached)
  BY <1>3
<1> HIDE DEF begun
<1>4. PICK new \in Broadcasts : /\ new = begun
                               /\ new.event = Head(tasks[d]) /\ new.on = {}
  BY <1>8
<1>5. Loops(d, hung[d], new, reached)
  BY <1>4, <1>9
<1>10. hung[d] \in SUBSET hung[d]
  OBVIOUS
<1>6. /\ WriteTo(reached, new.event)
      /\ \E after \in Broadcasts :
           /\ after.event = new.event /\ after.on = new.on \cup {Last(p) : p \in reached}
           /\ Leaves(d, hung[d], after)
  <2> DEFINE others == hung[d]
  <2> HIDE DEF others
  <2>1. others \in SUBSET hung[d] /\ Loops(d, others, new, reached)
    BY <1>5, <1>10 DEF others
  <2>2. /\ WriteTo(reached, new.event)
        /\ \E after \in Broadcasts :
             /\ after.event = new.event /\ after.on = new.on \cup {Last(p) : p \in reached}
             /\ Leaves(d, others, after)
    BY <2>1, LoopIs
  <2>3. QED
    BY <2>2 DEF others
<1>7. QED
  BY <1>1, <1>2, <1>4, <1>6

\* A broadcast goes on.
LEMMA GoesOnIs ==
  ASSUME SyncTypeOK, NEW d \in Device, GoesOn(d)
  PROVE  \E b \in hung[d], reached \in SUBSET Mine(d), after \in Broadcasts :
           /\ b \in Broadcasts /\ \A p \in reached : Last(p) \notin b.on
           /\ after.event = b.event
           /\ after.on = b.on \cup {Last(p) : p \in reached}
           /\ WriteTo(reached, b.event)
           /\ Leaves(d, hung[d] \ {b}, after)
<1>1. PICK b \in hung[d], reached \in SUBSET Mine(d) : Loops(d, hung[d] \ {b}, b, reached)
  BY DEF GoesOn
<1>2. b \in Broadcasts
  BY DEF SyncTypeOK, Broadcasts
<1> DEFINE others == hung[d] \ {b}
<1>3. others \in SUBSET hung[d] /\ Loops(d, others, b, reached)
  BY <1>1
<1> HIDE DEF others
<1>4. /\ \A p \in reached : Last(p) \notin b.on
      /\ WriteTo(reached, b.event)
      /\ \E after \in Broadcasts :
           /\ after.event = b.event /\ after.on = b.on \cup {Last(p) : p \in reached}
           /\ Leaves(d, others, after)
  BY <1>2, <1>3, LoopIs
<1>5. QED
  BY <1>2, <1>4 DEF others

\* The types after a write.
LEMMA WriteTypes ==
  ASSUME SyncTypeOK, NEW d \in Device, NEW reached \in SUBSET Mine(d), NEW event \in Event,
         NEW others \in SUBSET hung[d], NEW b \in Broadcasts,
         WriteTo(reached, event), Leaves(d, others, b), UNCHANGED trusts
  PROVE  SyncTypeOK'
<1>1. reached \in SUBSET links
  BY DEF Mine
<1>2. /\ channel' \in Channels
      /\ \A p \in Pairs : channel'[p] = channel[p] \/ Sends(p, event)
  BY <1>1, Written
<1>3. /\ hung' \in [Device -> SUBSET Broadcasts]
      /\ broken' \subseteq links' /\ links' \subseteq links
  BY DEF Leaves
<1>4. ASSUME NEW p \in links'
      PROVE  channel'[p] # <<>>
  <2>1. channel[p] # <<>> /\ p \in Pairs /\ channel[p] \in Seq(Seq(Event))
    BY <1>3 DEF SyncTypeOK
  <2>2. DOMAIN channel'[p] = DOMAIN channel[p]
    BY <1>2, <2>1 DEF Sends
  <2>3. QED
    BY <2>1, <2>2
<1>5. QED
  BY <1>2, <1>3, <1>4 DEF SyncTypeOK, Channels, Broadcasts

LEMMA SyncTypeStep ==
  ASSUME SyncTypeOK, WatcherTypeOK, [SyncNext]_syncVars
  PROVE  SyncTypeOK'
<1>0. channel \in Channels
  BY DEF SyncTypeOK, Channels
<1>1. CASE UNCHANGED syncVars
  BY <1>1 DEF syncVars, SyncTypeOK
<1>2. ASSUME NEW d \in Device, Watches(d)
      PROVE  SyncTypeOK'
  BY <1>2 DEF Watches, netVars, SyncTypeOK
<1>3. ASSUME NEW d \in Device, Broadcast(d)
      PROVE  SyncTypeOK'
  <2>1. UNCHANGED trusts /\ Head(tasks[d]) \in Event
    BY <1>3, BroadcastIs DEF Broadcast
  <2>2. \E reached \in SUBSET Mine(d), b \in Broadcasts :
          WriteTo(reached, Head(tasks[d])) /\ Leaves(d, hung[d], b)
    BY <1>3, BroadcastIs
  <2>3. QED
    BY <2>1, <2>2, WriteTypes
<1>9. ASSUME NEW d \in Device, GoesOn(d)
      PROVE  SyncTypeOK'
  <2>1. UNCHANGED trusts
    BY <1>9 DEF GoesOn
  <2>2. PICK b \in Broadcasts, reached \in SUBSET Mine(d), after \in Broadcasts :
          WriteTo(reached, b.event) /\ Leaves(d, hung[d] \ {b}, after)
    BY <1>9, GoesOnIs
  <2>3. b.event \in Event
    BY DEF Broadcasts
  <2>4. QED
    BY <2>1, <2>2, <2>3, WriteTypes
<1>10. hung \in [Device -> SUBSET Broadcasts]
  BY DEF SyncTypeOK, Broadcasts
<1>4. ASSUME NEW p \in Pairs, Trust(p[1], p[2]) \/ Disconnect(p[1], p[2])
      PROVE  SyncTypeOK'
  <2>1. CASE Trust(p[1], p[2])
    BY <2>1 DEF Trust, SyncTypeOK
  <2>2. CASE Disconnect(p[1], p[2])
    <3>1. hung' \in [Device -> SUBSET Broadcasts]
      BY <1>10, <2>2, CutIs DEF Disconnect, Pairs
    <3>2. QED
      BY <2>2, <3>1 DEF Disconnect, SyncTypeOK, Broadcasts
  <2>3. QED
    BY <1>4, <2>1, <2>2
<1>5. ASSUME NEW p \in Pairs, Connect(p[1], p[2])
      PROVE  SyncTypeOK'
  <2>1. p = <<p[1], p[2]>> /\ channel[p] \in Seq(Seq(Event))
    BY DEF Pairs, SyncTypeOK
  <2>2. /\ links' = links \cup {p} /\ p \in trusts /\ UNCHANGED <<trusts, broken>>
        /\ channel' = [channel EXCEPT ![p] = Append(@, <<>>)]
    BY <1>5, <2>1 DEF Connect
  <2>5. hung' \in [Device -> SUBSET Broadcasts]
    BY <1>5, <1>10, CutIs DEF Connect, Pairs
  <2>3. Append(channel[p], <<>>) \in Seq(Seq(Event)) /\ Append(channel[p], <<>>) # <<>>
    <3>1. <<>> \in Seq(Event)
      OBVIOUS
    <3> DEFINE S == Seq(Event)
    <3> HIDE DEF S
    <3>2. \A c \in Seq(S), s \in S : Append(c, s) \in Seq(S) /\ Len(Append(c, s)) = Len(c) + 1
      OBVIOUS
    <3>3. \A c \in Seq(S) : Len(c) + 1 # Len(<<>>)
      OBVIOUS
    <3>4. \A c \in Seq(S), s \in S : Append(c, s) # <<>>
      BY <3>2, <3>3
    <3>5. QED
      BY <2>1, <3>1, <3>2, <3>4 DEF S
  <2>4. QED
    BY <2>2, <2>3, <2>5 DEF SyncTypeOK, Broadcasts
<1>6. ASSUME NEW p \in Pairs, Break(p[1], p[2])
      PROVE  SyncTypeOK'
  <2> DEFINE last == Len(channel[p])
  <2>0. p = <<p[1], p[2]>> /\ channel[p] \in Seq(Seq(Event))
    BY DEF Pairs, SyncTypeOK
  <2>1. p \in links
    BY <1>6, <2>0 DEF Break
  <2>2. last \in 1 .. Len(channel[p]) /\ channel[p][last] \in Seq(Event)
    BY <2>0, <2>1 DEF SyncTypeOK
  <2>3. PICK n \in 0 .. Len(channel[p][last]) :
          channel' = [channel EXCEPT ![p][last] = SubSeq(@, 1, n)]
    BY <1>6, <2>0 DEF Break
  <2>4. SubSeq(channel[p][last], 1, n) \in Seq(Event)
    BY <2>2
  <2>5. /\ channel' \in Channels /\ Len(channel'[p]) = Len(channel[p])
        /\ \A q \in Pairs : q # p => channel'[q] = channel[q]
    BY <1>0, <2>2, <2>3, <2>4, SetConnection
  <2>6. broken' = broken \cup {p} /\ UNCHANGED <<trusts, links, hung>>
    BY <1>6, <2>0 DEF Break
  <2>7. \A q \in links : channel'[q] # <<>>
    BY <2>1, <2>5 DEF SyncTypeOK, Channels
  <2>8. QED
    BY <2>1, <2>5, <2>6, <2>7 DEF SyncTypeOK, Channels
<1>7. ASSUME NEW p \in Pairs, NEW k \in 1 .. MaxLinks,
             Receive(p[1], p[2], k) \/ ReceiveUnsaved(p[1], p[2], k)
      PROVE  SyncTypeOK'
  <2>1. Arrives(p[1], p[2], k)
    BY <1>7 DEF Receive, ReceiveUnsaved
  <2>2. /\ p = <<p[1], p[2]>> /\ k \in 1 .. Len(channel[p])
        /\ Tail(channel[p][k]) \in Seq(Event) /\ <<>> \in Seq(Event)
    BY <2>1, Message
  <2>3. \E s \in Seq(Event) : channel' = [channel EXCEPT ![p][k] = s]
    BY <1>7, <2>2 DEF Receive, ReceiveUnsaved, Takes
  <2>4. /\ channel' \in Channels /\ Len(channel'[p]) = Len(channel[p])
        /\ \A q \in Pairs : q # p => channel'[q] = channel[q]
    BY <1>0, <2>2, <2>3, SetConnection
  <2>5. UNCHANGED <<trusts, links, hung>> /\ broken' \subseteq links
    BY <1>7, <2>2 DEF Receive, ReceiveUnsaved, SyncTypeOK
  <2>6. \A q \in links : channel'[q] # <<>>
    BY <2>4 DEF SyncTypeOK, Channels
  <2>7. QED
    BY <2>4, <2>5, <2>6 DEF SyncTypeOK, Channels
<1>8. QED
  BY <1>1, <1>2, <1>3, <1>4, <1>5, <1>6, <1>7, <1>9 DEF SyncNext

LEMMA SyncStart == SyncInit => SyncTypeOK /\ WatcherTypeOK /\ EchoInv /\ KnownInv
BY TextAssumption DEF SyncInit, SyncTypeOK, WatcherInit, EchoInv, WatcherTypeOK, Content,
   Event, Digest, ContentIsCopy, UnseenIsForeign, NoEcho, KnownInv

\* What the watchers' theorems rest on, and the types, hold of the whole.
SyncInv == SyncTypeOK /\ EchoInv /\ KnownInv

LEMMA SyncInvStep == SyncInv /\ [SyncNext]_syncVars => SyncInv'
BY StepOfWatchers, WatcherTypeStep, EchoStep, KnownStep, SyncTypeStep DEF SyncInv, EchoInv

LEMMA SyncInvariant == SyncSpec => []SyncInv
<1>1. SyncInit => SyncInv
  BY SyncStart DEF SyncInv
<1>2. QED
  BY <1>1, SyncInvStep, PTL DEF SyncSpec

\* The state of the whole stays well typed: an entry has a connection, and what
\* is known as broken is an entry.
THEOREM SyncTypeCorrect == SyncSpec => []SyncTypeOK
<1>1. SyncInv => SyncTypeOK
  BY DEF SyncInv
<1>2. QED
  BY <1>1, SyncInvariant, PTL

\* Connected to each other, the watchers are still watchers: the network writes to
\* a clipboard only where write() may be called, and takes events only in turn.
THEOREM SyncImplementsWatchers == SyncSpec => WatcherSpec
<1>1. SyncInit => WatcherInit
  BY DEF SyncInit
<1>2. SyncInv /\ [SyncNext]_syncVars => [WatcherNext]_watcherVars
  BY StepOfWatchers DEF SyncInv
<1>3. QED
  BY <1>1, <1>2, SyncInvariant, PTL DEF SyncSpec, WatcherSpec

-----------------------------------------------------------------------------
(***************************************************************************)
(* What connections carry.  The messages on a connection are copies of its *)
(* sender, and so are the events of broadcasts that hang; both were made   *)
(* before those that still wait in its tasks, so that a broadcast brings   *)
(* what no connection has had.  c are the copies, n the last one           *)
(* delivered, t the tasks of the sender; u says that its calls may fail.   *)
(***************************************************************************)
Before(x, y, u) == x < y \/ (u /\ x = y)

Own(s, c, n) ==
  \A i \in 1 .. Len(s) :
    /\ s[i].id \in 1 .. Len(c) /\ s[i].id <= n
    /\ s[i].text = c[s[i].id]
Ordered(s, u) == \A i, j \in 1 .. Len(s) : i < j => Before(s[i].id, s[j].id, u)
Precedes(s, t, u) ==
  \A i \in 1 .. Len(s), j \in 1 .. Len(t) : Before(s[i].id, t[j].id, u)

Once(s) == \A i, j \in 1 .. Len(s) : i < j => s[i].id # s[j].id

Queued(t, c, n, u) == Own(t, c, n) /\ Ordered(t, u)
Carried(s, c, n, t, u) == Own(s, c, n) /\ Precedes(s, t, u) /\ (u \/ Once(s))

Fails(d) == d \in Unreliable
Sound(s, d) == Carried(s, copies[d], delivered[d], tasks[d], Fails(d))

\* A device whose calls do not fail has one broadcast for each event, and that
\* knows the connections that have had the event.
Apart(d) ==
  /\ \A b, c \in hung[d] : b.event.id = c.event.id => b = c
  /\ \A b \in hung[d], p \in Pairs : p[1] = d =>
       \A k \in 1 .. Len(channel[p]) : \A i \in 1 .. Len(channel[p][k]) :
         channel[p][k][i].id = b.event.id => <<p, k>> \in b.on

CarryInv ==
  /\ \A d \in Device : Queued(tasks[d], copies[d], delivered[d], Fails(d))
  /\ \A p \in Pairs : \A k \in 1 .. Len(channel[p]) : Sound(channel[p][k], p[1])
  /\ \A d \in Device : \A b \in hung[d] : Sound(<<b.event>>, d)
  /\ \A d \in Device \ Unreliable : Apart(d)

\* A beginning and the rest of what is carried or queued.
LEMMA Shorter ==
  ASSUME NEW s \in Seq(Event), NEW c, NEW n, NEW t, NEW u, NEW r \in Seq(Event),
         Carried(s, c, n, t, u),
         \/ r = <<>> \/ (s # <<>> /\ r = Tail(s))
         \/ \E m \in 0 .. Len(s) : r = SubSeq(s, 1, m)
  PROVE  Carried(r, c, n, t, u)
<1>1. \E o \in {0, 1} : /\ Len(r) + o <= Len(s) \/ Len(r) = 0
                        /\ \A i \in 1 .. Len(r) : r[i] = s[i + o]
  <2>1. CASE r = <<>>
    BY <2>1
  <2>2. CASE s # <<>> /\ r = Tail(s)
    BY <2>2
  <2>3. CASE \E m \in 0 .. Len(s) : r = SubSeq(s, 1, m)
    BY <2>3
  <2>4. QED
    BY <2>1, <2>2, <2>3
<1>2. PICK o \in {0, 1} : /\ Len(r) + o <= Len(s) \/ Len(r) = 0
                          /\ \A i \in 1 .. Len(r) : r[i] = s[i + o]
  BY <1>1
<1>3. \A i \in 1 .. Len(r) : i + o \in 1 .. Len(s) /\ r[i] = s[i + o]
  BY <1>2
<1>4. Own(r, c, n)
  BY <1>3 DEF Carried, Own
<1>5. ASSUME Once(s)
      PROVE  Once(r)
  <2>1. SUFFICES ASSUME NEW i \in 1 .. Len(r), NEW j \in 1 .. Len(r), i < j
                 PROVE  r[i].id # r[j].id
    BY DEF Once
  <2>2. i + o \in 1 .. Len(s) /\ j + o \in 1 .. Len(s) /\ i + o < j + o
    BY <1>3, <2>1
  <2>3. s[i + o].id # s[j + o].id
    BY <1>5, <2>2 DEF Once
  <2>4. QED
    BY <1>3, <2>3
<1>6. Precedes(r, t, u)
  BY <1>3 DEF Carried, Precedes
<1>7. QED
  BY <1>4, <1>5, <1>6 DEF Carried

\* One more copy.
LEMMA OwnAfterCopy ==
  ASSUME NEW S, NEW s \in Seq(Event), NEW c \in Seq(S), NEW n, NEW x \in S, Own(s, c, n)
  PROVE  Own(s, Append(c, x), n)
<1>1. \A k \in 1 .. Len(c) : k \in 1 .. Len(Append(c, x)) /\ Append(c, x)[k] = c[k]
  OBVIOUS
<1>2. QED
  BY <1>1 DEF Own

\* A delivery: the event is at the end of the tasks.
LEMMA Delivered ==
  ASSUME NEW S, NEW s \in Seq(Event), NEW t \in Seq(Event), NEW c \in Seq(S),
         NEW n \in Nat, NEW u, NEW k \in 1 .. Len(c), n < k \/ (u /\ n = k),
         NEW e \in Event, e.id = k, e.text = c[k],
         Queued(t, c, n, u)
  PROVE  /\ Queued(Append(t, e), c, k, u)
         /\ Carried(s, c, n, t, u) => Carried(s, c, k, Append(t, e), u)
<1>0. n <= k
  OBVIOUS
<1> DEFINE new == Append(t, e)
<1>1. /\ new \in Seq(Event) /\ Len(new) = Len(t) + 1
      /\ \A j \in 1 .. Len(new) : j \in 1 .. Len(t) \/ j = Len(t) + 1
      /\ \A j \in 1 .. Len(t) : new[j] = t[j]
      /\ new[Len(t) + 1] = e
  OBVIOUS
<1>2. \A r \in Seq(Event) : Own(r, c, n) =>
        /\ Own(r, c, k)
        /\ \A i \in 1 .. Len(r) : Before(r[i].id, e.id, u)
  BY <1>0 DEF Own, Before
<1> HIDE DEF new
<1>3. Own(new, c, k)
  BY <1>1, <1>2 DEF Queued, Own
<1>4. Ordered(new, u)
  <2> SUFFICES ASSUME NEW i \in 1 .. Len(new), NEW j \in 1 .. Len(new), i < j
               PROVE  Before(new[i].id, new[j].id, u)
    BY DEF Ordered
  <2>1. i \in 1 .. Len(t)
    BY <1>1
  <2>2. CASE j \in 1 .. Len(t)
    BY <1>1, <2>1, <2>2 DEF Queued, Ordered
  <2>3. CASE j = Len(t) + 1
    BY <1>1, <1>2, <2>1, <2>3 DEF Queued
  <2>4. QED
    BY <1>1, <2>2, <2>3
<1>5. ASSUME Carried(s, c, n, t, u)
      PROVE  Precedes(s, new, u)
  BY <1>1, <1>2, <1>5 DEF Carried, Precedes
<1>6. QED
  BY <1>2, <1>3, <1>4, <1>5 DEF Queued, Carried, new

\* A broadcast: the oldest event leaves the tasks.
LEMMA Sent ==
  ASSUME NEW t \in Seq(Event), t # <<>>, NEW c, NEW n, NEW u,
         Queued(t, c, n, u)
  PROVE  /\ Queued(Tail(t), c, n, u)
         /\ Carried(<<Head(t)>>, c, n, Tail(t), u)
         /\ \A s \in Seq(Event) : Carried(s, c, n, t, u) =>
              /\ Carried(s, c, n, Tail(t), u)
              /\ \A i \in 1 .. Len(s) : Before(s[i].id, Head(t).id, u)
<1> DEFINE rest == Tail(t)  one == <<Head(t)>>
<1>1. /\ rest \in Seq(Event)
      /\ \A i \in 1 .. Len(rest) : i + 1 \in 1 .. Len(t) /\ rest[i] = t[i + 1]
      /\ 1 \in 1 .. Len(t) /\ Head(t) = t[1]
  OBVIOUS
<1>2. Len(one) = 1 /\ one[1] = Head(t) /\ \A i \in 1 .. Len(one) : i = 1
  OBVIOUS
<1> HIDE DEF rest, one
<1>3. Queued(rest, c, n, u)
  <2>1. Own(rest, c, n)
    BY <1>1 DEF Queued, Own
  <2>2. ASSUME NEW i \in 1 .. Len(rest), NEW j \in 1 .. Len(rest), i < j
        PROVE  Before(rest[i].id, rest[j].id, u)
    <3>1. /\ i + 1 \in 1 .. Len(t) /\ j + 1 \in 1 .. Len(t) /\ i + 1 < j + 1
          /\ rest[i] = t[i + 1] /\ rest[j] = t[j + 1]
      BY <1>1, <2>2
    <3>2. QED
      BY <3>1 DEF Queued, Ordered
  <2>3. QED
    BY <2>1, <2>2 DEF Queued, Ordered
<1>4. Carried(one, c, n, rest, u)
  <2>1. Own(one, c, n)
    BY <1>1, <1>2 DEF Queued, Own
  <2>2. ASSUME NEW j \in 1 .. Len(rest)
        PROVE  Before(Head(t).id, rest[j].id, u)
    <3>1. j + 1 \in 1 .. Len(t) /\ rest[j] = t[j + 1] /\ 1 < j + 1
      BY <1>1
    <3>2. QED
      BY <1>1, <3>1 DEF Queued, Ordered
  <2>3. Precedes(one, rest, u)
    BY <1>2, <2>2 DEF Precedes
  <2>4. Once(one)
    BY <1>2 DEF Once
  <2>5. QED
    BY <2>1, <2>3, <2>4 DEF Carried
<1>5. ASSUME NEW s \in Seq(Event), Carried(s, c, n, t, u)
      PROVE  /\ Carried(s, c, n, rest, u)
             /\ \A i \in 1 .. Len(s) : Before(s[i].id, Head(t).id, u)
  BY <1>1, <1>5 DEF Carried, Precedes
<1>6. QED
  BY <1>3, <1>4, <1>5 DEF rest, one

\* An event is put on a connection that has not had it.
LEMMA Added ==
  ASSUME NEW s \in Seq(Event), NEW e \in Event, NEW c, NEW n, NEW t, NEW u,
         Carried(s, c, n, t, u), Carried(<<e>>, c, n, t, u),
         u \/ \A i \in 1 .. Len(s) : s[i].id # e.id
  PROVE  Carried(Append(s, e), c, n, t, u)
<1> DEFINE new == Append(s, e)  one == <<e>>
<1>1. /\ new \in Seq(Event) /\ Len(new) = Len(s) + 1
      /\ \A i \in 1 .. Len(new) : i \in 1 .. Len(s) \/ i = Len(s) + 1
      /\ \A i \in 1 .. Len(s) : new[i] = s[i]
      /\ new[Len(s) + 1] = e
  OBVIOUS
<1>2. 1 \in 1 .. Len(one) /\ one[1] = e
  OBVIOUS
<1> HIDE DEF new, one
<1>3. Own(new, c, n)
  BY <1>1, <1>2 DEF Carried, Own, one
<1>4. Precedes(new, t, u)
  BY <1>1, <1>2 DEF Carried, Precedes, one
<1>5. u \/ Once(new)
  <2>1. ASSUME ~u, NEW i \in 1 .. Len(new), NEW j \in 1 .. Len(new), i < j
        PROVE  new[i].id # new[j].id
    <3>1. i \in 1 .. Len(s)
      BY <1>1, <2>1
    <3>2. CASE j \in 1 .. Len(s)
      BY <1>1, <2>1, <3>1, <3>2 DEF Carried, Once
    <3>3. CASE j = Len(s) + 1
      BY <1>1, <2>1, <3>1, <3>3
    <3>4. QED
      BY <1>1, <3>2, <3>3
  <2>2. QED
    BY <2>1 DEF Once
<1>6. QED
  BY <1>3, <1>4, <1>5 DEF Carried, new

-----------------------------------------------------------------------------
\* A step of the watchers, as seen from the connections: what was sound stays so.
LEMMA SoundStep ==
  ASSUME SyncInv, CarryInv, [WatcherNext]_watcherVars, NEW d \in Device
  PROVE  /\ Queued(tasks[d], copies[d], delivered[d], Fails(d))'
         /\ \A s \in Seq(Event) : Sound(s, d) => Sound(s, d)'
<1>0. /\ tasks \in [Device -> Seq(Event)]
      /\ copies \in [Device -> Seq(Text \cup {NoText})]
      /\ delivered \in [Device -> Nat]
  BY DEF SyncInv, EchoInv, WatcherTypeOK
<1> DEFINE Of == Queued(tasks[d], copies[d], delivered[d], Fails(d))
           Stays == \A s \in Seq(Event) : Sound(s, d) => Sound(s, d)'
<1>1. Of
  BY DEF CarryInv
<1>2. [Feed!FeedNext]_Feed!feedVars
  BY FeedStep DEF SyncInv
<1>3. CASE UNCHANGED <<copies[d], delivered[d], tasks[d]>>
  BY <1>1, <1>3 DEF Sound, Fails
<1>4. ASSUME NEW e \in Device, Feed!UserCopies(e), e = d
      PROVE  Of' /\ Stays
  <2>1. PICK x \in Text \cup {NoText} : copies' = [copies EXCEPT ![d] = Append(@, x)]
    BY <1>4 DEF Feed!UserCopies
  <2>2. copies'[d] = Append(copies[d], x) /\ UNCHANGED <<delivered, tasks>>
    BY <1>0, <1>4, <2>1 DEF Feed!UserCopies
  <2>3. \A s \in Seq(Event) :
          Own(s, copies[d], delivered[d]) => Own(s, copies'[d], delivered'[d])
    BY <1>0, <2>2, OwnAfterCopy
  <2>4. QED
    BY <1>0, <1>1, <2>2, <2>3 DEF Queued, Sound, Carried, Fails
<1>5. ASSUME NEW e \in Device, Feed!Deliver(e), e = d
      PROVE  Of' /\ Stays
  <2> DEFINE event(k) == [text |-> copies[d][k], id |-> k]
  <2>1. PICK k \in 1 .. Len(copies[d]) :
          /\ k > delivered[d] \/ (d \in Unreliable /\ k = delivered[d])
          /\ delivered' = [delivered EXCEPT ![d] = k]
          /\ tasks' = [tasks EXCEPT ![d] = Append(@, event(k))]
          /\ UNCHANGED copies
    BY <1>5 DEF Feed!Deliver
  <2>2. delivered'[d] = k /\ tasks'[d] = Append(tasks[d], event(k))
    BY <1>0, <2>1
  <2>3. tasks'[d] \in Seq(Event) /\ Len(tasks'[d]) = Len(tasks[d]) + 1
        /\ tasks'[d][Len(tasks[d]) + 1] = event(k)
    <3>1. tasks' \in [Device -> Seq(Event)]
      BY WatcherTypeStep DEF SyncInv, EchoInv, WatcherTypeOK
    <3>2. QED
      BY <1>0, <2>2, <3>1
  <2>4. event(k) \in Event
    BY <2>3
  <2>5. delivered[d] < k \/ (Fails(d) /\ delivered[d] = k)
    BY <1>0, <2>1 DEF Fails
  <2>6. QED
    BY <1>0, <1>1, <2>1, <2>2, <2>4, <2>5, Delivered DEF Sound, Fails
<1>6. ASSUME NEW e \in Device, Feed!Take(e), e = d
      PROVE  Of' /\ Stays
  <2>1. /\ tasks[d] # <<>> /\ tasks'[d] = Tail(tasks[d])
        /\ UNCHANGED <<copies, delivered>>
    BY <1>0, <1>6 DEF Feed!Take
  <2>2. QED
    BY <1>0, <1>1, <2>1, Sent DEF Sound, Fails
<1>7. ASSUME NEW e \in Device, e # d,
              Feed!UserCopies(e) \/ Feed!Deliver(e) \/ Feed!Take(e)
       PROVE  UNCHANGED <<copies[d], delivered[d], tasks[d]>>
  BY <1>0, <1>7 DEF Feed!UserCopies, Feed!Deliver, Feed!Take
<1>8. CASE UNCHANGED Feed!feedVars
  BY <1>3, <1>8 DEF Feed!feedVars
<1>9. QED
  BY <1>2, <1>3, <1>4, <1>5, <1>6, <1>7, <1>8 DEF Feed!FeedNext

\* Connection k of p has nothing to carry, or some of what it had.
Lessened(p, k) ==
  \/ channel'[p][k] = <<>>
  \/ /\ k \in 1 .. Len(channel[p])
     /\ \/ channel'[p][k] = channel[p][k]
        \/ channel[p][k] # <<>> /\ channel'[p][k] = Tail(channel[p][k])
        \/ \E m \in 0 .. Len(channel[p][k]) :
             channel'[p][k] = SubSeq(channel[p][k], 1, m)

\* What is left was there.
LEMMA PartOf ==
  ASSUME NEW s \in Seq(Event), NEW r \in Seq(Event), NEW i \in 1 .. Len(r),
         \/ r = s \/ (s # <<>> /\ r = Tail(s))
         \/ \E m \in 0 .. Len(s) : r = SubSeq(s, 1, m)
  PROVE  \E j \in 1 .. Len(s) : s[j] = r[i]
<1>1. CASE r = s
  BY <1>1
<1>2. CASE s # <<>> /\ r = Tail(s)
  <2>1. i + 1 \in 1 .. Len(s) /\ s[i + 1] = r[i]
    BY <1>2
  <2>2. QED
    BY <2>1
<1>3. CASE \E m \in 0 .. Len(s) : r = SubSeq(s, 1, m)
  <2>1. i \in 1 .. Len(s) /\ s[i] = r[i]
    BY <1>3
  <2>2. QED
    BY <2>1
<1>4. QED
  BY <1>1, <1>2, <1>3

\* A step that puts nothing on a connection.
LEMMA CarryLessStep ==
  ASSUME SyncInv, CarryInv, SyncInv', [WatcherNext]_watcherVars,
         \A d \in Device : hung'[d] \subseteq hung[d],
         \A p \in Pairs : \A k \in 1 .. Len(channel'[p]) : Lessened(p, k)
  PROVE  CarryInv'
<1>0. channel \in Channels /\ channel' \in Channels
  BY DEF SyncInv, SyncTypeOK, Channels
<1>1. \A d \in Device : Queued(tasks[d], copies[d], delivered[d], Fails(d))'
  BY SoundStep
<1>2. ASSUME NEW p \in Pairs, NEW k \in 1 .. Len(channel'[p])
      PROVE  Sound(channel[p][k], p[1])'
  <2>1. channel'[p][k] \in Seq(Event) /\ p[1] \in Device
    BY <1>0 DEF Channels, Pairs
  <2>2. CASE channel'[p][k] = <<>>
    BY <2>2 DEF Sound, Carried, Own, Precedes, Once
  <2>3. CASE k \in 1 .. Len(channel[p]) /\ channel'[p][k] # <<>>
    <3>1. Sound(channel[p][k], p[1]) /\ channel[p][k] \in Seq(Event)
      BY <1>0, <2>3 DEF CarryInv, Channels
    <3>2. Carried(channel'[p][k], copies[p[1]], delivered[p[1]], tasks[p[1]], Fails(p[1]))
      BY <2>1, <2>3, <3>1, Shorter DEF Lessened, Sound
    <3>3. QED
      BY <2>1, <3>2, SoundStep DEF Sound
  <2>4. QED
    BY <2>2, <2>3 DEF Lessened
<1>3. ASSUME NEW d \in Device, NEW b \in hung'[d]
      PROVE  Sound(<<b.event>>, d)'
  <2>1. b \in hung[d] /\ <<b.event>> \in Seq(Event)
    BY <1>3 DEF SyncInv, SyncTypeOK
  <2>2. QED
    BY <2>1, SoundStep DEF CarryInv
<1>4. ASSUME NEW d \in Device \ Unreliable
      PROVE  Apart(d)'
  <2>1. Apart(d)
    BY DEF CarryInv
  <2>2. ASSUME NEW b \in hung[d], NEW p \in Pairs, p[1] = d, NEW k \in 1 .. Len(channel'[p]),
               NEW i \in 1 .. Len(channel'[p][k]), channel'[p][k][i].id = b.event.id
        PROVE  <<p, k>> \in b.on
    <3>1. channel'[p][k] # <<>>
      BY <2>2
    <3>2. k \in 1 .. Len(channel[p])
      BY <3>1 DEF Lessened
    <3>3. channel[p] \in Seq(Seq(Event))
      BY <1>0 DEF Channels
    <3>4. channel[p][k] \in Seq(Event)
      BY <3>2, <3>3
    <3>5. PICK s \in Seq(Event) : s = channel[p][k]
      BY <3>4
    <3>6. \/ channel'[p][k] = s
          \/ s # <<>> /\ channel'[p][k] = Tail(s)
          \/ \E m \in 0 .. Len(s) : channel'[p][k] = SubSeq(s, 1, m)
      BY <3>1, <3>5 DEF Lessened
    <3>7. PICK r \in Seq(Event) : r = channel'[p][k]
      BY <1>0 DEF Channels
    <3>8. i \in 1 .. Len(r) /\ (r = s \/ (s # <<>> /\ r = Tail(s))
                                \/ \E m \in 0 .. Len(s) : r = SubSeq(s, 1, m))
      BY <2>2, <3>6, <3>7
    <3>9. \E j \in 1 .. Len(s) : s[j] = r[i]
      BY <3>8, PartOf
    <3>10. QED
      BY <2>1, <2>2, <3>2, <3>5, <3>7, <3>9 DEF Apart
  <2>3. QED
    BY <2>1, <2>2 DEF Apart
<1>5. QED
  BY <1>1, <1>2, <1>3, <1>4 DEF CarryInv

\* On the device d, event is new to the connections in reached; b knows which
\* have had it, and the other broadcasts are of other events.
Fresh(d, event, reached, others, b) ==
  /\ \A c \in others : c.event.id # event.id
  /\ \A p \in reached : Last(p) \in b.on
  /\ \A p \in reached : \A i \in 1 .. Len(channel[p][Len(channel[p])]) :
       channel[p][Len(channel[p])][i].id # event.id
  /\ \A p \in Pairs : p[1] = d =>
       \A k \in 1 .. Len(channel[p]) : \A i \in 1 .. Len(channel[p][k]) :
         channel[p][k][i].id = event.id => <<p, k>> \in b.on

\* A write puts the event at the end of some connections.
LEMMA WrittenAt ==
  ASSUME SyncTypeOK, NEW reached \in SUBSET links, NEW event \in Event,
         WriteTo(reached, event), NEW p \in Pairs, NEW k \in 1 .. Len(channel'[p])
  PROVE  /\ k \in 1 .. Len(channel[p]) /\ channel[p][k] \in Seq(Event)
         /\ \/ channel'[p][k] = channel[p][k]
            \/ /\ p \in reached /\ k = Len(channel[p])
               /\ channel'[p][k] = Append(channel[p][k], event)
<1>1. /\ channel[p] \in Seq(Seq(Event))
      /\ channel'[p] = channel[p] \/ (p \in reached /\ Sends(p, event))
  BY Written DEF SyncTypeOK
<1>2. k \in 1 .. Len(channel[p])
  BY <1>1 DEF Sends
<1>3. QED
  BY <1>1, <1>2 DEF Sends

\* A write of a sound event that is new where it goes.
LEMMA CarryWriteStep ==
  ASSUME SyncInv, CarryInv, SyncInv', [WatcherNext]_watcherVars,
         NEW d \in Device, NEW reached \in SUBSET Mine(d), NEW event \in Event,
         NEW others \in SUBSET hung[d], NEW b \in Broadcasts, b.event = event,
         WriteTo(reached, event), Leaves(d, others, b),
         Sound(<<event>>, d)',
         d \in Unreliable \/ Fresh(d, event, reached, others, b)
  PROVE  CarryInv'
<1>0. SyncTypeOK /\ reached \in SUBSET links /\ \A p \in reached : p[1] = d
  BY DEF SyncInv, Mine
<1>1. \A e \in Device : Queued(tasks[e], copies[e], delivered[e], Fails(e))'
  BY SoundStep
<1>9. \A p \in Pairs : \A k \in 1 .. Len(channel'[p]) :
        /\ k \in 1 .. Len(channel[p]) /\ channel[p][k] \in Seq(Event)
        /\ \/ channel'[p][k] = channel[p][k]
           \/ /\ p \in reached /\ k = Len(channel[p])
              /\ channel'[p][k] = Append(channel[p][k], event)
  BY <1>0, WrittenAt
<1>2. ASSUME NEW p \in Pairs, NEW k \in 1 .. Len(channel'[p])
      PROVE  Sound(channel[p][k], p[1])'
  <2>1. /\ k \in 1 .. Len(channel[p]) /\ channel[p][k] \in Seq(Event) /\ p[1] \in Device
        /\ \/ channel'[p][k] = channel[p][k]
           \/ /\ p \in reached /\ k = Len(channel[p])
              /\ channel'[p][k] = Append(channel[p][k], event)
    BY <1>9 DEF Pairs
  <2>2. Sound(channel[p][k], p[1])
    BY <2>1 DEF CarryInv
  <2>3. Carried(channel[p][k], copies'[p[1]], delivered'[p[1]], tasks'[p[1]], Fails(p[1]))
    BY <2>1, <2>2, SoundStep DEF Sound, Fails
  <2>4. CASE channel'[p][k] = channel[p][k]
    BY <2>3, <2>4 DEF Sound, Fails
  <2>5. CASE /\ p \in reached /\ k = Len(channel[p])
             /\ channel'[p][k] = Append(channel[p][k], event)
    <3>1. p[1] = d /\ Carried(<<event>>, copies'[d], delivered'[d], tasks'[d], Fails(d))
      BY <1>0, <2>5 DEF Sound, Fails
    <3>2. Fails(d) \/ \A i \in 1 .. Len(channel[p][k]) : channel[p][k][i].id # event.id
      BY <2>5 DEF Fresh, Fails
    <3>3. Carried(channel'[p][k], copies'[d], delivered'[d], tasks'[d], Fails(d))
      BY <2>1, <2>3, <2>5, <3>1, <3>2, Added
    <3>4. QED
      BY <3>1, <3>3 DEF Sound, Fails
  <2>6. QED
    BY <2>1, <2>4, <2>5
<1>3. /\ hung'[d] \subseteq others \cup {b}
      /\ \A e \in Device : e # d => hung'[e] = hung[e]
  BY DEF Leaves
<1>4. ASSUME NEW e \in Device, NEW c \in hung'[e]
      PROVE  Sound(<<c.event>>, e)'
  <2>1. CASE c \in hung[e]
    <3>1. <<c.event>> \in Seq(Event)
      BY <1>0, <2>1 DEF SyncTypeOK
    <3>2. QED
      BY <2>1, <3>1, SoundStep DEF CarryInv
  <2>2. CASE c \notin hung[e]
    <3>1. e = d /\ c = b
      BY <1>3, <2>2
    <3>2. QED
      BY <3>1
  <2>3. QED
    BY <2>1, <2>2
<1>5. ASSUME NEW e \in Device \ Unreliable, e # d
      PROVE  Apart(e)'
  <2>1. Apart(e) /\ hung'[e] = hung[e]
    BY <1>3, <1>5 DEF CarryInv
  <2>2. \A p \in Pairs : p[1] = e => channel'[p] = channel[p]
    BY <1>0, <1>5 DEF WriteTo
  <2>3. QED
    BY <2>1, <2>2 DEF Apart
<1>6. ASSUME d \notin Unreliable
      PROVE  Apart(d)'
  <2>1. Apart(d) /\ Fresh(d, event, reached, others, b)
    BY <1>6 DEF CarryInv
  <2>2. \A c, x \in hung'[d] : c.event.id = x.event.id => c = x
    BY <1>3, <2>1 DEF Apart, Fresh
  <2>3. ASSUME NEW c \in hung'[d], NEW p \in Pairs, p[1] = d, NEW k \in 1 .. Len(channel'[p]),
               NEW i \in 1 .. Len(channel'[p][k]), channel'[p][k][i].id = c.event.id
        PROVE  <<p, k>> \in c.on
    <3>1. /\ k \in 1 .. Len(channel[p]) /\ channel[p][k] \in Seq(Event)
          /\ \/ channel'[p][k] = channel[p][k]
             \/ /\ p \in reached /\ k = Len(channel[p])
                /\ channel'[p][k] = Append(channel[p][k], event)
      BY <1>9
    <3>2. CASE i \in 1 .. Len(channel[p][k]) /\ channel'[p][k][i] = channel[p][k][i]
      <4>1. CASE c \in others
        BY <2>1, <2>3, <3>1, <3>2, <4>1 DEF Apart
      <4>2. CASE c = b
        BY <2>1, <2>3, <3>1, <3>2, <4>2 DEF Fresh
      <4>3. QED
        BY <1>3, <4>1, <4>2
    <3>3. CASE /\ p \in reached /\ k = Len(channel[p])
               /\ channel'[p][k][i] = event
      <4>1. c = b
        BY <1>3, <2>1, <2>3, <3>3 DEF Fresh
      <4>2. QED
        BY <2>1, <3>3, <4>1 DEF Fresh, Last
    <3>4. CASE channel'[p][k] = channel[p][k]
      BY <2>3, <3>2, <3>4
    <3>5. CASE /\ p \in reached /\ k = Len(channel[p])
               /\ channel'[p][k] = Append(channel[p][k], event)
      <4>1. \/ i \in 1 .. Len(channel[p][k]) /\ channel'[p][k][i] = channel[p][k][i]
            \/ channel'[p][k][i] = event
        BY <2>3, <3>1, <3>5
      <4>2. QED
        BY <3>2, <3>3, <3>5, <4>1
    <3>6. QED
      BY <3>1, <3>4, <3>5
  <2>4. QED
    BY <2>2, <2>3 DEF Apart
<1>7. \A e \in Device \ Unreliable : Apart(e)'
  BY <1>5, <1>6
<1>8. QED
  BY <1>1, <1>2, <1>4, <1>7 DEF CarryInv

\* A broadcast brings what no connection has had.
LEMMA CarryBroadcastStep ==
  ASSUME SyncInv, CarryInv, SyncInv', [WatcherNext]_watcherVars,
         NEW d \in Device, Broadcast(d)
  PROVE  CarryInv'
<1>0. /\ channel \in Channels /\ channel' \in Channels
      /\ tasks \in [Device -> Seq(Event)] /\ SyncTypeOK /\ WatcherTypeOK
  BY DEF SyncInv, SyncTypeOK, EchoInv, WatcherTypeOK, Channels
<1>1. /\ tasks[d] # <<>> /\ tasks'[d] = Tail(tasks[d])
      /\ UNCHANGED <<copies, delivered>> /\ Head(tasks[d]) \in Event
  BY <1>0, BroadcastIs DEF Broadcast, RunOnChange
<1>3. ASSUME NEW reached \in SUBSET Mine(d), NEW b \in Broadcasts,
             b.event = Head(tasks[d]), b.on = {Last(p) : p \in reached},
             WriteTo(reached, Head(tasks[d])), Leaves(d, hung[d], b)
      PROVE  CarryInv'
  <2>1. Queued(tasks[d], copies[d], delivered[d], Fails(d))
    BY DEF CarryInv
  <2>2. PICK event \in Event : event = Head(tasks[d])
    BY <1>1
  <2>3. Carried(<<event>>, copies[d], delivered[d], Tail(tasks[d]), Fails(d))
    BY <1>0, <1>1, <2>1, <2>2, Sent
  <2>4. Sound(<<event>>, d)'
    BY <1>1, <2>3 DEF Sound, Fails
  <2>5. ASSUME d \notin Unreliable
        PROVE  Fresh(d, event, reached, hung[d], b)
    <3>0. \A s \in Seq(Event) : Sound(s, d) =>
            \A i \in 1 .. Len(s) : Before(s[i].id, event.id, Fails(d))
      BY <1>0, <1>1, <2>1, <2>2, Sent DEF Sound
    <3>1. ASSUME NEW s \in Seq(Event), Sound(s, d), NEW i \in 1 .. Len(s)
          PROVE  s[i].id # event.id
      <4>1. s[i] \in Event /\ Before(s[i].id, event.id, Fails(d))
        BY <3>0, <3>1
      <4>2. s[i].id \in Nat /\ event.id \in Nat
        BY <4>1 DEF Event
      <4>3. QED
        BY <2>5, <4>1, <4>2 DEF Before, Fails
    <3>2. ASSUME NEW p \in Pairs, p[1] = d, NEW k \in 1 .. Len(channel[p]),
                 NEW i \in 1 .. Len(channel[p][k])
          PROVE  channel[p][k][i].id # event.id
      BY <1>0, <3>1, <3>2 DEF CarryInv, Channels
    <3>3. ASSUME NEW c \in hung[d]
          PROVE  c.event.id # event.id
      <4>1. <<c.event>> \in Seq(Event) /\ Sound(<<c.event>>, d)
        BY <1>0 DEF SyncTypeOK, CarryInv
      <4>2. 1 \in 1 .. Len(<<c.event>>) /\ <<c.event>>[1] = c.event
        OBVIOUS
      <4>3. QED
        BY <3>1, <4>1, <4>2
    <3>4. ASSUME NEW p \in reached
          PROVE  p \in Pairs /\ p[1] = d /\ Len(channel[p]) \in 1 .. Len(channel[p])
      BY <1>0, LastIs DEF Mine, SyncTypeOK
    <3>5. QED
      BY <1>3, <3>2, <3>3, <3>4 DEF Fresh
  <2>6. QED
    BY <1>1, <1>3, <2>2, <2>4, <2>5, CarryWriteStep
<1>4. QED
  BY <1>0, <1>3, BroadcastIs

\* So does a broadcast that goes on, where it goes.
LEMMA CarryGoesOnStep ==
  ASSUME SyncInv, CarryInv, SyncInv', [WatcherNext]_watcherVars,
         NEW d \in Device, GoesOn(d)
  PROVE  CarryInv'
<1>0. SyncTypeOK /\ UNCHANGED <<tasks, copies, delivered>>
  BY DEF SyncInv, GoesOn, watcherVars
<1>1. PICK b \in hung[d], reached \in SUBSET Mine(d), after \in Broadcasts :
        /\ b \in Broadcasts /\ \A p \in reached : Last(p) \notin b.on
        /\ after.event = b.event
        /\ after.on = b.on \cup {Last(p) : p \in reached}
        /\ WriteTo(reached, b.event) /\ Leaves(d, hung[d] \ {b}, after)
  BY <1>0, GoesOnIs
<1>2. PICK event \in Event : event = b.event
  BY <1>1 DEF Broadcasts
<1>3. Sound(<<event>>, d)'
  BY <1>0, <1>2 DEF CarryInv, Sound, Fails
<1>4. ASSUME d \notin Unreliable
      PROVE  Fresh(d, event, reached, hung[d] \ {b}, after)
  <2>1. Apart(d)
    BY <1>4 DEF CarryInv
  <2>2. \A p \in reached : p \in Pairs /\ p[1] = d /\ Len(channel[p]) \in 1 .. Len(channel[p])
    BY <1>0, LastIs DEF Mine, SyncTypeOK
  <2>3. \A c \in hung[d] \ {b} : c.event.id # event.id
    BY <1>2, <2>1 DEF Apart
  <2>4. ASSUME NEW p \in reached, NEW i \in 1 .. Len(channel[p][Len(channel[p])])
        PROVE  channel[p][Len(channel[p])][i].id # event.id
    BY <1>1, <1>2, <2>1, <2>2 DEF Apart, Last
  <2>5. \A q \in Pairs : q[1] = d =>
          \A k \in 1 .. Len(channel[q]) : \A i \in 1 .. Len(channel[q][k]) :
            channel[q][k][i].id = event.id => <<q, k>> \in b.on
    BY <1>2, <2>1 DEF Apart
  <2>6. QED
    BY <1>1, <2>3, <2>4, <2>5 DEF Fresh
<1>5. QED
  BY <1>1, <1>2, <1>3, <1>4, CarryWriteStep

LEMMA CarryStep ==
  ASSUME SyncInv, CarryInv, [SyncNext]_syncVars
  PROVE  CarryInv'
<1>0. /\ SyncTypeOK /\ channel \in Channels /\ channel' \in Channels
      /\ [WatcherNext]_watcherVars /\ SyncInv'
  BY SyncInvStep, StepOfWatchers DEF SyncInv, SyncTypeOK, Channels
<1>c. channel \in Channels
  BY <1>0
<1>1. CASE UNCHANGED <<channel, hung>>
  <2>1. \A p \in Pairs : \A k \in 1 .. Len(channel'[p]) : Lessened(p, k)
    BY <1>1 DEF Lessened
  <2>2. QED
    BY <1>0, <1>1, <2>1, CarryLessStep
<1>2. ASSUME NEW d \in Device, Watches(d)
      PROVE  UNCHANGED <<channel, hung>>
  BY <1>2 DEF Watches, netVars
<1>3. ASSUME NEW d \in Device, Broadcast(d)
      PROVE  CarryInv'
  BY <1>0, <1>3, CarryBroadcastStep
<1>9. ASSUME NEW d \in Device, GoesOn(d)
      PROVE  CarryInv'
  BY <1>0, <1>9, CarryGoesOnStep
<1>d. \A d \in Device : CutShort(d, hung[d]) => \A e \in Device : hung'[e] \subseteq hung[e]
  BY <1>0 DEF CutShort, SyncTypeOK
<1>4. ASSUME NEW p \in Pairs, Trust(p[1], p[2]) \/ Disconnect(p[1], p[2])
      PROVE  CarryInv'
  <2>1. UNCHANGED channel /\ \A e \in Device : hung'[e] \subseteq hung[e]
    BY <1>4, <1>d DEF Trust, Disconnect, Pairs
  <2>2. \A q \in Pairs : \A k \in 1 .. Len(channel'[q]) : Lessened(q, k)
    BY <2>1 DEF Lessened
  <2>3. QED
    BY <1>0, <2>1, <2>2, CarryLessStep
<1>5. ASSUME NEW p \in Pairs, Connect(p[1], p[2])
      PROVE  CarryInv'
  <2>1. p = <<p[1], p[2]>> /\ channel[p] \in Seq(Seq(Event))
    BY <1>0 DEF Pairs, Channels
  <2>2. /\ channel' = [channel EXCEPT ![p] = Append(@, <<>>)]
        /\ \A e \in Device : hung'[e] \subseteq hung[e]
    BY <1>5, <1>d, <2>1 DEF Connect, Pairs
  <2>3. \A q \in Pairs : q # p => channel'[q] = channel[q]
    BY <1>0, <2>2 DEF Channels
  <2>4. channel'[p] = Append(channel[p], <<>>)
    BY <1>0, <2>2 DEF Channels
  <2>5. \A k \in 1 .. Len(channel'[p]) : Lessened(p, k)
    <3>1. <<>> \in Seq(Event)
      OBVIOUS
    <3> DEFINE S == Seq(Event)
    <3> HIDE DEF S
    <3>2. \A c \in Seq(S), s \in S : \A k \in 1 .. Len(Append(c, s)) :
            \/ Append(c, s)[k] = s
            \/ k \in 1 .. Len(c) /\ Append(c, s)[k] = c[k]
      OBVIOUS
    <3>3. QED
      BY <2>1, <2>4, <3>1, <3>2 DEF S, Lessened
  <2>6. \A q \in Pairs : \A k \in 1 .. Len(channel'[q]) : Lessened(q, k)
    BY <2>3, <2>5 DEF Lessened
  <2>7. QED
    BY <1>0, <2>2, <2>6, CarryLessStep
<1>6. ASSUME NEW p \in Pairs, Break(p[1], p[2])
      PROVE  CarryInv'
  <2> DEFINE last == Len(channel[p])
  <2>1. p = <<p[1], p[2]>> /\ channel[p] \in Seq(Seq(Event))
    BY <1>0 DEF Pairs, Channels
  <2>2. p \in links /\ UNCHANGED hung
    BY <1>6, <2>1 DEF Break
  <2>3. last \in 1 .. Len(channel[p]) /\ channel[p][last] \in Seq(Event)
    BY <1>0, <2>1, <2>2 DEF SyncTypeOK
  <2>4. PICK m \in 0 .. Len(channel[p][last]) :
          channel' = [channel EXCEPT ![p][last] = SubSeq(@, 1, m)]
    BY <1>6, <2>1 DEF Break
  <2>5. SubSeq(channel[p][last], 1, m) \in Seq(Event)
    BY <2>3
  <2>6. /\ channel' \in Channels
        /\ Len(channel'[p]) = Len(channel[p])
        /\ channel'[p][last] = SubSeq(channel[p][last], 1, m)
        /\ \A j \in 1 .. Len(channel[p]) : j # last => channel'[p][j] = channel[p][j]
        /\ \A q \in Pairs : q # p => channel'[q] = channel[q]
    BY <1>c, <2>3, <2>4, <2>5, SetConnection
  <2>7. \A q \in Pairs : \A j \in 1 .. Len(channel'[q]) : Lessened(q, j)
    BY <2>6 DEF Lessened
  <2>8. QED
    BY <1>0, <2>2, <2>7, CarryLessStep
<1>7. ASSUME NEW p \in Pairs, NEW k \in 1 .. MaxLinks,
             Receive(p[1], p[2], k) \/ ReceiveUnsaved(p[1], p[2], k)
      PROVE  CarryInv'
  <2>1. Arrives(p[1], p[2], k)
    BY <1>7 DEF Receive, ReceiveUnsaved
  <2>2. /\ p = <<p[1], p[2]>> /\ k \in 1 .. Len(channel[p])
        /\ channel[p][k] # <<>>
        /\ Tail(channel[p][k]) \in Seq(Event) /\ <<>> \in Seq(Event)
    BY <1>0, <2>1, Message
  <2>3. PICK r \in Seq(Event) : /\ r = Tail(channel[p][k]) \/ r = <<>>
                                /\ channel' = [channel EXCEPT ![p][k] = r]
    BY <1>7, <2>2 DEF Receive, ReceiveUnsaved, Takes
  <2>4. UNCHANGED hung
    BY <1>7 DEF Receive, ReceiveUnsaved
  <2>5. /\ channel' \in Channels
        /\ Len(channel'[p]) = Len(channel[p])
        /\ channel'[p][k] = r
        /\ \A j \in 1 .. Len(channel[p]) : j # k => channel'[p][j] = channel[p][j]
        /\ \A q \in Pairs : q # p => channel'[q] = channel[q]
    BY <1>c, <2>2, <2>3, SetConnection
  <2>6. \A q \in Pairs : \A j \in 1 .. Len(channel'[q]) : Lessened(q, j)
    BY <2>2, <2>3, <2>5 DEF Lessened
  <2>7. QED
    BY <1>0, <2>4, <2>6, CarryLessStep
<1>8. QED
  BY <1>1, <1>2, <1>3, <1>4, <1>5, <1>6, <1>7, <1>9 DEF SyncNext, syncVars

LEMMA CarryInvariant == SyncSpec => [](SyncInv /\ CarryInv)
<1>1. SyncInit => SyncInv /\ CarryInv
  <2>1. SyncInit => SyncInv
    BY SyncStart DEF SyncInv
  <2>2. SyncInit => CarryInv
    BY DEF SyncInit, WatcherInit, CarryInv, Queued, Own, Ordered, Apart
  <2>3. QED
    BY <2>1, <2>2
<1>2. SyncInv /\ CarryInv /\ [SyncNext]_syncVars => (SyncInv /\ CarryInv)'
  BY SyncInvStep, CarryStep
<1>3. QED
  BY <1>1, <1>2, PTL DEF SyncSpec

\* However many devices are connected, however connections break and come back:
\* what they carry are copies of the sender's own user, so that no text goes round
\* the devices; and each once, whichever broadcasts hang in drain and go on.
THEOREM LinksCarryOwn == SyncSpec => []LinksCarryOwnCopies
<1>1. ASSUME SyncInv, CarryInv
      PROVE  LinksCarryOwnCopies
  <2> SUFFICES ASSUME NEW p \in Pairs, NEW k \in 1 .. Len(channel[p]),
                      NEW i \in 1 .. Len(channel[p][k])
               PROVE  /\ channel[p][k][i].id \in 1 .. Len(copies[p[1]])
                      /\ channel[p][k][i].text = copies[p[1]][channel[p][k][i].id]
                      /\ p[1] \notin Unreliable =>
                           \A j \in 1 .. (i - 1) :
                             channel[p][k][j].id # channel[p][k][i].id
    BY DEF LinksCarryOwnCopies
  <2>1. /\ Own(channel[p][k], copies[p[1]], delivered[p[1]])
        /\ p[1] \in Unreliable \/ Once(channel[p][k])
    BY <1>1 DEF CarryInv, Sound, Carried, Fails
  <2>2. Len(channel[p][k]) \in Nat
    BY <1>1 DEF SyncInv, SyncTypeOK
  <2>3. \A j \in 1 .. (i - 1) : j \in 1 .. Len(channel[p][k]) /\ j < i
    BY <2>2
  <2>4. QED
    BY <2>1, <2>3 DEF Own, Once
<1>2. QED
  BY <1>1, CarryInvariant, PTL

\* What write() puts on a clipboard, and where.
LEMMA WriteSets ==
  ASSUME clip \in [Device -> Content], NEW d \in Device, NEW e \in Device,
         NEW t \in Text, Write(e, t), clip'[d] # clip[d], clip'[d].text # NoText
  PROVE  d = e /\ clip'[d].text = t
<1>1. \/ UNCHANGED clip
      \/ clip' = [clip EXCEPT ![e] = [text |-> t, id |-> 0]]
      \/ clip' = [clip EXCEPT ![e] = [text |-> NoText, id |-> 0]]
  BY DEF Write, BeginWriteDarwin, WriteWin32, WriteWin32Fails
<1>2. QED
  BY <1>1

\* The program of a device only writes what a device it trusts has copied: an
\* untrusted peer never reaches the clipboard, and texts are not passed on.
THEOREM TrustedTexts == SyncSpec => OnlyTrustedTexts
<1> DEFINE Justified(d) ==
      clip'[d] # clip[d] /\ clip'[d].text # NoText /\ copies'[d] = copies[d] =>
        \E e \in Device : /\ <<d, e>> \in trusts
                          /\ \E i \in 1 .. Len(copies[e]) : copies[e][i] = clip'[d].text
<1>1. ASSUME SyncInv, CarryInv, [SyncNext]_syncVars, NEW d \in Device,
             clip'[d] # clip[d], clip'[d].text # NoText, copies'[d] = copies[d]
      PROVE  \E e \in Device : /\ <<d, e>> \in trusts
                               /\ \E i \in 1 .. Len(copies[e]) : copies[e][i] = clip'[d].text
  <2>0. /\ SyncTypeOK /\ clip \in [Device -> Content]
        /\ copies \in [Device -> Seq(Text \cup {NoText})]
    BY <1>1 DEF SyncInv, EchoInv, WatcherTypeOK
  <2>1. ~ UNCHANGED clip
    BY <1>1
  <2>2. ASSUME NEW e \in Device, NEW t \in Text \cup {NoText}, Copy(e, t)
        PROVE  FALSE
    <3>1. /\ clip' = [clip EXCEPT ![e] = [text |-> t, id |-> Len(copies[e]) + 1]]
          /\ copies' = [copies EXCEPT ![e] = Append(@, t)]
      BY <2>2 DEF Copy
    <3>2. d = e
      BY <1>1, <2>0, <3>1
    <3>3. copies'[d] = Append(copies[d], t) /\ copies[d] \in Seq(Text \cup {NoText})
      BY <2>0, <3>1, <3>2
    <3>4. Len(copies'[d]) = Len(copies[d]) + 1 /\ Len(copies[d]) \in Nat
      BY <3>3
    <3>5. QED
      BY <1>1, <3>4
  <2>3. ASSUME NEW e \in Device, Watches(e)
        PROVE  FALSE
    BY <2>1, <2>2, <2>3 DEF Watches, StartUnchanged, Poll, BeginRead, ReadNothing,
       Prime, CheckIgnores, CheckDetects, FinishWriteDarwin
  <2>4. ASSUME NEW e \in Device, Broadcast(e)
        PROVE  FALSE
    BY <2>1, <2>4 DEF Broadcast, RunOnChange
  <2>8. ASSUME NEW e \in Device, GoesOn(e)
        PROVE  FALSE
    BY <2>1, <2>8 DEF GoesOn, watcherVars
  <2>5. ASSUME NEW p \in Pairs,
               \/ Trust(p[1], p[2]) \/ Connect(p[1], p[2])
               \/ Disconnect(p[1], p[2]) \/ Break(p[1], p[2])
        PROVE  FALSE
    BY <2>1, <2>5 DEF Trust, Connect, Disconnect, Break, watcherVars
  <2>6. ASSUME NEW p \in Pairs, NEW k \in 1 .. MaxLinks,
               Receive(p[1], p[2], k) \/ ReceiveUnsaved(p[1], p[2], k)
        PROVE  \E e \in Device : /\ <<d, e>> \in trusts
                                 /\ \E i \in 1 .. Len(copies[e]) : copies[e][i] = clip'[d].text
    <3> DEFINE message == channel[p][k][1]
    <3>1. Arrives(p[1], p[2], k)
      BY <2>6 DEF Receive, ReceiveUnsaved
    <3>2. /\ p = <<p[1], p[2]>> /\ p[1] \in Device /\ p[2] \in Device
          /\ k \in 1 .. Len(channel[p])
          /\ channel[p][k] \in Seq(Event) /\ channel[p][k] # <<>>
          /\ Head(channel[p][k]) \in Event
      BY <2>0, <3>1, Message DEF Pairs
    <3>3. <<p[2], p[1]>> \in trusts /\ Write(p[2], Head(channel[p][k]).text)
      BY <2>1, <2>6, <3>2 DEF Receive, ReceiveUnsaved, watcherVars
    <3>4. Head(channel[p][k]).text \in Text
      BY <3>2 DEF Event
    <3>5. d = p[2] /\ clip'[d].text = Head(channel[p][k]).text
      BY <1>1, <2>0, <3>2, <3>3, <3>4, WriteSets
    <3>6. Own(channel[p][k], copies[p[1]], delivered[p[1]])
      BY <1>1, <3>2 DEF CarryInv, Sound, Carried
    <3>7. 1 \in 1 .. Len(channel[p][k]) /\ Head(channel[p][k]) = message
      BY <3>2
    <3>8. /\ message.id \in 1 .. Len(copies[p[1]])
          /\ message.text = copies[p[1]][message.id]
      BY <3>6, <3>7 DEF Own
    <3>9. QED
      BY <3>2, <3>3, <3>5, <3>7, <3>8
  <2>7. QED
    BY <1>1, <2>1, <2>3, <2>4, <2>5, <2>6, <2>8 DEF SyncNext, syncVars
<1>2. ASSUME SyncInv, CarryInv, [SyncNext]_syncVars
      PROVE  [\A d \in Device : Justified(d)]_syncVars
  BY <1>1, <1>2
<1>3. QED
  BY <1>2, CarryInvariant, PTL DEF SyncSpec, OnlyTrustedTexts
==============================================================================
