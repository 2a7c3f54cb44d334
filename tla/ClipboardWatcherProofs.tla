----------------------- MODULE ClipboardWatcherProofs ------------------------
(***************************************************************************)
(* Theorems about ClipboardWatcher, for every set of devices and texts and *)
(* every bound.                                                            *)
(***************************************************************************)
EXTENDS ClipboardWatcher, TLAPS

-----------------------------------------------------------------------------
(***************************************************************************)
(* Type correctness: every action of the watcher and of its environment    *)
(* keeps the state of clipboard/watcher.py in its type.                    *)
(***************************************************************************)
LEMMA HashType == \A t \in Text : Hash(t) \in Digest
BY DEF Digest

LEMMA WatcherTypeStep ==
  ASSUME WatcherTypeOK, [WatcherNext]_watcherVars
  PROVE  WatcherTypeOK'
<1> USE TextAssumption, HashType DEF WatcherTypeOK, Content, Remember
<1>1. ASSUME NEW d \in Device, NEW t \in Text \cup {NoText}, Copy(d, t)
      PROVE  WatcherTypeOK'
  <2>1. /\ copies[d] \in Seq(Text \cup {NoText})
        /\ Append(copies[d], t) \in Seq(Text \cup {NoText})
        /\ Len(copies[d]) + 1 \in Nat
    OBVIOUS
  <2>2. [text |-> t, id |-> Len(copies[d]) + 1] \in Content
    BY <2>1
  <2>3. QED
    BY <1>1, <2>1, <2>2 DEF Copy
<1>2. ASSUME NEW d \in Device, StartUnchanged(d)
      PROVE  WatcherTypeOK'
  BY <1>2 DEF StartUnchanged
<1>3. ASSUME NEW d \in Device, BeginRead(d)
      PROVE  WatcherTypeOK'
  BY <1>3 DEF BeginRead
<1>4. ASSUME NEW d \in Device, ReadNothing(d)
      PROVE  WatcherTypeOK'
  BY <1>4 DEF ReadNothing
<1>5. ASSUME NEW d \in Device, Prime(d)
      PROVE  WatcherTypeOK'
  <2>1. clip[d].text \in Text
    BY <1>5 DEF Prime, FindsText
  <2>2. CASE clip[d].text \in Unencodable
    BY <1>5, <2>2 DEF Prime
  <2>3. CASE clip[d].text \notin Unencodable
    <3>1. Hash(clip[d].text) \in Digest
      BY <2>1, HashType
    <3>2. lastHash' = lastHash \/ lastHash' = [lastHash EXCEPT ![d] = Hash(clip[d].text)]
      BY <1>5, <2>3 DEF Prime
    <3>3. phase' \in [Device -> {"new", "running", "stopped", "failed"}]
      BY <1>5, <2>3 DEF Prime
    <3>4. /\ reading' = [reading EXCEPT ![d] = FALSE]
          /\ UNCHANGED <<clip, unseen, writing, tasks, copies, delivered>>
      BY <1>5 DEF Prime
    <3>5. lastHash' \in [Device -> Digest]
      BY <3>1, <3>2
    <3>6. QED
      BY <3>3, <3>4, <3>5
  <2>4. QED
    BY <2>2, <2>3
<1>6. ASSUME NEW d \in Device, CheckIgnores(d)
      PROVE  WatcherTypeOK'
  BY <1>6 DEF CheckIgnores
<1>7. ASSUME NEW d \in Device, CheckDetects(d)
      PROVE  WatcherTypeOK'
  <2>1. clip[d] \in Event /\ clip[d].id \in Nat
    BY <1>7 DEF CheckDetects, FindsText, Event
  <2>2. Append(tasks[d], clip[d]) \in Seq(Event)
    BY <2>1
  <2>3. CASE clip[d].text \in Big
    BY <1>7, <2>3 DEF CheckDetects
  <2>4. CASE clip[d].text \notin Big
    <3>1. Hash(clip[d].text) \in Digest
      BY <1>7, HashType DEF CheckDetects, FindsText
    <3>2. lastHash' \in [Device -> Digest]
      BY <1>7, <3>1 DEF CheckDetects
    <3>3. /\ tasks' = [tasks EXCEPT ![d] = Append(@, clip[d])]
          /\ delivered' = [delivered EXCEPT ![d] = clip[d].id]
          /\ reading' = [reading EXCEPT ![d] = FALSE]
          /\ UNCHANGED <<clip, unseen, phase, writing, copies>>
      BY <1>7, <2>4 DEF CheckDetects, Emit
    <3>4. QED
      BY <2>1, <2>2, <3>2, <3>3
  <2>5. QED
    BY <2>3, <2>4
<1>8. ASSUME NEW d \in Device, NEW t \in Text, MayWrite(d, t), BeginWriteDarwin(d, t)
      PROVE  WatcherTypeOK'
  BY <1>8 DEF BeginWriteDarwin
<1>9. ASSUME NEW d \in Device, FinishWriteDarwin(d)
      PROVE  WatcherTypeOK'
  BY <1>9 DEF FinishWriteDarwin
<1>10. ASSUME NEW d \in Device, NEW t \in Text, MayWrite(d, t), WriteWin32(d, t)
       PROVE  WatcherTypeOK'
  BY <1>10 DEF WriteWin32
<1>11. ASSUME NEW d \in Device, NEW t \in Text, MayWrite(d, t), WriteWin32Fails(d, t)
       PROVE  WatcherTypeOK'
  <2>1. lastHash' \in [Device -> Digest]
    BY <1>11 DEF WriteWin32Fails
  <2>2. CASE UNCHANGED <<clip, unseen>>
    BY <1>11, <2>1, <2>2 DEF WriteWin32Fails
  <2>3. CASE /\ clip' = [clip EXCEPT ![d] = [text |-> NoText, id |-> 0]]
             /\ \E recorded \in BOOLEAN : unseen' = [unseen EXCEPT ![d] = ~recorded]
    <3>1. [text |-> NoText, id |-> 0] \in Content
      OBVIOUS
    <3>2. QED
      BY <1>11, <2>1, <2>3, <3>1 DEF WriteWin32Fails
  <2>4. QED
    BY <1>11, <2>2, <2>3 DEF WriteWin32Fails
<1>12. ASSUME NEW d \in Device, Stop(d)
       PROVE  WatcherTypeOK'
  BY <1>12 DEF Stop
<1>13. ASSUME NEW d \in Device, RunOnChange(d)
       PROVE  WatcherTypeOK'
  <2>1. tasks[d] \in Seq(Event) /\ Tail(tasks[d]) \in Seq(Event)
    BY <1>13 DEF RunOnChange
  <2>2. QED
    BY <1>13, <2>1 DEF RunOnChange
<1>14. CASE UNCHANGED watcherVars
  BY <1>14 DEF watcherVars
<1>15. QED
  BY <1>1, <1>2, <1>3, <1>4, <1>5, <1>6, <1>7, <1>8, <1>9, <1>10, <1>11,
     <1>12, <1>13, <1>14 DEF WatcherNext, Poll, Write

\* Every reachable state is well typed: in particular a queued event always
\* carries a text, never an empty clipboard.
THEOREM WatcherTypeCorrect == WatcherSpec => []WatcherTypeOK
<1>1. WatcherInit => WatcherTypeOK
  BY TextAssumption DEF WatcherInit, WatcherTypeOK, Content, Event, Digest
<1>2. QED
  BY <1>1, WatcherTypeStep, PTL DEF WatcherSpec

-----------------------------------------------------------------------------
(***************************************************************************)
(* Anti-echo.  NoEcho alone is not inductive: that a poll never reads what *)
(* write() wrote rests on the change counter, as UnseenIsForeign says.     *)
(***************************************************************************)
\* A content that carries a copy's index carries its text.
ContentIsCopy ==
  \A d \in Device :
    /\ clip[d].id <= Len(copies[d])
    /\ clip[d].id # 0 => clip[d].text = copies[d][clip[d].id]

\* A text that no user copied is not being read, and the counter moves for it
\* only while its write has not returned.
UnseenIsForeign ==
  \A d \in Device :
    /\ clip[d].id = 0 /\ clip[d].text # NoText =>
         ~reading[d] /\ (unseen[d] => writing[d] # NoText)
    /\ writing[d] # NoText => ~reading[d]

EchoInv == WatcherTypeOK /\ ContentIsCopy /\ UnseenIsForeign /\ NoEcho

LEMMA EchoStep ==
  ASSUME EchoInv, WatcherTypeOK', [WatcherNext]_watcherVars
  PROVE  EchoInv'
<1> USE TextAssumption
<1>0. WatcherTypeOK /\ ContentIsCopy /\ UnseenIsForeign /\ NoEcho
  BY DEF EchoInv
<1>1. ASSUME NEW d \in Device, NEW t \in Text \cup {NoText}, Copy(d, t)
      PROVE  EchoInv'
  <2>1. /\ copies[d] \in Seq(Text \cup {NoText})
        /\ clip' = [clip EXCEPT ![d] = [text |-> t, id |-> Len(copies[d]) + 1]]
        /\ copies' = [copies EXCEPT ![d] = Append(copies[d], t)]
        /\ UNCHANGED <<reading, writing, tasks>>
    BY <1>0, <1>1 DEF Copy, WatcherTypeOK
  <2>2. /\ Len(Append(copies[d], t)) = Len(copies[d]) + 1
        /\ Append(copies[d], t)[Len(copies[d]) + 1] = t
        /\ \A i \in 1 .. Len(copies[d]) : Append(copies[d], t)[i] = copies[d][i]
    BY <2>1
  <2>3. ContentIsCopy'
    BY <1>0, <2>1, <2>2 DEF ContentIsCopy, WatcherTypeOK
  <2>4. UnseenIsForeign'
    BY <1>0, <1>1, <2>1 DEF UnseenIsForeign, WatcherTypeOK, Copy
  <2>5. NoEcho'
    BY <1>0, <2>1, <2>2 DEF NoEcho, WatcherTypeOK
  <2>6. QED
    BY <2>3, <2>4, <2>5 DEF EchoInv
<1>2. ASSUME NEW d \in Device, StartUnchanged(d)
      PROVE  EchoInv'
  BY <1>0, <1>2 DEF StartUnchanged, EchoInv, ContentIsCopy, UnseenIsForeign, NoEcho
<1>3. ASSUME NEW d \in Device, BeginRead(d)
      PROVE  EchoInv'
  BY <1>0, <1>3 DEF BeginRead, Idle, WatcherTypeOK, EchoInv, ContentIsCopy, UnseenIsForeign, NoEcho
<1>4. ASSUME NEW d \in Device, ReadNothing(d)
      PROVE  EchoInv'
  BY <1>0, <1>4 DEF ReadNothing, WatcherTypeOK, EchoInv, ContentIsCopy, UnseenIsForeign, NoEcho
<1>5. ASSUME NEW d \in Device, Prime(d)
      PROVE  EchoInv'
  BY <1>0, <1>5 DEF Prime, WatcherTypeOK, EchoInv, ContentIsCopy, UnseenIsForeign, NoEcho
<1>6. ASSUME NEW d \in Device, CheckIgnores(d)
      PROVE  EchoInv'
  BY <1>0, <1>6 DEF CheckIgnores, WatcherTypeOK, EchoInv, ContentIsCopy, UnseenIsForeign, NoEcho
<1>7. ASSUME NEW d \in Device, CheckDetects(d)
      PROVE  EchoInv'
  <2>1. /\ reading' = [reading EXCEPT ![d] = FALSE]
        /\ UNCHANGED <<clip, unseen, writing, copies>>
    BY <1>7 DEF CheckDetects
  <2>2. ContentIsCopy' /\ UnseenIsForeign'
    BY <1>0, <2>1 DEF WatcherTypeOK, ContentIsCopy, UnseenIsForeign
  <2>3. CASE UNCHANGED tasks
    BY <1>0, <2>1, <2>2, <2>3 DEF EchoInv, NoEcho
  <2>4. CASE tasks' = [tasks EXCEPT ![d] = Append(tasks[d], clip[d])]
    <3>1. /\ clip[d].id \in 1 .. Len(copies[d])
          /\ clip[d].text = copies[d][clip[d].id]
      BY <1>0, <1>7 DEF CheckDetects, FindsText, ContentIsCopy, UnseenIsForeign, WatcherTypeOK, Content
    <3>2. \A i \in 1 .. Len(tasks'[d]) :
            /\ tasks'[d][i].id \in 1 .. Len(copies[d])
            /\ tasks'[d][i].text = copies[d][tasks'[d][i].id]
      <4>1. clip[d] \in Event
        BY <1>0, <1>7 DEF CheckDetects, FindsText, WatcherTypeOK, Content, Event
      <4>2. /\ tasks[d] \in Seq(Event)
            /\ tasks'[d] = Append(tasks[d], clip[d])
        BY <1>0, <2>4 DEF WatcherTypeOK
      <4>3. \A i \in 1 .. Len(tasks'[d]) :
              tasks'[d][i] = clip[d] \/ (i \in 1 .. Len(tasks[d]) /\ tasks'[d][i] = tasks[d][i])
        BY <4>1, <4>2
      <4>4. QED
        BY <1>0, <3>1, <4>3 DEF NoEcho
    <3>3. \A e \in Device : e # d => tasks'[e] = tasks[e]
      BY <1>0, <2>4 DEF WatcherTypeOK
    <3>4. NoEcho'
      BY <1>0, <2>1, <3>2, <3>3 DEF NoEcho
    <3>5. QED
      BY <2>2, <3>4 DEF EchoInv
  <2>5. QED
    BY <1>7, <2>3, <2>4 DEF CheckDetects, Emit
<1>8. ASSUME NEW d \in Device, NEW t \in Text, MayWrite(d, t), BeginWriteDarwin(d, t)
      PROVE  EchoInv'
  BY <1>0, <1>8 DEF BeginWriteDarwin, MayWrite, Idle, WatcherTypeOK, EchoInv, ContentIsCopy, UnseenIsForeign, NoEcho
<1>9. ASSUME NEW d \in Device, FinishWriteDarwin(d)
      PROVE  EchoInv'
  BY <1>0, <1>9 DEF FinishWriteDarwin, WatcherTypeOK, EchoInv, ContentIsCopy, UnseenIsForeign, NoEcho
<1>10. ASSUME NEW d \in Device, NEW t \in Text, MayWrite(d, t), WriteWin32(d, t)
       PROVE  EchoInv'
  BY <1>0, <1>10 DEF WriteWin32, MayWrite, Idle, WatcherTypeOK, EchoInv, ContentIsCopy, UnseenIsForeign, NoEcho
<1>11. ASSUME NEW d \in Device, NEW t \in Text, MayWrite(d, t), WriteWin32Fails(d, t)
       PROVE  EchoInv'
  <2>1. UNCHANGED <<reading, writing, tasks, copies>> /\ ~reading[d]
    BY <1>11 DEF WriteWin32Fails, MayWrite, Idle
  <2>2. CASE UNCHANGED <<clip, unseen>>
    BY <1>0, <2>1, <2>2 DEF EchoInv, ContentIsCopy, UnseenIsForeign, NoEcho
  <2>3. CASE /\ clip' = [clip EXCEPT ![d] = [text |-> NoText, id |-> 0]]
             /\ \E recorded \in BOOLEAN : unseen' = [unseen EXCEPT ![d] = ~recorded]
    BY <1>0, <2>1, <2>3 DEF WatcherTypeOK, EchoInv, ContentIsCopy, UnseenIsForeign, NoEcho
  <2>4. QED
    BY <1>11, <2>2, <2>3 DEF WriteWin32Fails
<1>12. ASSUME NEW d \in Device, Stop(d)
       PROVE  EchoInv'
  BY <1>0, <1>12 DEF Stop, EchoInv, ContentIsCopy, UnseenIsForeign, NoEcho
<1>13. ASSUME NEW d \in Device, RunOnChange(d)
       PROVE  EchoInv'
  <2>1. /\ tasks[d] \in Seq(Event) /\ tasks[d] # <<>>
        /\ tasks' = [tasks EXCEPT ![d] = Tail(tasks[d])]
        /\ UNCHANGED <<clip, unseen, reading, writing, copies>>
    BY <1>0, <1>13 DEF RunOnChange, WatcherTypeOK
  <2>2. \A i \in 1 .. Len(Tail(tasks[d])) :
          i + 1 \in 1 .. Len(tasks[d]) /\ Tail(tasks[d])[i] = tasks[d][i + 1]
    BY <2>1
  <2>3. \A i \in 1 .. Len(tasks'[d]) :
          /\ tasks'[d][i].id \in 1 .. Len(copies[d])
          /\ tasks'[d][i].text = copies[d][tasks'[d][i].id]
    <3>1. tasks'[d] = Tail(tasks[d])
      BY <1>0, <2>1 DEF WatcherTypeOK
    <3>2. QED
      BY <1>0, <2>2, <3>1 DEF NoEcho
  <2>4. \A e \in Device : e # d => tasks'[e] = tasks[e]
    BY <1>0, <2>1 DEF WatcherTypeOK
  <2>5. NoEcho'
    BY <1>0, <2>1, <2>3, <2>4 DEF NoEcho
  <2>6. QED
    BY <1>0, <2>1, <2>5 DEF EchoInv, ContentIsCopy, UnseenIsForeign
<1>14. CASE UNCHANGED watcherVars
  BY <1>0, <1>14 DEF watcherVars, EchoInv, ContentIsCopy, UnseenIsForeign, NoEcho
<1>15. QED
  BY <1>1, <1>2, <1>3, <1>4, <1>5, <1>6, <1>7, <1>8, <1>9, <1>10, <1>11,
     <1>12, <1>13, <1>14 DEF WatcherNext, Poll, Write

\* No event ever carries a text that write() put on the clipboard, on either
\* platform, whatever fails and however the user and the peers interleave.
THEOREM EchoFree == WatcherSpec => []NoEcho
<1>1. WatcherInit => EchoInv
  BY TextAssumption DEF WatcherInit, EchoInv, WatcherTypeOK, Content, Event,
     Digest, ContentIsCopy, UnseenIsForeign, NoEcho
<1>2. EchoInv /\ [WatcherNext]_watcherVars => EchoInv'
  BY EchoStep, WatcherTypeStep DEF EchoInv
<1>3. EchoInv => NoEcho
  BY DEF EchoInv
<1>4. QED
  BY <1>1, <1>2, <1>3, PTL DEF WatcherSpec

-----------------------------------------------------------------------------
(***************************************************************************)
(* The clipboard never goes back to a copy made before the last one        *)
(* delivered, and where no call fails that one is known.                   *)
(***************************************************************************)
KnownInv ==
  \A d \in Device :
    /\ delivered[d] <= Len(copies[d])
    /\ clip[d].id = 0 \/ delivered[d] <= clip[d].id
    /\ /\ d \notin Unreliable
       /\ clip[d].id \in 1 .. delivered[d] /\ clip[d].text # NoText
       => lastHash[d] = Hash(clip[d].text)
    /\ writing[d] # NoText => clip[d].id \notin 1 .. delivered[d]

LEMMA KnownStep ==
  ASSUME EchoInv, KnownInv, [WatcherNext]_watcherVars
  PROVE  KnownInv'
<1> USE TextAssumption
<1>0. WatcherTypeOK /\ ContentIsCopy /\ UnseenIsForeign
  BY DEF EchoInv
<1>1. ASSUME NEW d \in Device, NEW t \in Text \cup {NoText}, Copy(d, t)
      PROVE  KnownInv'
  <2>1. /\ copies[d] \in Seq(Text \cup {NoText})
        /\ clip' = [clip EXCEPT ![d] = [text |-> t, id |-> Len(copies[d]) + 1]]
        /\ copies' = [copies EXCEPT ![d] = Append(copies[d], t)]
        /\ UNCHANGED <<lastHash, writing, delivered>>
    BY <1>0, <1>1 DEF Copy, WatcherTypeOK
  <2>2. Len(Append(copies[d], t)) = Len(copies[d]) + 1
    BY <2>1
  <2>3. QED
    BY <1>0, <2>1, <2>2 DEF KnownInv, WatcherTypeOK
<1>2. ASSUME NEW d \in Device, StartUnchanged(d) \/ BeginRead(d) \/ ReadNothing(d)
                               \/ CheckIgnores(d) \/ Stop(d) \/ RunOnChange(d)
      PROVE  KnownInv'
  BY <1>2 DEF StartUnchanged, BeginRead, ReadNothing, CheckIgnores, Stop,
     RunOnChange, KnownInv
<1>3. ASSUME NEW d \in Device, Prime(d)
      PROVE  KnownInv'
  <2>1. UNCHANGED <<clip, writing, copies, delivered>>
    BY <1>3 DEF Prime
  <2>2. lastHash' = lastHash \/ lastHash' = [lastHash EXCEPT ![d] = Hash(clip[d].text)]
    BY <1>3 DEF Prime, Remember
  <2>3. QED
    BY <1>0, <2>1, <2>2 DEF KnownInv, WatcherTypeOK
<1>4. ASSUME NEW d \in Device, CheckDetects(d)
      PROVE  KnownInv'
  <2>1. /\ UNCHANGED <<clip, writing, copies>>
        /\ lastHash' = [lastHash EXCEPT ![d] = Hash(clip[d].text)]
        /\ writing[d] = NoText
    BY <1>0, <1>4 DEF CheckDetects, FindsText, Remember, UnseenIsForeign
  <2>2. clip[d].id <= Len(copies[d]) /\ clip[d].id \in Nat
    BY <1>0 DEF ContentIsCopy, WatcherTypeOK, Content
  <2>3. CASE UNCHANGED delivered
    BY <1>0, <2>1, <2>3 DEF KnownInv, WatcherTypeOK
  <2>4. CASE delivered' = [delivered EXCEPT ![d] = clip[d].id]
    BY <1>0, <2>1, <2>2, <2>4 DEF KnownInv, WatcherTypeOK
  <2>5. QED
    BY <1>4, <2>3, <2>4 DEF CheckDetects, Emit
<1>5. ASSUME NEW d \in Device, NEW t \in Text, Write(d, t)
      PROVE  KnownInv'
  <2>1. /\ UNCHANGED <<copies, delivered>>
        /\ \A e \in Device \ {d} : lastHash'[e] = lastHash[e] /\ writing'[e] = writing[e]
        /\ \A e \in Device \ {d} : clip'[e] = clip[e]
    BY <1>0, <1>5 DEF Write, BeginWriteDarwin, WriteWin32, WriteWin32Fails,
       Remember, WatcherTypeOK
  <2>2. CASE BeginWriteDarwin(d, t) \/ WriteWin32(d, t)
    <3>1. clip'[d].id = 0
      BY <1>0, <2>2 DEF BeginWriteDarwin, WriteWin32, WatcherTypeOK
    <3>2. QED
      BY <2>1, <3>1 DEF KnownInv
  <2>3. CASE WriteWin32Fails(d, t)
    <3>1. d \in Unreliable /\ writing' = writing
      BY <2>3 DEF WriteWin32Fails
    <3>2. clip'[d] = clip[d] \/ clip'[d].id = 0
      BY <1>0, <2>3 DEF WriteWin32Fails, WatcherTypeOK
    <3>3. QED
      BY <2>1, <3>1, <3>2 DEF KnownInv
  <2>4. QED
    BY <1>5, <2>2, <2>3 DEF Write
<1>6. ASSUME NEW d \in Device, FinishWriteDarwin(d)
      PROVE  KnownInv'
  <2>1. clip[d].id \notin 1 .. delivered[d]
    BY <1>6 DEF FinishWriteDarwin, KnownInv
  <2>2. /\ UNCHANGED <<clip, copies, delivered>>
        /\ writing'[d] = NoText
        /\ \A e \in Device \ {d} : lastHash'[e] = lastHash[e] /\ writing'[e] = writing[e]
    BY <1>0, <1>6 DEF FinishWriteDarwin, Remember, WatcherTypeOK
  <2>3. QED
    BY <2>1, <2>2 DEF KnownInv
<1>7. CASE UNCHANGED watcherVars
  BY <1>7 DEF watcherVars, KnownInv
<1>8. QED
  BY <1>1, <1>2, <1>3, <1>4, <1>5, <1>6, <1>7 DEF WatcherNext, Poll

LEMMA KnownInvariant == WatcherSpec => [](EchoInv /\ KnownInv)
<1>1. WatcherInit => EchoInv /\ KnownInv
  BY TextAssumption DEF WatcherInit, EchoInv, WatcherTypeOK, Content, Event,
     Digest, ContentIsCopy, UnseenIsForeign, NoEcho, KnownInv
<1>2. EchoInv /\ KnownInv /\ [WatcherNext]_watcherVars
        => (EchoInv /\ KnownInv)'
  BY EchoStep, KnownStep, WatcherTypeStep DEF EchoInv
<1>3. QED
  BY <1>1, <1>2, PTL DEF WatcherSpec

\* On macOS, and on Windows as long as no call fails, a poll that looks again
\* at an old text finds its digest known: the second line of the anti-echo
\* defence stands behind the change counter.
THEOREM OldTextKnown == WatcherSpec => []OldTextIsKnown
<1>1. EchoInv /\ KnownInv => OldTextIsKnown
  BY DEF EchoInv, KnownInv, OldTextIsKnown, UnseenIsForeign, WatcherTypeOK, Content
<1>2. QED
  BY <1>1, KnownInvariant, PTL

\* What a step means to the feed.
LEMMA FeedStep ==
  ASSUME EchoInv, KnownInv, [WatcherNext]_watcherVars
  PROVE  [Feed!FeedNext]_Feed!feedVars
<1> USE TextAssumption
<1>0. WatcherTypeOK
  BY DEF EchoInv
<1>1. ASSUME NEW d \in Device, NEW t \in Text \cup {NoText}, Copy(d, t)
      PROVE  Feed!FeedNext
  BY <1>1 DEF Copy, Feed!FeedNext, Feed!UserCopies
<1>2. ASSUME NEW d \in Device, CheckDetects(d)
      PROVE  Feed!FeedNext \/ UNCHANGED Feed!feedVars
  <2>1. CASE clip[d].text \in Big
    BY <1>2, <2>1 DEF CheckDetects, Feed!feedVars
  <2>2. CASE clip[d].text \notin Big
    <3>1. /\ clip[d].id \in 1 .. Len(copies[d])
          /\ clip[d].id > delivered[d] \/ (d \in Unreliable /\ clip[d].id = delivered[d])
          /\ clip[d].text = copies[d][clip[d].id]
      BY <1>0, <1>2 DEF CheckDetects, FindsText, EchoInv, ContentIsCopy,
         UnseenIsForeign, KnownInv, WatcherTypeOK, Content
    <3>2. clip[d] = [text |-> copies[d][clip[d].id], id |-> clip[d].id]
      BY <1>0, <3>1 DEF WatcherTypeOK, Content
    <3>3. /\ delivered' = [delivered EXCEPT ![d] = clip[d].id]
          /\ tasks' = [tasks EXCEPT ![d] = Append(@, clip[d])]
          /\ UNCHANGED copies
      BY <1>2, <2>2 DEF CheckDetects, Emit
    <3>4. Feed!Deliver(d)
      BY <3>1, <3>2, <3>3 DEF Feed!Deliver
    <3>5. QED
      BY <3>4 DEF Feed!FeedNext
  <2>3. QED
    BY <2>1, <2>2
<1>3. ASSUME NEW d \in Device, RunOnChange(d)
      PROVE  Feed!FeedNext
  BY <1>3 DEF RunOnChange, Feed!FeedNext, Feed!Take
<1>4. ASSUME NEW d \in Device, StartUnchanged(d) \/ BeginRead(d) \/ ReadNothing(d)
                               \/ Prime(d) \/ CheckIgnores(d) \/ Stop(d)
      PROVE  UNCHANGED Feed!feedVars
  BY <1>4 DEF StartUnchanged, BeginRead, ReadNothing, Prime, CheckIgnores,
     Stop, Feed!feedVars
<1>5. ASSUME NEW d \in Device, NEW t \in Text, Write(d, t)
      PROVE  UNCHANGED Feed!feedVars
  BY <1>5 DEF Write, BeginWriteDarwin, WriteWin32, WriteWin32Fails,
     Feed!feedVars
<1>6. ASSUME NEW d \in Device, FinishWriteDarwin(d)
      PROVE  UNCHANGED Feed!feedVars
  BY <1>6 DEF FinishWriteDarwin, Feed!feedVars
<1>7. CASE UNCHANGED watcherVars
  BY <1>7 DEF watcherVars, Feed!feedVars
<1>8. QED
  BY <1>1, <1>2, <1>3, <1>4, <1>5, <1>6, <1>7 DEF WatcherNext, Poll

\* The watcher implements ClipboardFeed: on_change is given user copies only,
\* unaltered and in order, and without repetition unless Windows calls fail.
THEOREM WatcherImplementsFeed == WatcherSpec => ImplementsFeed
<1>1. WatcherInit => Feed!FeedInit
  BY DEF WatcherInit, Feed!FeedInit
<1>2. EchoInv /\ KnownInv /\ [WatcherNext]_watcherVars => [Feed!FeedNext]_Feed!feedVars
  BY FeedStep
<1>3. QED
  BY <1>1, <1>2, KnownInvariant, PTL DEF WatcherSpec, ImplementsFeed, Feed!FeedSpec
==============================================================================
