-------------------------- MODULE ClipboardWatcher ---------------------------
(***************************************************************************)
(* ghost_sync/clipboard: the polling clipboard watcher of each device and  *)
(* the operating-system clipboard it watches.                              *)
(*                                                                         *)
(* The watcher runs on the asyncio thread: a check (read, compare, emit)   *)
(* and a write each run to completion before another task of the process   *)
(* runs.  The clipboard itself belongs to the operating system, and other  *)
(* programs change it at any time, between two system calls of the         *)
(* watcher too.  So a read is two steps (the change counter, then the      *)
(* contents) and so is a macOS write (the contents, then the counter); a   *)
(* Windows write holds the clipboard open and is one step.                 *)
(*                                                                         *)
(* The change counter (NSPasteboard changeCount, Windows clipboard         *)
(* sequence number) is only ever compared with the value last recorded,    *)
(* so the model keeps `unseen': the two differ.                            *)
(***************************************************************************)
EXTENDS Naturals, Sequences

CONSTANTS
  Device,      \* devices; one watcher process runs on each
  Darwin,      \* those that run macOS; the others run Windows
  Text,        \* clipboard texts
  Empty,       \* the empty text, "" in the code
  Big,         \* those above MAX_CLIPBOARD_SIZE once encoded
  Unencodable, \* those with lone surrogates: text.encode("utf-8") raises
  NoText,      \* clipboard empty, or holding something else than text
  ApiMayFail,  \* may Win32 calls (OpenClipboard, GlobalAlloc, ...) fail?
  MaxCopies,   \* bound: copies made by the user of a device
  MaxTasks     \* bound: on_change tasks waiting to run on a device

ASSUME TextAssumption ==
  /\ Darwin \subseteq Device
  /\ Big \subseteq Text
  /\ Unencodable \subseteq Text
  /\ Empty \in Text \ (Big \cup Unencodable)
  /\ NoText \notin Text
ASSUME ApiAssumption == ApiMayFail \in BOOLEAN
ASSUME BoundAssumption == MaxCopies \in Nat /\ MaxTasks \in Nat

VARIABLES
  clip,      \* clip[d]: what the OS clipboard of d holds, and whose copy it is
  unseen,    \* the change counter differs from _last_change_count/_last_sequence
  lastHash,  \* _last_hash
  phase,     \* "new" until start() returns; then "running"; "stopped"; "failed"
  reading,   \* the counter has been read, the contents not yet
  writing,   \* text set by an unfinished macOS _write_clipboard, or NoText
  tasks,     \* on_change tasks created and not yet run, oldest first
  copies,    \* history: what the user of d has copied, oldest first
  delivered  \* history: index in copies[d] of the last copy emitted

watcherVars == <<clip, unseen, lastHash, phase, reading, writing, tasks,
                 copies, delivered>>

(***************************************************************************)
(* SHA-256 is taken to be collision-free: a digest is a tagged text.       *)
(* NoHash is the initial b"", the digest of no text.                       *)
(***************************************************************************)
Hash(text) == <<"sha256", text>>
NoHash == <<"empty">>
Digest == {NoHash} \cup {Hash(text) : text \in Text}

\* Clipboard contents: the text and the index in copies of the user copy that
\* put it there, 0 for what the watcher wrote or was there before it started.
Content == [text : Text \cup {NoText}, id : Nat]

\* A ClipboardEvent, as it waits to be handled.
Event == [text : Text, id : Nat]

\* Mutant: the digest is never updated.
RememberNothing(d, text) == UNCHANGED lastHash

\* self._last_hash = self._hash(text)
Remember(d, text) == lastHash' = [lastHash EXCEPT ![d] = Hash(text)]

\* The devices on which a clipboard call may fail.
Unreliable == IF ApiMayFail THEN Device \ Darwin ELSE {}

\* No clipboard call of the watcher of d is under way.
Idle(d) == ~reading[d] /\ writing[d] = NoText

WatcherInit ==
  /\ clip \in [Device -> {[text |-> t, id |-> 0] : t \in Text \cup {NoText}}]
  /\ unseen = [d \in Device |-> FALSE]
  /\ lastHash = [d \in Device |-> NoHash]
  /\ phase = [d \in Device |-> "new"]
  /\ reading = [d \in Device |-> FALSE]
  /\ writing = [d \in Device |-> NoText]
  /\ tasks = [d \in Device |-> <<>>]
  /\ copies = [d \in Device |-> <<>>]
  /\ delivered = [d \in Device |-> 0]

-----------------------------------------------------------------------------
(***************************************************************************)
(* The environment: a user, or any other program, changes the clipboard.   *)
(***************************************************************************)
Copy(d, t) ==
  /\ Len(copies[d]) < MaxCopies
  /\ copies' = [copies EXCEPT ![d] = Append(@, t)]
  /\ clip' = [clip EXCEPT ![d] = [text |-> t, id |-> Len(copies[d]) + 1]]
  /\ unseen' = [unseen EXCEPT ![d] = TRUE]
  /\ UNCHANGED <<lastHash, phase, reading, writing, tasks, delivered>>

(***************************************************************************)
(* Reading.  _read_clipboard is called by start() and by each poll.        *)
(***************************************************************************)
\* start() when the counter has not moved since the constructor recorded it:
\* the read returns None and _last_hash keeps its initial value.
StartUnchanged(d) ==
  /\ phase[d] = "new" /\ Idle(d) /\ ~unseen[d]
  /\ phase' = [phase EXCEPT ![d] = "running"]
  /\ UNCHANGED <<clip, unseen, lastHash, reading, writing, tasks, copies, delivered>>

\* _read_clipboard, past the counter, returns a text: Windows takes "" for none.
FindsText(d) ==
  /\ reading[d] /\ clip[d].text # NoText
  /\ clip[d].text = Empty => d \in Darwin

\* The counter moved: record it, then go for the contents.
BeginRead(d) ==
  /\ phase[d] \in {"new", "running"} /\ Idle(d) /\ unseen[d]
  /\ Len(tasks[d]) < MaxTasks
  /\ unseen' = [unseen EXCEPT ![d] = FALSE]
  /\ reading' = [reading EXCEPT ![d] = TRUE]
  /\ UNCHANGED <<clip, lastHash, phase, writing, tasks, copies, delivered>>

\* Mutant: a read that finds text may return None on any platform.
ReadNothingAtAll(d) ==
  /\ reading[d]
  /\ reading' = [reading EXCEPT ![d] = FALSE]
  /\ phase' = [phase EXCEPT ![d] = "running"]
  /\ UNCHANGED <<clip, unseen, lastHash, writing, tasks, copies, delivered>>

\* The read returns None: no text there, or a Win32 call failed.  The counter
\* stays recorded, so this change of the clipboard is not looked at again.
ReadNothing(d) ==
  /\ reading[d]
  /\ ~FindsText(d) \/ d \in Unreliable
  /\ reading' = [reading EXCEPT ![d] = FALSE]
  /\ phase' = [phase EXCEPT ![d] = "running"]
  /\ UNCHANGED <<clip, unseen, lastHash, writing, tasks, copies, delivered>>

\* start() takes the text it finds as known, but "" (`if current:'); if it
\* cannot be encoded, start() raises and the command ends.
Prime(d) ==
  /\ phase[d] = "new" /\ FindsText(d)
  /\ reading' = [reading EXCEPT ![d] = FALSE]
  /\ IF clip[d].text \in Unencodable
     THEN phase' = [phase EXCEPT ![d] = "failed"] /\ UNCHANGED lastHash
     ELSE /\ phase' = [phase EXCEPT ![d] = "running"]
          /\ IF clip[d].text = Empty
             THEN UNCHANGED lastHash
             ELSE Remember(d, clip[d].text)
  /\ UNCHANGED <<clip, unseen, writing, tasks, copies, delivered>>

\* A poll whose text cannot be encoded (logged, the loop goes on after a
\* pause) or has the digest already known.
CheckIgnores(d) ==
  /\ phase[d] = "running" /\ FindsText(d)
  /\ \/ clip[d].text \in Unencodable
     \/ Hash(clip[d].text) = lastHash[d]
  /\ reading' = [reading EXCEPT ![d] = FALSE]
  /\ UNCHANGED <<clip, unseen, lastHash, phase, writing, tasks, copies, delivered>>

\* Mutant: the newest task runs first.
EmitInFront(d, event) ==
  /\ tasks' = [tasks EXCEPT ![d] = <<event>> \o @]
  /\ delivered' = [delivered EXCEPT ![d] = event.id]

\* asyncio.create_task(self._on_change(event))
Emit(d, event) ==
  /\ tasks' = [tasks EXCEPT ![d] = Append(@, event)]
  /\ delivered' = [delivered EXCEPT ![d] = event.id]

\* A poll that finds a new text: its digest is known from now on, and an
\* on_change task is created for it unless the text is too big.
CheckDetects(d) ==
  /\ phase[d] = "running" /\ FindsText(d)
  /\ clip[d].text \notin Unencodable
  /\ Hash(clip[d].text) # lastHash[d]
  /\ reading' = [reading EXCEPT ![d] = FALSE]
  /\ Remember(d, clip[d].text)
  /\ IF clip[d].text \in Big
     THEN UNCHANGED <<tasks, delivered>>
     ELSE Emit(d, clip[d])
  /\ UNCHANGED <<clip, unseen, phase, writing, copies>>

-----------------------------------------------------------------------------
(***************************************************************************)
(* Writing: _write_clipboard on each platform, and write(text).            *)
(***************************************************************************)
\* macOS: clearContents and setString put the text there (if another program
\* takes the clipboard between them, setString fails: as if it took it after)...
BeginWriteDarwin(d, t) ==
  /\ d \in Darwin
  /\ clip' = [clip EXCEPT ![d] = [text |-> t, id |-> 0]]
  /\ unseen' = [unseen EXCEPT ![d] = TRUE]
  /\ writing' = [writing EXCEPT ![d] = t]
  /\ UNCHANGED <<lastHash, phase, reading, tasks, copies, delivered>>

\* Mutant: the write leaves neither counter nor digest behind.
FinishWriteUnrecorded(d) ==
  /\ writing[d] # NoText
  /\ writing' = [writing EXCEPT ![d] = NoText]
  /\ UNCHANGED <<clip, unseen, lastHash, phase, reading, tasks, copies, delivered>>

\* Mutant: the text is dropped before its digest is taken.
FinishWriteTooEarly(d) ==
  /\ writing[d] # NoText
  /\ unseen' = [unseen EXCEPT ![d] = FALSE]
  /\ Remember(d, NoText)
  /\ writing' = [writing EXCEPT ![d] = NoText]
  /\ UNCHANGED <<clip, phase, reading, tasks, copies, delivered>>

\* ... then changeCount is recorded as it is by now, and the digest.
FinishWriteDarwin(d) ==
  /\ writing[d] # NoText
  /\ unseen' = [unseen EXCEPT ![d] = FALSE]
  /\ Remember(d, writing[d])
  /\ writing' = [writing EXCEPT ![d] = NoText]
  /\ UNCHANGED <<clip, phase, reading, tasks, copies, delivered>>

\* Mutant: the sequence number is not recorded after the write.
WriteWin32Uncounted(d, t) ==
  /\ d \notin Darwin
  /\ clip' = [clip EXCEPT ![d] = [text |-> t, id |-> 0]]
  /\ unseen' = [unseen EXCEPT ![d] = TRUE]
  /\ Remember(d, t)
  /\ UNCHANGED <<phase, reading, writing, tasks, copies, delivered>>

\* Windows: the clipboard is open from EmptyClipboard to the recording of the
\* sequence number, so nothing else changes it meanwhile.
WriteWin32(d, t) ==
  /\ d \notin Darwin
  /\ clip' = [clip EXCEPT ![d] = [text |-> t, id |-> 0]]
  /\ unseen' = [unseen EXCEPT ![d] = FALSE]
  /\ Remember(d, t)
  /\ UNCHANGED <<phase, reading, writing, tasks, copies, delivered>>

\* Windows, a call fails: before EmptyClipboard nothing changes, after it the
\* clipboard is empty and the sequence number not recorded, unless what fails is
\* SetClipboardData, whose result is not looked at.  In each case _write_clipboard
\* returns normally and write() records the digest.
WriteWin32Fails(d, t) ==
  /\ d \in Unreliable
  /\ Remember(d, t)
  /\ \/ UNCHANGED <<clip, unseen>>
     \/ /\ clip' = [clip EXCEPT ![d] = [text |-> NoText, id |-> 0]]
        /\ \E recorded \in BOOLEAN : unseen' = [unseen EXCEPT ![d] = ~recorded]
  /\ UNCHANGED <<phase, reading, writing, tasks, copies, delivered>>

\* write(text), called by the sync server.  The text has come through msgpack
\* and can be encoded; one above the limit is rejected and changes nothing.
MayWrite(d, t) ==
  /\ phase[d] \in {"running", "stopped"} /\ Idle(d)
  /\ t \notin Big \cup Unencodable

Write(d, t) ==
  /\ MayWrite(d, t)
  /\ BeginWriteDarwin(d, t) \/ WriteWin32(d, t) \/ WriteWin32Fails(d, t)

-----------------------------------------------------------------------------
\* stop(): the polling task is cancelled where it sleeps.
Stop(d) ==
  /\ phase[d] = "running" /\ Idle(d)
  /\ phase' = [phase EXCEPT ![d] = "stopped"]
  /\ UNCHANGED <<clip, unseen, lastHash, reading, writing, tasks, copies, delivered>>

\* The event loop runs the oldest on_change task.
RunOnChange(d) ==
  /\ Idle(d) /\ tasks[d] # <<>>
  /\ tasks' = [tasks EXCEPT ![d] = Tail(@)]
  /\ UNCHANGED <<clip, unseen, lastHash, phase, reading, writing, copies, delivered>>

\* The rest of a clipboard call that has begun, or the next poll.
Poll(d) ==
  \/ BeginRead(d) \/ ReadNothing(d) \/ Prime(d)
  \/ CheckIgnores(d) \/ CheckDetects(d)


WatcherNext ==
  \E d \in Device :
    \/ \E t \in Text \cup {NoText} : Copy(d, t)
    \/ StartUnchanged(d) \/ Poll(d)
    \/ \E t \in Text : Write(d, t)
    \/ FinishWriteDarwin(d)
    \/ Stop(d) \/ RunOnChange(d)

WatcherSpec == WatcherInit /\ [][WatcherNext]_watcherVars

\* The event loop keeps running the polling task, a call that has begun and
\* the tasks that are ready; the user and the peers owe nothing.
WatcherFairness ==
  \A d \in Device :
    /\ WF_watcherVars(Poll(d))
    /\ WF_watcherVars(FinishWriteDarwin(d))
    /\ WF_watcherVars(RunOnChange(d))

FairWatcherSpec == WatcherSpec /\ WatcherFairness

-----------------------------------------------------------------------------
(***************************************************************************)
(* Properties.                                                             *)
(***************************************************************************)
WatcherTypeOK ==
  /\ clip \in [Device -> Content]
  /\ unseen \in [Device -> BOOLEAN]
  /\ lastHash \in [Device -> Digest]
  /\ phase \in [Device -> {"new", "running", "stopped", "failed"}]
  /\ reading \in [Device -> BOOLEAN]
  /\ writing \in [Device -> Text \cup {NoText}]
  /\ tasks \in [Device -> Seq(Event)]
  /\ copies \in [Device -> Seq(Text \cup {NoText})]
  /\ delivered \in [Device -> Nat]

\* Anti-echo (watcher.py: "Write text to clipboard without triggering a sync
\* event"): no event ever carries what write() put on the clipboard, whatever
\* the user, the peers and failing Win32 calls do in between.
NoEcho ==
  \A d \in Device : \A i \in 1 .. Len(tasks[d]) :
    /\ tasks[d][i].id \in 1 .. Len(copies[d])
    /\ tasks[d][i].text = copies[d][tasks[d][i].id]

\* Wherever a poll may look again, the digest known is that of what it would
\* find, unless a user copy newer than the last one delivered is there: the
\* second line of the anti-echo defence, behind the change counter.  A write
\* that fails on Windows records the digest of a text that is not there.
OldTextIsKnown ==
  \A d \in Device \ Unreliable :
    /\ clip[d].text # NoText
    /\ clip[d].id <= delivered[d]
    /\ reading[d] \/ (unseen[d] /\ writing[d] = NoText)
    => lastHash[d] = Hash(clip[d].text)

\* The watcher implements the feed: events are user copies, with their text,
\* in order and without repetition (the tests' "should not fire for the same
\* content twice") unless a Windows call has failed.
Feed == INSTANCE ClipboardFeed WITH
  Content <- Text \cup {NoText}, Repeating <- Unreliable, queue <- tasks
ImplementsFeed == Feed!FeedSpec

\* A copy that the watcher can sync becomes known to it, unless something else
\* replaces it on the clipboard first or the watcher stops.  Nothing is promised
\* of a copy made while a macOS write is under way: FinishWriteDarwin records its
\* change of the counter, and it is never looked at.  The same happens on Windows
\* when a call of the read fails.
CopyDetected ==
  \A d \in Device \ Unreliable : \A k \in 1 .. MaxCopies :
    (/\ phase[d] = "running" /\ unseen[d] /\ writing[d] = NoText
     /\ clip[d].id = k
     /\ clip[d].text \in Text \ (Unencodable \cup {Empty}))
      ~> (lastHash[d] = Hash(clip[d].text) \/ clip[d].id # k \/ phase[d] = "stopped")
==============================================================================
