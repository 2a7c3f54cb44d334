---------------------------- MODULE ClipboardFeed ----------------------------
(***************************************************************************)
(* What a clipboard watcher promises to the component it feeds.            *)
(*                                                                         *)
(* The watcher hands on_change the copies made by the user of its device:  *)
(* with their text, each at most once, in the order they were made, and    *)
(* nothing else.  It may skip copies (two copies between two polls, the    *)
(* same text again, a text above the size limit).  Some watchers may       *)
(* deliver their last copy again.  ClipboardWatcher is shown to implement  *)
(* this module.                                                            *)
(***************************************************************************)
EXTENDS Naturals, Sequences

CONSTANTS
  Device,
  Repeating, \* devices whose watcher may deliver the last copy again
  Content    \* what a user may put on a clipboard, text or not

VARIABLES
  copies,    \* copies[d]: what the user of d has copied, oldest first
  delivered, \* delivered[d]: index in copies[d] of the last copy delivered
  queue      \* queue[d]: delivered copies that on_change has not taken yet

feedVars == <<copies, delivered, queue>>

FeedInit ==
  /\ copies = [d \in Device |-> <<>>]
  /\ delivered = [d \in Device |-> 0]
  /\ queue = [d \in Device |-> <<>>]

UserCopies(d) ==
  /\ \E c \in Content : copies' = [copies EXCEPT ![d] = Append(@, c)]
  /\ UNCHANGED <<delivered, queue>>

Deliver(d) ==
  /\ \E k \in 1 .. Len(copies[d]) :
       /\ k > delivered[d] \/ (d \in Repeating /\ k = delivered[d])
       /\ delivered' = [delivered EXCEPT ![d] = k]
       /\ queue' = [queue EXCEPT ![d] =
                      Append(@, [text |-> copies[d][k], id |-> k])]
  /\ UNCHANGED copies

Take(d) ==
  /\ queue[d] # <<>>
  /\ queue' = [queue EXCEPT ![d] = Tail(@)]
  /\ UNCHANGED <<copies, delivered>>

FeedNext == \E d \in Device : UserCopies(d) \/ Deliver(d) \/ Take(d)

FeedSpec == FeedInit /\ [][FeedNext]_feedVars
==============================================================================
