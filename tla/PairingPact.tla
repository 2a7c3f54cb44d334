------------------------------ MODULE PairingPact ------------------------------
(***************************************************************************)
(* What pairing promises, without messages, prompts, processes and files.  *)
(*                                                                         *)
(* A session is a request of one device to another, which is answered once *)
(* or never.  If the answer is yes, each of the two may take the other     *)
(* into its trust, once: the responder as long as it runs, the initiator   *)
(* as long as it waits.  Either may fail to, which the other cannot see.   *)
(* Trust may be lost at any time (processes overwrite each other's file),  *)
(* and what is lost does not come back but by another session.             *)
(*                                                                         *)
(* Pairing is shown to implement this module.                              *)
(***************************************************************************)
CONSTANTS Device, NoDevice, Session

VARIABLES
  from, to, \* from[s], to[s]: who asks whom; NoDevice before the request
  answer,   \* answer[s]: "none", "yes" or "no"
  waiting,  \* sessions whose initiator still waits for the answer
  due,      \* sessions whose responder has said yes, and not yet stored
  trust     \* trust[d]: devices that d may take messages from, or save as trusted

pactVars == <<from, to, answer, waiting, due, trust>>

PactInit ==
  /\ from = [s \in Session |-> NoDevice]
  /\ to = [s \in Session |-> NoDevice]
  /\ answer = [s \in Session |-> "none"]
  /\ waiting = {}
  /\ due = {}
  /\ trust = [d \in Device |-> {}]

\* d keeps some of what it trusts, at most.
Keeps(d) == \E kept \in SUBSET trust[d] : trust' = [trust EXCEPT ![d] = kept]

\* d takes e into its trust, and keeps some of the rest.
TakesIn(d, e) ==
  \E kept \in SUBSET trust[d] : trust' = [trust EXCEPT ![d] = kept \cup {e}]

Request(s, d, e) ==
  /\ from[s] = NoDevice /\ d # e
  /\ from' = [from EXCEPT ![s] = d]
  /\ to' = [to EXCEPT ![s] = e]
  /\ waiting' = waiting \cup {s}
  /\ UNCHANGED <<answer, due, trust>>

Agree(s) ==
  /\ from[s] # NoDevice /\ answer[s] = "none"
  /\ answer' = [answer EXCEPT ![s] = "yes"]
  /\ due' = due \cup {s}
  /\ UNCHANGED <<from, to, waiting, trust>>

Refuse(s) ==
  /\ from[s] # NoDevice /\ answer[s] = "none"
  /\ answer' = [answer EXCEPT ![s] = "no"]
  /\ UNCHANGED <<from, to, waiting, due, trust>>

InitiatorTakes(s) ==
  /\ s \in waiting /\ answer[s] = "yes"
  /\ waiting' = waiting \ {s}
  /\ TakesIn(from[s], to[s])
  /\ UNCHANGED <<from, to, answer, due>>

ResponderTakes(s) ==
  /\ s \in due
  /\ due' = due \ {s}
  /\ TakesIn(to[s], from[s])
  /\ UNCHANGED <<from, to, answer, waiting>>

GivesUp(s) ==
  /\ s \in waiting
  /\ waiting' = waiting \ {s}
  /\ Keeps(from[s])
  /\ UNCHANGED <<from, to, answer, due>>

\* d answers no request any more that it has been asked, and stores none.
Leaves(d) ==
  /\ answer' = [s \in Session |-> IF to[s] = d /\ answer[s] = "none" THEN "no" ELSE answer[s]]
  /\ due' = {s \in due : to[s] # d}
  /\ Keeps(d)
  /\ UNCHANGED <<from, to, waiting>>

Forgets(d) ==
  /\ Keeps(d)
  /\ UNCHANGED <<from, to, answer, waiting, due>>

PactNext ==
  \/ \E s \in Session :
       \/ \E d, e \in Device : Request(s, d, e)
       \/ Agree(s) \/ Refuse(s) \/ InitiatorTakes(s) \/ ResponderTakes(s) \/ GivesUp(s)
  \/ \E d \in Device : Leaves(d) \/ Forgets(d)

PactSpec == PactInit /\ [][PactNext]_pactVars
==============================================================================
