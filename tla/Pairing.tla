------------------------------- MODULE Pairing -------------------------------
(***************************************************************************)
(* ghost_sync/network/pair.py: the pairing handshake between a `ghostsync  *)
(* pair' on one device and the PairingServer in the `ghostsync sync' of    *)
(* another, with the users of both, and where the result is kept.          *)
(*                                                                         *)
(* A session is one run of `ghostsync pair'.  The server asks its user on  *)
(* stdin from an executor thread, without a timeout; the threads of        *)
(* several requests queue for the line, while the initiator gives up after *)
(* a minute.  A message that is under way when its reader has gone is lost *)
(* without a trace.                                                        *)
(*                                                                         *)
(* Both processes save the whole dictionary they have in memory.  A save   *)
(* is one step here; TrustStore looks into it.                             *)
(***************************************************************************)
EXTENDS Naturals, Sequences

CONSTANTS
  Device,      \* the devices
  NoDevice,    \* `from' and `to' of a session not yet begun
  Session,     \* runs of `ghostsync pair', all devices together
  SyncMayEnd,  \* may a `ghostsync sync' end and be started again?
  SaveMayFail  \* may a save of the trust store raise OSError?

ASSUME NoDeviceAssumption == NoDevice \notin Device
ASSUME PairingAssumption == SyncMayEnd \in BOOLEAN /\ SaveMayFail \in BOOLEAN

VARIABLES
  stored,    \* stored[d]: device ids in the trust store file of d
  loaded,    \* loaded[d]: those in the memory of the sync of d
  running,   \* devices whose sync runs
  prompts,   \* prompts[d]: sessions that wait for a line of d's stdin
  from, to,  \* from[s], to[s]: who runs `ghostsync pair' to pair with whom
  mem,       \* mem[s]: devices in the memory of that `ghostsync pair'
  initiator, \* initiator[s]: "none", "waiting", "paired" or "failed"
  responder, \* responder[s]: "none", "asked", "accepted" (sent, not yet
             \* stored), "paired", "unsaved", "rejected", "failed", "killed"
  reply,     \* reply[s]: what has reached the initiator
  said       \* history: what the user typed for s, "yes", "no" or nothing

pairingVars == <<stored, loaded, running, prompts, from, to, mem, initiator,
                 responder, reply, said>>

PairingInit ==
  /\ stored = [d \in Device |-> {}]
  /\ loaded = [d \in Device |-> {}]
  /\ running = {}
  /\ prompts = [d \in Device |-> <<>>]
  /\ from = [s \in Session |-> NoDevice]
  /\ to = [s \in Session |-> NoDevice]
  /\ mem = [s \in Session |-> {}]
  /\ initiator = [s \in Session |-> "none"]
  /\ responder = [s \in Session |-> "none"]
  /\ reply = [s \in Session |-> "none"]
  /\ said = [s \in Session |-> "nothing"]

-----------------------------------------------------------------------------
(***************************************************************************)
(* The sync process of a device.                                           *)
(***************************************************************************)
StartSync(d) ==
  /\ d \notin running
  /\ running' = running \cup {d}
  /\ loaded' = [loaded EXCEPT ![d] = stored[d]]
  /\ UNCHANGED <<stored, prompts, from, to, mem, initiator, responder, reply, said>>

\* Mutant: the requests that wait for an answer outlive the process.
EndSyncLeavesPrompts(d) ==
  /\ SyncMayEnd /\ d \in running
  /\ running' = running \ {d}
  /\ loaded' = [loaded EXCEPT ![d] = {}]
  /\ responder' = [s \in Session |->
                     IF to[s] = d /\ responder[s] \in {"none", "asked", "accepted"}
                     THEN "killed" ELSE responder[s]]
  /\ UNCHANGED <<stored, prompts, from, to, mem, initiator, reply, said>>

\* The process ends, and with it the requests it was dealing with.
EndSync(d) ==
  /\ SyncMayEnd /\ d \in running
  /\ running' = running \ {d}
  /\ loaded' = [loaded EXCEPT ![d] = {}]
  /\ prompts' = [prompts EXCEPT ![d] = <<>>]
  /\ responder' = [s \in Session |->
                     IF to[s] = d /\ responder[s] \in {"none", "asked", "accepted"}
                     THEN "killed" ELSE responder[s]]
  /\ UNCHANGED <<stored, from, to, mem, initiator, reply, said>>

\* update_last_seen, for each message of a trusted device.
SaveSeen(d) ==
  /\ d \in running /\ loaded[d] # {}
  /\ stored' = [stored EXCEPT ![d] = loaded[d]]
  /\ UNCHANGED <<loaded, running, prompts, from, to, mem, initiator, responder, reply, said>>

-----------------------------------------------------------------------------
(***************************************************************************)
(* The initiator.                                                          *)
(***************************************************************************)
\* cmd_pair loads the store and refuses a device that is in it; it finds the
\* other device, whose sync runs, and sends HELLO.
Pair(s, d, e) ==
  /\ initiator[s] = "none" /\ d # e
  /\ e \notin stored[d] /\ e \in running
  /\ from' = [from EXCEPT ![s] = d]
  /\ to' = [to EXCEPT ![s] = e]
  /\ mem' = [mem EXCEPT ![s] = stored[d]]
  /\ initiator' = [initiator EXCEPT ![s] = "waiting"]
  /\ UNCHANGED <<stored, loaded, running, prompts, responder, reply, said>>

\* Mutant: whatever comes back is taken for an ACCEPT.
InitiatorStoresAny(s) ==
  /\ initiator[s] = "waiting" /\ reply[s] # "none"
  /\ initiator' = [initiator EXCEPT ![s] = "paired"]
  /\ mem' = [mem EXCEPT ![s] = @ \cup {to[s]}]
  /\ stored' = [stored EXCEPT ![from[s]] = mem[s] \cup {to[s]}]
  /\ UNCHANGED <<loaded, running, prompts, from, to, responder, reply, said>>

\* Mutant: an ACCEPT that has come is stored although the wait is over.
InitiatorStoresLate(s) ==
  /\ initiator[s] \in {"waiting", "failed"} /\ reply[s] = "accept"
  /\ initiator' = [initiator EXCEPT ![s] = "paired"]
  /\ mem' = [mem EXCEPT ![s] = @ \cup {to[s]}]
  /\ stored' = [stored EXCEPT ![from[s]] = mem[s] \cup {to[s]}]
  /\ UNCHANGED <<loaded, running, prompts, from, to, responder, reply, said>>

\* ACCEPT has come: store the peer.  The user of the initiator is not asked.
InitiatorStores(s) ==
  /\ initiator[s] = "waiting" /\ reply[s] = "accept"
  /\ initiator' = [initiator EXCEPT ![s] = "paired"]
  /\ mem' = [mem EXCEPT ![s] = @ \cup {to[s]}]
  /\ stored' = [stored EXCEPT ![from[s]] = mem[s] \cup {to[s]}]
  /\ UNCHANGED <<loaded, running, prompts, from, to, responder, reply, said>>

\* REJECT, a lost connection, a minute without an answer, Ctrl+C, or a save that
\* raises: in each case `ghostsync pair' ends without having saved.
InitiatorFails(s) ==
  /\ initiator[s] = "waiting"
  /\ initiator' = [initiator EXCEPT ![s] = "failed"]
  /\ UNCHANGED <<stored, loaded, running, prompts, from, to, mem, responder, reply, said>>

-----------------------------------------------------------------------------
(***************************************************************************)
(* The responder: _handle_pair_request.                                    *)
(***************************************************************************)
\* HELLO has come: show the PIN, and queue for a line of stdin.  The initiator
\* may have gone by now.
Ask(s) ==
  /\ initiator[s] # "none" /\ responder[s] = "none"
  /\ responder' = [responder EXCEPT ![s] = "asked"]
  /\ prompts' = [prompts EXCEPT ![to[s]] = Append(@, s)]
  /\ UNCHANGED <<stored, loaded, running, from, to, mem, initiator, reply, said>>

\* HELLO does not come, within a minute or before the connection is lost.
AskFails(s) ==
  /\ initiator[s] = "failed" /\ responder[s] = "none"
  /\ responder' = [responder EXCEPT ![s] = "failed"]
  /\ UNCHANGED <<stored, loaded, running, prompts, from, to, mem, initiator, reply, said>>

\* A line is typed: it goes to the thread that has waited longest.
TypesLine(d, answer) ==
  /\ prompts[d] # <<>>
  /\ prompts' = [prompts EXCEPT ![d] = Tail(@)]
  /\ said' = [said EXCEPT ![Head(prompts[d])] = answer]

\* A message reaches the initiator, or is lost if that has given up or the
\* connection breaks.
Sends(s, message) ==
  \/ initiator[s] = "waiting" /\ reply' = [reply EXCEPT ![s] = message]
  \/ UNCHANGED reply

\* Anything but "yes".
Reject(d) ==
  LET s == Head(prompts[d])
  IN /\ TypesLine(d, "no")
     /\ Sends(s, "reject")
     /\ responder' = [responder EXCEPT ![s] = "rejected"]
     /\ UNCHANGED <<stored, loaded, running, from, to, mem, initiator>>

\* "yes": ACCEPT is sent before the peer is stored.
Accept(d) ==
  LET s == Head(prompts[d])
  IN /\ TypesLine(d, "yes")
     /\ Sends(s, "accept")
     /\ responder' = [responder EXCEPT ![s] = "accepted"]
     /\ UNCHANGED <<stored, loaded, running, from, to, mem, initiator>>

\* Mutant: ACCEPT has been sent when the exception comes.
AcceptRaisesLate(d) ==
  LET s == Head(prompts[d])
  IN /\ TypesLine(d, "yes")
     /\ Sends(s, "accept")
     /\ responder' = [responder EXCEPT ![s] = "failed"]
     /\ UNCHANGED <<stored, loaded, running, from, to, mem, initiator>>

\* "yes", but the connection is known to be lost: sending raises.
AcceptRaises(d) ==
  LET s == Head(prompts[d])
  IN /\ TypesLine(d, "yes")
     /\ responder' = [responder EXCEPT ![s] = "failed"]
     /\ UNCHANGED <<stored, loaded, running, from, to, mem, initiator, reply>>

\* stdin is at its end: input() raises EOFError.
InputFails(d) ==
  /\ prompts[d] # <<>>
  /\ prompts' = [prompts EXCEPT ![d] = Tail(@)]
  /\ responder' = [responder EXCEPT ![Head(prompts[d])] = "failed"]
  /\ UNCHANGED <<stored, loaded, running, from, to, mem, initiator, reply, said>>

\* add_device.
ResponderStores(s) ==
  /\ responder[s] = "accepted"
  /\ loaded' = [loaded EXCEPT ![to[s]] = @ \cup {from[s]}]
  /\ stored' = [stored EXCEPT ![to[s]] = loaded[to[s]] \cup {from[s]}]
  /\ responder' = [responder EXCEPT ![s] = "paired"]
  /\ UNCHANGED <<running, prompts, from, to, mem, initiator, reply, said>>

\* add_device, whose save raises: the sync trusts the peer until it ends.
ResponderUnsaved(s) ==
  /\ SaveMayFail /\ responder[s] = "accepted"
  /\ loaded' = [loaded EXCEPT ![to[s]] = @ \cup {from[s]}]
  /\ responder' = [responder EXCEPT ![s] = "unsaved"]
  /\ UNCHANGED <<stored, running, prompts, from, to, mem, initiator, reply, said>>

PairingNext ==
  \/ \E d \in Device :
       \/ StartSync(d) \/ EndSync(d) \/ SaveSeen(d)
       \/ Reject(d) \/ Accept(d) \/ AcceptRaises(d) \/ InputFails(d)
  \/ \E s \in Session :
       \/ \E d, e \in Device : Pair(s, d, e)
       \/ InitiatorStores(s) \/ InitiatorFails(s)
       \/ Ask(s) \/ AskFails(s) \/ ResponderStores(s) \/ ResponderUnsaved(s)

PairingSpec == PairingInit /\ [][PairingNext]_pairingVars

-----------------------------------------------------------------------------
(***************************************************************************)
(* Properties.                                                             *)
(***************************************************************************)
\* The requests that wait for a line of d's stdin are those asked of d and not
\* answered yet, each once.
PromptsAreAsked ==
  /\ \A d \in Device : \A i, j \in 1 .. Len(prompts[d]) :
       /\ prompts[d][i] = prompts[d][j] => i = j
       /\ responder[prompts[d][i]] = "asked" /\ to[prompts[d][i]] = d
  /\ \A s \in Session : responder[s] = "asked" =>
       \E i \in 1 .. Len(prompts[to[s]]) : prompts[to[s]][i] = s

PairingTypeOK ==
  /\ stored \in [Device -> SUBSET Device]
  /\ loaded \in [Device -> SUBSET Device]
  /\ running \subseteq Device
  /\ prompts \in [Device -> Seq(Session)]
  /\ from \in [Session -> Device \cup {NoDevice}]
  /\ to \in [Session -> Device \cup {NoDevice}]
  /\ mem \in [Session -> SUBSET Device]
  /\ initiator \in [Session -> {"none", "waiting", "paired", "failed"}]
  /\ responder \in [Session -> {"none", "asked", "accepted", "paired", "unsaved",
                                "rejected", "failed", "killed"}]
  /\ reply \in [Session -> {"none", "accept", "reject"}]
  /\ said \in [Session -> {"nothing", "yes", "no"}]
  /\ PromptsAreAsked

\* Wherever a device trusts another (in its file, in its sync, in a `ghostsync
\* pair' that may still save what it loaded), a user has typed "yes" on one of
\* the two to a request of the other: no crossing of requests, lines of stdin,
\* restarts and overlapping saves makes up a trust.
Confirmed(d, e) ==
  \E s \in Session :
    /\ said[s] = "yes"
    /\ \/ from[s] = d /\ to[s] = e
       \/ from[s] = e /\ to[s] = d

TrustIsConfirmed ==
  /\ \A d \in Device : \A e \in stored[d] \cup loaded[d] : Confirmed(d, e)
  /\ \A s \in Session : \A e \in mem[s] : Confirmed(from[s], e)

\* A `ghostsync pair' that reports success is right about the other side: the
\* responder has stored the initiator or is about to, unless its sync ends or
\* its save fails just then.
SuccessIsShared ==
  \A s \in Session :
    initiator[s] = "paired" => responder[s] \in {"accepted", "paired", "unsaved", "killed"}

\* "If confirmed on both sides, each stores the other's public key": once both
\* ends of a session are done with it, both have stored the other or neither.
BothOrNeither ==
  \A s \in Session :
    /\ initiator[s] \in {"paired", "failed"}
    /\ responder[s] \in {"paired", "rejected", "failed"}
    => (initiator[s] = "paired" <=> responder[s] = "paired")

-----------------------------------------------------------------------------
(***************************************************************************)
(* What pairing promises: PairingPact.                                     *)
(***************************************************************************)
\* What d trusts: in its file, in its sync, or in a `ghostsync pair' that waits
\* and will save what it loaded.
Trusted(d) ==
  stored[d] \cup loaded[d]
    \cup UNION {mem[s] : s \in {r \in Session : from[r] = d /\ initiator[r] = "waiting"}}

\* A request is answered by a yes that is sent, or by anything that ends it.
Answer(s) ==
  IF responder[s] \in {"none", "asked"} THEN "none"
  ELSE IF responder[s] \in {"accepted", "paired", "unsaved"}
          \/ (responder[s] = "killed" /\ said[s] = "yes")
       THEN "yes" ELSE "no"

Pact == INSTANCE PairingPact WITH
          answer <- [s \in Session |-> Answer(s)],
          waiting <- {s \in Session : initiator[s] = "waiting"},
          due <- {s \in Session : responder[s] = "accepted"},
          trust <- [d \in Device |-> Trusted(d)]

\* A session is answered once; either side takes the other into its trust only
\* after a yes, once, and not after it has given up or has been restarted; and a
\* trust that has left the file and every process does not come back, whatever
\* is saved over what, and whoever is restarted.
ImplementsPact == Pact!PactSpec
==============================================================================
