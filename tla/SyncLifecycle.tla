---------------------------- MODULE SyncLifecycle ----------------------------
(***************************************************************************)
(* The life of `ghostsync sync' on several devices, from its start to the  *)
(* finally block of cmd_sync, whose five steps may wait for the peers or   *)
(* raise, and raising skips those that are left.                           *)
(*                                                                         *)
(* Discovery is what Discovery shows of it: a device finds another and     *)
(* loses it in turn, and connects to those it trusts at that moment.  It   *)
(* may also fail to start, and miss a peer for good.  A connect may fail,  *)
(* and is not tried again; one that is under way when its peer is lost is  *)
(* not cancelled.  Two versions of Python differ in Server.wait_closed():  *)
(* from 3.12 on it waits until the connections of the server are gone.     *)
(***************************************************************************)
EXTENDS Naturals, FiniteSets

CONSTANTS
  Device,
  Asked,    \* bound: the devices that are sent pair requests
  MaxStarts \* bound: times that a sync is started

ASSUME AskedAssumption == Asked \subseteq Device
ASSUME StartsAssumption == MaxStarts \in Nat

VARIABLES
  modern,     \* the devices with Python 3.12 or later
  stage,      \* stage[d]: how far the sync of d has got; "out" if there is none
  raised,     \* its finally block was left by an exception
  todo,       \* todo[d]: what disconnect_all has still to disconnect
  trusts,     \* <<d, e>>: e is in the trust store of d
  blind,      \* the devices whose discovery has failed to start
  sees,       \* <<d, e>>: e is in the _peers of d's discovery
  missed,     \* <<d, e>>: e was added, and d got no information: it is not asked again
  connecting, \* <<d, e>>: connect_to_peer(e) has not returned yet on d
  failed,     \* history: <<d, e>>: since d sees e, its attempt to connect failed
  conn,       \* conn[d, e]: the connection d has opened to e
  prompt,     \* prompt[d]: input() waits for an answer to a pair request
  late,       \* history: connections that came up while their owner was stopping
  starts      \* counter for MaxStarts

stopVars == <<stage, raised, todo>>
discoveryVars == <<blind, sees, missed>>
clientVars == <<connecting, failed, conn, late>>
lifeVars == <<modern, trusts, prompt, starts, stopVars, discoveryVars, clientVars>>

Pairs == {p \in Device \X Device : p[1] # p[2]}
Of(d) == {p \in Pairs : p[1] = d}
To(d) == {p \in Pairs : p[2] = d}

\* The stages in order: cmd_sync up to discovery.start(); its loop; disconnect_all;
\* sync_server.stop(); pair_server.stop(); watcher.stop() and discovery.stop(); the
\* end of asyncio.run().
Stage == {"out", "starting", "running", "disconnecting", "server", "pairing",
          "discovery", "leaving"}
Stopping == {"disconnecting", "server", "pairing", "discovery"}

Listens(d) == stage[d] \in {"starting", "running", "disconnecting"}
OnAir(d) ==
  /\ stage[d] \in {"running"} \cup Stopping \/ (stage[d] = "leaving" /\ raised[d])
  /\ d \notin blind
Browses(d) == stage[d] \in {"running"} \cup Stopping /\ d \notin blind

\* Connections that d has in its dictionary, where connect_to_peer puts them when it
\* goes on, those that its server serves and those that it waits for.  A connection
\* is "full" while its peer does not read what is buffered, "flushing" if it was
\* closed like that, "closing" if it was closed otherwise, "gone" when the peer has
\* ended unnoticed, and "lost" when the transport has been told so.
Entries(d) == {p \in Of(d) \ connecting : conn[p] \in {"open", "full", "gone", "lost"}}
Served(d) == {p \in To(d) : conn[p] \in {"open", "full", "flushing", "closing"}}
Awaited(d) == {p \in Of(d) : conn[p] \in {"flushing", "closing"}}

LifeInit ==
  /\ modern \in SUBSET Device
  /\ stage = [d \in Device |-> "out"]
  /\ raised = [d \in Device |-> FALSE]
  /\ todo = [d \in Device |-> {}]
  /\ trusts \in SUBSET Pairs
  /\ blind = {} /\ sees = {} /\ missed = {} /\ connecting = {} /\ failed = {}
  /\ conn = [p \in Pairs |-> "none"]
  /\ prompt = [d \in Device |-> FALSE]
  /\ late = {}
  /\ starts = 0

GoesOn(d, s) == stage' = [stage EXCEPT ![d] = s]

-----------------------------------------------------------------------------
(***************************************************************************)
(* Running.                                                                *)
(***************************************************************************)
\* The watcher, the sync server and the pairing server are started, in this order ...
Starts(d) ==
  /\ stage[d] = "out" /\ starts < MaxStarts
  /\ GoesOn(d, "starting") /\ starts' = starts + 1
  /\ UNCHANGED <<modern, trusts, prompt, raised, todo, discoveryVars, clientVars>>

\* ... then discovery, which announces the device and begins to browse, or raises
\* in its thread: the sync goes on without it.
Announces(d) ==
  /\ stage[d] = "starting"
  /\ GoesOn(d, "running")
  /\ \E b \in SUBSET {d} : blind' = blind \cup b
  /\ UNCHANGED <<modern, trusts, prompt, starts, raised, todo, sees, missed, clientVars>>

Unheard(p) == Browses(p[1]) /\ OnAir(p[2]) /\ p \notin sees \cup missed

\* Mutant: a device that has been connected to need not connect.
FindsOnce(p) ==
  /\ Unheard(p)
  /\ sees' = sees \cup {p}
  /\ connecting' = IF p \in trusts \ Entries(p[1]) /\ conn[<<p[2], p[1]>>] = "none"
                   THEN connecting \cup {p} ELSE connecting
  /\ UNCHANGED <<modern, trusts, prompt, starts, stopVars, blind, missed, failed, conn, late>>

\* on_peer_discovered: connect to the peer, if it is trusted by now, unless the
\* dictionary has it.
Finds(p) ==
  /\ Unheard(p)
  /\ sees' = sees \cup {p}
  /\ connecting' = IF p \in trusts \ Entries(p[1]) THEN connecting \cup {p} ELSE connecting
  /\ UNCHANGED <<modern, trusts, prompt, starts, stopVars, blind, missed, failed, conn, late>>

\* get_service_info comes back empty: the peer is not heard of until it has gone.
Misses(p) ==
  /\ Unheard(p)
  /\ missed' = missed \cup {p}
  /\ UNCHANGED <<modern, trusts, prompt, starts, stopVars, blind, sees, clientVars>>

Forgets(p) ==
  /\ Browses(p[1]) /\ ~OnAir(p[2]) /\ p \in missed
  /\ missed' = missed \ {p}
  /\ UNCHANGED <<modern, trusts, prompt, starts, stopVars, blind, sees, clientVars>>

\* connect_to_peer: the peer's server has accepted ...
Opens(p) ==
  /\ p \in connecting /\ stage[p[1]] # "leaving"
  /\ Listens(p[2]) /\ conn[p] = "none"
  /\ conn' = [conn EXCEPT ![p] = "open"]
  /\ UNCHANGED <<modern, trusts, prompt, starts, stopVars, discoveryVars,
                 connecting, failed, late>>

\* ... or has not, within five seconds: that was the only attempt ...
ConnectFails(p) ==
  /\ p \in connecting /\ conn[p] \in {"none", "flushing", "closing"}
  /\ connecting' = connecting \ {p}
  /\ failed' = failed \cup ({p} \cap sees)
  /\ UNCHANGED <<modern, trusts, prompt, starts, stopVars, discoveryVars, conn, late>>

\* ... and what was opened is stored, whatever has become of the peer meanwhile.
Stores(p) ==
  /\ p \in connecting /\ stage[p[1]] # "leaving"
  /\ conn[p] \in {"open", "gone", "lost"}
  /\ connecting' = connecting \ {p}
  /\ late' = IF stage[p[1]] = "running" THEN late ELSE late \cup {p}
  /\ UNCHANGED <<modern, trusts, prompt, starts, stopVars, discoveryVars, failed, conn>>

\* Mutant: only a connection that works is closed.
LosesOpen(p) ==
  /\ Browses(p[1]) /\ ~OnAir(p[2]) /\ p \in sees
  /\ sees' = sees \ {p} /\ failed' = failed \ {p}
  /\ conn' = IF p \in Entries(p[1]) /\ conn[p] = "open"
             THEN [conn EXCEPT ![p] = "none"] ELSE conn
  /\ UNCHANGED <<modern, trusts, prompt, starts, stopVars, blind, missed, connecting, late>>

\* on_peer_lost: disconnect_peer, after its goodbye or when its record expires.  It
\* closes what is in the dictionary, and leaves an attempt that is under way alone.
Loses(p) ==
  /\ Browses(p[1]) /\ ~OnAir(p[2]) /\ p \in sees
  /\ sees' = sees \ {p} /\ failed' = failed \ {p}
  /\ conn' = IF p \in Entries(p[1]) THEN [conn EXCEPT ![p] = "none"] ELSE conn
  /\ UNCHANGED <<modern, trusts, prompt, starts, stopVars, blind, missed, connecting, late>>

\* A pairing is stored by the pairing server; a peer already seen stays unconnected.
Trusts(p) ==
  /\ stage[p[1]] \in {"running"} \cup Stopping /\ p \notin trusts
  /\ trusts' = trusts \cup {p}
  /\ UNCHANGED <<modern, prompt, starts, stopVars, discoveryVars, clientVars>>

\* A pair request waits for the line its user types, in an executor thread.
Asks(d) ==
  /\ d \in Asked
  /\ stage[d] \in {"running", "disconnecting", "server"} /\ ~prompt[d]
  /\ prompt' = [prompt EXCEPT ![d] = TRUE]
  /\ UNCHANGED <<modern, trusts, starts, stopVars, discoveryVars, clientVars>>

Types(d) ==
  /\ prompt[d]
  /\ prompt' = [prompt EXCEPT ![d] = FALSE]
  /\ UNCHANGED <<modern, trusts, starts, stopVars, discoveryVars, clientVars>>

Becomes(p, old, new) ==
  /\ conn[p] \in old
  /\ conn' = [conn EXCEPT ![p] = new]
  /\ UNCHANGED <<modern, trusts, prompt, starts, stopVars, discoveryVars,
                 connecting, failed, late>>

\* The buffer fills, the peer reads it, the connection breaks.
Fills(p) == p \in Entries(p[1]) /\ Becomes(p, {"open"}, "full")
Empties(p) == Becomes(p, {"full"}, "open")
Breaks(p) == Becomes(p, {"open", "full", "gone"}, "lost")

\* A broadcast fails on a connection and drops it: "Clean up failed connections".
Drops(p) ==
  /\ stage[p[1]] \in {"running", "disconnecting", "server", "pairing"}
  /\ p \in Entries(p[1]) /\ Becomes(p, {"lost"}, "none")

-----------------------------------------------------------------------------
(***************************************************************************)
(* Stopping.                                                               *)
(***************************************************************************)
\* An exception leaves the finally block.
Raises(d) == GoesOn(d, "leaving") /\ raised' = [raised EXCEPT ![d] = TRUE]

\* Mutant: a connection known to be lost is passed over.
StillThereOpen(d, left) == {p \in left \cap Entries(d) : conn[p] # "lost"}

\* disconnect_peer() looks a peer up again, and closes the connection there is now.
StillThere(d, left) == left \cap Entries(d)

\* Mutant: the server's connections are waited for first, and closed after.
ContinueServerFirst(d, left) ==
  LET there == StillThere(d, left)
  IN /\ IF d \in modern /\ Served(d) # {}
        THEN GoesOn(d, "disconnecting") /\ UNCHANGED <<raised, conn>>
        ELSE IF there = {} THEN GoesOn(d, "server") /\ UNCHANGED <<raised, conn>>
        ELSE /\ GoesOn(d, "disconnecting") /\ UNCHANGED raised
             /\ conn' = [p \in Pairs |-> IF p \in there THEN "closing" ELSE conn[p]]
     /\ todo' = [todo EXCEPT ![d] = left]
     /\ UNCHANGED <<modern, trusts, prompt, starts, discoveryVars, connecting, failed, late>>

\* disconnect_all goes on with what is left of its list, up to the next await:
\* wait_closed raises the error that a transport was lost with, and waits for
\* others to close.  When nothing is left, sync_server.stop() closes the server.
Continue(d, left) ==
  LET there == StillThere(d, left)
  IN /\ IF there = {}
        THEN /\ GoesOn(d, "server") /\ todo' = [todo EXCEPT ![d] = {}]
             /\ UNCHANGED <<raised, conn>>
        ELSE \E p \in there :
               /\ todo' = [todo EXCEPT ![d] = left \ {p}]
               /\ conn' = [conn EXCEPT ![p] = CASE @ = "lost" -> "none"
                                                [] @ = "full" -> "flushing"
                                                [] OTHER -> "closing"]
               /\ IF conn[p] = "lost"
                  THEN Raises(d)
                  ELSE GoesOn(d, "disconnecting") /\ UNCHANGED raised
     /\ UNCHANGED <<modern, trusts, prompt, starts, discoveryVars, connecting, failed, late>>

\* Ctrl+C: the finally block begins with a list of the connections there are now.
Interrupt(d) == stage[d] = "running" /\ Continue(d, Entries(d))

Disconnects(d) == stage[d] = "disconnecting" /\ Awaited(d) = {} /\ Continue(d, todo[d])

Closes(p) == Becomes(p, {"closing", "flushing"}, "none")

FlushFails(p) ==
  /\ conn[p] = "flushing"
  /\ conn' = [conn EXCEPT ![p] = "none"]
  /\ Raises(p[1])
  /\ UNCHANGED <<modern, trusts, prompt, starts, todo, discoveryVars, connecting, failed, late>>

\* Mutant: every version of Python waits for the connections.
WaitClosedAlways(d) ==
  /\ stage[d] = "server" /\ Served(d) = {}
  /\ GoesOn(d, "pairing")
  /\ UNCHANGED <<modern, trusts, prompt, starts, raised, todo, discoveryVars, clientVars>>

\* Server.wait_closed(): with the connections it serves, from 3.12 on.
WaitClosed(d) ==
  /\ stage[d] = "server" /\ (d \in modern => Served(d) = {})
  /\ GoesOn(d, "pairing")
  /\ UNCHANGED <<modern, trusts, prompt, starts, raised, todo, discoveryVars, clientVars>>

\* pair_server.stop(), likewise: the handler of a request waits for its line.
StopPairing(d) ==
  /\ stage[d] = "pairing" /\ (d \in modern => ~prompt[d])
  /\ GoesOn(d, "discovery")
  /\ UNCHANGED <<modern, trusts, prompt, starts, raised, todo, discoveryVars, clientVars>>

StopDiscovery(d) ==
  /\ stage[d] = "discovery"
  /\ GoesOn(d, "leaving")
  /\ UNCHANGED <<modern, trusts, prompt, starts, raised, todo, discoveryVars, clientVars>>

\* Mutant: what the browser knew is there again at the next start.
EndRemembering(d) ==
  /\ GoesOn(d, "out")
  /\ raised' = [raised EXCEPT ![d] = FALSE]
  /\ todo' = [todo EXCEPT ![d] = {}]
  /\ blind' = blind \ {d} /\ missed' = missed \ Of(d)
  /\ connecting' = connecting \ Of(d) /\ failed' = failed \ Of(d)
  /\ conn' = [p \in Pairs |-> CASE p \in Of(d) -> "none"
                                [] p \in To(d) /\ conn[p] \in {"open", "full"} -> "gone"
                                [] OTHER -> conn[p]]
  /\ prompt' = [prompt EXCEPT ![d] = FALSE]
  /\ late' = late \ Of(d)
  /\ UNCHANGED <<modern, trusts, starts, sees>>

\* The process ends: its connections are gone, and its peers may not notice.
End(d) ==
  /\ GoesOn(d, "out")
  /\ raised' = [raised EXCEPT ![d] = FALSE]
  /\ todo' = [todo EXCEPT ![d] = {}]
  /\ blind' = blind \ {d} /\ missed' = missed \ Of(d)
  /\ sees' = sees \ Of(d)
  /\ connecting' = connecting \ Of(d) /\ failed' = failed \ Of(d)
  /\ conn' = [p \in Pairs |-> CASE p \in Of(d) -> "none"
                                [] p \in To(d) /\ conn[p] \in {"open", "full"} -> "gone"
                                [] OTHER -> conn[p]]
  /\ prompt' = [prompt EXCEPT ![d] = FALSE]
  /\ late' = late \ Of(d)
  /\ UNCHANGED <<modern, trusts, starts>>

\* asyncio.run() ends when the executor's thread does, which waits for a line.
Exits(d) == stage[d] = "leaving" /\ ~prompt[d] /\ End(d)

\* The process is killed, or Ctrl+C pressed again.
Dies(d) == stage[d] # "out" /\ End(d)

Stops(d) ==
  \/ Disconnects(d) \/ WaitClosed(d) \/ StopPairing(d)
  \/ StopDiscovery(d) \/ Exits(d)

LifeNext ==
  \/ \E d \in Device :
       \/ Starts(d) \/ Announces(d) \/ Interrupt(d) \/ Stops(d) \/ Dies(d)
       \/ Asks(d) \/ Types(d)
  \/ \E p \in Pairs :
       \/ Finds(p) \/ Misses(p) \/ Loses(p) \/ Forgets(p) \/ Trusts(p)
       \/ Opens(p) \/ ConnectFails(p) \/ Stores(p)
       \/ Fills(p) \/ Empties(p) \/ Breaks(p) \/ Drops(p) \/ Closes(p) \/ FlushFails(p)

LifeSpec == LifeInit /\ [][LifeNext]_lifeVars

\* The event loops and discovery go on: what a browser hears of is found or missed,
\* what it knows is forgotten some time after it has gone, and a connect succeeds or
\* fails within five seconds.  A peer reads or the transport gives up.
LoopFairness ==
  /\ \A d \in Device : WF_lifeVars(Announces(d) \/ Stops(d))
  /\ \A p \in Pairs : /\ WF_lifeVars(Finds(p) \/ Misses(p) \/ Loses(p) \/ Forgets(p))
                      /\ WF_lifeVars(Opens(p) \/ ConnectFails(p) \/ Stores(p))
                      /\ WF_lifeVars(Closes(p) \/ FlushFails(p))

FairLoopSpec == LifeSpec /\ LoopFairness

\* The user answers a prompt some day, too.
FairLifeSpec == FairLoopSpec /\ \A d \in Device : WF_lifeVars(Types(d))

-----------------------------------------------------------------------------
(***************************************************************************)
(* Properties.                                                             *)
(***************************************************************************)
LifeTypeOK ==
  /\ modern \subseteq Device
  /\ stage \in [Device -> Stage]
  /\ raised \in [Device -> BOOLEAN]
  /\ todo \in [Device -> SUBSET Pairs]
  /\ blind \subseteq Device
  /\ trusts \subseteq Pairs /\ sees \subseteq Pairs /\ missed \subseteq Pairs
  /\ connecting \subseteq Pairs /\ failed \subseteq sees
  /\ conn \in [Pairs -> {"none", "open", "full", "flushing", "closing", "gone", "lost"}]
  /\ prompt \in [Device -> BOOLEAN]
  /\ late \subseteq Pairs
  /\ starts \in Nat
  /\ \A d \in Device : stage[d] = "out" =>
       /\ ~prompt[d] /\ todo[d] = {}
       /\ Entries(d) = {} /\ (sees \cup missed \cup connecting) \cap Of(d) = {}

\* "Close all peer connections": past disconnect_all, a device has no connections
\* but those that discovery made meanwhile; peers that come and go while it waits
\* for another's buffer do not confuse it.
DisconnectsAll ==
  \A d \in Device :
    stage[d] \in {"server", "pairing", "discovery"} => Entries(d) \subseteq late

\* "Ctrl+C to stop": the process ends.  From Python 3.12 on, that takes in addition
\* that the connections of its peers to it go.
StopEnds ==
  \A d \in Device :
    (\/ stage[d] = "disconnecting" /\ d \notin modern
     \/ stage[d] = "server" /\ Served(d) = {})
      ~> stage[d] = "out"

\* Devices that all stop do not wait for each other for ever, whatever their Python,
\* for each of them disconnects before its server waits.  A connection that comes
\* up after that undoes it.
AllStopAllEnd ==
  (\A d \in Device : stage[d] \notin {"starting", "running"})
    ~> (\/ \A d \in Device : stage[d] = "out"
        \/ \E d \in Device : stage[d] \in {"starting", "running"}
        \/ late # {})

\* "Ctrl+C to stop", it says: the process ends.  It need not, from Python 3.12 on,
\* while a peer stays connected to its server.
InterruptEnds == \A d \in Device : stage[d] \in Stopping ~> stage[d] = "out"

\* A device gets an entry for a running peer that it trusts and has not heard of yet,
\* whatever it or the peer went through before, with two exceptions: the peer's
\* information did not come, or the one attempt to connect failed.  Nothing is
\* promised for a peer that it sees: a peer that restarts before its record
\* expires, or is paired later, is not connected to.
Fresh(p) ==
  /\ Browses(p[1]) /\ OnAir(p[2]) /\ p \in trusts \ (sees \cup missed \cup connecting)
  /\ p \notin Entries(p[1])
Reaches ==
  \A p \in Pairs :
    stage[p[1]] = "running" /\ stage[p[2]] = "running" /\ Fresh(p)
      ~> \/ p \in Entries(p[1]) \/ p \in missed \/ p \in failed
         \/ stage[p[1]] # "running" \/ stage[p[2]] # "running"

\* A device does not keep its entry for a peer that it sees and that has ended,
\* however it did: with its goodbye, without one after an exception, or killed.  An
\* attempt that was under way when the peer was lost may leave an entry which
\* nothing but a failing broadcast drops.
GoneIsDropped ==
  \A p \in Pairs :
    stage[p[1]] = "running" /\ p \in Entries(p[1]) \cap sees /\ stage[p[2]] = "out"
      ~> p \notin Entries(p[1]) \/ stage[p[1]] # "running" \/ stage[p[2]] # "out"
==============================================================================
