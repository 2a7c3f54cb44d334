------------------------------ MODULE Discovery ------------------------------
(***************************************************************************)
(* ghost_sync/network/discovery.py, GhostSyncDiscovery: one device, and    *)
(* the services of the others on the network.                              *)
(*                                                                         *)
(* Three threads use the object without a lock: the one that calls start() *)
(* and stop(), the one start() creates and gives up waiting for after ten  *)
(* seconds, and the browser thread of zeroconf, which handles one queued   *)
(* event after the other and calls back.                                   *)
(*                                                                         *)
(* Zeroconf's browser reports a service as added when it hears of it, and  *)
(* as removed when its record expires, after a goodbye or not.  A service  *)
(* that goes and is back before that is not reported at all.               *)
(***************************************************************************)
EXTENDS Naturals, Sequences

CONSTANTS
  Peer,    \* device ids of the others
  Self,    \* _device_id
  MaxMoves \* bound: times that a peer joins or leaves the network

ASSUME SelfAssumption == Self \notin Peer
ASSUME MovesAssumption == MaxMoves \in Nat

VARIABLES
  caller,   \* the thread of start() and stop(): "new", "starting", "running",
            \* "closing", "dropping" and "clearing" in stop(), "stopped"
  starter,  \* _start_in_thread: "new", "creating", "registering", "announcing",
            \* "browsing", "making", "ended"
  zeroconf, \* _zeroconf is set
  engine,   \* a Zeroconf object is alive
  browser,  \* its browser thread is alive
  onAir,    \* services that can be heard on the network
  cache,    \* services that the browser knows
  queue,    \* events for the browser thread, oldest first
  handling, \* what that thread does: [at, name]; at is "idle" between two events
  peers,    \* keys of _peers
  found, lost, \* history: callbacks made (PeerFeed)
  missed,   \* history: peers whose last event handled is an Added that was dropped
  moves     \* counter for MaxMoves

threadVars == <<caller, starter, zeroconf, engine>>
networkVars == <<onAir, cache, moves>>
browserVars == <<browser, queue, handling, peers, found, lost, missed>>
discoveryVars == <<caller, starter, zeroconf, engine, onAir, cache, moves,
                   browser, queue, handling, peers, found, lost, missed>>

Service == Peer \cup {Self}
Idle == [at |-> "idle", name |-> Self]

DiscoveryInit ==
  /\ caller = "new" /\ starter = "new"
  /\ zeroconf = FALSE /\ engine = FALSE /\ browser = FALSE
  /\ onAir \in SUBSET Peer
  /\ cache = {} /\ queue = <<>> /\ handling = Idle
  /\ peers = {}
  /\ found = [q \in Peer |-> 0] /\ lost = [q \in Peer |-> 0]
  /\ missed = {} /\ moves = 0

-----------------------------------------------------------------------------
(***************************************************************************)
(* start(): the caller, and the thread it creates.                         *)
(***************************************************************************)
Start ==
  /\ caller = "new"
  /\ caller' = "starting" /\ starter' = "creating"
  /\ UNCHANGED <<zeroconf, engine, networkVars, browserVars>>

\* The thread is through, or ten seconds are over.
StartReturns ==
  /\ caller = "starting"
  /\ caller' = "running"
  /\ UNCHANGED <<starter, zeroconf, engine, networkVars, browserVars>>

Create ==
  /\ starter = "creating"
  /\ starter' = "registering" /\ zeroconf' = TRUE /\ engine' = TRUE
  /\ UNCHANGED <<caller, networkVars, browserVars>>

\* self._zeroconf is read first, and what is read is called then, for a second or
\* so: stop() may close the object or drop it in between.
ReadToRegister ==
  /\ starter = "registering" /\ zeroconf
  /\ starter' = "announcing"
  /\ UNCHANGED <<caller, zeroconf, engine, networkVars, browserVars>>

Register ==
  /\ starter = "announcing" /\ engine
  /\ starter' = "browsing" /\ onAir' = onAir \cup {Self}
  /\ UNCHANGED <<caller, zeroconf, engine, cache, moves, browserVars>>

ReadToBrowse ==
  /\ starter = "browsing" /\ zeroconf
  /\ starter' = "making"
  /\ UNCHANGED <<caller, zeroconf, engine, networkVars, browserVars>>

Browse ==
  /\ starter = "making" /\ engine
  /\ starter' = "ended" /\ browser' = TRUE
  /\ UNCHANGED <<caller, zeroconf, engine, networkVars,
                 queue, handling, peers, found, lost, missed>>

\* A call of zeroconf raises, as it does if stop() has closed the object or taken
\* it away: the exception is logged and the thread ends.
StarterFails ==
  /\ starter \in {"creating", "registering", "announcing", "browsing", "making"}
  /\ starter' = "ended"
  /\ UNCHANGED <<caller, zeroconf, engine, networkVars, browserVars>>

-----------------------------------------------------------------------------
(***************************************************************************)
(* stop(): withdraw the service, close zeroconf, forget the peers.         *)
(***************************************************************************)
StopsEarly ==   \* no object yet, so there is nothing to close
  /\ caller = "running" /\ ~zeroconf
  /\ caller' = "clearing"
  /\ UNCHANGED <<starter, zeroconf, engine, networkVars, browserVars>>

Unregister ==
  /\ caller = "running" /\ zeroconf
  /\ caller' = "closing" /\ onAir' = onAir \ {Self}
  /\ UNCHANGED <<starter, zeroconf, engine, cache, moves, browserVars>>

\* close() withdraws whatever has been registered by then.  It does not cancel
\* a browser made by hand: that thread goes on with what is queued.
Close ==
  /\ caller = "closing"
  /\ caller' = "dropping" /\ engine' = FALSE /\ onAir' = onAir \ {Self}
  /\ UNCHANGED <<starter, zeroconf, cache, moves, browserVars>>

\* unregister_service raises, or close() does: the object is dropped as it is.
StopFails ==
  /\ \/ caller = "running" /\ zeroconf
     \/ caller = "closing"
  /\ caller' = "dropping"
  /\ UNCHANGED <<starter, zeroconf, engine, networkVars, browserVars>>

Drop ==
  /\ caller = "dropping"
  /\ caller' = "clearing" /\ zeroconf' = FALSE
  /\ UNCHANGED <<starter, engine, networkVars, browserVars>>

Clear ==
  /\ caller = "clearing"
  /\ caller' = "stopped" /\ peers' = {}
  /\ UNCHANGED <<starter, zeroconf, engine, networkVars,
                 browser, queue, handling, found, lost, missed>>

-----------------------------------------------------------------------------
(***************************************************************************)
(* The network, and zeroconf's browser.                                    *)
(***************************************************************************)
Joins(q) ==
  /\ moves < MaxMoves /\ q \notin onAir
  /\ onAir' = onAir \cup {q} /\ moves' = moves + 1
  /\ UNCHANGED <<threadVars, cache, browserVars>>

Leaves(q) ==
  /\ moves < MaxMoves /\ q \in onAir
  /\ onAir' = onAir \ {q} /\ moves' = moves + 1
  /\ UNCHANGED <<threadVars, cache, browserVars>>

Enqueue(kind, q) == queue' = Append(queue, [kind |-> kind, name |-> q])

Hears(q) ==
  /\ engine /\ browser
  /\ q \in onAir \ cache
  /\ cache' = cache \cup {q} /\ Enqueue("Added", q)
  /\ UNCHANGED <<threadVars, onAir, moves, browser, handling, peers, found, lost, missed>>

Expires(q) ==
  /\ engine /\ browser
  /\ q \in cache \ onAir
  /\ cache' = cache \ {q} /\ Enqueue("Removed", q)
  /\ UNCHANGED <<threadVars, onAir, moves, browser, handling, peers, found, lost, missed>>

-----------------------------------------------------------------------------
(***************************************************************************)
(* _on_service_state_change, in the browser thread.                        *)
(***************************************************************************)
Handles(at) == browser /\ handling.at = at
GoesTo(at) == handling' = [handling EXCEPT !.at = at]

\* Added: ask for the address and the properties of the service.
TakeAdded ==
  /\ Handles("idle") /\ queue # <<>> /\ Head(queue).kind = "Added"
  /\ queue' = Tail(queue)
  /\ handling' = [at |-> "resolving", name |-> Head(queue).name]
  /\ UNCHANGED <<threadVars, networkVars, browser, peers, found, lost, missed>>

\* get_service_info gives up after three seconds, or finds no address.
InfoMissing ==
  /\ Handles("resolving")
  /\ missed' = missed \cup ({handling.name} \ {Self})
  /\ GoesTo("idle")
  /\ UNCHANGED <<threadVars, networkVars, browser, queue, peers, found, lost>>

\* Mutant: this device itself is not skipped.
InfoFoundOwn ==
  /\ Handles("resolving")
  /\ peers' = peers \cup {handling.name}
  /\ missed' = missed \ {handling.name}
  /\ GoesTo(IF handling.name = Self THEN "idle" ELSE "finding")
  /\ UNCHANGED <<threadVars, networkVars, browser, queue, found, lost>>

\* Mutant: a peer is called back for the first time it is found only.
InfoFoundAgain ==
  /\ Handles("resolving")
  /\ IF handling.name = Self
     THEN GoesTo("idle") /\ UNCHANGED <<peers, missed>>
     ELSE /\ peers' = peers \cup {handling.name}
          /\ missed' = missed \ {handling.name}
          /\ GoesTo(IF found[handling.name] > 0 THEN "idle" ELSE "finding")
  /\ UNCHANGED <<threadVars, networkVars, browser, queue, found, lost>>

\* A peer is stored, this device itself skipped.
InfoFound ==
  /\ Handles("resolving")
  /\ IF handling.name = Self
     THEN GoesTo("idle") /\ UNCHANGED <<peers, missed>>
     ELSE /\ peers' = peers \cup {handling.name}
          /\ missed' = missed \ {handling.name}
          /\ GoesTo("finding")
  /\ UNCHANGED <<threadVars, networkVars, browser, queue, found, lost>>

CallDiscovered ==
  /\ Handles("finding")
  /\ found' = [found EXCEPT ![handling.name] = @ + 1]
  /\ GoesTo("idle")
  /\ UNCHANGED <<threadVars, networkVars, browser, queue, peers, lost, missed>>

\* Mutant: a service that was removed is reported whether it was known or not.
TakeRemovedAny ==
  /\ Handles("idle") /\ queue # <<>> /\ Head(queue).kind = "Removed"
  /\ queue' = Tail(queue)
  /\ handling' = IF Head(queue).name # Self
                 THEN [at |-> "losing", name |-> Head(queue).name] ELSE Idle
  /\ peers' = peers \ {Head(queue).name}
  /\ missed' = missed \ {Head(queue).name}
  /\ UNCHANGED <<threadVars, networkVars, browser, found, lost>>

\* Mutant: the event that is last in the queue is left for the next time.
TakeRemovedLate ==
  /\ Handles("idle") /\ Len(queue) > 1 /\ Head(queue).kind = "Removed"
  /\ queue' = Tail(queue)
  /\ handling' = IF Head(queue).name \in peers
                 THEN [at |-> "removing", name |-> Head(queue).name] ELSE Idle
  /\ missed' = missed \ {Head(queue).name}
  /\ UNCHANGED <<threadVars, networkVars, browser, peers, found, lost>>

\* Removed: of interest if the peer is in _peers ...
TakeRemoved ==
  /\ Handles("idle") /\ queue # <<>> /\ Head(queue).kind = "Removed"
  /\ queue' = Tail(queue)
  /\ handling' = IF Head(queue).name \in peers
                 THEN [at |-> "removing", name |-> Head(queue).name] ELSE Idle
  /\ missed' = missed \ {Head(queue).name}
  /\ UNCHANGED <<threadVars, networkVars, browser, peers, found, lost>>

\* ... and still there: stop() may have cleared it since, and then the pop
\* raises KeyError, which ends the browser thread.
Pop ==
  /\ Handles("removing")
  /\ IF handling.name \in peers
     THEN peers' = peers \ {handling.name} /\ GoesTo("losing") /\ UNCHANGED browser
     ELSE browser' = FALSE /\ GoesTo("idle") /\ UNCHANGED peers
  /\ UNCHANGED <<threadVars, networkVars, queue, found, lost, missed>>

CallLost ==
  /\ Handles("losing")
  /\ lost' = [lost EXCEPT ![handling.name] = @ + 1]
  /\ GoesTo("idle")
  /\ UNCHANGED <<threadVars, networkVars, browser, queue, peers, found, missed>>

\* Once stop() has closed zeroconf, asking it raises, and so does scheduling
\* anything on an event loop that is closed: nothing catches it in this thread.
HandlerRaises ==
  /\ \/ caller \in {"dropping", "clearing", "stopped"} /\ Handles("resolving")
     \/ caller = "stopped" /\ (Handles("finding") \/ Handles("losing"))
  /\ browser' = FALSE /\ GoesTo("idle")
  /\ UNCHANGED <<threadVars, networkVars, queue, peers, found, lost, missed>>

Caller == Start \/ StartReturns \/ StopsEarly \/ Unregister \/ Close \/ StopFails
          \/ Drop \/ Clear
Starter == Create \/ ReadToRegister \/ Register \/ ReadToBrowse \/ Browse \/ StarterFails
Handler ==
  \/ TakeAdded \/ InfoMissing \/ InfoFound \/ CallDiscovered
  \/ TakeRemoved \/ Pop \/ CallLost \/ HandlerRaises

DiscoveryNext ==
  \/ Caller \/ Starter \/ Handler
  \/ \E q \in Peer : Joins(q) \/ Leaves(q)
  \/ \E q \in Service : Hears(q) \/ Expires(q)

DiscoverySpec == DiscoveryInit /\ [][DiscoveryNext]_discoveryVars

\* Threads run, and mDNS announcements get through in the end; records of
\* services that are gone expire.  Nobody has to call stop(), to join or leave.
FairDiscoverySpec ==
  /\ DiscoverySpec
  /\ WF_discoveryVars(Starter) /\ WF_discoveryVars(Handler)
  /\ \A q \in Service : WF_discoveryVars(Hears(q)) /\ WF_discoveryVars(Expires(q))

-----------------------------------------------------------------------------
(***************************************************************************)
(* Properties.                                                             *)
(***************************************************************************)
Stages == {"idle", "resolving", "finding", "removing", "losing"}

DiscoveryTypeOK ==
  /\ caller \in {"new", "starting", "running", "closing", "dropping", "clearing",
                "stopped"}
  /\ starter \in {"new", "creating", "registering", "announcing", "browsing", "making",
                 "ended"}
  /\ zeroconf \in BOOLEAN /\ engine \in BOOLEAN /\ browser \in BOOLEAN
  /\ onAir \subseteq Service /\ cache \subseteq Service
  /\ queue \in Seq([kind : {"Added", "Removed"}, name : Service])
  /\ handling \in [at : Stages, name : Service]
  /\ handling.at \in {"finding", "removing", "losing"} => handling.name \in Peer
  /\ peers \subseteq Peer /\ missed \subseteq Peer
  /\ found \in [Peer -> Nat] /\ lost \in [Peer -> Nat]
  /\ moves \in Nat

\* "Unregister service and stop browsing", it says of stop(): once it has returned,
\* this device is not announced.  It is, if start() gave up waiting and stop() came
\* before the thread had an object to show for it, or if closing it raised.
StoppedIsWithdrawn == caller = "stopped" => Self \notin onAir

\* To its caller, discovery is the feed of PeerFeed: peers are found and lost in
\* turn until stop() has cleared _peers, though an Added event may be dropped and
\* its Removed still comes.
Feed == INSTANCE PeerFeed WITH closed <- caller = "stopped"
ImplementsPeerFeed == Feed!PeerSpec

\* A peer that has been reported and has gone is reported as lost, unless it is
\* back before that is noticed.
Running == caller \in {"new", "starting", "running"}
Reported == {q \in Peer : found[q] > lost[q]}
GoneIsLost ==
  \A q \in Peer :
    Running /\ q \in Reported \ onAir ~> ~Running \/ q \notin Reported \/ q \in onAir

\* "Peers are discovered automatically without any manual IP configuration": once
\* browsing, a peer that stays on the network is reported, unless its information
\* did not come within three seconds of its being added: it is not asked for again.
PresentIsFound ==
  \A q \in Peer :
    Running /\ browser /\ q \in onAir
      ~> ~Running \/ q \in Reported \/ q \notin onAir \/ q \in missed
==============================================================================
