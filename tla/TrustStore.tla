------------------------------ MODULE TrustStore -----------------------------
(***************************************************************************)
(* ghost_sync/identity/trust_store.py: the encrypted file of trusted       *)
(* devices, and the commands of one device that use it at the same time.   *)
(*                                                                         *)
(* Each command (sync, pair, trust remove) loads the file once into a      *)
(* dictionary and works on that; every mutation writes the whole           *)
(* dictionary back with Path.write_bytes, which truncates the file and     *)
(* then writes it.  Nothing locks the file.  `ghostsync sync' itself tells *)
(* its user to run `ghostsync pair' beside it, so several processes are    *)
(* the normal case.  Inside one process the store is only touched from the *)
(* asyncio thread, without an await.                                       *)
(***************************************************************************)
EXTENDS Naturals, FiniteSets

CONSTANTS
  Process,     \* commands that use the store of this device
  Peer,        \* device ids of its peers
  Key,         \* Ed25519 public keys
  NoKey,       \* the peer is not in the dictionary
  Exclusive,   \* TRUE: the user runs one command at a time
  SaveMayFail, \* may mkdir, open or write raise OSError?
  MaxChanges   \* bound: pairings and removals by all processes

ASSUME KeyAssumption == NoKey \notin Key
ASSUME ModeAssumption == Exclusive \in BOOLEAN /\ SaveMayFail \in BOOLEAN
ASSUME ChangesAssumption == MaxChanges \in Nat

VARIABLES
  file,    \* the file: [state, devices]
  phase,   \* phase[p]: "out", "running", "dirty" or "writing" (see below)
  mem,     \* mem[p]: TrustStore.devices in process p
  op,      \* op[p]: what the save of p is for: a set of at most one decision
  decided, \* history: the key each peer was last paired with, NoKey if removed
  saved,   \* history: the dictionaries that a save has begun to write
  changes  \* counter for MaxChanges

trustVars == <<file, phase, mem, op, decided, saved, changes>>

Devices == [Peer -> Key \cup {NoKey}]
NoDevices == [q \in Peer |-> NoKey]
Size(devices) == Cardinality({q \in Peer : devices[q] # NoKey})

\* Files that load() reads as: no store yet; data of no use; a dictionary.
Absent == [state |-> "absent", devices |-> NoDevices]
Truncated == [state |-> "empty", devices |-> NoDevices]
Torn == [state |-> "torn", devices |-> NoDevices]
Whole(devices) == [state |-> "whole", devices |-> devices]

TrustInit ==
  /\ file = Absent
  /\ phase = [p \in Process |-> "out"]
  /\ mem = [p \in Process |-> NoDevices]
  /\ op = [p \in Process |-> {}]
  /\ decided = NoDevices
  /\ saved = {}
  /\ changes = 0

-----------------------------------------------------------------------------
\* Mutant: the dictionary starts empty whatever the file holds.
OpenAfresh(p) ==
  /\ phase[p] = "out"
  /\ Exclusive => \A other \in Process : phase[other] = "out"
  /\ file.state \in {"absent", "whole"}
  /\ phase' = [phase EXCEPT ![p] = "running"]
  /\ UNCHANGED <<file, mem, op, decided, saved, changes>>

\* Mutant: the decrypted data is taken for the dictionary inside it.
OpenRaw(p) ==
  /\ phase[p] = "out"
  /\ Exclusive => \A other \in Process : phase[other] = "out"
  /\ file.state \in {"absent", "whole"}
  /\ phase' = [phase EXCEPT ![p] = "running"]
  /\ mem' = [mem EXCEPT ![p] = file]
  /\ UNCHANGED <<file, op, decided, saved, changes>>

\* Mutant: an empty file counts as an empty store.
OpenEmptyToo(p) ==
  /\ phase[p] = "out"
  /\ Exclusive => \A other \in Process : phase[other] = "out"
  /\ file.state \in {"absent", "whole", "empty"}
  /\ phase' = [phase EXCEPT ![p] = "running"]
  /\ mem' = [mem EXCEPT ![p] = file.devices]
  /\ UNCHANGED <<file, op, decided, saved, changes>>

\* load(): no file is an empty store.  A file that cannot be decrypted raises
\* CryptoError and ends the command, which has changed nothing.
Open(p) ==
  /\ phase[p] = "out"
  /\ Exclusive => \A other \in Process : phase[other] = "out"
  /\ file.state \in {"absent", "whole"}
  /\ phase' = [phase EXCEPT ![p] = "running"]
  /\ mem' = [mem EXCEPT ![p] = file.devices]
  /\ UNCHANGED <<file, op, decided, saved, changes>>

\* Every mutation changes the dictionary, then calls save().
Mutate(p, q, k) ==
  /\ phase[p] = "running"
  /\ mem' = [mem EXCEPT ![p] = [@ EXCEPT ![q] = k]]
  /\ phase' = [phase EXCEPT ![p] = "dirty"]

\* Mutant: add_device() does not save.
AddUnsaved(p, q, k) ==
  /\ changes < MaxChanges
  /\ phase[p] = "running"
  /\ mem' = [mem EXCEPT ![p] = [@ EXCEPT ![q] = k]]
  /\ changes' = changes + 1
  /\ UNCHANGED <<file, phase, op, decided, saved>>

\* add_device(): pairing, or pairing again with another key.
AddDevice(p, q, k) ==
  /\ changes < MaxChanges
  /\ Mutate(p, q, k)
  /\ op' = [op EXCEPT ![p] = {[peer |-> q, key |-> k]}]
  /\ changes' = changes + 1
  /\ UNCHANGED <<file, decided, saved>>

\* Mutant: remove_device() saves, but deletes nothing.
RemoveNothing(p, q) ==
  /\ changes < MaxChanges
  /\ mem[p][q] # NoKey
  /\ Mutate(p, q, mem[p][q])
  /\ op' = [op EXCEPT ![p] = {[peer |-> q, key |-> NoKey]}]
  /\ changes' = changes + 1
  /\ UNCHANGED <<file, decided, saved>>

\* remove_device() of a device that is there; otherwise it returns False.
RemoveDevice(p, q) ==
  /\ changes < MaxChanges
  /\ mem[p][q] # NoKey
  /\ Mutate(p, q, NoKey)
  /\ op' = [op EXCEPT ![p] = {[peer |-> q, key |-> NoKey]}]
  /\ changes' = changes + 1
  /\ UNCHANGED <<file, decided, saved>>

\* update_last_seen(), after each message of a trusted peer: the timestamp is
\* left out, what matters here is that the whole dictionary is saved.
UpdateLastSeen(p, q) ==
  /\ mem[p][q] # NoKey
  /\ Mutate(p, q, mem[p][q])
  /\ UNCHANGED <<file, op, decided, saved, changes>>

-----------------------------------------------------------------------------
\* Mutant: the file is opened for writing without being truncated.
BeginSaveInPlace(p) ==
  /\ phase[p] = "dirty"
  /\ saved' = saved \cup {mem[p]}
  /\ phase' = [phase EXCEPT ![p] = "writing"]
  /\ UNCHANGED <<file, mem, op, decided, changes>>

\* save(): open(mode="wb") truncates the file ...
BeginSave(p) ==
  /\ phase[p] = "dirty"
  /\ file' = Truncated
  /\ saved' = saved \cup {mem[p]}
  /\ phase' = [phase EXCEPT ![p] = "writing"]
  /\ UNCHANGED <<mem, op, decided, changes>>

\* ... and the dictionary is written from offset 0, over what another process
\* may have written since: of that a longer content leaves its tail behind,
\* and then the file cannot be decrypted.  Entries are not all of one length.
MayBecome(old, devices, new) ==
  \/ /\ new = Whole(devices)
     /\ old.state = "whole" => Size(old.devices) <= Size(devices)
  \/ /\ new = Torn
     /\ old.state \in {"whole", "torn"}
     /\ old.state = "whole" => Size(old.devices) >= Size(devices)

FinishSave(p) ==
  /\ phase[p] = "writing"
  /\ \E new \in {Whole(mem[p]), Torn} :
       MayBecome(file, mem[p], new) /\ file' = new
  /\ decided' = [q \in Peer |-> IF \E o \in op[p] : o.peer = q
                                THEN (CHOOSE o \in op[p] : o.peer = q).key
                                ELSE decided[q]]
  /\ op' = [op EXCEPT ![p] = {}]
  /\ phase' = [phase EXCEPT ![p] = "running"]
  /\ UNCHANGED <<mem, saved, changes>>

\* save() raises, before the file is truncated or after.  The command that
\* stays (sync and its servers log the error) keeps the changed dictionary.
SaveFails(p) ==
  /\ SaveMayFail
  /\ phase[p] \in {"dirty", "writing"}
  /\ phase' = [phase EXCEPT ![p] = "running"]
  /\ op' = [op EXCEPT ![p] = {}]
  /\ UNCHANGED <<file, mem, decided, saved, changes>>

\* What save() may do next.
Save(p) ==
  /\ phase[p] \in {"dirty", "writing"}
  /\ BeginSave(p) \/ FinishSave(p) \/ SaveFails(p)

\* The command ends, or is killed at any point of a save.
Exit(p) ==
  /\ phase[p] # "out"
  /\ phase' = [phase EXCEPT ![p] = "out"]
  /\ mem' = [mem EXCEPT ![p] = NoDevices]
  /\ op' = [op EXCEPT ![p] = {}]
  /\ UNCHANGED <<file, decided, saved, changes>>

TrustNext ==
  \E p \in Process :
    \/ Open(p)
    \/ \E q \in Peer :
         \/ \E k \in Key : AddDevice(p, q, k)
         \/ RemoveDevice(p, q)
         \/ UpdateLastSeen(p, q)
    \/ Save(p)
    \/ Exit(p)

TrustSpec == TrustInit /\ [][TrustNext]_trustVars

-----------------------------------------------------------------------------
(***************************************************************************)
(* Properties.                                                             *)
(***************************************************************************)
TrustTypeOK ==
  /\ file \in [state : {"absent", "empty", "torn", "whole"}, devices : Devices]
  /\ phase \in [Process -> {"out", "running", "dirty", "writing"}]
  /\ mem \in [Process -> Devices]
  /\ op \in [Process -> SUBSET [peer : Peer, key : Key \cup {NoKey}]]
  /\ decided \in Devices
  /\ saved \subseteq Devices
  /\ changes \in Nat

\* "Every mutation (add, remove, update) automatically persists to disk": a
\* command between two operations has on disk what it has in memory.
MemoryPersisted ==
  \A p \in Process :
    phase[p] = "running" =>
      file.state \in {"absent", "whole"} /\ file.devices = mem[p]

\* A pairing that add_device() has stored, and that no one has removed, is in
\* the file (the user is told "Device saved to trust store.  Ready to sync!").
PairedStaysPaired ==
  file.state = "whole" =>
    \A q \in Peer : decided[q] # NoKey => file.devices[q] = decided[q]

\* A device that `ghostsync trust remove' has removed is not in the file until
\* it is paired again.
RemovedStaysRemoved ==
  file.state = "whole" =>
    \A q \in Peer : decided[q] = NoKey => file.devices[q] = NoKey

\* When no save is under way the file can be read ("Returns: TrustStore with
\* all trusted devices loaded").
AlwaysReadable ==
  (\A p \in Process : phase[p] # "writing") => file.state \in {"absent", "whole"}

\* No silent loss and no mixture: whatever other commands, crashes and failed
\* saves have done to the file, a command that opens it works on a dictionary
\* that one save wrote, and on the empty one only if none was ever written.
OpensWhatWasSaved ==
  [][\A p \in Process :
       phase[p] = "out" /\ phase'[p] = "running" =>
         mem'[p] \in (IF saved = {} THEN {NoDevices} ELSE saved)]_trustVars

\* Used by one command at a time, the store is the map of DeviceMap: a change
\* takes effect when its save begins, and a crash during a save loses the map.
Saving == {p \in Process : phase[p] = "writing"}
Map == INSTANCE DeviceMap WITH
  trusted <- IF Saving = {} THEN file.devices ELSE mem[CHOOSE p \in Saving : TRUE],
  readable <- Saving # {} \/ file.state \in {"absent", "whole"},
  users <- {p \in Process : phase[p] # "out"}
ImplementsDeviceMap == Map!MapSpec
==============================================================================
