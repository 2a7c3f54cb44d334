-------------------------- MODULE TrustStoreProofs ---------------------------
(***************************************************************************)
(* Theorems about TrustStore, for every set of processes, peers and keys.  *)
(***************************************************************************)
EXTENDS TrustStore, TLAPS

-----------------------------------------------------------------------------
(***************************************************************************)
(* Type correctness.                                                       *)
(***************************************************************************)
LEMMA NoDevicesType == NoDevices \in Devices
BY DEF NoDevices, Devices

LEMMA MutateType ==
  ASSUME TrustTypeOK, NEW p \in Process, NEW q \in Peer, NEW k \in Key \cup {NoKey},
         Mutate(p, q, k)
  PROVE  /\ mem' \in [Process -> Devices]
         /\ phase' \in [Process -> {"out", "running", "dirty", "writing"}]
<1>1. [mem[p] EXCEPT ![q] = k] \in Devices
  BY DEF TrustTypeOK, Devices
<1>2. QED
  BY <1>1 DEF TrustTypeOK, Mutate

LEMMA TrustTypeStep ==
  ASSUME TrustTypeOK, [TrustNext]_trustVars
  PROVE  TrustTypeOK'
<1> USE NoDevicesType
<1>1. ASSUME NEW p \in Process, Open(p)
      PROVE  TrustTypeOK'
  BY <1>1 DEF Open, TrustTypeOK
<1>2. ASSUME NEW p \in Process, NEW q \in Peer, NEW k \in Key, AddDevice(p, q, k)
      PROVE  TrustTypeOK'
  <2>1. Mutate(p, q, k)
    BY <1>2 DEF AddDevice
  <2>2. op' \in [Process -> SUBSET [peer : Peer, key : Key \cup {NoKey}]]
    BY <1>2 DEF AddDevice, TrustTypeOK
  <2>3. QED
    BY <1>2, <2>1, <2>2, MutateType DEF AddDevice, TrustTypeOK
<1>3. ASSUME NEW p \in Process, NEW q \in Peer, RemoveDevice(p, q)
      PROVE  TrustTypeOK'
  <2>1. Mutate(p, q, NoKey)
    BY <1>3 DEF RemoveDevice
  <2>2. op' \in [Process -> SUBSET [peer : Peer, key : Key \cup {NoKey}]]
    BY <1>3 DEF RemoveDevice, TrustTypeOK
  <2>3. QED
    BY <1>3, <2>1, <2>2, MutateType DEF RemoveDevice, TrustTypeOK
<1>4. ASSUME NEW p \in Process, NEW q \in Peer, UpdateLastSeen(p, q)
      PROVE  TrustTypeOK'
  <2>1. Mutate(p, q, mem[p][q]) /\ mem[p][q] \in Key \cup {NoKey}
    BY <1>4 DEF UpdateLastSeen, TrustTypeOK, Devices
  <2>2. QED
    BY <1>4, <2>1, MutateType DEF UpdateLastSeen, TrustTypeOK
<1>5. ASSUME NEW p \in Process, BeginSave(p)
      PROVE  TrustTypeOK'
  BY <1>5 DEF BeginSave, TrustTypeOK, Truncated
<1>6. ASSUME NEW p \in Process, FinishSave(p)
      PROVE  TrustTypeOK'
  <2>1. file' \in {Whole(mem[p]), Torn}
    BY <1>6 DEF FinishSave
  <2>2. file' \in [state : {"absent", "empty", "torn", "whole"}, devices : Devices]
    BY <2>1 DEF TrustTypeOK, Whole, Torn
  <2>3. \A q \in Peer : (\E o \in op[p] : o.peer = q) =>
          (CHOOSE o \in op[p] : o.peer = q).key \in Key \cup {NoKey}
    BY DEF TrustTypeOK
  <2>4. decided' \in Devices
    BY <1>6, <2>3 DEF FinishSave, TrustTypeOK, Devices
  <2>5. QED
    BY <1>6, <2>2, <2>4 DEF FinishSave, TrustTypeOK
<1>7. ASSUME NEW p \in Process, SaveFails(p)
      PROVE  TrustTypeOK'
  BY <1>7 DEF SaveFails, TrustTypeOK
<1>8. ASSUME NEW p \in Process, Exit(p)
      PROVE  TrustTypeOK'
  BY <1>8 DEF Exit, TrustTypeOK
<1>9. CASE UNCHANGED trustVars
  BY <1>9 DEF trustVars, TrustTypeOK
<1>10. QED
  BY <1>1, <1>2, <1>3, <1>4, <1>5, <1>6, <1>7, <1>8, <1>9 DEF TrustNext, Save

\* The store's state is always well typed; in particular a dictionary read
\* back from the file is a dictionary.
THEOREM TrustTypeCorrect == TrustSpec => []TrustTypeOK
<1>1. TrustInit => TrustTypeOK
  BY NoDevicesType, ChangesAssumption DEF TrustInit, TrustTypeOK, Absent
<1>2. QED
  BY <1>1, TrustTypeStep, PTL DEF TrustSpec

-----------------------------------------------------------------------------
(***************************************************************************)
(* What a command opens, with any number of other commands beside it.      *)
(***************************************************************************)
\* What the file holds, or a save is about to give it, has been recorded.
SavedInv ==
  /\ TrustTypeOK
  /\ file.state = "absent" => saved = {} /\ file.devices = NoDevices
  /\ file.state = "whole" => file.devices \in saved
  /\ \A p \in Process : phase[p] = "writing" => mem[p] \in saved

LEMMA SavedStep ==
  ASSUME SavedInv, TrustTypeOK', [TrustNext]_trustVars
  PROVE  SavedInv'
<1>0. TrustTypeOK
  BY DEF SavedInv
<1>1. ASSUME NEW p \in Process, Open(p)
      PROVE  SavedInv'
  BY <1>0, <1>1 DEF Open, SavedInv, TrustTypeOK
<1>2. ASSUME NEW p \in Process, NEW q \in Peer, NEW k \in Key \cup {NoKey}, Mutate(p, q, k),
             UNCHANGED <<file, saved>>
      PROVE  SavedInv'
  BY <1>0, <1>2 DEF Mutate, SavedInv, TrustTypeOK
<1>3. ASSUME NEW p \in Process, BeginSave(p)
      PROVE  SavedInv'
  BY <1>0, <1>3 DEF BeginSave, Truncated, SavedInv, TrustTypeOK
<1>4. ASSUME NEW p \in Process, FinishSave(p)
      PROVE  SavedInv'
  BY <1>0, <1>4 DEF FinishSave, Whole, Torn, SavedInv, TrustTypeOK
<1>5. ASSUME NEW p \in Process, SaveFails(p) \/ Exit(p)
      PROVE  SavedInv'
  BY <1>0, <1>5 DEF SaveFails, Exit, SavedInv, TrustTypeOK
<1>6. CASE UNCHANGED trustVars
  BY <1>6 DEF trustVars, SavedInv, TrustTypeOK
<1>7. ASSUME NEW p \in Process, NEW q \in Peer, UpdateLastSeen(p, q)
      PROVE  SavedInv'
  <2>1. mem[p][q] \in Key \cup {NoKey}
    BY <1>0 DEF TrustTypeOK, Devices
  <2>2. QED
    BY <1>2, <1>7, <2>1 DEF UpdateLastSeen
<1>8. ASSUME NEW p \in Process, NEW q \in Peer,
             RemoveDevice(p, q) \/ \E k \in Key : AddDevice(p, q, k)
      PROVE  SavedInv'
  BY <1>2, <1>8 DEF RemoveDevice, AddDevice
<1>9. QED
  BY <1>1, <1>3, <1>4, <1>5, <1>6, <1>7, <1>8 DEF TrustNext, Save

\* However many commands share the file, whatever crashes or fails: a command
\* never opens a mixture, nor an empty store in place of a lost one.
THEOREM NeverOpensAMixture == TrustSpec => OpensWhatWasSaved
<1>1. TrustInit => SavedInv
  BY NoDevicesType, ChangesAssumption DEF TrustInit, SavedInv, TrustTypeOK, Absent
<1>2. SavedInv /\ [TrustNext]_trustVars => SavedInv'
  BY SavedStep, TrustTypeStep DEF SavedInv
<1>3. ASSUME SavedInv, [TrustNext]_trustVars
      PROVE  [\A p \in Process :
                phase[p] = "out" /\ phase'[p] = "running" =>
                  mem'[p] \in (IF saved = {} THEN {NoDevices} ELSE saved)]_trustVars
  <2>1. SUFFICES ASSUME NEW p \in Process, phase[p] = "out", phase'[p] = "running",
                        TrustNext
                 PROVE  mem'[p] \in (IF saved = {} THEN {NoDevices} ELSE saved)
    BY <1>3 DEF trustVars
  <2>2. Open(p)
    BY <1>3, <2>1 DEF TrustNext, Save, Open, AddDevice, RemoveDevice, UpdateLastSeen, Mutate,
       BeginSave, FinishSave, SaveFails, Exit, SavedInv, TrustTypeOK
  <2>3. QED
    BY <1>3, <2>2 DEF Open, SavedInv, TrustTypeOK
<1>4. QED
  BY <1>1, <1>2, <1>3, PTL DEF TrustSpec, OpensWhatWasSaved

-----------------------------------------------------------------------------
(***************************************************************************)
(* One command at a time.                                                  *)
(***************************************************************************)
Readable == file.state \in {"absent", "whole"}

\* Only one command has the store open, and at each point of an operation the
\* file and that command's dictionary are at most one change apart.
ExclusiveInv ==
  /\ TrustTypeOK
  /\ file.state # "whole" => file.devices = NoDevices
  /\ \A p, r \in Process : phase[p] # "out" /\ phase[r] # "out" => p = r
  /\ \A p \in Process :
       /\ phase[p] \in {"running", "dirty"} => Readable
       /\ phase[p] = "running" => mem[p] = file.devices
       /\ phase[p] = "dirty" =>
            \E q \in Peer, k \in Key \cup {NoKey} : mem[p] = [file.devices EXCEPT ![q] = k]
       /\ phase[p] = "writing" => file = Truncated

LEMMA ExclusiveStep ==
  ASSUME Exclusive, ~SaveMayFail,
         ExclusiveInv, TrustTypeOK', [TrustNext]_trustVars
  PROVE  ExclusiveInv'
<1>0. TrustTypeOK
  BY DEF ExclusiveInv
<1>1. ASSUME NEW p \in Process, Open(p)
      PROVE  ExclusiveInv'
  BY <1>0, <1>1 DEF Open, ExclusiveInv, TrustTypeOK, Readable
<1>2. ASSUME NEW p \in Process, NEW q \in Peer, NEW k \in Key \cup {NoKey}, Mutate(p, q, k),
             UNCHANGED file
      PROVE  ExclusiveInv'
  <2>1. /\ mem'[p] = [file.devices EXCEPT ![q] = k]
        /\ phase[p] = "running" /\ phase'[p] = "dirty"
        /\ Readable
    BY <1>0, <1>2 DEF Mutate, ExclusiveInv, TrustTypeOK
  <2>2. \A r \in Process : r # p => phase'[r] = phase[r] /\ phase[r] = "out"
    BY <1>0, <1>2 DEF Mutate, ExclusiveInv, TrustTypeOK
  <2>3. QED
    BY <1>0, <1>2, <2>1, <2>2 DEF ExclusiveInv, Readable
<1>3. ASSUME NEW p \in Process, BeginSave(p)
      PROVE  ExclusiveInv'
  <2>1. \A r \in Process : r # p => phase'[r] = phase[r] /\ phase[r] = "out"
    BY <1>0, <1>3 DEF BeginSave, ExclusiveInv, TrustTypeOK
  <2>2. phase'[p] = "writing" /\ file' = Truncated /\ file'.devices = NoDevices
    BY <1>0, <1>3 DEF BeginSave, TrustTypeOK, Truncated
  <2>3. QED
    BY <1>0, <2>1, <2>2 DEF ExclusiveInv
<1>4. ASSUME NEW p \in Process, FinishSave(p)
      PROVE  ExclusiveInv'
  <2>1. \A r \in Process : r # p => phase'[r] = phase[r] /\ phase[r] = "out"
    BY <1>0, <1>4 DEF FinishSave, ExclusiveInv, TrustTypeOK
  <2>2. file = Truncated
    BY <1>4 DEF FinishSave, ExclusiveInv
  <2>3. file' = Whole(mem[p])
    BY <1>4, <2>2 DEF FinishSave, MayBecome, Truncated
  <2>4. phase'[p] = "running" /\ mem' = mem /\ file'.state = "whole" /\ file'.devices = mem[p]
    BY <1>0, <1>4, <2>3 DEF FinishSave, TrustTypeOK, Whole
  <2>5. QED
    BY <1>0, <2>1, <2>4 DEF ExclusiveInv, Readable
<1>5. ASSUME NEW p \in Process, Exit(p)
      PROVE  ExclusiveInv'
  BY <1>0, <1>5 DEF Exit, ExclusiveInv, TrustTypeOK, Readable
<1>6. CASE UNCHANGED trustVars
  BY <1>6 DEF trustVars, ExclusiveInv, TrustTypeOK, Readable
<1>7. ASSUME NEW p \in Process, NEW q \in Peer, UpdateLastSeen(p, q)
      PROVE  ExclusiveInv'
  <2>1. mem[p][q] \in Key \cup {NoKey}
    BY <1>0 DEF TrustTypeOK, Devices
  <2>2. QED
    BY <1>2, <1>7, <2>1 DEF UpdateLastSeen
<1>8. ASSUME NEW p \in Process, NEW q \in Peer,
             RemoveDevice(p, q) \/ \E k \in Key : AddDevice(p, q, k)
      PROVE  ExclusiveInv'
  BY <1>2, <1>8 DEF RemoveDevice, AddDevice
<1>9. QED
  BY <1>1, <1>3, <1>4, <1>5, <1>6, <1>7, <1>8 DEF TrustNext, Save, SaveFails

LEMMA ExclusiveInvariant ==
  ASSUME Exclusive, ~SaveMayFail
  PROVE  TrustSpec => []ExclusiveInv
<1>1. TrustInit => ExclusiveInv
  BY NoDevicesType, ChangesAssumption DEF TrustInit, ExclusiveInv, TrustTypeOK, Absent
<1>2. ExclusiveInv /\ [TrustNext]_trustVars => ExclusiveInv'
  BY ExclusiveStep, TrustTypeStep DEF ExclusiveInv
<1>3. QED
  BY <1>1, <1>2, PTL DEF TrustSpec

\* With one command at a time, and no failing save, what a command has in
\* memory between two operations is what the file holds.
THEOREM MutationsPersist ==
  ASSUME Exclusive, ~SaveMayFail
  PROVE  TrustSpec => []MemoryPersisted
<1>1. ExclusiveInv => MemoryPersisted
  BY DEF ExclusiveInv, MemoryPersisted, Readable
<1>2. QED
  BY <1>1, ExclusiveInvariant, PTL

\* The refinement's map, as a definition of its own so that a step can be
\* described by the phase the working command is in.
TrustedMap == IF Saving = {} THEN file.devices ELSE mem[CHOOSE p \in Saving : TRUE]

TrustedMapShape ==
  /\ \A p \in Process : phase[p] = "writing" => Saving = {p} /\ TrustedMap = mem[p]
  /\ (\A p \in Process : phase[p] # "writing") => Saving = {} /\ TrustedMap = file.devices

LEMMA TrustedMapIs == ExclusiveInv => TrustedMapShape
<1>1. ASSUME ExclusiveInv, NEW p \in Process, phase[p] = "writing"
      PROVE  Saving = {p} /\ TrustedMap = mem[p]
  <2>1. Saving = {p}
    BY <1>1 DEF Saving, ExclusiveInv
  <2>2. (CHOOSE r \in Saving : TRUE) = p
    BY <2>1
  <2>3. QED
    BY <2>1, <2>2 DEF TrustedMap
<1>2. (\A p \in Process : phase[p] # "writing") => Saving = {} /\ TrustedMap = file.devices
  BY DEF Saving, TrustedMap
<1>3. QED
  BY <1>1, <1>2 DEF TrustedMapShape

Users == {p \in Process : phase[p] # "out"}
MapReadable == Saving # {} \/ Readable

\* Each step of a command, seen through the refinement's map.
LEMMA MapStep ==
  ASSUME Exclusive, ~SaveMayFail, ExclusiveInv, ExclusiveInv', TrustTypeOK,
         TrustedMapShape, TrustedMapShape', TrustNext
  PROVE  \/ UNCHANGED <<TrustedMap, MapReadable, Users>>
         \/ \E p \in Process :
              \/ /\ MapReadable /\ Users' = Users \cup {p}
                 /\ UNCHANGED <<TrustedMap, MapReadable>>
              \/ /\ p \in Users
                 /\ \E q \in Peer, k \in Key \cup {NoKey} :
                      TrustedMap' = [TrustedMap EXCEPT ![q] = k]
                 /\ UNCHANGED <<MapReadable, Users>>
              \/ Users' = Users \ {p} /\ UNCHANGED <<TrustedMap, MapReadable>>
              \/ /\ p \in Users /\ TrustedMap' = NoDevices
                 /\ MapReadable' = FALSE /\ Users' = Users \ {p}
<1>1. ASSUME NEW p \in Process, Open(p)
      PROVE  /\ MapReadable /\ Users' = Users \cup {p}
             /\ UNCHANGED <<TrustedMap, MapReadable>>
  <2>1. /\ \A r \in Process : phase[r] = "out" /\ phase'[r] # "writing"
        /\ file' = file
    BY <1>1 DEF Open, TrustTypeOK
  <2>2. Users' = Users \cup {p}
    BY <1>1 DEF Open, TrustTypeOK, Users
  <2>3. QED
    BY <1>1, <2>1, <2>2 DEF Open, TrustedMapShape, MapReadable, Readable
<1>2. ASSUME NEW p \in Process, NEW q \in Peer, NEW k \in Key \cup {NoKey}, Mutate(p, q, k),
             UNCHANGED file
      PROVE  UNCHANGED <<TrustedMap, MapReadable, Users>>
  <2>1. \A r \in Process : phase[r] # "writing" /\ phase'[r] # "writing"
    BY <1>2 DEF Mutate, ExclusiveInv, TrustTypeOK
  <2>2. Users' = Users
    BY <1>2 DEF Mutate, TrustTypeOK, Users
  <2>3. QED
    BY <1>2, <2>1, <2>2 DEF TrustedMapShape, MapReadable, Readable
<1>3. ASSUME NEW p \in Process, BeginSave(p)
      PROVE  /\ p \in Users
             /\ \E q \in Peer, k \in Key \cup {NoKey} :
                  TrustedMap' = [TrustedMap EXCEPT ![q] = k]
             /\ UNCHANGED <<MapReadable, Users>>
  <2>1. \A r \in Process : phase[r] # "writing"
    BY <1>3 DEF BeginSave, ExclusiveInv, TrustTypeOK
  <2>2. phase'[p] = "writing" /\ mem' = mem /\ p \in Users
    BY <1>3 DEF BeginSave, TrustTypeOK, Users
  <2>3. \E q \in Peer, k \in Key \cup {NoKey} : mem[p] = [file.devices EXCEPT ![q] = k]
    BY <1>3 DEF BeginSave, ExclusiveInv
  <2>4. TrustedMap' = mem[p] /\ TrustedMap = file.devices
    BY <2>1, <2>2 DEF TrustedMapShape
  <2>5. MapReadable' = TRUE /\ MapReadable = TRUE
    BY <1>3, <2>2 DEF BeginSave, TrustedMapShape, MapReadable, ExclusiveInv
  <2>6. Users' = Users
    BY <1>3 DEF BeginSave, TrustTypeOK, Users
  <2>7. QED
    BY <2>2, <2>3, <2>4, <2>5, <2>6
<1>4. ASSUME NEW p \in Process, FinishSave(p)
      PROVE  UNCHANGED <<TrustedMap, MapReadable, Users>>
  <2>1. file' = Whole(mem[p])
    BY <1>4 DEF FinishSave, ExclusiveInv, MayBecome, Truncated
  <2>2. phase[p] = "writing" /\ mem' = mem /\ \A r \in Process : phase'[r] # "writing"
    BY <1>4 DEF FinishSave, ExclusiveInv, TrustTypeOK
  <2>3. TrustedMap' = mem[p] /\ TrustedMap = mem[p]
    BY <2>1, <2>2 DEF TrustedMapShape, Whole
  <2>4. MapReadable' = TRUE /\ MapReadable = TRUE
    BY <2>1, <2>2 DEF TrustedMapShape, MapReadable, Readable, Whole
  <2>5. Users' = Users
    BY <1>4 DEF FinishSave, TrustTypeOK, Users
  <2>6. QED
    BY <2>3, <2>4, <2>5
<1>5. ASSUME NEW p \in Process, Exit(p)
      PROVE  \/ Users' = Users \ {p} /\ UNCHANGED <<TrustedMap, MapReadable>>
             \/ /\ p \in Users /\ TrustedMap' = NoDevices
                /\ MapReadable' = FALSE /\ Users' = Users \ {p}
  <2>1. Users' = Users \ {p} /\ p \in Users /\ file' = file
    BY <1>5 DEF Exit, TrustTypeOK, Users
  <2>2. \A r \in Process : phase'[r] = "out"
    BY <1>5 DEF Exit, ExclusiveInv, TrustTypeOK
  <2>3. Saving' = {} /\ TrustedMap' = file.devices
    BY <2>1, <2>2 DEF TrustedMapShape
  <2>4. CASE phase[p] = "writing"
    <3>1. file = Truncated
      BY <2>4 DEF ExclusiveInv
    <3>2. TrustedMap' = NoDevices /\ MapReadable' = FALSE
      BY <2>1, <2>3, <3>1 DEF Truncated, MapReadable, Readable
    <3>3. QED
      BY <2>1, <3>2
  <2>5. CASE phase[p] # "writing"
    <3>1. \A r \in Process : phase[r] # "writing"
      BY <1>5, <2>5 DEF Exit, ExclusiveInv, TrustTypeOK
    <3>2. Saving = {} /\ TrustedMap = file.devices
      BY <3>1 DEF TrustedMapShape
    <3>3. QED
      BY <2>1, <2>3, <3>2 DEF MapReadable, Readable
  <2>6. QED
    BY <2>4, <2>5
<1>6. ASSUME NEW p \in Process, NEW q \in Peer, UpdateLastSeen(p, q)
      PROVE  UNCHANGED <<TrustedMap, MapReadable, Users>>
  <2>1. mem[p][q] \in Key \cup {NoKey}
    BY DEF TrustTypeOK, Devices
  <2>2. Mutate(p, q, mem[p][q]) /\ UNCHANGED file
    BY <1>6 DEF UpdateLastSeen
  <2>3. QED
    BY <1>2, <2>1, <2>2
<1>7. ASSUME NEW p \in Process, NEW q \in Peer,
             RemoveDevice(p, q) \/ \E k \in Key : AddDevice(p, q, k)
      PROVE  UNCHANGED <<TrustedMap, MapReadable, Users>>
  <2>1. UNCHANGED file /\ \E k \in Key \cup {NoKey} : Mutate(p, q, k)
    BY <1>7 DEF RemoveDevice, AddDevice
  <2>2. QED
    BY <1>2, <2>1
<1>8. PICK p \in Process :
        \/ Open(p)
        \/ \E q \in Peer : UpdateLastSeen(p, q) \/ RemoveDevice(p, q)
                           \/ \E k \in Key : AddDevice(p, q, k)
        \/ BeginSave(p) \/ FinishSave(p) \/ Exit(p)
  BY DEF TrustNext, Save, SaveFails
<1>9. QED
  BY <1>1, <1>3, <1>4, <1>5, <1>6, <1>7, <1>8

\* With one command at a time, and no failing save, the store is the atomic
\* map of DeviceMap: every change is complete or, after a crash in the middle,
\* the store is unreadable; it is never readable and wrong.
THEOREM StoreImplementsDeviceMap ==
  ASSUME Exclusive, ~SaveMayFail
  PROVE  TrustSpec => ImplementsDeviceMap
<1>1. TrustInit => Map!MapInit
  BY DEF TrustInit, Map!MapInit, Saving, Absent, NoDevices
<1>2. ASSUME ExclusiveInv, ExclusiveInv', [TrustNext]_trustVars
      PROVE  [Map!MapNext]_Map!mapVars
  <2>1. TrustedMapShape /\ TrustedMapShape' /\ TrustTypeOK
    BY <1>2, TrustedMapIs, PTL DEF ExclusiveInv
  <2>2. CASE UNCHANGED trustVars
    BY <2>2 DEF trustVars, Map!mapVars, Saving
  <2>3. CASE TrustNext
    BY <1>2, <2>1, <2>3, MapStep DEF Map!MapNext, Map!Open, Map!Change, Map!Close,
       Map!Die, Map!mapVars, TrustedMap, MapReadable, Readable, Users, NoDevices
  <2>4. QED
    BY <1>2, <2>2, <2>3
<1>3. QED
  BY <1>1, <1>2, ExclusiveInvariant, PTL DEF TrustSpec, ImplementsDeviceMap, Map!MapSpec

-----------------------------------------------------------------------------
(***************************************************************************)
(* One command at a time: what has been decided is what the file holds.    *)
(***************************************************************************)
\* The decisions so far, and the one that the save of p is for.
Decides(p) ==
  [q \in Peer |-> IF \E o \in op[p] : o.peer = q
                  THEN (CHOOSE o \in op[p] : o.peer = q).key
                  ELSE decided[q]]

DecidedInv ==
  /\ Readable => file.devices = decided
  /\ \A p \in Process :
       /\ phase[p] \in {"out", "running"} => op[p] = {}
       /\ phase[p] \in {"dirty", "writing"} => mem[p] = Decides(p)

LEMMA DecidesNothing ==
  ASSUME TrustTypeOK, NEW p \in Process, op[p] = {}
  PROVE  Decides(p) = decided
BY DEF Decides, TrustTypeOK, Devices

LEMMA DecidesOne ==
  ASSUME TrustTypeOK, NEW p \in Process, NEW q \in Peer, NEW k \in Key \cup {NoKey},
         UNCHANGED decided, op' = [op EXCEPT ![p] = {[peer |-> q, key |-> k]}]
  PROVE  Decides(p)' = [decided EXCEPT ![q] = k]
<1> DEFINE o == [peer |-> q, key |-> k]
<1>1. op'[p] = {o}
  BY DEF TrustTypeOK
<1>2. o.peer = q /\ o.key = k
  OBVIOUS
<1> HIDE DEF o
<1>3. (CHOOSE x \in {o} : x.peer = q) = o
  BY <1>2
<1>4. \A r \in Peer : (\E x \in {o} : x.peer = r) <=> r = q
  BY <1>2
<1>5. Decides(p)' = [r \in Peer |-> IF r = q THEN k ELSE decided[r]]
  BY <1>1, <1>2, <1>3, <1>4 DEF Decides
<1>6. QED
  BY <1>5 DEF TrustTypeOK, Devices

LEMMA DecidedStep ==
  ASSUME Exclusive, ~SaveMayFail, ExclusiveInv, ExclusiveInv', DecidedInv, [TrustNext]_trustVars
  PROVE  DecidedInv'
<1>0. TrustTypeOK /\ TrustTypeOK'
  BY DEF ExclusiveInv
<1>1. ASSUME NEW p \in Process, Open(p)
      PROVE  DecidedInv'
  BY <1>0, <1>1 DEF Open, DecidedInv, Decides, TrustTypeOK, Readable
<1>2. ASSUME NEW p \in Process, NEW q \in Peer, NEW k \in Key \cup {NoKey}, Mutate(p, q, k),
             UNCHANGED <<file, decided>>, mem'[p] = Decides(p)',
             \A r \in Process : r # p => op'[r] = op[r]
      PROVE  DecidedInv'
  <2>1. \A r \in Process : r # p => phase'[r] = phase[r] /\ phase[r] = "out"
    BY <1>0, <1>2 DEF Mutate, ExclusiveInv, TrustTypeOK
  <2>2. phase'[p] = "dirty"
    BY <1>0, <1>2 DEF Mutate, TrustTypeOK
  <2>3. QED
    BY <1>2, <2>1, <2>2 DEF DecidedInv, Readable
<1>3. ASSUME NEW p \in Process, NEW q \in Peer, NEW k \in Key \cup {NoKey}, Mutate(p, q, k),
             UNCHANGED <<file, decided>>, op' = [op EXCEPT ![p] = {[peer |-> q, key |-> k]}]
      PROVE  DecidedInv'
  <2>1. mem[p] = decided
    BY <1>3 DEF Mutate, ExclusiveInv, DecidedInv
  <2>2. mem'[p] = [decided EXCEPT ![q] = k]
    BY <1>0, <1>3, <2>1 DEF Mutate, TrustTypeOK
  <2>3. Decides(p)' = [decided EXCEPT ![q] = k]
    BY <1>0, <1>3, DecidesOne
  <2>4. \A r \in Process : r # p => op'[r] = op[r]
    <3> DEFINE o == {[peer |-> q, key |-> k]}
    <3>1. op' = [op EXCEPT ![p] = o]
      BY <1>3
    <3> HIDE DEF o
    <3>2. QED
      BY <1>0, <3>1 DEF TrustTypeOK
  <2>5. QED
    BY <1>2, <1>3, <2>2, <2>3, <2>4
<1>4. ASSUME NEW p \in Process, NEW q \in Peer,
             RemoveDevice(p, q) \/ \E k \in Key : AddDevice(p, q, k)
      PROVE  DecidedInv'
  BY <1>3, <1>4 DEF RemoveDevice, AddDevice
<1>5. ASSUME NEW p \in Process, NEW q \in Peer, UpdateLastSeen(p, q)
      PROVE  DecidedInv'
  <2>1. /\ Mutate(p, q, mem[p][q]) /\ mem[p][q] \in Key \cup {NoKey}
        /\ UNCHANGED <<file, op, decided>> /\ phase[p] = "running"
    BY <1>0, <1>5 DEF UpdateLastSeen, Mutate, TrustTypeOK, Devices
  <2>2. mem[p] = decided /\ op[p] = {}
    BY <2>1 DEF ExclusiveInv, DecidedInv
  <2>3. mem'[p] = [mem[p] EXCEPT ![q] = mem[p][q]] /\ mem[p] \in Devices
    BY <1>0, <2>1 DEF Mutate, TrustTypeOK
  <2>4. mem'[p] = decided
    BY <2>2, <2>3 DEF Devices
  <2>5. Decides(p)' = decided
    BY <1>0, <2>1, <2>2, DecidesNothing DEF Decides
  <2>6. QED
    BY <1>2, <2>1, <2>4, <2>5
<1>6. ASSUME NEW p \in Process, BeginSave(p)
      PROVE  DecidedInv'
  BY <1>0, <1>6 DEF BeginSave, DecidedInv, Decides, TrustTypeOK, Readable, Truncated
<1>7. ASSUME NEW p \in Process, FinishSave(p)
      PROVE  DecidedInv'
  <2>1. file = Truncated /\ phase[p] = "writing"
    BY <1>7 DEF FinishSave, ExclusiveInv
  <2>2. file' = Whole(mem[p])
    BY <1>7, <2>1 DEF FinishSave, MayBecome, Truncated
  <2>3. decided' = Decides(p) /\ mem[p] = Decides(p)
    BY <1>7, <2>1 DEF FinishSave, Decides, DecidedInv
  <2>4. file'.devices = decided'
    BY <2>2, <2>3 DEF Whole
  <2>5. phase'[p] = "running" /\ op'[p] = {}
    BY <1>0, <1>7 DEF FinishSave, TrustTypeOK
  <2>6. \A r \in Process : r # p => phase'[r] = "out" /\ op'[r] = op[r] /\ op[r] = {}
    BY <1>0, <1>7, <2>1 DEF FinishSave, ExclusiveInv, TrustTypeOK, DecidedInv
  <2>7. QED
    BY <2>4, <2>5, <2>6 DEF DecidedInv
<1>8. ASSUME NEW p \in Process, Exit(p)
      PROVE  DecidedInv'
  BY <1>0, <1>8 DEF Exit, DecidedInv, Decides, TrustTypeOK, Readable
<1>9. CASE UNCHANGED trustVars
  BY <1>9 DEF trustVars, DecidedInv, Decides, Readable
<1>10. QED
  BY <1>1, <1>4, <1>5, <1>6, <1>7, <1>8, <1>9 DEF TrustNext, Save, SaveFails

LEMMA DecidedInvariant ==
  ASSUME Exclusive, ~SaveMayFail
  PROVE  TrustSpec => []DecidedInv
<1>1. TrustInit => DecidedInv
  BY DEF TrustInit, DecidedInv, Absent, Readable
<1>2. ExclusiveInv /\ ExclusiveInv' /\ DecidedInv /\ [TrustNext]_trustVars => DecidedInv'
  BY DecidedStep
<1>3. QED
  BY <1>1, <1>2, ExclusiveInvariant, PTL DEF TrustSpec

\* With one command at a time, and no failing save: a pairing that has been
\* stored is in the file, with the key that it was stored with, until the device
\* is paired again or removed, whichever commands save the whole file since.
THEOREM PairingsSurvive ==
  ASSUME Exclusive, ~SaveMayFail
  PROVE  TrustSpec => []PairedStaysPaired
<1>1. DecidedInv => PairedStaysPaired
  BY DEF DecidedInv, PairedStaysPaired, Readable
<1>2. QED
  BY <1>1, DecidedInvariant, PTL

\* Under the same two assumptions a removed device does not come back.
THEOREM RemovalsLast ==
  ASSUME Exclusive, ~SaveMayFail
  PROVE  TrustSpec => []RemovedStaysRemoved
<1>1. DecidedInv => RemovedStaysRemoved
  BY DEF DecidedInv, RemovedStaysRemoved, Readable
<1>2. QED
  BY <1>1, DecidedInvariant, PTL
==============================================================================
