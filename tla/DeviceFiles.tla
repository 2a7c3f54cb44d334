----------------------------- MODULE DeviceFiles -----------------------------
(***************************************************************************)
(* ghost_sync/identity/keys.py and the two files of a device: the identity *)
(* file, which `ghostsync init' writes if there is none, and the trust     *)
(* store of TrustStore, which is encrypted with a key derived from the     *)
(* identity.  Every other command loads the first, and then the second.    *)
(*                                                                         *)
(* Like the store, the identity file is truncated and then written, without*)
(* a lock.  An init that is killed in between leaves a file that is there, *)
(* so that no other init replaces it, and that no command can load.        *)
(***************************************************************************)
EXTENDS TrustStore

CONSTANTS
  SigningKey,   \* keys that SigningKey.generate() can return; the store's are derived
  NoSigningKey,
  OneInit       \* TRUE: the user waits for an init before starting another

ASSUME SigningKeyAssumption == NoSigningKey \notin SigningKey
ASSUME InitAssumption == OneInit \in BOOLEAN

VARIABLES
  idfile,    \* the identity file: [state, key]
  inits,     \* inits that found no file: [key, at]
  generated, \* history: the keys they have generated
  identity,  \* identity[p]: the key that command p has loaded
  storeKey   \* the key of the last store that was written whole

filesVars == <<trustVars, idfile, inits, generated, identity, storeKey>>
idVars == <<idfile, inits, generated, identity, storeKey>>

AnyKey == SigningKey \cup {NoSigningKey}
\* Files that DeviceIdentity.load() reads as: no identity yet; no JSON; an identity.
NoIdentity == [state |-> "absent", key |-> NoSigningKey]
EmptyIdentity == [state |-> "empty", key |-> NoSigningKey]
IdentityOf(k) == [state |-> "whole", key |-> k]

FilesInit ==
  /\ TrustInit
  /\ idfile = NoIdentity
  /\ inits = {} /\ generated = {}
  /\ identity = [p \in Process |-> NoSigningKey]
  /\ storeKey = NoSigningKey

-----------------------------------------------------------------------------
(***************************************************************************)
(* init: DeviceIdentity.load_or_generate().                                *)
(***************************************************************************)
\* Mutant: a new identity each time, whatever there is.
GenerateAlways(k) ==
  /\ OneInit => inits = {}
  /\ k \notin generated
  /\ inits' = inits \cup {[key |-> k, at |-> "generated"]}
  /\ generated' = generated \cup {k}
  /\ UNCHANGED <<trustVars, idfile, identity, storeKey>>

\* load() raises FileNotFoundError.  It returns the identity that is there, which
\* init prints, or raises ValueError for a file that is no JSON, which ends init.
Generate(k) ==
  /\ OneInit => inits = {}
  /\ idfile.state = "absent"
  /\ k \notin generated
  /\ inits' = inits \cup {[key |-> k, at |-> "generated"]}
  /\ generated' = generated \cup {k}
  /\ UNCHANGED <<trustVars, idfile, identity, storeKey>>

\* save(): write_text opens the file, and truncates it ...
OpenIdentity(i) ==
  /\ i.at = "generated"
  /\ idfile' = EmptyIdentity
  /\ inits' = (inits \ {i}) \cup {[i EXCEPT !.at = "writing"]}
  /\ UNCHANGED <<trustVars, generated, identity, storeKey>>

\* ... and writes the key and the name, which take the same room in each init.
WriteIdentity(i) ==
  /\ i.at = "writing"
  /\ idfile' = IdentityOf(i.key)
  /\ inits' = inits \ {i}
  /\ UNCHANGED <<trustVars, generated, identity, storeKey>>

\* The init is killed, or mkdir, open or write raises.
InitDies(i) ==
  /\ inits' = inits \ {i}
  /\ UNCHANGED <<trustVars, idfile, generated, identity, storeKey>>

-----------------------------------------------------------------------------
(***************************************************************************)
(* The other commands: _load_identity(), then _load_trust_store().         *)
(***************************************************************************)
\* Mutant: without an identity, a command generates one for itself.
LoadIdentityAnyway(p) ==
  /\ phase[p] = "out" /\ identity[p] = NoSigningKey
  /\ \E k \in SigningKey :
       /\ idfile.state = "whole" => k = idfile.key
       /\ identity' = [identity EXCEPT ![p] = k]
  /\ UNCHANGED <<trustVars, idfile, inits, generated, storeKey>>

\* Without an identity the command asks for init and exits; if the file is empty it
\* ends with the ValueError.
LoadIdentity(p) ==
  /\ phase[p] = "out" /\ identity[p] = NoSigningKey
  /\ idfile.state = "whole"
  /\ identity' = [identity EXCEPT ![p] = idfile.key]
  /\ UNCHANGED <<trustVars, idfile, inits, generated, storeKey>>

\* Mutant: the store is opened before the identity is known.
LoadStoreFirst(p) ==
  /\ file.state = "whole" => storeKey = identity[p]
  /\ Open(p)
  /\ UNCHANGED idVars

\* A store that is encrypted with another key raises CryptoError.
LoadStore(p) ==
  /\ identity[p] # NoSigningKey
  /\ file.state = "whole" => storeKey = identity[p]
  /\ Open(p)
  /\ UNCHANGED idVars

SavesStore(p) ==
  /\ FinishSave(p)
  /\ storeKey' = IF file'.state = "whole" THEN identity[p] ELSE storeKey
  /\ UNCHANGED <<idfile, inits, generated, identity>>

\* The command ends or is killed, with the store open or not.
Ends(p) ==
  /\ identity[p] # NoSigningKey
  /\ Exit(p) \/ (phase[p] = "out" /\ UNCHANGED trustVars)
  /\ identity' = [identity EXCEPT ![p] = NoSigningKey]
  /\ UNCHANGED <<idfile, inits, generated, storeKey>>

\* What else a command does is to its store only.
OnStore(p) ==
  \/ \E q \in Peer :
       \/ \E k \in Key : AddDevice(p, q, k)
       \/ RemoveDevice(p, q)
       \/ UpdateLastSeen(p, q)
  \/ BeginSave(p) \/ SaveFails(p)

FilesNext ==
  \/ \E k \in SigningKey : Generate(k)
  \/ \E i \in inits : OpenIdentity(i) \/ WriteIdentity(i) \/ InitDies(i)
  \/ \E p \in Process :
       \/ LoadIdentity(p) \/ LoadStore(p) \/ SavesStore(p) \/ Ends(p)
       \/ OnStore(p) /\ UNCHANGED idVars

FilesSpec == FilesInit /\ [][FilesNext]_filesVars

-----------------------------------------------------------------------------
(***************************************************************************)
(* Properties.                                                             *)
(***************************************************************************)
\* Types; a command with an open store has an identity, and an identity file that is
\* there and not whole is being written or was left by an init that died.
FilesTypeOK ==
  /\ idfile \in [state : {"absent", "empty", "whole"}, key : AnyKey]
  /\ idfile.state = "whole" <=> idfile.key # NoSigningKey
  /\ inits \subseteq [key : SigningKey, at : {"generated", "writing"}]
  /\ generated \subseteq SigningKey
  /\ identity \in [Process -> AnyKey]
  /\ storeKey \in AnyKey
  /\ \A p \in Process : phase[p] # "out" => identity[p] # NoSigningKey

\* "load should load existing identity, not generate new": with one init at a time,
\* whatever crashes, a device has one key for ever, and all commands work under it.
OneKey == INSTANCE DeviceKey WITH key <- idfile.key, holds <- identity
ImplementsDeviceKey == OneKey!KeySpec

\* A store that is whole can be opened with the identity there is: no crash, and no
\* command that was started before the identity, leaves a store under a lost key.
StoreIsOurs == file.state = "whole" => idfile = IdentityOf(storeKey)
==============================================================================
