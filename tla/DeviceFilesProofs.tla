-------------------------- MODULE DeviceFilesProofs --------------------------
(***************************************************************************)
(* Theorems about DeviceFiles, for any number of commands, keys and kills. *)
(***************************************************************************)
EXTENDS DeviceFiles, TrustStoreProofs

\* The two files together restrict what commands do with the store, and add nothing
\* to it: each step of DeviceFiles is a step of TrustStore, or leaves it alone.
LEMMA FilesStep ==
  ASSUME [FilesNext]_filesVars
  PROVE  [TrustNext]_trustVars
<1>1. CASE UNCHANGED filesVars
  BY <1>1 DEF filesVars
<1>2. ASSUME NEW k \in SigningKey, Generate(k)
      PROVE  UNCHANGED trustVars
  BY <1>2 DEF Generate
<1>3. ASSUME NEW i \in inits, OpenIdentity(i) \/ WriteIdentity(i) \/ InitDies(i)
      PROVE  UNCHANGED trustVars
  BY <1>3 DEF OpenIdentity, WriteIdentity, InitDies
<1>4. ASSUME NEW p \in Process, LoadIdentity(p) \/ LoadStore(p) \/ Ends(p)
      PROVE  [TrustNext]_trustVars
  BY <1>4 DEF LoadIdentity, LoadStore, Ends, TrustNext
<1>5. ASSUME NEW p \in Process, SavesStore(p)
      PROVE  TrustNext
  <2>1. Save(p)
    BY <1>5 DEF SavesStore, Save, FinishSave
  <2>2. QED
    BY <2>1 DEF TrustNext
<1>6. ASSUME NEW p \in Process, OnStore(p)
      PROVE  TrustNext
  <2>1. CASE BeginSave(p) \/ SaveFails(p)
    BY <2>1 DEF TrustNext, Save, BeginSave, SaveFails
  <2>2. QED
    BY <1>6, <2>1 DEF OnStore, TrustNext
<1>7. QED
  BY <1>1, <1>2, <1>3, <1>4, <1>5, <1>6 DEF FilesNext

\* What is shown of the trust store holds beside init and under changing keys too.
THEOREM FilesImplementTrustStore == FilesSpec => TrustSpec
<1>1. FilesInit => TrustInit
  BY DEF FilesInit
<1>2. [FilesNext]_filesVars => [TrustNext]_trustVars
  BY FilesStep
<1>3. QED
  BY <1>1, <1>2, PTL DEF FilesSpec, TrustSpec

\* Beside init, with any commands, crashes and failing saves, a command opens only a
\* dictionary that one save wrote.
THEOREM FilesOpenWhatWasSaved == FilesSpec => OpensWhatWasSaved
BY FilesImplementTrustStore, NeverOpensAMixture

-----------------------------------------------------------------------------
\* Every step of init or of a command keeps FilesTypeOK.
LEMMA FilesTypeStep ==
  ASSUME FilesTypeOK, TrustTypeOK, [FilesNext]_filesVars
  PROVE  FilesTypeOK'
<1> USE SigningKeyAssumption DEF FilesTypeOK, AnyKey
<1>1. CASE UNCHANGED filesVars
  BY <1>1 DEF filesVars, trustVars
<1>2. ASSUME NEW k \in SigningKey, Generate(k)
      PROVE  FilesTypeOK'
  BY <1>2 DEF Generate, trustVars
<1>3. ASSUME NEW i \in inits, OpenIdentity(i)
      PROVE  FilesTypeOK'
  BY <1>3 DEF OpenIdentity, EmptyIdentity, trustVars
<1>4. ASSUME NEW i \in inits, WriteIdentity(i)
      PROVE  FilesTypeOK'
  BY <1>4 DEF WriteIdentity, IdentityOf, trustVars
<1>5. ASSUME NEW i \in inits, InitDies(i)
      PROVE  FilesTypeOK'
  BY <1>5 DEF InitDies, trustVars
<1>6. ASSUME NEW p \in Process, LoadIdentity(p)
      PROVE  FilesTypeOK'
  BY <1>6 DEF LoadIdentity, trustVars
<1>7. ASSUME NEW p \in Process, LoadStore(p)
      PROVE  FilesTypeOK'
  BY <1>7 DEF LoadStore, Open, idVars, TrustTypeOK
<1>8. ASSUME NEW p \in Process, SavesStore(p)
      PROVE  FilesTypeOK'
  BY <1>8 DEF SavesStore, FinishSave, TrustTypeOK
<1>9. ASSUME NEW p \in Process, Ends(p)
      PROVE  FilesTypeOK'
  BY <1>9 DEF Ends, Exit, trustVars, TrustTypeOK
<1>10. ASSUME NEW p \in Process, OnStore(p), UNCHANGED idVars
       PROVE  FilesTypeOK'
  <2>1. phase[p] # "out"
    BY <1>10 DEF OnStore, AddDevice, RemoveDevice, UpdateLastSeen, Mutate, BeginSave, SaveFails
  <2>2. \A other \in Process : other # p => phase'[other] = phase[other]
    BY <1>10 DEF OnStore, AddDevice, RemoveDevice, UpdateLastSeen, Mutate, BeginSave,
       SaveFails, TrustTypeOK
  <2>3. QED
    BY <1>10, <2>1, <2>2 DEF idVars
<1>11. QED
  BY <1>1, <1>2, <1>3, <1>4, <1>5, <1>6, <1>7, <1>8, <1>9, <1>10 DEF FilesNext

\* In the initial state no command has an identity.
LEMMA FilesTypeInit == FilesInit => FilesTypeOK
BY SigningKeyAssumption DEF FilesInit, TrustInit, FilesTypeOK, AnyKey, NoIdentity

\* The state of the two files and of the commands stays well typed.
THEOREM FilesTypeCorrect == FilesSpec => []FilesTypeOK
<1>1. FilesTypeOK /\ TrustTypeOK /\ [FilesNext]_filesVars => FilesTypeOK'
  BY FilesTypeStep
<1>2. QED
  BY <1>1, FilesTypeInit, FilesImplementTrustStore, TrustTypeCorrect, PTL DEF FilesSpec

-----------------------------------------------------------------------------
(***************************************************************************)
(* One key for ever, if one init runs at a time.                           *)
(***************************************************************************)
\* While an init is in, there is no identity that could be replaced; a command that
\* has loaded an identity, and a store that is whole, have the one that is there.
KeyInv ==
  /\ FilesTypeOK
  /\ inits # {} => idfile.state # "whole"
  /\ \A i, j \in inits : i = j
  /\ \A p \in Process : identity[p] # NoSigningKey => idfile = IdentityOf(identity[p])
  /\ StoreIsOurs

LEMMA KeyStep ==
  ASSUME OneInit, KeyInv, FilesTypeOK', TrustTypeOK, TrustTypeOK', [FilesNext]_filesVars
  PROVE  KeyInv'
<1> USE SigningKeyAssumption DEF KeyInv, StoreIsOurs, IdentityOf
<1>1. CASE UNCHANGED filesVars
  BY <1>1 DEF filesVars, trustVars
<1>2. ASSUME NEW k \in SigningKey, Generate(k)
      PROVE  KeyInv'
  BY <1>2 DEF Generate, trustVars
<1>3. ASSUME NEW i \in inits, OpenIdentity(i)
      PROVE  KeyInv'
  BY <1>3 DEF OpenIdentity, EmptyIdentity, trustVars
<1>4. ASSUME NEW i \in inits, WriteIdentity(i)
      PROVE  KeyInv'
  <2>1. inits' = {}
    BY <1>4 DEF WriteIdentity
  <2>2. file.state # "whole" /\ \A p \in Process : identity[p] = NoSigningKey
    BY <1>4
  <2>3. QED
    BY <1>4, <2>1, <2>2 DEF WriteIdentity, trustVars
<1>5. ASSUME NEW i \in inits, InitDies(i)
      PROVE  KeyInv'
  BY <1>5 DEF InitDies, trustVars
<1>6. ASSUME NEW p \in Process, LoadIdentity(p)
      PROVE  KeyInv'
  BY <1>6 DEF LoadIdentity, trustVars, FilesTypeOK
<1>7. ASSUME NEW p \in Process, LoadStore(p)
      PROVE  KeyInv'
  BY <1>7 DEF LoadStore, Open, idVars
<1>8. ASSUME NEW p \in Process, SavesStore(p)
      PROVE  KeyInv'
  <2>1. idfile = IdentityOf(identity[p])
    BY <1>8 DEF SavesStore, FinishSave, FilesTypeOK
  <2>2. QED
    BY <1>8, <2>1 DEF SavesStore, FinishSave
<1>9. ASSUME NEW p \in Process, Ends(p)
      PROVE  KeyInv'
  BY <1>9 DEF Ends, Exit, trustVars, FilesTypeOK
<1>10. ASSUME NEW p \in Process, OnStore(p), UNCHANGED idVars
       PROVE  KeyInv'
  <2>1. file'.state = "whole" => file' = file
    BY <1>10 DEF OnStore, AddDevice, RemoveDevice, UpdateLastSeen, Mutate, BeginSave,
       SaveFails, Truncated
  <2>2. QED
    BY <1>10, <2>1 DEF idVars
<1>11. QED
  BY <1>1, <1>2, <1>3, <1>4, <1>5, <1>6, <1>7, <1>8, <1>9, <1>10 DEF FilesNext

LEMMA KeyInvariant ==
  ASSUME OneInit
  PROVE  FilesSpec => []KeyInv
<1>1. FilesInit => KeyInv
  BY FilesTypeInit DEF FilesInit, TrustInit, Absent, NoIdentity, KeyInv, StoreIsOurs
<1>2. KeyInv /\ TrustTypeOK /\ TrustTypeOK' /\ [FilesNext]_filesVars => KeyInv'
  BY KeyStep, FilesTypeStep DEF KeyInv
<1>3. QED
  BY <1>1, <1>2, FilesImplementTrustStore, TrustTypeCorrect, PTL DEF FilesSpec

\* With one init at a time, a store that is whole is never under a lost key: the
\* commands of a device can always open what one of them has saved.
THEOREM StoreStaysOurs ==
  ASSUME OneInit
  PROVE  FilesSpec => []StoreIsOurs
<1>1. KeyInv => StoreIsOurs
  BY DEF KeyInv
<1>2. QED
  BY <1>1, KeyInvariant, PTL

LEMMA OneKeyStep ==
  ASSUME KeyInv, FilesTypeOK', [FilesNext]_filesVars
  PROVE  [OneKey!KeyNext]_(OneKey!keyVars)
<1> USE SigningKeyAssumption DEF OneKey!keyVars
<1>1. CASE UNCHANGED filesVars
  BY <1>1 DEF filesVars
<1>2. ASSUME NEW k \in SigningKey, Generate(k)
      PROVE  UNCHANGED OneKey!keyVars
  BY <1>2 DEF Generate
<1>3. ASSUME NEW i \in inits, OpenIdentity(i) \/ InitDies(i)
      PROVE  UNCHANGED OneKey!keyVars
  BY <1>3 DEF OpenIdentity, InitDies, EmptyIdentity, KeyInv, FilesTypeOK
<1>4. ASSUME NEW i \in inits, WriteIdentity(i)
      PROVE  \E k \in SigningKey : OneKey!Choose(k)
  <2>1. OneKey!Choose(i.key)
    BY <1>4 DEF WriteIdentity, IdentityOf, KeyInv, FilesTypeOK, OneKey!Choose
  <2>2. QED
    BY <1>4, <2>1 DEF KeyInv, FilesTypeOK
<1>5. ASSUME NEW p \in Process, LoadIdentity(p)
      PROVE  OneKey!Take(p)
  BY <1>5 DEF LoadIdentity, OneKey!Take, KeyInv, FilesTypeOK
<1>6. ASSUME NEW p \in Process, Ends(p)
      PROVE  OneKey!Drop(p)
  BY <1>6 DEF Ends, OneKey!Drop
<1>7. ASSUME NEW p \in Process, LoadStore(p) \/ SavesStore(p)
      PROVE  UNCHANGED OneKey!keyVars
  BY <1>7 DEF LoadStore, SavesStore, idVars
<1>8. ASSUME FilesNext
      PROVE  OneKey!KeyNext \/ UNCHANGED OneKey!keyVars
  <2>1. CASE \E k \in SigningKey : Generate(k)
    BY <1>2, <2>1
  <2>2. CASE \E i \in inits : OpenIdentity(i) \/ WriteIdentity(i) \/ InitDies(i)
    BY <1>3, <1>4, <2>2 DEF OneKey!KeyNext
  <2>3. CASE \E p \in Process : LoadIdentity(p) \/ Ends(p)
    BY <1>5, <1>6, <2>3 DEF OneKey!KeyNext
  <2>4. CASE \E p \in Process : LoadStore(p) \/ SavesStore(p)
    BY <1>7, <2>4
  <2>5. CASE UNCHANGED idVars
    BY <2>5 DEF idVars
  <2>6. QED
    BY <1>8, <2>1, <2>2, <2>3, <2>4, <2>5 DEF FilesNext
<1>9. QED
  BY <1>1, <1>8

\* With one init at a time, a device has one key, chosen once, and all its commands
\* work under it, whatever is killed and when.
THEOREM FilesImplementDeviceKey ==
  ASSUME OneInit
  PROVE  FilesSpec => ImplementsDeviceKey
<1>1. FilesInit => OneKey!KeyInit
  BY DEF FilesInit, NoIdentity, OneKey!KeyInit
<1>2. KeyInv /\ KeyInv' /\ [FilesNext]_filesVars => [OneKey!KeyNext]_(OneKey!keyVars)
  BY OneKeyStep DEF KeyInv
<1>3. QED
  BY <1>1, <1>2, KeyInvariant, PTL DEF FilesSpec, ImplementsDeviceKey, OneKey!KeySpec
==============================================================================
