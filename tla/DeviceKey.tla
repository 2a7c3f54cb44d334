------------------------------ MODULE DeviceKey ------------------------------
(***************************************************************************)
(* What the identity of a device promises to its commands: one key, chosen *)
(* once and never replaced, and every command works under that key.        *)
(***************************************************************************)
CONSTANTS Process, SigningKey, NoSigningKey

VARIABLES
  key,   \* the device's key
  holds  \* holds[p]: the key that command p works under

keyVars == <<key, holds>>

KeyInit ==
  /\ key = NoSigningKey
  /\ holds = [p \in Process |-> NoSigningKey]

Choose(k) ==
  /\ key = NoSigningKey
  /\ key' = k
  /\ UNCHANGED holds

Take(p) ==
  /\ key # NoSigningKey
  /\ holds' = [holds EXCEPT ![p] = key]
  /\ UNCHANGED key

Drop(p) ==
  /\ holds' = [holds EXCEPT ![p] = NoSigningKey]
  /\ UNCHANGED key

KeyNext ==
  \/ \E k \in SigningKey : Choose(k)
  \/ \E p \in Process : Take(p) \/ Drop(p)

KeySpec == KeyInit /\ [][KeyNext]_keyVars
==============================================================================
