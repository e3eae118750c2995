------------------------------- MODULE SecEcdh -------------------------------
(***************************************************************************)
(* Two devices agree on a secret (ECDH_P256_GenerateKeys,                  *)
(* ECDH_P256_ComputeDhKey and their segmented variants), each with one of  *)
(* SecLib.c, SecLib_mbedTLS.c and SecLib_psa.c. The application passes the *)
(* private key to the first; the other two keep it themselves.             *)
(* In SecLib.c the multiplication may be cut into chunks that a callback   *)
(* posts one by one to the queue of the application.                       *)
(***************************************************************************)
EXTENDS Integers, Sequences

CONSTANTS Devices,       \* two devices
          StepsAtATime,  \* gSecLibEcStepsAtATime, a divisor of Bits
          Bits,          \* the steps of a multiplication (256)
          ByteRange,     \* the values of a byte (256)
          MaxKeys,       \* bound on the key pairs generated
          MaxFailures    \* bound on the calls that fail

VARIABLES
  backend,     \* SecLib of each device
  callback,    \* pfSecLibMultCallback is set
  own,         \* the private key that the next secret is computed with
  public,      \* the public key the peer has
  secret,      \* the secret, as the two keys it was computed from
  running,     \* the segmented computation: what it computes, its key, procStep
  chunks,      \* the steps of the multiplication in the order computed
  heap,        \* buffers not freed by calls that have returned
  misreported, \* a failure has been returned as a success
  keys,        \* key pairs generated
  failures     \* failures so far

vars == <<backend, callback, own, public, secret, running, chunks, heap, misreported, keys, failures>>

NoKey == 0
NoSecret == {}
Idle == [what |-> "none", key |-> NoKey, procStep |-> 0]
Peer(d) == CHOOSE e \in Devices : e # d

Init == /\ backend \in [Devices -> {"sw", "mbedtls", "psa"}]
        /\ callback = [d \in Devices |-> FALSE]
        /\ own = [d \in Devices |-> NoKey] /\ public = [d \in Devices |-> NoKey]
        /\ secret = [d \in Devices |-> NoSecret]
        /\ running = [d \in Devices |-> Idle] /\ chunks = [d \in Devices |-> <<>>]
        /\ heap = [d \in Devices |-> 0] /\ misreported = [d \in Devices |-> FALSE]
        /\ keys = 0 /\ failures = 0

Failing == failures < MaxFailures /\ failures' = failures + 1
Unchanged(d) == UNCHANGED <<backend, callback>>
Segment == UNCHANGED <<running, chunks>>

(* SecLib.c and SecLib_mbedTLS.c keep the callback, SecLib_psa.c does not.  *)
SecLib_SetExternalMultiplicationCb(d) ==
  /\ backend[d] # "psa" /\ ~callback[d]
  /\ callback' = [callback EXCEPT ![d] = TRUE]
  /\ UNCHANGED <<backend, own, public, secret, running, chunks, heap, misreported, keys, failures>>
------------------------------------------------------------------------------
(* The public key goes to the peer, and the old secret is forgotten.        *)
Publish(d, k) == /\ own' = [own EXCEPT ![d] = k] /\ public' = [public EXCEPT ![d] = k]
                 /\ secret' = [secret EXCEPT ![d] = NoSecret]
Generated(d) == keys < MaxKeys /\ keys' = keys + 1 /\ Publish(d, keys + 1) /\ UNCHANGED failures
NotGenerated == UNCHANGED <<own, public, secret, keys>>

SwGenerateKeys(d) ==
  /\ backend[d] = "sw"
  /\ Generated(d) \/ (Failing /\ NotGenerated)
  /\ UNCHANGED <<heap, misreported>>

(* Mutant: the pair is replaced although the public key is not given out.   *)
MbedKeepsNew(d) ==
  /\ backend[d] = "mbedtls"
  /\ \/ Generated(d)
     \/ /\ Failing /\ keys < MaxKeys
        /\ keys' = keys + 1 /\ own' = [own EXCEPT ![d] = keys + 1] /\ UNCHANGED <<public, secret>>
  /\ UNCHANGED <<heap, misreported>>

(* A context set up again has no key until one is made. Without memory for  *)
(* the public key the call returns a success, with nothing written.         *)
MbedGenerateKeys(d) ==
  /\ backend[d] = "mbedtls"
  /\ \/ Generated(d) /\ UNCHANGED misreported
     \/ Failing /\ NotGenerated /\ UNCHANGED misreported
     \/ /\ Failing /\ own' = [own EXCEPT ![d] = NoKey]
        /\ misreported' \in {misreported, [misreported EXCEPT ![d] = TRUE]}
        /\ UNCHANGED <<public, secret, keys>>
  /\ UNCHANGED heap

(* Whatever fails, the result is a success.                                 *)
PsaGenerateKeys(d) ==
  /\ backend[d] = "psa"
  /\ \/ Generated(d) /\ UNCHANGED misreported
     \/ /\ Failing /\ own' = [own EXCEPT ![d] = NoKey]
        /\ misreported' = [misreported EXCEPT ![d] = TRUE]
        /\ UNCHANGED <<public, secret, keys>>
  /\ UNCHANGED heap

ECDH_P256_GenerateKeys(d) == /\ SwGenerateKeys(d) \/ MbedGenerateKeys(d) \/ PsaGenerateKeys(d)
                             /\ Segment /\ Unchanged(d)
------------------------------------------------------------------------------
Computed(d) == /\ own[d] # NoKey /\ public[Peer(d)] # NoKey
               /\ secret' = [secret EXCEPT ![d] = {own[d], public[Peer(d)]}]
               /\ UNCHANGED failures
NotComputed == Failing /\ UNCHANGED secret
Lost(d) == heap' = [heap EXCEPT ![d] = @ + 1]

(* An invalid point or no memory, or a computation that fails: its buffer   *)
(* is freed after a success only.                                           *)
SwComputeDhKey(d) ==
  /\ backend[d] = "sw"
  /\ \/ Computed(d) /\ UNCHANGED heap
     \/ NotComputed /\ (UNCHANGED heap \/ Lost(d))
  /\ UNCHANGED misreported

(* Without a random generator or memory the result is a success.            *)
MbedComputeDhKey(d) ==
  /\ backend[d] = "mbedtls"
  /\ \/ Computed(d) /\ UNCHANGED <<heap, misreported>>
     \/ /\ NotComputed
        /\ \/ UNCHANGED <<heap, misreported>>
           \/ Lost(d) /\ UNCHANGED misreported
           \/ misreported' = [misreported EXCEPT ![d] = TRUE] /\ UNCHANGED heap

PsaComputeDhKey(d) ==
  /\ backend[d] = "psa"
  /\ \/ Computed(d) /\ UNCHANGED misreported
     \/ NotComputed /\ misreported' \in {misreported, [misreported EXCEPT ![d] = TRUE]}
  /\ UNCHANGED heap

ECDH_P256_ComputeDhKey(d) == /\ SwComputeDhKey(d) \/ MbedComputeDhKey(d) \/ PsaComputeDhKey(d)
                             /\ Segment /\ UNCHANGED <<own, public, keys>> /\ Unchanged(d)
------------------------------------------------------------------------------
(* Begins a multiplication in chunks, for a key pair or a secret. The       *)
(* buffer belongs to the computation; one that cannot begin keeps it.       *)
Begin(d, what, key) ==
  /\ running[d] = Idle
  /\ \/ /\ running' = [running EXCEPT ![d] = [what |-> what, key |-> key, procStep |-> 0]]
        /\ chunks' = [chunks EXCEPT ![d] = <<>>]
        /\ UNCHANGED <<failures, heap>>
     \/ Failing /\ Segment /\ (UNCHANGED heap \/ Lost(d))

(* The other back ends refuse when a callback is set, or ignore it.         *)
ECDH_P256_GenerateKeysSeg(d) ==
  \/ ~callback[d] /\ ECDH_P256_GenerateKeys(d)
  \/ /\ callback[d] /\ backend[d] = "sw" /\ keys < MaxKeys
     /\ Begin(d, "keys", keys + 1) /\ keys' = keys + 1
     /\ UNCHANGED <<own, public, secret, misreported>> /\ Unchanged(d)

ECDH_P256_ComputeDhKeySeg(d) ==
  \/ ~callback[d] /\ ECDH_P256_ComputeDhKey(d)
  \/ /\ callback[d] /\ backend[d] = "sw" /\ own[d] # NoKey /\ public[Peer(d)] # NoKey
     /\ Begin(d, "dh", public[Peer(d)])
     /\ UNCHANGED <<own, public, secret, misreported, keys>> /\ Unchanged(d)

Chunk(index, stepSize) == [i \in 1 .. stepSize |-> index + 1 - i]

(* Mutant: the step is counted before the chunk is computed.                *)
HandleCounted(d) ==
  /\ running[d] # Idle
  /\ running[d].procStep < Bits \div StepsAtATime
  /\ running' = [running EXCEPT ![d].procStep = @ + 1]
  /\ chunks' = [chunks EXCEPT ![d] = @ \o Chunk(Bits - 1 - (running[d].procStep + 1) * StepsAtATime, StepsAtATime)]
  /\ UNCHANGED <<own, public, secret, heap, misreported, keys, failures>> /\ Unchanged(d)

(* A message of SecLib_ExecMultiplicationCb is handled: the next chunk, or  *)
(* the end of the multiplication. The number of chunks is in a byte.        *)
HandleChunk(d) ==
  /\ running[d] # Idle
  /\ running[d].procStep < (Bits \div StepsAtATime) % ByteRange
  /\ chunks' = [chunks EXCEPT ![d] = @ \o Chunk(Bits - 1 - running[d].procStep * StepsAtATime, StepsAtATime)]
  /\ running' = [running EXCEPT ![d].procStep = @ + 1]
  /\ UNCHANGED <<own, public, secret, heap, misreported, keys, failures>> /\ Unchanged(d)

CompleteMult(d) ==
  /\ running[d] # Idle
  /\ running[d].procStep >= (Bits \div StepsAtATime) % ByteRange
  /\ IF running[d].what = "keys" THEN Publish(d, running[d].key)
     ELSE /\ secret' = [secret EXCEPT ![d] = {own[d], running[d].key}]
          /\ UNCHANGED <<own, public>>
  /\ running' = [running EXCEPT ![d] = Idle] /\ UNCHANGED chunks
  /\ UNCHANGED <<heap, misreported, keys, failures>> /\ Unchanged(d)

SecLib_HandleMultiplyStep(d) == HandleChunk(d) \/ CompleteMult(d)

Next == \E d \in Devices :
          \/ SecLib_SetExternalMultiplicationCb(d)
          \/ ECDH_P256_GenerateKeysSeg(d) \/ ECDH_P256_ComputeDhKeySeg(d)
          \/ SecLib_HandleMultiplyStep(d)

Spec == Init /\ [][Next]_vars
------------------------------------------------------------------------------
TypeOK == /\ keys \in 0 .. MaxKeys /\ failures \in 0 .. MaxFailures
          /\ \A d \in Devices : /\ own[d] \in 0 .. keys /\ public[d] \in 0 .. keys
                                /\ running[d].procStep \in 0 .. Bits \div StepsAtATime

(* Two devices that have computed a secret with each other's present key    *)
(* have the same one, whatever failed before, unless a back end has         *)
(* returned a failure as a success.                                         *)
SecretsAgree ==
  (\A d \in Devices : /\ secret[d] # NoSecret /\ ~misreported[d]
                      /\ public[d] \in secret[Peer(d)])
  => \A d, e \in Devices : secret[d] = secret[e]

(* A multiplication in chunks makes every step once, from the most          *)
(* significant bit down (SecLib_HandleMultiplyStep).                        *)
StepsOnce == \A d \in Devices :
               running[d] = Idle /\ chunks[d] # <<>>
               => chunks[d] = [i \in 1 .. Bits |-> Bits - i]
==============================================================================
