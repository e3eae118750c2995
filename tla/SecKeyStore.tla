----------------------------- MODULE SecKeyStore -----------------------------
(***************************************************************************)
(* Keys that never leave the secure subsystem in plain text                *)
(* (SecLib_sss.c). A call of SecLib is a sequence of commands to the       *)
(* subsystem, each of which may fail; the first failure ends it, and then  *)
(* what was set up for the call is taken down. The application holds keys  *)
(* as plain text and as blobs that only the subsystem can open.            *)
(* The mutex of SecLib orders the calls, so that they are taken one by     *)
(* one; a call may be followed by a low-power period, after which the      *)
(* subsystem has forgotten its objects and SecLib_ReInit is called.        *)
(***************************************************************************)
EXTENDS Integers, Sequences

CONSTANTS MaxPairs,      \* bound on the key pairs generated
          MaxFailures,   \* bound on the commands that fail
          LastBlob       \* the blob type of the last exported keys

VARIABLES
  call,       \* the call under way: its commands, how it starts and ends
  step,       \* the next command of call.body, or of call.end
  ending,     \* the commands of call.body are over
  ret,        \* the result of the call
  objects,    \* the key objects of the subsystem and their keys
  context,    \* the object that a context of the subsystem was made for
  buffers,    \* buffers on the heap
  lost,       \* buffers and objects nobody can free any more
  requests,   \* PLATFORM_RemoteActiveReq without PLATFORM_RemoteActiveRel
  output,     \* what the call writes for its caller
  hasPair,    \* pECPKeyPair # NULL
  ready,      \* IsSecLibEcdhContextInit
  blob,       \* ecdhKeyPairBlob: the pair in it
  public,     \* the pair whose public key the application was given
  pairs,      \* the number of pairs generated
  material,   \* the key the application holds, and in which form
  ltk,        \* the blob of a long term key
  dh,         \* the application holds a shared secret as an object
  failures    \* commands failed so far

callVars == <<call, step, ending, ret, output>>
subsystemVars == <<objects, context, requests>>
pairVars == <<hasPair, ready, blob, public, pairs>>
heldVars == <<material, ltk, dh>>
vars == <<callVars, subsystemVars, buffers, lost, pairVars, heldVars, failures>>

None == <<>>
Key(k, reversed) == [key |-> k, reversed |-> reversed]
Form(as, k) == [as |-> as, key |-> k]
Turned(k) == [k EXCEPT !.reversed = ~@]
------------------------------------------------------------------------------
(* The commands of a call. A call that cleans up ends with the commands of  *)
(* end, which are about the objects that the body has come to set up.       *)
Call(start, body, end) == [start |-> start, body |-> body, end |-> end]
Hardware == <<<<"hardware">>>>
Object(o) == <<<<"object", o>>, <<"handle", o>>>>
Free(o) == <<"free", o>>
FreeContext == <<"freeContext">>

SecLib_ObfuscateKeySecure(blobType) ==
  Call("error", Hardware \o Object("key")
                \o <<<<"set", "key", TRUE>>, <<"export", "key", blobType>>>>,
       <<Free("key")>>)

SecLib_DeobfuscateKeySecure ==
  Call("error", Hardware \o Object("key")
                \o <<<<"import", "key", "elke">>, <<"get", "key", TRUE>>>>,
       <<Free("key")>>)

SecLib_VerifyBluetoothAhSecure ==
  Call("error", Hardware \o Object("key")
                \o <<<<"import", "key", "elke">>, <<"context", "key">>, <<"cipher">>>>,
       <<Free("key"), FreeContext>>)

SecLib_GenerateSymmetricKey(blobOutput) ==
  Call("error", Hardware \o Object("key")
                \o IF blobOutput
                   THEN <<<<"generate", "key", TRUE>>, <<"export", "key", "elke">>>>
                   ELSE <<<<"generate", "key", FALSE>>, <<"get", "key", FALSE>>>>,
       <<Free("key")>>)

SecLib_GenerateBluetoothEIRKBlobSecure(blobInput, generateDKeyIRK) ==
  Call("error", Hardware \o Object("key")
                \o (IF blobInput THEN <<<<"import", "key", "elke">>>>
                                 ELSE <<<<"set", "key", FALSE>>>>)
                \o (IF generateDKeyIRK THEN <<<<"request">>, <<"open">>>> ELSE <<>>)
                \o <<<<"export", "key", "eirk">>>>,
       <<Free("key")>>)

(* keyType: plain text, an ELKE blob, or an ELKE blob of a long term key,   *)
(* which only differs in what the object may be used for.                   *)
SecLib_ExportA2BBlobSecure(keyType) ==
  Call("error", Hardware \o <<<<"object", "key">>>>
                \o (CASE keyType = "plain" -> <<<<"handle", "key">>, <<"set", "key", TRUE>>>>
                      [] keyType = "elke" -> <<<<"handle", "key">>, <<"import", "key", "elke">>>>
                      [] OTHER -> <<<<"invalid">>>>)
                \o <<<<"export", "key", "e2e">>>>,
       <<Free("key")>>)

(* Mutant: the plain text is copied in the order of the subsystem.          *)
ImportUnturned(keyType) ==
  Call("error", Hardware \o Object("key")
                \o <<<<"import", "key", "e2e">>, <<"get", "key", FALSE>>>>, <<Free("key")>>)

SecLib_ImportA2BBlobSecure(keyType) ==
  Call("error", Hardware \o <<<<"object", "key">>>>
                \o (CASE keyType = "plain" ->
                           <<<<"handle", "key">>, <<"import", "key", "e2e">>, <<"get", "key", TRUE>>>>
                      [] keyType = "elke" ->
                           <<<<"handle", "key">>, <<"import", "key", "e2e">>, <<"export", "key", "elke">>>>
                      [] OTHER -> <<<<"invalid">>>>),
       <<Free("key")>>)

(* Mutant: the context of the derivation is not freed.                      *)
SkdKeepsContext(bOpenKey) ==
  Call("error", Hardware \o Object("ltk") \o Object("sk")
                \o <<<<"import", "ltk", "ltk">>, <<"context", "ltk">>, <<"derive", "sk">>,
                     <<"export", "sk", "esk">>>>,
       <<Free("ltk"), Free("sk")>>)

SecLib_DeriveBluetoothSKDSecure(bOpenKey) ==
  Call("error", Hardware \o Object("ltk") \o Object("sk")
                \o <<<<"import", "ltk", "ltk">>, <<"context", "ltk">>, <<"derive", "sk">>>>
                \o (IF bOpenKey THEN <<<<"request">>, <<"open">>>> ELSE <<>>)
                \o <<<<"export", "sk", "esk">>>>,
       <<FreeContext, Free("ltk"), Free("sk")>>)

(* Mutant: the two keys are derived the other way round.                    *)
F5Swapped ==
  Call("error", Hardware \o Object("mac") \o Object("ltk")
                \o <<<<"context", "dh">>, <<"tryDerive", "mac">>, <<"tryDerive", "ltk">>,
                     <<"contextFree">>, <<"get", "ltk", TRUE>>, <<"export", "mac", "ltk">>>>,
       <<Free("mac"), Free("ltk"), <<"freeShared">>>>)

(* It is called with the key object of the shared secret, which is freed in *)
(* any case; what the derivations return   *)
(* only decides whether the second one is made.                             *)
ELKE_BLE_SM_F5_DeriveKeysSecure ==
  Call("error", Hardware \o Object("mac") \o Object("ltk")
                \o <<<<"context", "dh">>, <<"tryDerive", "mac">>, <<"tryDerive", "ltk">>,
                     <<"contextFree">>, <<"get", "mac", TRUE>>, <<"export", "ltk", "ltk">>>>,
       <<Free("mac"), Free("ltk"), <<"freeShared">>>>)

(* The same inputs for both keys but for the counter in front.              *)
SecLib_GenerateBluetoothF5KeysSecure == ELKE_BLE_SM_F5_DeriveKeysSecure

ECDH_P256_GenerateKeys ==
  Call("success", <<<<"dropPair">>, <<"buffer">>, <<"makePublic">>, <<"exportPair">>>>,
       <<<<"bufferFree">>>>)

(* Without a pair of its own, or with an invalid point of the peer, there   *)
(* is nothing to compute. A failure to bring the pair back is no error.     *)
ECDH_P256_ComputeDhKey(keepBlobDhKey) ==
  Call("success", <<<<"needPair">>, <<"needPoint">>, <<"initPair">>, <<"importPair">>, <<"buffer">>,
                    <<"secret", keepBlobDhKey>>, <<"bufferFree">>>>,
       <<>>)

ECDH_P256_ComputeA2BKeySecure ==
  Call("error", <<<<"needPair">>, <<"buffer">>, <<"secret", TRUE>>, <<"bufferFree">>>>, <<>>)

NoCall == Call("none", <<>>, <<>>)
------------------------------------------------------------------------------
Init == /\ call = NoCall /\ step = 1 /\ ending = FALSE /\ ret = "success" /\ output = None
        /\ objects = [o \in {} |-> None] /\ context = None /\ requests = 0
        /\ buffers = 0 /\ lost = {}
        /\ hasPair = FALSE /\ ready = FALSE /\ blob = 0 /\ public = 0 /\ pairs = 0
        /\ material = Form("plain", Key(<<"given">>, FALSE)) /\ ltk = None /\ dh = None
        /\ failures = 0

Idle == call = NoCall
Start(c) == /\ Idle
            /\ call' = c /\ step' = 1 /\ ending' = FALSE /\ ret' = c.start /\ output' = None
            /\ UNCHANGED <<subsystemVars, buffers, lost, pairVars, heldVars, failures>>

(* The application calls with the form of the key that it holds. (Bound:    *)
(* before there is a key pair, which these calls have nothing to do with.)  *)
StartKey == pairs = 0 /\
    \/ /\ material.as = "plain"
       /\ \/ \E t \in {"elke", LastBlob} : Start(SecLib_ObfuscateKeySecure(t))
          \/ \E irk \in BOOLEAN : Start(SecLib_GenerateBluetoothEIRKBlobSecure(FALSE, irk))
          \/ Start(SecLib_ExportA2BBlobSecure("plain"))
    \/ /\ material.as = "elke"
       /\ \/ Start(SecLib_DeobfuscateKeySecure)
          \/ Start(SecLib_VerifyBluetoothAhSecure)
          \/ \E irk \in BOOLEAN : Start(SecLib_GenerateBluetoothEIRKBlobSecure(TRUE, irk))
          \/ Start(SecLib_ExportA2BBlobSecure("elke"))
    \/ /\ material.as = "e2e"
       /\ \E t \in {"plain", "elke", "other"} : Start(SecLib_ImportA2BBlobSecure(t))
    \/ \E blobOutput \in BOOLEAN : Start(SecLib_GenerateSymmetricKey(blobOutput))
    \/ Start(SecLib_ExportA2BBlobSecure("other"))

StartPair ==
  \/ pairs < MaxPairs /\ Start(ECDH_P256_GenerateKeys)
  \/ dh = None /\ \E keep \in BOOLEAN : Start(ECDH_P256_ComputeDhKey(keep))
  \/ dh = None /\ "dh" \notin DOMAIN objects /\ Start(ECDH_P256_ComputeA2BKeySecure)
  \/ dh # None /\ Start(SecLib_GenerateBluetoothF5KeysSecure)
  \/ ltk # None /\ \E open \in BOOLEAN : Start(SecLib_DeriveBluetoothSKDSecure(open))
------------------------------------------------------------------------------
(* The subsystem.                                                           *)
Put(o, k) == objects' = [x \in DOMAIN objects \cup {o} |-> IF x = o THEN k ELSE objects[x]]
Without(o) == [x \in DOMAIN objects \ {o} |-> objects[x]]
Holds(o) == o \in DOMAIN objects /\ objects[o] # None
InForm(as) == IF as = "ltk" THEN IF ltk = None THEN None ELSE ltk.key
              ELSE IF material.as = as THEN material.key ELSE None

Command == call.body[step]
Op == Command[1]
InBody == ~Idle /\ ~ending /\ step <= Len(call.body)

(* A command that sets up or reads keys, and what it needs to succeed.      *)
Succeeds ==
  CASE Op \in {"set", "generate"} -> Command[2] \in DOMAIN objects
    [] Op = "import" -> InForm(Command[3]) # None
    [] Op \in {"get", "export", "context"} -> Holds(Command[2])
    [] Op = "needPair" -> hasPair
    [] Op = "exportPair" -> Holds("pair")
    [] Op = "secret" -> Holds("pair")
    [] Op = "invalid" -> FALSE
    [] OTHER -> TRUE

(* What the calls that set a key up, derive or read it do.                  *)
KeyEffect ==
  \/ /\ Op = "hardware" /\ UNCHANGED <<objects, context, requests, output>>
  \/ /\ Op \in {"object", "handle"} /\ Put(Command[2], None)
     /\ UNCHANGED <<context, requests, output>>
  \/ /\ Op = "set"
     /\ Put(Command[2], IF Command[3] THEN Turned(material.key) ELSE material.key)
     /\ UNCHANGED <<context, requests, output>>
  \/ /\ Op = "generate" /\ Put(Command[2], Key(<<"new">>, Command[3]))
     /\ UNCHANGED <<context, requests, output>>
  \/ /\ Op = "import" /\ Put(Command[2], InForm(Command[3]))
     /\ UNCHANGED <<context, requests, output>>
  \/ /\ Op = "context" /\ context' = <<objects[Command[2]]>>
     /\ UNCHANGED <<objects, requests, output>>
  \/ /\ Op \in {"derive", "tryDerive"}
     /\ Put(Command[2], Key(<<Command[2]>> \o context[1].key, TRUE))
     /\ UNCHANGED <<context, requests, output>>
  \/ /\ Op = "contextFree" /\ context' = None /\ UNCHANGED <<objects, requests, output>>
  \/ /\ Op = "cipher" /\ output' = Form("hash", context[1])
     /\ UNCHANGED <<objects, context, requests>>
  \/ /\ Op = "get"
     /\ output' = Form("plain", IF Command[3] THEN Turned(objects[Command[2]])
                                              ELSE objects[Command[2]])
     /\ UNCHANGED <<objects, context, requests>>
  \/ /\ Op = "export" /\ output' = Form(Command[3], objects[Command[2]])
     /\ UNCHANGED <<objects, context, requests>>
  \/ /\ Op = "request" /\ requests' = requests + 1 /\ UNCHANGED <<objects, context, output>>
  \/ /\ Op = "open" /\ requests' = requests - 1 /\ UNCHANGED <<objects, context, output>>

KeyCommand == KeyEffect /\ UNCHANGED <<buffers, lost, pairVars>>

(* What the calls about the key pair do. The pair is kept in a blob too,    *)
(* from which it is brought back after a low-power period.                  *)
PairCommand ==
  \/ /\ Op = "dropPair"
     /\ hasPair' = FALSE /\ ready' = (ready /\ ~hasPair)
     /\ objects' = IF hasPair THEN Without("pair") ELSE objects
     /\ UNCHANGED <<buffers, lost, context, requests, output, blob, public, pairs>>
  \/ /\ Op = "buffer" /\ buffers' = buffers + 1
     /\ UNCHANGED <<lost, subsystemVars, output, pairVars>>
  \/ /\ Op = "makePublic"
     /\ hasPair' = TRUE /\ pairs' = pairs + 1 /\ Put("pair", Key(<<"pair", pairs + 1>>, TRUE))
     /\ UNCHANGED <<buffers, lost, context, requests, output, ready, blob, public>>
  \/ /\ Op = "exportPair"
     /\ blob' = pairs /\ ready' = TRUE /\ public' = pairs
     /\ output' = Form("public", objects["pair"])
     /\ UNCHANGED <<buffers, lost, subsystemVars, hasPair, pairs>>
  \/ /\ Op \in {"needPair", "needPoint"} /\ UNCHANGED <<buffers, lost, subsystemVars, output, pairVars>>
  \/ /\ Op \in {"initPair", "importPair"} /\ ready
     /\ UNCHANGED <<buffers, lost, subsystemVars, output, pairVars>>
  \/ /\ Op = "initPair" /\ ~ready
     /\ lost' = IF "pair" \in DOMAIN objects THEN lost \cup {"pair"} ELSE lost
     /\ Put("pair", None)
     /\ UNCHANGED <<buffers, context, requests, output, pairVars>>
  \/ /\ Op = "importPair" /\ ~ready
     /\ Put("pair", Key(<<"pair", blob>>, TRUE)) /\ ready' = TRUE
     /\ UNCHANGED <<buffers, lost, context, requests, output, hasPair, blob, public, pairs>>
  \/ /\ Op = "secret"
     /\ LET shared == Key(<<"dh">> \o objects["pair"].key, TRUE)
        IN /\ output' = Form("dh", shared)
           /\ IF Command[2] THEN Put("dh", shared) ELSE UNCHANGED objects
     /\ UNCHANGED <<buffers, lost, context, requests, pairVars>>
  \/ /\ Op = "bufferFree" /\ buffers' = buffers - 1
     /\ UNCHANGED <<lost, subsystemVars, output, pairVars>>

Done == /\ InBody /\ Succeeds
        /\ \/ KeyCommand
           \/ PairCommand
        /\ step' = step + 1
        /\ UNCHANGED <<call, ending, ret, heldVars, failures>>

(* What a failing command leaves behind: the request is released, an object *)
(* whose initialisation failed is not there, and the pair is dropped.       *)
MayFail == /\ Op \notin {"request", "dropPair", "bufferFree"}
           /\ ~(Op \in {"initPair", "importPair"} /\ ready)
           /\ IF Succeeds THEN failures < MaxFailures ELSE TRUE
FailedCommand ==
  /\ requests' = IF Op = "open" THEN requests - 1 ELSE requests
  /\ context' = IF Op = "contextFree" THEN None ELSE context
  /\ IF Op = "makePublic" THEN pairs' = pairs + 1 ELSE UNCHANGED pairs
  /\ lost' = IF Op = "secret" THEN lost \cup {"buffer"} ELSE lost
  /\ buffers' = IF Op = "secret" THEN buffers - 1 ELSE buffers
  /\ UNCHANGED <<objects, hasPair, ready, blob, public, output>>
  /\ failures' = IF Succeeds THEN failures + 1 ELSE failures

Fail == /\ InBody /\ MayFail /\ Op # "tryDerive"
        /\ FailedCommand
        /\ ret' = IF Op \in {"initPair", "importPair"} THEN ret ELSE "error"
        /\ ending' = TRUE /\ step' = 1
        /\ UNCHANGED <<call, heldVars>>

(* When the first derivation fails the second is not made.                  *)
FailDerive == /\ InBody /\ MayFail /\ Op = "tryDerive"
              /\ FailedCommand
              /\ step' = IF Command[2] = "mac" THEN step + 2 ELSE step + 1
              /\ UNCHANGED <<call, ending, ret, heldVars>>

Through == /\ ~Idle /\ ~ending /\ step > Len(call.body)
           /\ ret' = "success" /\ ending' = TRUE /\ step' = 1
           /\ UNCHANGED <<call, output, subsystemVars, buffers, lost, pairVars, heldVars, failures>>
------------------------------------------------------------------------------
(* The end of a call.                                                       *)
TakeDown == /\ ending /\ step <= Len(call.end)
            /\ LET last == call.end[step]
               IN /\ objects' = IF last[1] = "free" THEN Without(last[2])
                                ELSE IF last[1] = "freeShared" THEN Without("dh") ELSE objects
                  /\ context' = IF last = FreeContext THEN None ELSE context
                  /\ buffers' = IF last[1] = "bufferFree" /\ buffers > 0 THEN buffers - 1 ELSE buffers
                  /\ dh' = IF last[1] = "freeShared" THEN None ELSE dh
            /\ step' = step + 1
            /\ UNCHANGED <<call, ending, ret, output, requests, lost, pairVars, material, ltk, failures>>

(* The application keeps what a successful call has given it.               *)
Return == /\ ending /\ step > Len(call.end)
          /\ material' = IF ret = "success" /\ output # None
                              /\ output.as \in {"plain", "elke", "e2e"}
                         THEN output ELSE material
          /\ ltk' = IF ret = "success" /\ output # None /\ output.as = "ltk" THEN output ELSE ltk
          /\ dh' = IF ret = "success" /\ output # None /\ output.as = "dh" /\ "dh" \in DOMAIN objects
                   THEN output ELSE dh
          /\ call' = NoCall /\ step' = 1 /\ ending' = FALSE /\ output' = None /\ UNCHANGED ret
          /\ UNCHANGED <<subsystemVars, buffers, lost, pairVars, failures>>

(* ECDH_P256_FreeDhKeyDataSecure, ECDH_P256_FreeE2EKeyDataSecure.           *)
FreeDhKeyData == /\ Idle /\ dh # None
                 /\ dh' = None /\ objects' = Without("dh")
                 /\ UNCHANGED <<callVars, context, requests, buffers, lost, pairVars, material, ltk, failures>>

(* The subsystem has been off, with the objects it held.                    *)
SecLib_ReInit == /\ Idle /\ (ready \/ objects # [o \in {} |-> None])
                 /\ ready' = FALSE /\ objects' = [o \in {} |-> None]
                 /\ UNCHANGED <<callVars, context, requests, buffers, lost, hasPair, blob, public, pairs,
                                heldVars, failures>>

Next == StartKey \/ StartPair \/ Done \/ Fail \/ FailDerive \/ Through \/ TakeDown \/ Return
        \/ FreeDhKeyData \/ SecLib_ReInit

Spec == Init /\ [][Next]_vars
------------------------------------------------------------------------------
(* One call at a time, with its temporary objects.                          *)
TypeOK == /\ DOMAIN objects \subseteq {"key", "mac", "ltk", "sk", "pair", "dh"}
          /\ buffers \in 0 .. 1 /\ requests \in 0 .. 1
          /\ ret \in {"success", "error"} /\ failures \in 0 .. MaxFailures

(* Whatever command fails, a call that has returned has freed its objects   *)
(* and contexts in the subsystem and its buffer, and released the radio;    *)
(* a shared secret is there only while the application holds it. The buffer *)
(* of a secret that cannot be computed is lost, and so is the object of a   *)
(* pair that a failing command kept from being exported or brought back.    *)
NothingLeft == Idle => /\ DOMAIN objects \subseteq {"pair"} \cup IF dh # None THEN {"dh"} ELSE {}
                       /\ context = None /\ buffers = 0 /\ requests = 0
                       /\ "pair" \in lost => failures > 0

(* A key that comes out as plain text, through any chain of blobs, is in    *)
(* the byte order in which the application gave it.                         *)
PlainAsGiven == material.as = "plain" => ~material.key.reversed

(* A secret is computed with the pair whose public key the peer has, also   *)
(* after a low-power period and after an attempt to replace the pair that   *)
(* has failed (ECDH_P256_ComputeA2BKeySecure takes the new pair then); the  *)
(* long term and session keys are derived from such a secret.               *)
SecretOfPair ==
  /\ output # None /\ output.as = "dh" /\ call # ECDH_P256_ComputeA2BKeySecure
     => output.key.key = <<"dh", "pair", public>>
  /\ output # None /\ output.as = "esk" => SubSeq(output.key.key, 1, 4) = <<"sk", "ltk", "dh", "pair">>
==============================================================================
