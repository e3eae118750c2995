------------------------------ MODULE RngSource ------------------------------
(***************************************************************************)
(* Random numbers of one core with the back ends of SecLib_RNG: RNG.c with *)
(* the TRNG ("trng"), with the secure subsystem ("sss") or with the RNG    *)
(* adapter ("hal"), RNG_mbedTLS.c ("mbedtls") and RNG_psa.c ("psa"). Tasks *)
(* draw numbers while a work item seeds the generator again and the        *)
(* hardware may fail. The messages to another core are in module Rng.      *)
(*                                                                         *)
(* The state of a generator is the number of times it has changed: two     *)
(* numbers from the same state are the same number.                        *)
(***************************************************************************)
EXTENDS Integers

CONSTANTS Tasks,        \* that draw numbers
          MaxRequests,  \* gRngMaxRequests_d
          MaxKey,       \* bound: changes of a generator
          MaxFailures,  \* bound: failures of the hardware
          Chunks,       \* chunks of a number got through a context
          Bits          \* width of a word of the Lehmer generator (32)

VARIABLES backend, init, seeded, need,
          requests,   \* cut off one past the maximum: only equality is tested
          strong,     \* the generator's state holds entropy
          key,        \* changes of its state
          work,       \* seed_needed_work is queued
          lock,       \* owner of the mutex of SecLib
          pc, todo,   \* of each task: its step, and chunks it still wants
          read,       \* the state a task draws from, or the requests it has read
          given,      \* the state its last number was drawn from
          entropy,    \* the TRNG has its next entropy (ENT_VAL)
          disallow,   \* mRngDisallowMcuSleep
          failures,
          clashed     \* history: what two threads have used at once, without a lock

ctxVars == <<init, seeded, need, requests>>
taskVars == <<pc, todo, read, given>>
trngVars == <<entropy, disallow>>
vars == <<backend, ctxVars, strong, key, work, lock, taskVars, trngVars, failures,
          clashed>>

Work == "workq"                     \* runs RNG_SetSeed
Threads == Tasks \cup {Work}
Soft == backend \in {"trng", "hal"}           \* the generator is in RNG.c
Seeds == Soft \/ backend = "mbedtls"          \* it asks for its seed
None == "none"
Sleeping == {"drawn", "allow", "forbid"}      \* in TRNG_GoToSleep
Steps == {"idle", "count", "draw", "drawing", "seed", "seeding"} \cup Sleeping

TypeOK == /\ backend \in {"trng", "hal", "sss", "mbedtls", "psa"}
          /\ init \in BOOLEAN /\ seeded \in BOOLEAN /\ need \in BOOLEAN
          /\ requests \in 1 .. MaxRequests + 1
          /\ strong \in BOOLEAN /\ key \in 0 .. MaxKey /\ work \in BOOLEAN
          /\ lock \in Threads \cup {None}
          /\ pc \in [Threads -> Steps]
          /\ todo \in [Threads -> 0 .. Chunks]
          /\ read \in [Threads -> (0 .. MaxKey) \cup (1 .. MaxRequests + 1)]
          /\ given \in [Threads -> 0 .. MaxKey]
          /\ entropy \in BOOLEAN /\ disallow \in BOOLEAN
          /\ failures \in 0 .. MaxFailures
          /\ clashed \subseteq {"count", "seed", "trng"}

Init == /\ backend \in {"trng", "hal", "sss", "mbedtls", "psa"}
        /\ init = FALSE /\ seeded = FALSE /\ need = FALSE /\ requests = MaxRequests
        /\ strong = FALSE /\ key = 0 /\ work = FALSE /\ lock = None
        /\ pc = [t \in Threads |-> "idle"] /\ todo = [t \in Threads |-> 0]
        /\ read = [t \in Threads |-> 0] /\ given = [t \in Threads |-> 0]
        /\ entropy = TRUE /\ disallow = FALSE /\ failures = 0
        /\ clashed = {}
------------------------------------------------------------------------------
Idle(t) == pc[t] = "idle"
Fails == failures < MaxFailures /\ failures' = failures + 1
Works == UNCHANGED failures
Goto(t, step) == pc' = [pc EXCEPT ![t] = step]

(* RNG.c takes no lock, and RNG_mbedTLS.c none over its counter: thread t  *)
(* comes to use what others are using.                                     *)
Clash(t, steps, what) ==
  {w \in {what} : \E o \in Threads \ {t} : pc[o] \in steps}

(* The TRNG starts to make its next entropy when one has been read.         *)
EntropyRead == /\ backend = "trng" => entropy
               /\ entropy' = (backend # "trng")
               /\ UNCHANGED disallow

(* TRNG_GoToSleep of a thread: the test of ENT_VAL, and what follows it.     *)
TestEntropy(t) ==
  /\ pc[t] = "drawn"
  /\ Goto(t, IF entropy THEN "allow" ELSE "forbid")
  /\ UNCHANGED <<backend, ctxVars, strong, key, work, lock, todo, read, given, trngVars,
                 failures, clashed>>

(* Mutant: the chip is only told that it may sleep again.                  *)
OnlyAllow(t) ==
  /\ pc[t] \in {"allow", "forbid"}
  /\ Goto(t, "idle")
  /\ disallow' = (disallow /\ pc[t] = "forbid")
  /\ UNCHANGED <<backend, ctxVars, strong, key, work, lock, todo, read, given, entropy,
                 failures, clashed>>

GoToSleep(t) ==
  /\ pc[t] \in {"allow", "forbid"}
  /\ Goto(t, "idle")
  /\ disallow' = (pc[t] = "forbid")
  /\ UNCHANGED <<backend, ctxVars, strong, key, work, lock, todo, read, given, entropy,
                 failures, clashed>>

(* TRNG_ISR runs when there is entropy, and goes to sleep in one step.      *)
Isr == /\ ~ entropy /\ entropy' = TRUE
       /\ disallow' = FALSE
       /\ UNCHANGED <<backend, ctxVars, strong, key, work, lock, taskVars, failures, clashed>>

(* RNG_Init of RNG.c: the source gives the first seed, RNG_SetSeed gets     *)
(* another one, and a failure of that leaves the module initialised.       *)
InitRng ==
  /\ ~ init /\ (Soft \/ backend = "sss")
  /\ \A t \in Threads : Idle(t)
  /\ key < MaxKey /\ key' = key + 1 /\ given' = [t \in Threads |-> 0]
  /\ \E first, second \in BOOLEAN :
       /\ init' = first /\ seeded' = first /\ strong' = (strong \/ first)
       /\ need' = FALSE
       /\ requests' = IF first /\ second THEN 1 ELSE MaxRequests
       /\ IF first /\ second THEN Works ELSE Fails
       /\ IF backend = "trng" /\ first
          THEN entropy' = FALSE /\ disallow' = TRUE ELSE UNCHANGED trngVars
       /\ clashed' = IF first THEN {} ELSE clashed
  /\ UNCHANGED <<backend, work, lock, pc, todo, read>>

(* RNG_Init of RNG_mbedTLS.c succeeds without a seed, if the entropy of     *)
(* its first number is there.                                              *)
InitMbed ==
  /\ ~ init /\ backend = "mbedtls"
  /\ \A t \in Threads : Idle(t)
  /\ key < MaxKey /\ key' = key + 1 /\ given' = [t \in Threads |-> 0]
  /\ \E first, second \in BOOLEAN :
       /\ init' = first /\ seeded' = (first /\ second) /\ strong' = (first /\ second)
       /\ requests' = IF first THEN 1 ELSE requests
       /\ clashed' = IF first THEN {} ELSE clashed
       /\ IF first /\ second THEN Works ELSE Fails
  /\ UNCHANGED <<backend, need, work, lock, pc, todo, read, trngVars>>

InitPsa ==
  /\ ~ init /\ backend = "psa"
  /\ key < MaxKey /\ key' = key + 1
  /\ init' \in BOOLEAN
  /\ strong' = (strong \/ init')
  /\ IF init' THEN Works ELSE Fails
  /\ UNCHANGED <<backend, seeded, need, requests, work, lock, taskVars, trngVars, clashed>>

DeInit ==
  /\ init /\ \A t \in Threads : Idle(t)
  /\ init' = FALSE /\ seeded' = FALSE /\ need' = FALSE
  /\ requests' = IF backend = "mbedtls" THEN MaxRequests ELSE requests
  /\ given' = [t \in Threads |-> 0]
  /\ UNCHANGED <<backend, strong, key, work, lock, pc, todo, read, trngVars, failures,
                 clashed>>

NotifyReseedNeeded == need' = TRUE /\ work' = TRUE
------------------------------------------------------------------------------
(* RNG_GetPseudoRandomData without a seed asks for one, at each call.       *)
Unseeded(t) ==
  /\ Idle(t) /\ init /\ Seeds /\ ~ seeded
  /\ NotifyReseedNeeded
  /\ UNCHANGED <<backend, init, seeded, requests, strong, key, lock, taskVars,
                 trngVars, failures, clashed>>

(* Mutant: the maximum is tested after the request has been counted.       *)
AskPast(t) ==
  /\ IF Seeds /\ requests = MaxRequests - 1 THEN NotifyReseedNeeded ELSE UNCHANGED <<need, work>>
  /\ Goto(t, IF Seeds THEN "count" ELSE "draw")
  /\ clashed' = clashed \cup (IF Seeds THEN Clash(t, {"count"}, "count") ELSE {})

(* With one it asks for the next one at the maximum, and goes on.           *)
Ask(t) ==
  /\ IF Seeds /\ requests = MaxRequests THEN NotifyReseedNeeded ELSE UNCHANGED <<need, work>>
  /\ Goto(t, IF Seeds THEN "count" ELSE "draw")
  /\ clashed' = clashed \cup (IF Seeds THEN Clash(t, {"count"}, "count") ELSE {})

(* A call for one number; one through a context wants several in turn.      *)
GetPseudoRandomData(t, chunks) ==
  /\ Idle(t) /\ init /\ (Seeds => seeded)
  /\ Ask(t)
  /\ todo' = [todo EXCEPT ![t] = chunks]
  /\ given' = [given EXCEPT ![t] = 0]
  /\ read' = [read EXCEPT ![t] = requests]
  /\ UNCHANGED <<backend, init, seeded, requests, strong, key, lock, trngVars, failures>>

(* RNG_GetPrngFunc is NULL without a seed.                                 *)
GetWithContext(t) == Soft /\ seeded /\ GetPseudoRandomData(t, Chunks)

(* The increment may store what it has read before another thread's store. *)
Count(t) ==
  /\ pc[t] = "count"
  /\ \E n \in {requests, read[t]} : requests' = IF n > MaxRequests THEN n ELSE n + 1
  /\ Goto(t, "draw")
  /\ UNCHANGED <<backend, init, seeded, need, strong, key, work, lock, todo, read, given,
                 trngVars, failures, clashed>>

(* A true random number comes from the source, which may fail.             *)
GetTrueRandomNumber(t) ==
  /\ Idle(t) /\ init /\ backend = "trng"
  /\ Goto(t, "drawn")
  /\ todo' = [todo EXCEPT ![t] = 0]
  /\ given' = [given EXCEPT ![t] = 0]
  /\ \/ EntropyRead /\ Works
     \/ UNCHANGED trngVars /\ Fails
  /\ clashed' = clashed \cup Clash(t, Sleeping, "trng")
  /\ UNCHANGED <<backend, ctxVars, strong, key, work, lock, read>>

(* Mutant: the generator is used without the mutex.                        *)
MayUnlocked(t) == t \in Threads

(* The mutex of SecLib is held over the generator, but in RNG.c.           *)
MayLock(t) == Soft \/ lock = None
Locked(t) == lock' = IF Soft THEN lock ELSE t

Draw(t) ==
  /\ pc[t] = "draw" /\ MayLock(t)
  /\ Locked(t)
  /\ read' = [read EXCEPT ![t] = key]
  /\ Goto(t, "drawing")
  /\ clashed' = clashed \cup (IF Soft THEN Clash(t, {"drawing"}, "seed") ELSE {})
  /\ UNCHANGED <<backend, ctxVars, strong, key, work, todo, given, trngVars, failures>>

(* The number comes out, the state moves on, and in RNG.c a change that     *)
(* another thread has made since it was read may be lost; the next chunk    *)
(* counts as a request of its own.                                         *)
Drawn(t) ==
  /\ pc[t] = "drawing" /\ key < MaxKey /\ read[t] < MaxKey
  /\ key' = key + 1 \/ (Soft /\ key' = read[t] + 1)
  /\ given' = [given EXCEPT ![t] = read[t]]
  /\ lock' = IF Soft THEN lock ELSE None
  /\ IF todo[t] > 1
     THEN /\ todo' = [todo EXCEPT ![t] = @ - 1] /\ Ask(t)
          /\ read' = [read EXCEPT ![t] = requests]
     ELSE /\ todo' = [todo EXCEPT ![t] = 0] /\ Goto(t, "idle")
          /\ read' = [read EXCEPT ![t] = 0]
          /\ UNCHANGED <<need, work, clashed>>
  /\ UNCHANGED <<backend, init, seeded, requests, strong, trngVars, failures>>

(* mbedTLS, psa or the subsystem fail: there is no number.                 *)
DrawFails(t) ==
  /\ pc[t] = "drawing" /\ ~ Soft /\ Fails
  /\ read' = [read EXCEPT ![t] = 0] /\ lock' = None
  /\ todo' = [todo EXCEPT ![t] = 0] /\ Goto(t, "idle")
  /\ UNCHANGED <<backend, ctxVars, strong, key, work, given, trngVars, clashed>>
------------------------------------------------------------------------------
(* RNG_seed_needed_handler.                                                *)
SeedNeeded ==
  /\ work /\ Idle(Work)
  /\ work' = FALSE
  /\ IF need THEN Goto(Work, "seed") ELSE UNCHANGED pc
  /\ UNCHANGED <<backend, ctxVars, strong, key, lock, todo, read, given, trngVars, failures,
                 clashed>>

(* RNG_SetSeed of RNG.c, which goes on needing a seed when it gets none.     *)
SetSeed ==
  /\ pc[Work] = "seed" /\ Soft
  /\ IF ~ init THEN Goto(Work, "idle") /\ UNCHANGED <<ctxVars, key, trngVars, failures, clashed>>
     ELSE /\ Goto(Work, IF backend = "trng" THEN "drawn" ELSE "idle")
          /\ \/ /\ key < MaxKey /\ key' = key + 1 /\ EntropyRead /\ Works
                /\ requests' = 1 /\ seeded' = TRUE /\ need' = FALSE /\ UNCHANGED init
                /\ clashed' = clashed \cup Clash(Work, {"count"}, "count")
                                       \cup Clash(Work, Sleeping, "trng")
             \/ /\ Fails /\ UNCHANGED <<ctxVars, key, trngVars>>
                /\ clashed' = clashed \cup Clash(Work, Sleeping, "trng")
  /\ UNCHANGED <<backend, strong, work, lock, todo, read, given>>

(* RNG_SetSeed of RNG_mbedTLS.c, which forgets the need when it gets none.   *)
SeedMbed ==
  /\ pc[Work] = "seed" /\ backend = "mbedtls"
  /\ IF init THEN lock = None /\ lock' = Work /\ Goto(Work, "seeding")
     ELSE Goto(Work, "idle") /\ UNCHANGED lock
  /\ UNCHANGED <<backend, ctxVars, strong, key, work, todo, read, given, trngVars, failures,
                 clashed>>

(* Mutant: a generator without a seed counts as seeded whatever happens.    *)
SeededMbedAlways ==
  /\ pc[Work] = "seeding" /\ key < MaxKey
  /\ key' = key + 1 /\ lock' = None /\ Goto(Work, "idle")
  /\ \E ok \in BOOLEAN :
       /\ IF ok THEN Works ELSE Fails
       /\ strong' = (strong \/ ok)
       /\ seeded' = TRUE
  /\ need' = FALSE /\ requests' = 1
  /\ clashed' = clashed \cup Clash(Work, {"count"}, "count")
  /\ UNCHANGED <<backend, init, work, todo, read, given, trngVars>>

SeededMbed ==
  /\ pc[Work] = "seeding" /\ key < MaxKey
  /\ key' = key + 1 /\ lock' = None /\ Goto(Work, "idle")
  /\ \E ok \in BOOLEAN :
       /\ IF ok THEN Works ELSE Fails
       /\ strong' = (strong \/ ok)
       /\ seeded' = (seeded \/ ok)
  /\ need' = FALSE /\ requests' = 1
  /\ clashed' = clashed \cup Clash(Work, {"count"}, "count")
  /\ UNCHANGED <<backend, init, work, todo, read, given, trngVars>>

Next == \/ InitRng \/ InitMbed \/ InitPsa \/ DeInit \/ Isr
        \/ \E t \in Tasks : Unseeded(t)
        \/ \E t \in Tasks : GetPseudoRandomData(t, 1)
        \/ \E t \in Tasks : GetWithContext(t)
        \/ \E t \in Tasks : GetTrueRandomNumber(t)
        \/ \E t \in Threads : TestEntropy(t)
        \/ \E t \in Threads : GoToSleep(t)
        \/ \E t \in Tasks : Count(t)
        \/ \E t \in Tasks : Draw(t)
        \/ \E t \in Tasks : Drawn(t)
        \/ \E t \in Tasks : DrawFails(t)
        \/ SeedNeeded \/ SetSeed \/ SeedMbed \/ SeededMbed

Spec == Init /\ [][Next]_vars
------------------------------------------------------------------------------
(* The Lehmer generator: products modulo 2^Bits - 5 without a division. The *)
(* factor is as far from the width of a word as 279470273 is from 2^32.     *)
Word == 2 ^ Bits
Multiplicand == (Word \div 15) + 1
(* Mutant: the remainder is not corrected where it exceeds the prime.       *)
ModUncorrected(x) ==
  LET once == (x % Word) + 5 * (x \div Word)
  IN ((once % Word) + 5 * (once \div Word)) % Word

ModPrime(x) ==
  LET once == (x % Word) + 5 * (x \div Word) + 4
  IN ((once % Word) + 5 * (once \div Word) - 4) % Word
------------------------------------------------------------------------------
(* No two tasks are given the same number, although the generator is       *)
(* seeded again while they draw, and at a back end with a mutex although   *)
(* they draw at the same time. RNG.c has no mutex: there it is the tasks   *)
(* that must not draw at the same time.                                    *)
NumbersDiffer ==
  ~ (Soft /\ "seed" \in clashed)
     => \A s, t \in Tasks : given[s] = given[t] => s = t \/ given[s] = 0

(* A generator that has passed its maximum of requests, which is tested for *)
(* equality only, has been asked for a new seed, unless requests were      *)
(* counted at the same time.                                               *)
ReseedAsked ==
  Seeds /\ init /\ requests > MaxRequests /\ "count" \notin clashed => need

(* Numbers are drawn from a generator that has got entropy, also when the   *)
(* seeding has failed before.                                              *)
DrawsSeeded == \A t \in Tasks : pc[t] \in {"count", "draw", "drawing"} => strong

(* The chip stays awake while the TRNG makes entropy, though its interrupt  *)
(* comes between the steps of a thread that goes to sleep; unless a thread *)
(* is still at these steps, or two have been at them at once.              *)
AwakeWhileGenerating ==
  (\A t \in Threads : pc[t] \notin Sleeping) /\ "trng" \notin clashed
     => (entropy \/ disallow)

(* For every state but one the Lehmer generator computes the product modulo *)
(* the prime, and for that one, the prime itself, the prime and not 0.      *)
LehmerIsModulo ==
  \A w \in 0 .. Word - 1 :
    ModPrime(w * Multiplicand) =
      IF w = Word - 5 THEN w ELSE (w * Multiplicand) % (Word - 5)
==============================================================================
