---------------------------------- MODULE Rng ----------------------------------
(***************************************************************************)
(* services/SecLib_RNG/RNG.c on the two cores, with the seed messages of   *)
(* platform/wireless_mcu/fwk_platform_rng.c and wireless_nbu: the host     *)
(* has the source of entropy, the radio core (nbu) asks it for a seed.     *)
(*                                                                         *)
(* Numbers are left out; a context is its flags and the count of requests, *)
(* which is cut off one past the maximum as only equality is tested.       *)
(* Messages arrive in order; one that finds no buffer is not sent.         *)
(***************************************************************************)
EXTENDS Naturals, Sequences

CONSTANTS MaxRequests,  \* gRngMaxRequests_d
          Overtaking,   \* requests the radio core may make while the host's
                        \* RNG_SetSeed is between its message and its end
          Capacity      \* messages that fit into each direction

VARIABLES ctx,       \* rng_ctx of each core
          toHost, toNbu,   \* messages under way
          work,      \* seed_needed_work is queued
          setSeed,   \* RNG_SetSeed of the host: idle, filled, sent
          setBy,     \* init or work: who runs it
          overtaken  \* requests since the host sent its message
vars == <<ctx, toHost, toNbu, work, setSeed, setBy, overtaken>>

Cores == {"host", "nbu"}
Fresh == [init |-> FALSE, seeded |-> FALSE, need |-> FALSE, requests |-> MaxRequests]

TypeOK == /\ ctx \in [Cores -> [init : BOOLEAN, seeded : BOOLEAN, need : BOOLEAN,
                                requests : 1 .. MaxRequests + 1]]
          /\ toHost \in Seq({"request"}) /\ Len(toHost) <= Capacity
          /\ toNbu \in Seq({"seed"}) /\ Len(toNbu) <= Capacity
          /\ work \in BOOLEAN /\ setSeed \in {"idle", "filled", "sent"}
          /\ setBy \in {"init", "work"} /\ overtaken \in 0 .. Overtaking

Init == /\ ctx = [c \in Cores |-> Fresh]
        /\ toHost = <<>> /\ toNbu = <<>>
        /\ work = FALSE /\ setSeed = "idle" /\ setBy = "init" /\ overtaken = 0
--------------------------------------------------------------------------------
Update(c, field, value) == ctx' = [ctx EXCEPT ![c][field] = value]

(* RNG_Init of the host: the hardware gives a seed at once, RNG_SetSeed    *)
(* gets another one and sends it.                                          *)
InitHost == /\ ~ ctx["host"].init
            /\ ctx' = [ctx EXCEPT !["host"] = [Fresh EXCEPT !.init = TRUE, !.seeded = TRUE]]
            /\ setSeed' = "filled" /\ setBy' = "init"
            /\ UNCHANGED <<toHost, toNbu, work, overtaken>>

(* RNG_NotifyReseedNeeded of the radio core: a request to the host.        *)
Ask == toHost' = IF Len(toHost) < Capacity THEN Append(toHost, "request") ELSE toHost
Asked == Len(toHost) < Capacity

(* RNG_Init of the radio core asks for the seed.                           *)
InitNbu == /\ ~ ctx["nbu"].init
           /\ Ask
           /\ ctx' = [ctx EXCEPT !["nbu"] = [Fresh EXCEPT !.init = TRUE, !.need = Asked]]
           /\ UNCHANGED <<toNbu, work, setSeed, setBy, overtaken>>

Seen == overtaken' = IF setSeed = "sent" THEN overtaken + 1 ELSE overtaken
MayAsk == setSeed = "sent" => overtaken < Overtaking

(* Mutant: while a seed is asked for, it is not asked for again.           *)
UnseededOnce == /\ ctx["nbu"].init /\ ~ ctx["nbu"].seeded /\ MayAsk
                /\ ~ ctx["nbu"].need
                /\ Ask
                /\ Update("nbu", "need", Asked)
                /\ Seen
                /\ UNCHANGED <<toNbu, work, setSeed, setBy>>

(* RNG_GetPseudoRandomData of the radio core without a seed asks for one,  *)
(* each time it is called.                                                 *)
Unseeded == /\ ctx["nbu"].init /\ ~ ctx["nbu"].seeded /\ MayAsk
            /\ Ask
            /\ ctx' = [ctx EXCEPT !["nbu"].need = @ \/ Asked]
            /\ Seen
            /\ UNCHANGED <<toNbu, work, setSeed, setBy>>

Count(n) == IF n > MaxRequests THEN n ELSE n + 1

(* With a seed: at exactly the maximum of requests a new one is asked for, *)
(* and the request is served, unless the message could not be sent.        *)
Request == /\ ctx["nbu"].seeded /\ MayAsk
           /\ LET at == ctx["nbu"].requests = MaxRequests
              IN /\ IF at THEN Ask ELSE UNCHANGED toHost
                 /\ IF at /\ ~ Asked THEN UNCHANGED ctx
                    ELSE ctx' = [ctx EXCEPT !["nbu"].need = @ \/ at,
                                            !["nbu"].requests = Count(@)]
           /\ Seen
           /\ UNCHANGED <<toNbu, work, setSeed, setBy>>

(* The host's requests, which submit the work of the seed at the maximum.  *)
RequestHost == /\ ctx["host"].seeded
               /\ LET at == ctx["host"].requests = MaxRequests
                  IN /\ ctx' = [ctx EXCEPT !["host"].need = @ \/ at,
                                           !["host"].requests = Count(@)]
                     /\ work' = (work \/ at)
               /\ MayAsk /\ Seen
               /\ UNCHANGED <<toHost, toNbu, setSeed, setBy>>

(* The request of the radio core, in the host's interrupt; before RNG_Init *)
(* nobody is registered to hear it.                                        *)
HearRequest == /\ toHost # <<>>
               /\ toHost' = Tail(toHost)
               /\ IF ctx["host"].init
                  THEN Update("host", "need", TRUE) /\ work' = TRUE
                  ELSE UNCHANGED <<ctx, work>>
               /\ UNCHANGED <<toNbu, setSeed, setBy, overtaken>>

(* Mutant: the work is for the first seed only.                            *)
SeedWorkOnce == /\ work /\ setSeed = "idle"
                /\ work' = FALSE
                /\ IF ctx["host"].need /\ ~ ctx["host"].seeded
                   THEN setSeed' = "filled" /\ setBy' = "work"
                   ELSE UNCHANGED <<setSeed, setBy>>
                /\ UNCHANGED <<ctx, toHost, toNbu, overtaken>>

(* RNG_seed_needed_handler, in the work queue.                             *)
SeedWork == /\ work /\ setSeed = "idle"
            /\ work' = FALSE
            /\ IF ctx["host"].need THEN setSeed' = "filled" /\ setBy' = "work"
               ELSE UNCHANGED <<setSeed, setBy>>
            /\ UNCHANGED <<ctx, toHost, toNbu, overtaken>>

(* RNG_SetSeed, the message; then it forgets the request. The radio core   *)
(* has started: its message is not dropped.                                *)
SendSeed == /\ setSeed = "filled" /\ Len(toNbu) < Capacity
            /\ ctx' = [ctx EXCEPT !["host"].requests = 1, !["host"].seeded = TRUE]
            /\ toNbu' = IF ctx["nbu"].init THEN Append(toNbu, "seed") ELSE toNbu
            /\ setSeed' = "sent" /\ overtaken' = 0
            /\ UNCHANGED <<toHost, work, setBy>>
ForgetRequest == /\ setSeed = "sent"
                 /\ Update("host", "need", FALSE)
                 /\ setSeed' = "idle" /\ overtaken' = 0
                 /\ UNCHANGED <<toHost, toNbu, work, setBy>>

(* RNG_SetExternalSeed of the radio core.                                  *)
SetExternalSeed == /\ toNbu # <<>>
                   /\ toNbu' = Tail(toNbu)
                   /\ ctx' = [ctx EXCEPT !["nbu"] = [init |-> TRUE, seeded |-> TRUE,
                                                     need |-> FALSE, requests |-> 1]]
                   /\ UNCHANGED <<toHost, work, setSeed, setBy, overtaken>>

System == InitHost \/ InitNbu \/ HearRequest \/ SeedWork \/ SendSeed
          \/ ForgetRequest \/ SetExternalSeed
Next == System \/ Unseeded \/ Request \/ RequestHost

(* Both cores start, messages and works are served, and the radio core     *)
(* goes on asking for numbers.                                             *)
Fairness == WF_vars(InitHost) /\ WF_vars(InitNbu) /\ WF_vars(HearRequest)
            /\ WF_vars(SeedWork) /\ WF_vars(SendSeed) /\ WF_vars(ForgetRequest)
            /\ WF_vars(SetExternalSeed) /\ WF_vars(Unseeded)
FairSpec == Init /\ [][Next]_vars /\ Fairness
--------------------------------------------------------------------------------
(* Again and again, a radio core that is initialised has its first seed:   *)
(* the host may not hear its first request, but RNG_GetPseudoRandomData    *)
(* asks again.                                                             *)
RadioCoreSeeded == ctx["nbu"].init => ctx["nbu"].seeded

(* Again and again, a radio core needs no new seed: it gets it, although   *)
(* it asks for it only once, while the host may be in the middle of        *)
(* sending another one.                                                    *)
ReseedAnswered == ctx["host"].init => ~ ctx["nbu"].need
================================================================================
