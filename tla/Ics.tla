---------------------------------- MODULE Ics ----------------------------------
(***************************************************************************)
(* platform/wireless_mcu/fwk_platform_ics.c and wireless_nbu: messages of  *)
(* the radio core (nbu) to the host, most of them deferred from the RPMSG  *)
(* interrupt to the work queue, and the host's calls into the radio core.  *)
(*                                                                         *)
(* The radio core sets and releases low-power constraints of the host,     *)
(* which PM counts (external). Messages of one direction keep their order  *)
(* and are not lost. The work queue is initialised, so that WORKQ_Submit   *)
(* does not refuse. Assertions are on: a call that is never answered stops *)
(* the program.                                                            *)
(***************************************************************************)
EXTENDS Integers, Sequences, FiniteSets, SequencesExt

CONSTANTS Callers,    \* host tasks that call the radio core
          Capacity,   \* messages that fit into a direction
          MaxPending, \* bound on the pending list
          MaxFailures,\* bound on the allocations that fail
          NoCaller    \* neither a caller nor an answer

VARIABLES toHost,     \* messages to the host
          pending,    \* rx_work.pending of the host
          submitted,  \* rx_work is in the work queue
          handling,   \* PLATFORM_RxWorkHandler: no, yes, ending (it has found the list empty)
          constraint, \* constraints that PM counts for the radio core
          wanted,     \* constraints the radio core has set and not released
          failures, overtaken,  \* allocations that failed; one did past others
          toNbu,      \* requests of the host: the caller, NoCaller for the version
          answered,   \* m_nbu_api_ind_received
          answer,     \* whose answer m_nbu_api_return_param holds
          callPc,     \* of each caller: idle, wait
          got,        \* whose answer a caller has taken
          infoWanted, \* g_nbu_info_p is set
          infoPc      \* PLATFORM_GetNbuInfo: idle, wait
vars == <<toHost, pending, submitted, handling, constraint, wanted, failures, overtaken,
          toNbu, answered, answer, callPc, got, infoWanted, infoPc>>
rxVars == <<pending, submitted, handling, constraint, failures, overtaken>>
apiVars == <<toNbu, answered, answer, callPc, got>>
infoVars == <<infoWanted, infoPc>>

Deferred == {"set", "release"}
Messages == [type : Deferred \cup {"version"}, for : {NoCaller}] \cup [type : {"answer"}, for : Callers]

TypeOK == /\ toHost \in Seq(Messages) /\ Len(toHost) <= Capacity
          /\ pending \in Seq(Deferred) /\ Len(pending) <= MaxPending
          /\ submitted \in BOOLEAN /\ handling \in {"no", "yes", "ending"}
          /\ constraint \in Int /\ wanted \in 0 .. 1
          /\ failures \in 0 .. MaxFailures /\ overtaken \in BOOLEAN
          /\ toNbu \in Seq(Callers \cup {NoCaller}) /\ Len(toNbu) <= Capacity
          /\ answered \in BOOLEAN /\ answer \in Callers \cup {NoCaller}
          /\ callPc \in [Callers -> {"idle", "wait"}]
          /\ got \in [Callers -> Callers \cup {NoCaller}]
          /\ infoWanted \in BOOLEAN /\ infoPc \in {"idle", "wait"}

Init == /\ toHost = <<>> /\ pending = <<>> /\ submitted = FALSE /\ handling = "no"
        /\ constraint = 0 /\ wanted = 0 /\ failures = 0 /\ overtaken = FALSE
        /\ toNbu = <<>> /\ answered = FALSE /\ answer = NoCaller
        /\ callPc = [c \in Callers |-> "idle"] /\ got = [c \in Callers |-> c]
        /\ infoWanted = FALSE /\ infoPc = "idle"
--------------------------------------------------------------------------------
(* The radio core: PLATFORM_FwkSrvSetLowPowerConstraint, ...Release...     *)
SendToHost(type, caller) == /\ Len(toHost) < Capacity
                            /\ toHost' = Append(toHost, [type |-> type, for |-> caller])

SetConstraint == /\ wanted = 0 /\ wanted' = 1 /\ SendToHost("set", NoCaller)
                 /\ UNCHANGED <<rxVars, apiVars, infoVars>>
ReleaseConstraint == /\ wanted = 1 /\ wanted' = 0 /\ SendToHost("release", NoCaller)
                     /\ UNCHANGED <<rxVars, apiVars, infoVars>>

(* The radio core answers the request at the head.                         *)
Answer == /\ toNbu # <<>>
          /\ toNbu' = Tail(toNbu)
          /\ IF Head(toNbu) = NoCaller THEN SendToHost("version", NoCaller)
                                      ELSE SendToHost("answer", Head(toNbu))
          /\ UNCHANGED <<wanted, rxVars, answered, answer, callPc, got, infoVars>>

(* PM_SetConstraints, PM_ReleaseConstraints (an error when there is none). *)
Serve(m) == constraint' = IF m = "set" THEN constraint + 1
                          ELSE IF constraint > 0 THEN constraint - 1 ELSE 0

(* Mutant: the work is submitted only when nothing is pending.             *)
DeferFirst(m) == /\ Len(pending) < MaxPending
                 /\ pending' = Append(pending, m)
                 /\ submitted' = (submitted \/ (pending = <<>> /\ handling = "no"))
                 /\ UNCHANGED <<handling, constraint, failures, overtaken>>

(* PLATFORM_FwkSrv_RxCallBack: a message is copied to the pending list and *)
(* the work submitted, or served at once if no memory is left for it.      *)
Defer(m) == /\ Len(pending) < MaxPending
            /\ pending' = Append(pending, m)
            /\ submitted' = TRUE
            /\ UNCHANGED <<handling, constraint, failures, overtaken>>
ServeNow(m) == /\ failures < MaxFailures
               /\ failures' = failures + 1
               /\ overtaken' = (overtaken \/ pending # <<>>)
               /\ Serve(m)
               /\ UNCHANGED <<pending, submitted, handling>>

(* PLATFORM_RxNbuApiIndicationService, at once, in the interrupt.          *)
ServeAnswer(m) == /\ answered' = TRUE /\ answer' = m.for
                  /\ UNCHANGED <<toNbu, callPc, got, infoVars, rxVars>>

(* PLATFORM_RxNbuVersionIndicationService: a late one is dropped.          *)
ServeVersion == /\ IF infoWanted THEN infoWanted' = FALSE /\ infoPc' = "idle" ELSE UNCHANGED infoVars
                /\ UNCHANGED <<apiVars, rxVars>>

Receive == /\ toHost # <<>> /\ toHost' = Tail(toHost) /\ UNCHANGED wanted
           /\ LET m == Head(toHost)
              IN \/ m.type \in Deferred /\ (Defer(m.type) \/ ServeNow(m.type)) /\ UNCHANGED <<apiVars, infoVars>>
                 \/ m.type = "answer" /\ ServeAnswer(m)
                 \/ m.type = "version" /\ ServeVersion
--------------------------------------------------------------------------------
(* PLATFORM_RxWorkHandler takes the head of the list until there is none;  *)
(* the work may be submitted again meanwhile.                              *)
StartHandler == /\ submitted /\ handling = "no"
                /\ submitted' = FALSE /\ handling' = "yes"
                /\ UNCHANGED <<toHost, wanted, pending, constraint, failures, overtaken, apiVars, infoVars>>

(* Mutant: the last message in is the first one out.                       *)
HandleLast == /\ handling = "yes" /\ pending # <<>>
              /\ pending' = Front(pending) /\ Serve(Last(pending))
              /\ UNCHANGED <<toHost, wanted, submitted, handling, failures, overtaken, apiVars, infoVars>>
Handle == /\ handling = "yes" /\ pending # <<>>
          /\ pending' = Tail(pending) /\ Serve(Head(pending))
          /\ UNCHANGED <<toHost, wanted, submitted, handling, failures, overtaken, apiVars, infoVars>>
EndHandler == /\ \/ handling = "yes" /\ pending = <<>> /\ handling' = "ending"
                 \/ handling = "ending" /\ handling' = "no"
              /\ UNCHANGED <<toHost, wanted, pending, submitted, constraint, failures, overtaken, apiVars, infoVars>>
--------------------------------------------------------------------------------
(* Mutant: the flag of an earlier answer is not cleared.                   *)
RequestStale(c) == /\ callPc[c] = "idle" /\ Len(toNbu) < Capacity
                   /\ toNbu' = Append(toNbu, c)
                   /\ callPc' = [callPc EXCEPT ![c] = "wait"]
                   /\ got' = [got EXCEPT ![c] = NoCaller] /\ answer' = NoCaller
                   /\ UNCHANGED <<toHost, wanted, answered, rxVars, infoVars>>

(* PLATFORM_NbuApiReq: the flag is cleared, the request sent, and the flag *)
(* polled.                                                                 *)
Request(c) == /\ callPc[c] = "idle" /\ Len(toNbu) < Capacity
              /\ toNbu' = Append(toNbu, c) /\ answered' = FALSE
              /\ callPc' = [callPc EXCEPT ![c] = "wait"]
              /\ got' = [got EXCEPT ![c] = NoCaller] /\ answer' = NoCaller
              /\ UNCHANGED <<toHost, wanted, rxVars, infoVars>>
TakeAnswer(c) == /\ callPc[c] = "wait" /\ answered
                 /\ got' = [got EXCEPT ![c] = answer]
                 /\ callPc' = [callPc EXCEPT ![c] = "idle"]
                 /\ UNCHANGED <<toHost, wanted, toNbu, answered, answer, rxVars, infoVars>>

(* PLATFORM_GetNbuInfo: the pointer of the caller, the request, and a wait *)
(* with a limit, which an assertion guards.                                *)
GetNbuInfo == /\ infoPc = "idle" /\ Len(toNbu) < Capacity
              /\ infoPc' = "wait" /\ infoWanted' = TRUE
              /\ toNbu' = Append(toNbu, NoCaller)
              /\ UNCHANGED <<toHost, wanted, answered, answer, callPc, got, rxVars>>

System == Receive \/ Answer \/ StartHandler \/ Handle \/ EndHandler
Next == \/ SetConstraint \/ ReleaseConstraint \/ System \/ GetNbuInfo
        \/ \E c \in Callers : Request(c) \/ TakeAnswer(c)

Fairness == /\ WF_vars(Receive) /\ WF_vars(Answer)
            /\ WF_vars(StartHandler \/ Handle \/ EndHandler)
            /\ WF_vars(\E c \in Callers : TakeAnswer(c))
FairSpec == Init /\ [][Next]_vars /\ Fairness
--------------------------------------------------------------------------------
(* Once every message of the radio core is served, the host holds exactly  *)
(* the constraint it wants, unless a message was served before an earlier  *)
(* one for want of memory.                                                 *)
ConstraintFollows == /\ toHost = <<>> /\ pending = <<>> /\ ~ overtaken
                     => constraint = wanted

(* Again and again, the handler is at work on the deferred messages if     *)
(* there are any: one may come while the handler is ending.                *)
PendingServed == pending # <<>> => handling = "yes"

(* What a caller takes is the answer to its own request.                   *)
AnswerIsOwn == \A c \in Callers : callPc[c] = "idle" => got[c] = c
================================================================================
