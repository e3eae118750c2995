-------------------------------- MODULE WorkQ --------------------------------
(***************************************************************************)
(* The workqueue service, services/WorkQ/fwk_workq.c: WORKQ_Start,         *)
(* WORKQ_SubmitToQueue and the thread of each queue, interleaved at the    *)
(* boundaries of the critical sections the code takes. Submissions come    *)
(* from any context (interrupts, tasks, handlers): a Caller.               *)
(*                                                                         *)
(* The OSA event (auto-clear, one flag) and the generic list (which locks  *)
(* itself) are external and modelled as the code uses them.                *)
(***************************************************************************)
EXTENDS Sequences, Functions

CONSTANTS Queue,     \* the fwk_workq_t objects
          Work,      \* the fwk_work_t objects
          Caller,    \* the contexts that call WORKQ_SubmitToQueue
          NoQueue,   \* null fwk_workq_t pointer
          NoWork     \* null list element

ASSUME NullAssumption == NoQueue \notin Queue /\ NoWork \notin Work

VARIABLES started,   \* FWK_WORKQ_STARTED in queue->flags
          pending,   \* queue->pending
          event,     \* flag 1 of queue->notify
          flags,     \* work->flags
          owner,     \* work->queue
          tpc,       \* where each queue's thread is
          node,      \* the thread's local `node`
          notify,    \* queue whose event a caller has still to set
          spc        \* where a call of WORKQ_Start on each queue is

vars == <<started, pending, event, flags, owner, tpc, node, notify, spc>>

threadVars == <<tpc, node>>
workVars   == <<flags, owner>>

Queued(w)  == "QUEUED" \in flags[w]
Running(w) == "RUNNING" \in flags[w]

TypeOK == /\ started \in [Queue -> BOOLEAN]
          /\ pending \in [Queue -> Seq(Work)]
          /\ event \in [Queue -> BOOLEAN]
          /\ flags \in [Work -> SUBSET {"QUEUED", "RUNNING"}]
          /\ owner \in [Work -> Queue \cup {NoQueue}]
          /\ tpc \in [Queue -> {"none", "wait", "remove", "claim", "run", "clear"}]
          /\ node \in [Queue -> Work \cup {NoWork}]
          /\ notify \in [Caller -> Queue \cup {NoQueue}]
          /\ spc \in [Queue -> {"idle", "task", "flag"}]
          /\ \A q \in Queue : tpc[q] \in {"claim", "run", "clear"} => node[q] \in Work

Init == /\ started = [q \in Queue |-> FALSE]
        /\ pending = [q \in Queue |-> <<>>]
        /\ event = [q \in Queue |-> FALSE]
        /\ flags = [w \in Work |-> {}]
        /\ owner = [w \in Work |-> NoQueue]
        /\ tpc = [q \in Queue |-> "none"]
        /\ node = [q \in Queue |-> NoWork]
        /\ notify = [c \in Caller |-> NoQueue]
        /\ spc = [q \in Queue |-> "idle"]
-----------------------------------------------------------------------------
(***************************************************************************)
(* WORKQ_Start. It must not be called again on a queue before it returned, *)
(* so one call per queue is in progress at a time. A call on a started     *)
(* queue returns 1 and changes nothing; a failure returns -ENOMEM and the  *)
(* call may be made again.                                                 *)
(***************************************************************************)
StartInit(q) == /\ spc[q] = "idle"
                /\ ~started[q]
                /\ pending' = [pending EXCEPT ![q] = <<>>]
                /\ \/ /\ event' = [event EXCEPT ![q] = FALSE]
                      /\ spc' = [spc EXCEPT ![q] = "task"]
                   \/ UNCHANGED <<event, spc>>       \* OSA_EventCreate failed
                /\ UNCHANGED <<started, workVars, threadVars, notify>>

StartTask(q) == /\ spc[q] = "task"
                /\ \/ /\ tpc' = [tpc EXCEPT ![q] = "wait"]
                      /\ spc' = [spc EXCEPT ![q] = "flag"]
                   \/ /\ spc' = [spc EXCEPT ![q] = "idle"]  \* OSA_TaskCreate failed
                      /\ UNCHANGED tpc
                /\ UNCHANGED <<started, pending, event, workVars, node, notify>>

StartFlag(q) == /\ spc[q] = "flag"
                /\ started' = [started EXCEPT ![q] = TRUE]
                /\ spc' = [spc EXCEPT ![q] = "idle"]
                /\ UNCHANGED <<pending, event, workVars, threadVars, notify>>
-----------------------------------------------------------------------------
(***************************************************************************)
(* WORKQ_SubmitToQueue. The critical section is one step; OSA_EventSet is  *)
(* called after it is left, with the queue in a local variable.            *)
(***************************************************************************)
(* Mutant: no redirection to the queue the item runs on.                   *)
TargetNotRedirected(q, w) == q

Target(q, w) == IF Running(w) THEN owner[w] ELSE q

(* Mutant: the QUEUED flag is not tested.                                  *)
SubmitResultQueuedIgnored(q, w) ==
  IF ~started[Target(q, w)] THEN "-ENODEV" ELSE IF Running(w) THEN "2" ELSE "0"

SubmitResult(q, w) == CASE Queued(w)                 -> "1"
                        [] ~Queued(w) /\ ~started[Target(q, w)] -> "-ENODEV"
                        [] OTHER -> IF Running(w) THEN "2" ELSE "0"

(* Mutant: the item is put at the head of the list.                        *)
SubmitAcceptAtHead(c, q, w) ==
  LET t == Target(q, w) IN
  /\ notify[c] = NoQueue
  /\ SubmitResult(q, w) \in {"0", "2"}
  /\ pending' = [pending EXCEPT ![t] = <<w>> \o @]
  /\ flags' = [flags EXCEPT ![w] = @ \cup {"QUEUED"}]
  /\ owner' = [owner EXCEPT ![w] = t]
  /\ notify' = [notify EXCEPT ![c] = t]
  /\ UNCHANGED <<started, event, threadVars, spc>>

SubmitAccept(c, q, w) ==
  LET t == Target(q, w) IN
  /\ notify[c] = NoQueue
  /\ SubmitResult(q, w) \in {"0", "2"}
  /\ pending' = [pending EXCEPT ![t] = Append(@, w)]
  /\ flags' = [flags EXCEPT ![w] = @ \cup {"QUEUED"}]
  /\ owner' = [owner EXCEPT ![w] = t]
  /\ notify' = [notify EXCEPT ![c] = t]
  /\ UNCHANGED <<started, event, threadVars, spc>>

SubmitRefuse(c, q, w) == /\ notify[c] = NoQueue
                         /\ SubmitResult(q, w) \in {"1", "-ENODEV"}
                         /\ UNCHANGED vars

Notify(c) == /\ notify[c] # NoQueue
             /\ event' = [event EXCEPT ![notify[c]] = TRUE]
             /\ notify' = [notify EXCEPT ![c] = NoQueue]
             /\ UNCHANGED <<started, pending, workVars, threadVars, spc>>
-----------------------------------------------------------------------------
(***************************************************************************)
(* workq_thread. Between Remove and Claim the item is out of the list and  *)
(* still flagged QUEUED; between Return and Clear its handler has returned *)
(* and it is still flagged RUNNING.                                        *)
(***************************************************************************)
(* Mutant: the loop body runs before the list is found empty.               *)
RemoveUntested(q) ==
  /\ tpc[q] = "remove"
  /\ node' = [node EXCEPT ![q] = IF pending[q] = <<>> THEN NoWork ELSE Head(pending[q])]
  /\ pending' = [pending EXCEPT ![q] = IF @ = <<>> THEN @ ELSE Tail(@)]
  /\ tpc' = [tpc EXCEPT ![q] = "claim"]
  /\ UNCHANGED <<started, event, workVars, notify, spc>>

(* Mutant: QUEUED is left set while the handler runs.                       *)
ClaimLeavesQueued(q) ==
  /\ tpc[q] = "claim"
  /\ flags' = [flags EXCEPT ![node[q]] = @ \cup {"RUNNING"}]
  /\ tpc' = [tpc EXCEPT ![q] = "run"]
  /\ UNCHANGED <<started, pending, event, owner, node, notify, spc>>

Wake(q) == /\ tpc[q] = "wait"
           /\ event[q]
           /\ event' = [event EXCEPT ![q] = FALSE]
           /\ tpc' = [tpc EXCEPT ![q] = "remove"]
           /\ UNCHANGED <<started, pending, workVars, node, notify, spc>>

Remove(q) == /\ tpc[q] = "remove"
             /\ \/ /\ pending[q] # <<>>
                   /\ node' = [node EXCEPT ![q] = Head(pending[q])]
                   /\ pending' = [pending EXCEPT ![q] = Tail(@)]
                   /\ tpc' = [tpc EXCEPT ![q] = "claim"]
                \/ /\ pending[q] = <<>>
                   /\ node' = [node EXCEPT ![q] = NoWork]
                   /\ tpc' = [tpc EXCEPT ![q] = "wait"]
                   /\ UNCHANGED pending
             /\ UNCHANGED <<started, event, workVars, notify, spc>>

Claim(q) == /\ tpc[q] = "claim"
            /\ flags' = [flags EXCEPT ![node[q]] = (@ \cup {"RUNNING"}) \ {"QUEUED"}]
            /\ tpc' = [tpc EXCEPT ![q] = "run"]
            /\ UNCHANGED <<started, pending, event, owner, node, notify, spc>>

Return(q) == /\ tpc[q] = "run"
             /\ tpc' = [tpc EXCEPT ![q] = "clear"]
             /\ UNCHANGED <<started, pending, event, workVars, node, notify, spc>>

(* Mutant: the thread runs one item each time it is woken.                 *)
ClearSleeps(q) == /\ tpc[q] = "clear"
                  /\ flags' = [flags EXCEPT ![node[q]] = @ \ {"RUNNING"}]
                  /\ tpc' = [tpc EXCEPT ![q] = "wait"]
                  /\ UNCHANGED <<started, pending, event, owner, node, notify, spc>>

Clear(q) == /\ tpc[q] = "clear"
            /\ flags' = [flags EXCEPT ![node[q]] = @ \ {"RUNNING"}]
            /\ tpc' = [tpc EXCEPT ![q] = "remove"]
            /\ UNCHANGED <<started, pending, event, owner, node, notify, spc>>

ThreadStep(q) == Wake(q) \/ Remove(q) \/ Claim(q) \/ Return(q) \/ Clear(q)

Next == \/ \E q \in Queue : StartInit(q) \/ StartTask(q) \/ StartFlag(q)
        \/ \E c \in Caller, q \in Queue, w \in Work :
              SubmitAccept(c, q, w) \/ SubmitRefuse(c, q, w)
        \/ \E c \in Caller : Notify(c)
        \/ \E q \in Queue : ThreadStep(q)

(* Threads are scheduled and handlers return; a caller that has queued an  *)
(* item goes on to OSA_EventSet. Nobody is obliged to start or to submit.  *)
Fairness == /\ \A q \in Queue : WF_vars(ThreadStep(q))
            /\ \A c \in Caller : WF_vars(Notify(c))

Spec == Init /\ [][Next]_vars /\ Fairness
-----------------------------------------------------------------------------
InHandler(q, w) == tpc[q] = "run" /\ node[q] = w

(* A work handler is never entered while another thread is still inside    *)
(* it: what the redirection to work->queue (fwk_workq.c:200-206) is for.       *)
HandlerNotReentered ==
  \A q, r \in Queue, w \in Work : InHandler(q, w) /\ InHandler(r, w) => q = r

(* The list node is embedded in the work item: an item is in one list at   *)
(* one place, and is not in a list while a thread still holds it as a      *)
(* detached node. A second insertion would corrupt both lists.             *)
NodeLinkedOnce ==
  /\ \A q \in Queue : IsInjective(pending[q])
  /\ \A q, r \in Queue : q # r => Range(pending[q]) \cap Range(pending[r]) = {}
  /\ \A q, r \in Queue : tpc[q] = "claim" => node[q] \notin Range(pending[r])

(* A thread asleep on its event while items wait is about to be woken: the *)
(* event is set after the lock is released and cleared before the drain.   *)
NoLostWakeup ==
  \A q \in Queue : tpc[q] = "wait" /\ pending[q] # <<>> =>
                     event[q] \/ \E c \in Caller : notify[c] = q

(* The service is what the abstract module promises: order, single wait,   *)
(* redirection and (under the fairness above) service of every item.       *)
Service == INSTANCE WorkQService
  WITH up <- started,
       backlog <- [q \in Queue |-> IF tpc[q] = "claim" THEN <<node[q]>> \o pending[q]
                                                       ELSE pending[q]],
       active <- [q \in Queue |-> IF tpc[q] \in {"run", "clear"} THEN node[q] ELSE NoWork]

ImplementsService == Service!SSpec

(* Every accepted submission leads to a run of the handler that starts     *)
(* after it: no item stays queued for ever.                                *)
QueuedWorkRuns ==
  \A w \in Work : Queued(w) ~> (\E q \in Queue : InHandler(q, w))
=============================================================================
