------------------------------- MODULE NvSaves -------------------------------
(***************************************************************************)
(* The RAM side of services/NVM/Source/NV_Flash.c: what happens to a save  *)
(* request between the call that makes it and the write of its record. The *)
(* pending-save queue, the policies (on idle, on count, on interval,       *)
(* synchronous, the whole table), the critical section, NvIdle, NvTimerTick *)
(* and NvShutdown.                                                         *)
(*                                                                         *)
(* Calls hold the NVM mutex; critical sections and time do not. The flash  *)
(* is what NvFlash shows of it: a write succeeds or asks for a page copy,  *)
(* and the first Room writes after a copy succeed. Data sets are mirrored  *)
(* in RAM and are named by their place in the table.                       *)
(***************************************************************************)
EXTENDS Integers, Sequences

CONSTANTS ElementsCount, \* ElementsCount[e]: elements of data set e
          QueueSize,     \* gNvPendingSavesQueueSize_c
          Ticks,         \* mNvMinimumTicksBetweenSaves
          Counts,        \* mNvCountsBetweenSaves
          Sectors,       \* physical sectors of a page
          Room,          \* records a page has room for after a copy
          MaxCritical,   \* bound on nested critical sections
          Calls          \* the functions the application calls

ASSUME SizesAssumption == /\ ElementsCount \in Seq(Nat \ {0})
                          /\ QueueSize \in Nat \ {0}
                          /\ Sectors \in Nat \ {0} /\ Room \in Nat \ {0}
                          /\ Ticks \in Nat /\ Counts \in Nat /\ MaxCritical \in Nat

(* Tables of a pair, and of two single data sets; the calls made of them.  *)
Pair == <<2, 1>>
Singles == <<1, 1>>
AllButAtomic == {"idle", "count", "interval", "sync", "tick", "shutdown", "restore"}
AllButSync == {"idle", "count", "interval", "atomic", "shutdown", "restore"}

Entry == DOMAIN ElementsCount
Elem == UNION {{e} \X (1 .. ElementsCount[e]) : e \in Entry}
NoEntry == 0             \* 0xFFFF: gNvInvalidDataEntry_c, and gNvCopyAll_c too

(* Requests for one element, for a whole table entry, for the whole table. *)
One(x) == [id |-> x[1], i |-> x[2], all |-> FALSE]
All(e) == [id |-> e, i |-> 1, all |-> TRUE]
CopyAll == [id |-> NoEntry, i |-> 0, all |-> TRUE]

(* A queued request made one for its whole entry, or invalidated.          *)
Widened(r) == [id |-> r.id, i |-> r.i, all |-> TRUE]
Void(r) == [id |-> NoEntry, i |-> r.i, all |-> r.all]

Req == {One(x) : x \in Elem} \cup {All(e) : e \in Entry}
Slot == [id : Entry \cup {NoEntry}, i : Nat \ {0}, all : BOOLEAN] \cup {CopyAll}
ElemsOf(r) == IF r = CopyAll THEN Elem
              ELSE {x \in Elem : x[1] = r.id /\ (r.all \/ x[2] = r.i)}

VARIABLES queue,       \* mNvPendingSavesQueue from Head to Tail
          tail,        \* mNvPendingSavesQueue.Tail
          interval,    \* maDatasetInfo[e].saveNextInterval
          ticks,       \* maDatasetInfo[e].ticksToNextSave
          counts,      \* maDatasetInfo[e].countsToNextSave
          event,       \* mNvSaveOnIntervalEvent
          second,      \* one second has passed since mNvLastTimestampValue
          critical,    \* mNvCriticalSectionFlag
          copyPending, \* mNvCopyOperationIsPending
          erase,       \* calls of NvIdle the requested page erase still takes
          room,        \* records there is room for since the last page copy
          due,         \* elements of accepted requests not written since
          pc, by, op   \* the call that holds the mutex and its local variables

queueVars == <<queue, tail>>
setVars   == <<interval, ticks, counts>>
timeVars  == <<event, second>>
flashVars == <<copyPending, erase, room>>
callVars  == <<pc, by, op>>
vars == <<queueVars, setVars, timeVars, critical, flashVars, due, callVars>>

Idle == [e |-> 1, left |-> FALSE, count |-> FALSE]

TypeOK == /\ queue \in Seq(Slot) /\ Len(queue) <= QueueSize
          /\ tail \in 0 .. QueueSize - 1
          /\ interval \in [Entry -> BOOLEAN]
          /\ ticks \in [Entry -> 0 .. Ticks]
          /\ counts \in [Entry -> 0 .. Counts]
          /\ event \in BOOLEAN /\ second \in BOOLEAN
          /\ critical \in 0 .. MaxCritical
          /\ copyPending \in BOOLEAN /\ room \in 0 .. Room
          /\ erase \in 0 .. Sectors + 1
          /\ due \subseteq Elem
          /\ pc \in {"ready", "atomic", "tick", "request", "drain", "remove", "loop", "check", "off"}
          /\ by \in {"none", "idle", "tick", "atomic", "shutdown", "restore"}
          /\ op \in [e : Nat, left : BOOLEAN, count : BOOLEAN]

Init == /\ queue = <<>> /\ tail = 0
        /\ interval = [e \in Entry |-> FALSE]
        /\ ticks = [e \in Entry |-> 0]
        /\ counts = [e \in Entry |-> Counts]
        /\ event = FALSE /\ second = FALSE
        /\ critical = 0
        /\ copyPending = FALSE /\ erase = 0 /\ room = 0
        /\ due = {}
        /\ pc = "ready" /\ by = "none" /\ op = Idle
-----------------------------------------------------------------------------
(* The flash.                                                              *)

(* NvWriteRecord: the record is written, or a page copy is asked for.      *)
Written == /\ ~copyPending
           /\ room' = IF room = 0 THEN 0 ELSE room - 1
           /\ UNCHANGED <<copyPending, erase>>

Full == /\ copyPending \/ room = 0
        /\ copyPending' = TRUE
        /\ UNCHANGED <<erase, room>>

(* A page copy made at once and the second write; the old page is erased   *)
(* at once (__NvSyncSave) or later, a sector per NvIdle and one to end.    *)
CopiedAndWritten(later) == /\ copyPending \/ room = 0
                           /\ copyPending' = FALSE
                           /\ erase' = later
                           /\ room' = Room - 1
-----------------------------------------------------------------------------
(* NvAddSaveRequestToQueue.                                                *)

Absorbing(q, r) == {j \in DOMAIN q : q[j].id = r.id /\ (q[j].all \/ r.all \/ q[j].i = r.i)}
Reusable(q) == {j \in DOMAIN q : q[j].id = NoEntry}
First(S) == {j \in S : \A k \in S : j <= k}
Next1(i) == (i + 1) % QueueSize

(* Absorbed by a queued request, stored over an invalidated one, or pushed *)
(* to queue q. A request for the whole table counts as invalidated.        *)
Enqueue(q, r) ==
  \/ /\ \E j \in First(Absorbing(q, r)) :
          queue' = IF r.all THEN [q EXCEPT ![j] = Widened(@)] ELSE q
     /\ UNCHANGED tail
  \/ /\ Absorbing(q, r) = {}
     /\ \E j \in First(Reusable(q)) : queue' = [q EXCEPT ![j] = r]
     /\ UNCHANGED tail
  \/ /\ Absorbing(q, r) = {} /\ Reusable(q) = {} /\ Len(q) < QueueSize
     /\ queue' = Append(q, r)
     /\ tail' = Next1(tail)

QueueFull(r) == Absorbing(queue, r) = {} /\ Reusable(queue) = {} /\ Len(queue) = QueueSize
Rejected(r) == QueueFull(r) /\ critical > 0

(* NvProcessFirstSaveInQueue makes room: the head is written, after a page *)
(* copy if need be. No head is invalid here, or there would be room.       *)
MakeRoom(r) == /\ QueueFull(r) /\ critical = 0
               /\ queue' = Append(Tail(queue), r)
               /\ tail' = Next1(tail)
               /\ Written \/ CopiedAndWritten(Sectors + 1)

(* The request is accepted: S is due from now on.                          *)
Accept(r, S) == \/ /\ Enqueue(queue, r)
                   /\ due' = due \cup S
                   /\ UNCHANGED flashVars
                \/ /\ MakeRoom(r)
                   /\ due' = (due \cup S) \ ElemsOf(Head(queue))
Reject(r) == Rejected(r) /\ UNCHANGED <<queueVars, due, flashVars>>
-----------------------------------------------------------------------------
(* The calls that queue a save, or note one for later.                     *)

Call(f) == pc = "ready" /\ f \in Calls

SaveOnIdle(r) == /\ Call("idle")
                 /\ Accept(r, ElemsOf(r)) \/ Reject(r)
                 /\ UNCHANGED <<setVars, timeVars, critical, callVars>>

SaveOnCount(e) ==
  /\ Call("count")
  /\ \/ /\ counts[e] # 0
        /\ counts' = [counts EXCEPT ![e] = @ - 1]
        /\ UNCHANGED <<queueVars, due, flashVars>>
     \/ /\ counts[e] = 0
        /\ counts' = [counts EXCEPT ![e] = Counts]
        /\ Accept(All(e), ElemsOf(All(e))) \/ Reject(All(e))
  /\ UNCHANGED <<interval, ticks, timeVars, critical, callVars>>

(* Mutant: every call takes the time stamp again.                          *)
IntervalRestarts(e) ==
  /\ Call("interval")
  /\ due' = due \cup ElemsOf(All(e))
  /\ interval' = [interval EXCEPT ![e] = TRUE]
  /\ ticks' = IF interval[e] THEN ticks ELSE [ticks EXCEPT ![e] = Ticks]
  /\ event' = TRUE /\ second' = FALSE
  /\ UNCHANGED <<counts, queueVars, critical, flashVars, callVars>>

SaveOnInterval(e) ==
  /\ Call("interval")
  /\ due' = due \cup ElemsOf(All(e))
  /\ \/ /\ interval[e]
        /\ UNCHANGED <<setVars, timeVars>>
     \/ /\ ~interval[e]
        /\ interval' = [interval EXCEPT ![e] = TRUE]
        /\ ticks' = [ticks EXCEPT ![e] = Ticks]
        /\ event' = TRUE
        /\ second' = FALSE
        /\ UNCHANGED counts
  /\ UNCHANGED <<queueVars, critical, flashVars, callVars>>

(* __NvSyncSave: queued in a critical section, written at once otherwise.  *)
WriteNow(r) == /\ critical = 0
               /\ Written \/ CopiedAndWritten(0)
               /\ due' = due \ ElemsOf(r)
               /\ UNCHANGED queueVars

SyncSave(r) == /\ Call("sync")
               /\ \/ WriteNow(r)
                  \/ critical > 0 /\ (Accept(r, ElemsOf(r)) \/ Reject(r))
               /\ UNCHANGED <<setVars, timeVars, critical, callVars>>
-----------------------------------------------------------------------------
(* Mutant: the queued requests are kept.                                   *)
NotInvalidated == queue

(* __NvAtomicSave. The queued saves are invalidated; in a critical section *)
(* a request for the whole table is queued. Having the number of an        *)
(* invalidated one, it is absorbed by the first of them.                   *)
Invalidated == [j \in DOMAIN queue |-> Void(queue[j])]

(* The loop over the table begins where the loop over the queue left the   *)
(* counter they share: at Tail, or at the first entry of an empty queue.   *)
FirstSaved == IF queue = <<>> THEN 1 ELSE tail + 1

(* Mutant: in a critical section the queued requests stay in the queue.    *)
AtomicAppends ==
  /\ Call("atomic")
  /\ due' = Elem
  /\ \/ /\ critical > 0
        /\ Enqueue(queue, CopyAll)
        /\ UNCHANGED callVars
     \/ /\ critical = 0
        /\ queue' = Invalidated
        /\ pc' = "atomic" /\ by' = "atomic" /\ op' = [Idle EXCEPT !.e = FirstSaved]
        /\ UNCHANGED tail
  /\ UNCHANGED <<setVars, timeVars, critical, flashVars>>

AtomicSave ==
  /\ Call("atomic")
  /\ due' = Elem
  /\ \/ /\ critical > 0
        /\ Enqueue(Invalidated, CopyAll)
        /\ UNCHANGED callVars
     \/ /\ critical = 0
        /\ queue' = Invalidated
        /\ pc' = "atomic" /\ by' = "atomic" /\ op' = [Idle EXCEPT !.e = FirstSaved]
        /\ UNCHANGED tail
  /\ UNCHANGED <<setVars, timeVars, critical, flashVars>>

(* The loop ends after the last entry, or when a save is not written.      *)
AtomicEnd == /\ pc' = IF by = "atomic" THEN "ready" ELSE "remove"
             /\ by' = IF by = "atomic" THEN "none" ELSE by
             /\ op' = Idle

AtomicStep ==
  /\ pc = "atomic"
  /\ \/ /\ op.e \in Entry
        /\ WriteNow(All(op.e))
        /\ op' = [op EXCEPT !.e = @ + 1]
        /\ UNCHANGED <<pc, by>>
     \/ /\ op.e \in Entry
        /\ critical > 0
        /\ Accept(All(op.e), {}) \/ Reject(All(op.e))
        /\ AtomicEnd
     \/ /\ op.e \notin Entry
        /\ AtomicEnd
        /\ UNCHANGED <<queueVars, due, flashVars>>
  /\ UNCHANGED <<setVars, timeVars, critical>>
-----------------------------------------------------------------------------
(* __NvTimerTick, one table entry a step.                                  *)

TimerTick(count) ==
  /\ Call("tick")
  /\ pc' = "tick" /\ by' = "tick"
  /\ op' = [e |-> 1, left |-> FALSE, count |-> count]
  /\ UNCHANGED <<queueVars, setVars, timeVars, critical, flashVars, due>>

TicksLeft(e) == IF op.count /\ ticks[e] # 0 THEN ticks[e] - 1 ELSE ticks[e]
NextEntry(left) == op' = [op EXCEPT !.e = @ + 1, !.left = left]

(* Nothing to save for this entry, or not yet.                             *)
TickWait ==
  /\ pc = "tick" /\ op.e \in Entry
  /\ interval[op.e] => TicksLeft(op.e) # 0
  /\ ticks' = [ticks EXCEPT ![op.e] = TicksLeft(op.e)]
  /\ NextEntry(op.left \/ interval[op.e])
  /\ UNCHANGED <<queueVars, interval, counts, timeVars, critical, flashVars, due, pc, by>>

(* The entry is written, or has to be queued.                              *)
TickSave ==
  /\ pc = "tick" /\ op.e \in Entry
  /\ interval[op.e] /\ TicksLeft(op.e) = 0
  /\ ticks' = [ticks EXCEPT ![op.e] = 0]
  /\ interval' = [interval EXCEPT ![op.e] = FALSE]
  /\ \/ /\ critical = 0
        /\ Written
        /\ due' = due \ ElemsOf(All(op.e))
        /\ NextEntry(op.left)
        /\ UNCHANGED pc
     \/ /\ \/ critical = 0 /\ Full
           \/ critical > 0 /\ UNCHANGED flashVars
        /\ pc' = "request"
        /\ UNCHANGED <<due, op>>
  /\ UNCHANGED <<queueVars, counts, timeVars, critical, by>>

(* Mutant: a rejected request is not noted again.                          *)
TickForgets ==
  /\ pc = "request"
  /\ Accept(All(op.e), {}) \/ Reject(All(op.e))
  /\ NextEntry(op.left)
  /\ pc' = "tick"
  /\ UNCHANGED <<setVars, timeVars, critical, by>>

TickRequest ==
  /\ pc = "request"
  /\ \/ Accept(All(op.e), {}) /\ UNCHANGED interval
     \/ Reject(All(op.e)) /\ interval' = [interval EXCEPT ![op.e] = TRUE]
  /\ NextEntry(op.left)
  /\ pc' = "tick"
  /\ UNCHANGED <<ticks, counts, timeVars, critical, by>>

(* NvIdle keeps the result as the event; NvTimerTick only returns it.      *)
TickEnd ==
  /\ pc = "tick" /\ op.e \notin Entry
  /\ \/ /\ by = "tick"
        /\ pc' = "ready" /\ by' = "none"
        /\ UNCHANGED event
     \/ /\ by # "tick"
        /\ event' = op.left
        /\ pc' = "drain"
        /\ UNCHANGED by
  /\ op' = Idle
  /\ UNCHANGED <<queueVars, setVars, second, critical, flashVars, due>>
-----------------------------------------------------------------------------
(* __NvIdle, called by the idle task and by                                *)
(* NvCompletePendingOperationsUnsafe. It does nothing in a critical        *)
(* section.                                                                *)

Start == /\ critical = 0
         /\ \/ pc = "ready" /\ by' = "idle"
            \/ pc = "loop" /\ UNCHANGED by

Return(caller) == IF caller = "idle" THEN pc' = "ready" /\ by' = "none"
                                     ELSE pc' = "check" /\ by' = caller

(* Mutant: the page copy made is not noted.                                *)
CopyStaysPending == /\ copyPending /\ critical = 0
                    /\ \/ pc = "ready" /\ Return("idle")
                       \/ pc = "loop" /\ Return(by)
                    /\ room' = Room /\ erase' = Sectors
                    /\ UNCHANGED <<queueVars, setVars, timeVars, critical, copyPending, due, op>>

(* A requested page copy; the erase it starts takes its first sector.      *)
IdleCopy == /\ copyPending /\ critical = 0
            /\ \/ pc = "ready" /\ Return("idle")
               \/ pc = "loop" /\ Return(by)
            /\ copyPending' = FALSE /\ room' = Room /\ erase' = Sectors
            /\ UNCHANGED <<queueVars, setVars, timeVars, critical, due, op>>

IdleErase == /\ ~copyPending /\ erase > 0 /\ critical = 0
             /\ \/ pc = "ready" /\ Return("idle")
                \/ pc = "loop" /\ Return(by)
             /\ erase' = erase - 1
             /\ UNCHANGED <<queueVars, setVars, timeVars, critical, copyPending, room, due, op>>

IdleTick == /\ Start /\ ~copyPending /\ erase = 0
            /\ event /\ second
            /\ second' = FALSE
            /\ pc' = "tick" /\ op' = [Idle EXCEPT !.count = TRUE]
            /\ UNCHANGED <<queueVars, setVars, event, critical, flashVars, due>>

IdleDrain == /\ Start /\ ~copyPending /\ erase = 0
             /\ ~(event /\ second)
             /\ pc' = "drain"
             /\ UNCHANGED <<queueVars, setVars, timeVars, critical, flashVars, due, op>>

DrainEmpty == /\ pc = "drain" /\ queue = <<>>
              /\ Return(by)
              /\ UNCHANGED <<queueVars, setVars, timeVars, critical, flashVars, due, op>>

DrainInvalid == /\ pc = "drain" /\ queue # <<>>
                /\ Head(queue).id = NoEntry /\ Head(queue) # CopyAll
                /\ queue' = Tail(queue)
                /\ UNCHANGED <<tail, setVars, timeVars, critical, flashVars, due, callVars>>

(* The record of the head is written; the head stays if a copy is needed.  *)
DrainWrite == /\ pc = "drain" /\ queue # <<>> /\ Head(queue).id \in Entry
              /\ \/ /\ Written
                    /\ queue' = Tail(queue)
                    /\ due' = due \ ElemsOf(Head(queue))
                    /\ UNCHANGED <<pc, by>>
                 \/ /\ Full
                    /\ Return(by)
                    /\ UNCHANGED <<queue, due>>
              /\ UNCHANGED <<tail, setVars, timeVars, critical, op>>

(* A save of the whole table: __NvAtomicSave, then the head is removed. If *)
(* a critical section has begun, __NvAtomicSave leaves the request there   *)
(* for later, and it is removed all the same.                              *)
DrainAll == /\ pc = "drain" /\ queue # <<>> /\ Head(queue) = CopyAll
            /\ \/ /\ critical = 0
                  /\ queue' = Invalidated
                  /\ pc' = "atomic" /\ op' = [Idle EXCEPT !.e = FirstSaved]
               \/ /\ critical > 0
                  /\ queue' = Tail(Invalidated)
                  /\ UNCHANGED <<pc, op>>
            /\ UNCHANGED <<tail, setVars, timeVars, critical, flashVars, due, by>>

DrainRemove == /\ pc = "remove"
               /\ queue' = IF queue = <<>> THEN queue ELSE Tail(queue)
               /\ pc' = "drain"
               /\ UNCHANGED <<tail, setVars, timeVars, critical, flashVars, due, by, op>>
-----------------------------------------------------------------------------
(* NvShutdown and NvRestoreDataSet: the saves on interval are made         *)
(* imminent and __NvIdle is called until nothing is pending.               *)
Waiting(e) == interval[e] /\ ticks[e] # 0

Complete(caller) ==
  /\ Call(caller)
  /\ ticks' = [e \in Entry |-> IF Waiting(e) THEN 0 ELSE ticks[e]]
  /\ event' = (event \/ \E e \in Entry : Waiting(e))
  /\ pc' = "loop" /\ by' = caller
  /\ UNCHANGED <<queueVars, interval, counts, second, critical, flashVars, due, op>>

LoopCritical == /\ pc = "loop" /\ critical > 0
                /\ pc' = "check"
                /\ UNCHANGED <<queueVars, setVars, timeVars, critical, flashVars, due, by, op>>

Pending == erase > 0 \/ copyPending \/ queue # <<>>

(* Mutant: the loop does not wait for the erase.                           *)
CheckIgnoresErase ==
  /\ pc = "check"
  /\ LET more == copyPending \/ queue # <<>>
     IN \/ more /\ pc' = "loop" /\ UNCHANGED by
        \/ ~more /\ by = "shutdown" /\ pc' = "off" /\ by' = "none"
        \/ ~more /\ by = "restore" /\ pc' = "ready" /\ by' = "none"
  /\ UNCHANGED <<queueVars, setVars, timeVars, critical, flashVars, due, op>>

LoopCheck == /\ pc = "check"
             /\ \/ Pending /\ pc' = "loop" /\ UNCHANGED by
                \/ ~Pending /\ by = "shutdown" /\ pc' = "off" /\ by' = "none"
                \/ ~Pending /\ by = "restore" /\ pc' = "ready" /\ by' = "none"
             /\ UNCHANGED <<queueVars, setVars, timeVars, critical, flashVars, due, op>>
-----------------------------------------------------------------------------
(* Critical sections and time, whatever the task that holds the mutex does.*)
SetCritical == /\ critical < MaxCritical
               /\ critical' = critical + 1
               /\ UNCHANGED <<queueVars, setVars, timeVars, flashVars, due, callVars>>

(* Mutant: a call too many takes the count below zero.                     *)
ClearUnchecked == /\ critical' = critical - 1
                  /\ UNCHANGED <<queueVars, setVars, timeVars, flashVars, due, callVars>>

ClearCritical == /\ critical > 0
                 /\ critical' = critical - 1
                 /\ UNCHANGED <<queueVars, setVars, timeVars, flashVars, due, callVars>>

Elapse == /\ event /\ ~second
          /\ second' = TRUE
          /\ UNCHANGED <<queueVars, setVars, event, critical, flashVars, due, callVars>>
-----------------------------------------------------------------------------
Requests == \/ \E r \in Req : SaveOnIdle(r) \/ SyncSave(r)
            \/ \E e \in Entry : SaveOnCount(e) \/ SaveOnInterval(e)
            \/ \E count \in BOOLEAN : TimerTick(count)
            \/ AtomicSave
            \/ \E caller \in {"shutdown", "restore"} : Complete(caller)

NvIdle == IdleCopy \/ IdleErase \/ IdleTick \/ IdleDrain

Inside == \/ AtomicStep
          \/ TickWait \/ TickSave \/ TickRequest \/ TickEnd
          \/ DrainEmpty \/ DrainInvalid \/ DrainWrite \/ DrainAll \/ DrainRemove
          \/ LoopCritical \/ LoopCheck

Next == Requests \/ NvIdle \/ Inside \/ SetCritical \/ ClearCritical \/ Elapse

Spec == Init /\ [][Next]_vars

(* A call that runs goes on; the idle task calls NvIdle again and again,   *)
(* now and then outside a critical section; sections end, seconds pass.    *)
FairSpec == /\ Spec
            /\ SF_vars(NvIdle)
            /\ WF_vars(Inside)
            /\ WF_vars(ClearCritical)
            /\ WF_vars(Elapse)
-----------------------------------------------------------------------------
(* Elements a queued request, a save on interval or a tick will save.      *)
Queued == UNION {ElemsOf(queue[j]) : j \in DOMAIN queue}
Noted == {x \in Elem : interval[x[1]]}
Moving == IF pc = "request" THEN ElemsOf(All(op.e)) ELSE {}

(* Whatever the order of the calls, of the ticks and of the critical       *)
(* sections, an element of an accepted request that is not written since   *)
(* is still queued or noted for a tick. (__NvAtomicSave breaks it.)        *)
NoRequestLost == due \subseteq Queued \cup Noted \cup Moving

(* NvShutdown returns with no pending save, copy or erase, and with no     *)
(* accepted element unwritten but those a tick has to come for.            *)
ShutdownComplete == pc = "off" => ~Pending /\ due \subseteq Noted

(* A queued save of the whole table is alone in the queue: NvIdle, which   *)
(* invalidates the queue to make it, drops no request made after it.       *)
TableSaveAlone == \A j \in DOMAIN queue : queue[j] = CopyAll => Len(queue) = 1

(* The queue holds no request that __NvAtomicSave did not invalidate while *)
(* it writes the table: NvIdle will not write older requests again.        *)
AtomicOwnsQueue == pc = "atomic" => \A j \in DOMAIN queue : queue[j].id = NoEntry

(* An element of an accepted request is written after all ...              *)
RequestsSettle == \A x \in Elem : x \in due ~> x \notin due

(* ... if saves are made on idle, on count and on interval, which share    *)
(* one time stamp and one event (__NvIdle, __NvTimerTick): critical        *)
(* sections and page copies hold them back, and nothing else does as long  *)
(* as no call saves or restores the whole table.                           *)
TableCall == pc \in {"atomic", "loop"} \/ \E j \in DOMAIN queue : queue[j].id = NoEntry
PolicySavesSettle == []~TableCall => RequestsSettle

(* NvShutdown and NvRestoreDataSet leave the loop of                       *)
(* NvCompletePendingOperationsUnsafe, unless another task enters a         *)
(* critical section: NvIdle does nothing then, and the loop goes round.    *)
LoopEnds == pc = "loop" ~> pc \in {"off", "ready"} \/ critical > 0

(* NV_Flash.c:6676, of NvShutdown: "for each dataset saveNextInterval must *)
(* have been treated by now".                                              *)
ShutdownTreatsIntervals == pc = "off" => \A e \in Entry : ~interval[e]

(* NV_Flash.c:1759, of __NvAtomicSave: "performs an atomic save of the     *)
(* entire NV table to the storage system".                                 *)
AtomicSavesTable == [][pc = "atomic" /\ pc' = "ready" /\ critical = 0 => due' = {}]_vars
=============================================================================
