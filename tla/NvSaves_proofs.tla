--------------------------- MODULE NvSaves_proofs ---------------------------
(***************************************************************************)
(* Proofs, for any table, queue size and calls, of the safety properties   *)
(* of NvSaves.                                                             *)
(***************************************************************************)
EXTENDS NvSaves, TLAPS

QueueOK(q) == q \in Seq(Slot) /\ Len(q) <= QueueSize

(* Requests of the calls other than __NvAtomicSave.                        *)
Plain(q) == \A j \in DOMAIN q : q[j].id \in Entry
-----------------------------------------------------------------------------
(* The requests and their elements.                                        *)

LEMMA Requests1 ==
  /\ Entry \subseteq Nat \ {0}
  /\ CopyAll \in Slot
  /\ Req \subseteq Slot
  /\ \A e \in Entry : All(e) \in Req
  /\ \A r \in Req : r \in [id : Entry, i : Nat \ {0}, all : BOOLEAN]
  /\ \A x \in Elem : x[1] \in Entry
<1>1. /\ ElementsCount \in [1 .. Len(ElementsCount) -> Nat \ {0}]
      /\ Len(ElementsCount) \in Nat
  BY SizesAssumption
<1>2. Entry = 1 .. Len(ElementsCount)
  BY <1>1 DEF Entry
<1>3. \A x \in Elem : x[1] \in Entry /\ x[2] \in Nat \ {0}
  BY <1>1, <1>2 DEF Elem
<1>4. ASSUME NEW r \in Req
      PROVE  r \in [id : Entry, i : Nat \ {0}, all : BOOLEAN]
  <2>1. CASE \E x \in Elem : r = One(x)
    BY <1>3, <2>1 DEF One
  <2>2. CASE \E e \in Entry : r = All(e)
    BY <2>2 DEF All
  <2> QED
    BY <2>1, <2>2 DEF Req
<1>5. \A e \in Entry : All(e) \in Req
  BY DEF Req
<1>6. CopyAll \in Slot
  BY DEF Slot
<1>7. Req \subseteq Slot
  BY <1>4 DEF Slot
<1> QED
  BY <1>1, <1>2, <1>3, <1>4, <1>5, <1>6, <1>7

LEMMA RequestElements ==
  /\ \A r \in Slot : r.id \in Entry =>
       /\ r # CopyAll
       /\ ElemsOf(r) = {x \in Elem : x[1] = r.id /\ (r.all \/ x[2] = r.i)}
  /\ \A r \in Slot : ElemsOf(r) \subseteq Elem
  /\ \A e \in Entry : ElemsOf(All(e)) = {x \in Elem : x[1] = e}
  BY Requests1 DEF ElemsOf, All, CopyAll, NoEntry

LEMMA SlotFields ==
  ASSUME NEW s \in Slot
  PROVE  Widened(s) \in Slot /\ Void(s) \in Slot
<1>1. CASE s \in [id : Entry \cup {NoEntry}, i : Nat \ {0}, all : BOOLEAN]
  BY <1>1 DEF Slot, Widened, Void
<1>2. CASE s = CopyAll
  BY <1>2 DEF Slot, Widened, Void, CopyAll
<1> QED
  BY <1>1, <1>2 DEF Slot

LEMMA TailIndex ==
  \A i \in 0 .. QueueSize - 1 : Next1(i) \in 0 .. QueueSize - 1
  BY SizesAssumption DEF Next1
-----------------------------------------------------------------------------
(* What the queue operations keep.                                         *)

LEMMA AppendSlot ==
  ASSUME NEW q \in Seq(Slot), NEW r \in Slot
  PROVE  /\ Append(q, r) \in Seq(Slot)
         /\ Len(Append(q, r)) = Len(q) + 1
         /\ \A j \in DOMAIN q : j \in DOMAIN Append(q, r) /\ Append(q, r)[j] = q[j]
         /\ Len(q) + 1 \in DOMAIN Append(q, r) /\ Append(q, r)[Len(q) + 1] = r
         /\ \A j \in DOMAIN Append(q, r) : j \in DOMAIN q \/ j = Len(q) + 1
  OBVIOUS

LEMMA TailSlot ==
  ASSUME NEW q \in Seq(Slot), q # <<>>
  PROVE  /\ Tail(q) \in Seq(Slot)
         /\ Len(Tail(q)) = Len(q) - 1
         /\ Head(q) = q[1] /\ 1 \in DOMAIN q
         /\ \A j \in DOMAIN q : j = 1 \/ (j - 1 \in DOMAIN Tail(q) /\ Tail(q)[j - 1] = q[j])
         /\ \A j \in DOMAIN Tail(q) : j + 1 \in DOMAIN q /\ Tail(q)[j] = q[j + 1]
  OBVIOUS

LEMMA UpdateSlot ==
  ASSUME NEW q \in Seq(Slot), NEW j \in DOMAIN q, NEW s \in Slot
  PROVE  /\ [q EXCEPT ![j] = s] \in Seq(Slot)
         /\ Len([q EXCEPT ![j] = s]) = Len(q)
         /\ DOMAIN [q EXCEPT ![j] = s] = DOMAIN q
         /\ \A k \in DOMAIN q : [q EXCEPT ![j] = s][k] = IF k = j THEN s ELSE q[k]
  OBVIOUS

LEMMA InvalidatedSlots ==
  ASSUME queue \in Seq(Slot)
  PROVE  /\ Invalidated \in Seq(Slot)
         /\ Len(Invalidated) = Len(queue)
         /\ DOMAIN Invalidated = DOMAIN queue
         /\ \A j \in DOMAIN queue : Invalidated[j] = Void(queue[j])
<1>1. /\ Len(queue) \in Nat /\ DOMAIN queue = 1 .. Len(queue)
      /\ \A j \in 1 .. Len(queue) : queue[j] \in Slot
  OBVIOUS
<1>2. Invalidated \in [1 .. Len(queue) -> Slot]
  BY <1>1, SlotFields DEF Invalidated
<1> QED
  BY <1>1, <1>2 DEF Invalidated

(* The three ways a request enters the queue.                              *)
LEMMA EnqueueCases ==
  ASSUME NEW q, QueueOK(q), NEW r \in Slot, Enqueue(q, r),
         tail \in 0 .. QueueSize - 1
  PROVE  /\ QueueOK(queue')
         /\ tail' \in 0 .. QueueSize - 1
         /\ \/ /\ DOMAIN queue' = DOMAIN q
               /\ \E j \in Absorbing(q, r) :
                    /\ queue'[j] = IF r.all THEN Widened(q[j]) ELSE q[j]
                    /\ \A k \in DOMAIN q \ {j} : queue'[k] = q[k]
            \/ /\ DOMAIN queue' = DOMAIN q
               /\ Absorbing(q, r) = {}
               /\ \E j \in Reusable(q) : /\ queue'[j] = r
                                         /\ \A k \in DOMAIN q \ {j} : queue'[k] = q[k]
            \/ /\ Absorbing(q, r) = {} /\ Reusable(q) = {}
               /\ queue' = Append(q, r)
<1>0. q \in Seq(Slot) /\ Len(q) <= QueueSize /\ QueueSize \in Nat
  BY SizesAssumption DEF QueueOK
<1>1. CASE /\ \E j \in First(Absorbing(q, r)) :
                queue' = IF r.all THEN [q EXCEPT ![j] = Widened(@)] ELSE q
           /\ UNCHANGED tail
  <2>1. PICK j \in Absorbing(q, r) :
          queue' = IF r.all THEN [q EXCEPT ![j] = Widened(@)] ELSE q
    BY <1>1 DEF First
  <2>2. j \in DOMAIN q /\ q[j] \in Slot
    BY <2>1, <1>0 DEF Absorbing
  <2>3. CASE r.all
    <3>1. queue' = [q EXCEPT ![j] = Widened(q[j])]
      BY <2>1, <2>2, <2>3
    <3>2. Widened(q[j]) \in Slot
      BY <2>2, SlotFields
    <3> QED
      BY <3>1, <3>2, <2>1, <2>2, <2>3, <1>0, <1>1, UpdateSlot DEF QueueOK
  <2>4. CASE ~r.all
    BY <2>1, <2>2, <2>4, <1>0, <1>1 DEF QueueOK
  <2> QED
    BY <2>3, <2>4
<1>2. CASE /\ Absorbing(q, r) = {}
           /\ \E j \in First(Reusable(q)) : queue' = [q EXCEPT ![j] = r]
           /\ UNCHANGED tail
  <2>1. PICK j \in Reusable(q) : queue' = [q EXCEPT ![j] = r]
    BY <1>2 DEF First
  <2>2. j \in DOMAIN q
    BY <2>1 DEF Reusable
  <2> QED
    BY <2>1, <2>2, <1>0, <1>2, UpdateSlot DEF QueueOK
<1>3. CASE /\ Absorbing(q, r) = {} /\ Reusable(q) = {} /\ Len(q) < QueueSize
           /\ queue' = Append(q, r)
           /\ tail' = Next1(tail)
  <2>1. Len(q) \in Nat /\ Len(q) + 1 <= QueueSize
    BY <1>0, <1>3
  <2> QED
    BY <1>3, <1>0, <2>1, AppendSlot, TailIndex DEF QueueOK
<1> QED
  BY <1>1, <1>2, <1>3 DEF Enqueue
-----------------------------------------------------------------------------
(* Types.                                                                  *)

QueuesOK == /\ QueueOK(queue)
            /\ tail \in 0 .. QueueSize - 1
            /\ due \subseteq Elem
SetsOK == /\ interval \in [Entry -> BOOLEAN]
          /\ ticks \in [Entry -> 0 .. Ticks]
          /\ counts \in [Entry -> 0 .. Counts]
TimesOK == event \in BOOLEAN /\ second \in BOOLEAN /\ critical \in 0 .. MaxCritical
FlashOK == /\ copyPending \in BOOLEAN
           /\ room \in 0 .. Room
           /\ erase \in 0 .. Sectors + 1

Local == [e : Nat, left : BOOLEAN, count : BOOLEAN]

(* A tick queues a request only for an entry of the table.                 *)
PlaceOK == /\ pc \in {"ready", "atomic", "tick", "request", "drain", "remove", "loop", "check", "off"}
           /\ by \in {"none", "idle", "tick", "atomic", "shutdown", "restore"}
           /\ op \in Local
           /\ pc = "request" => op.e \in Entry

TypeInv == QueuesOK /\ SetsOK /\ TimesOK /\ FlashOK /\ PlaceOK

LEMMA FlashTypes ==
  ASSUME FlashOK,
         Written \/ Full \/ CopiedAndWritten(0) \/ CopiedAndWritten(Sectors + 1)
  PROVE  FlashOK'
<1>1. Sectors \in Nat /\ Room \in Nat /\ Room - 1 \in 0 .. Room
  BY SizesAssumption
<1>2. CASE Written
  BY <1>1, <1>2 DEF FlashOK, Written
<1>3. CASE Full
  BY <1>3 DEF FlashOK, Full
<1>4. CASE CopiedAndWritten(0) \/ CopiedAndWritten(Sectors + 1)
  <2>1. copyPending' \in BOOLEAN
    BY <1>4 DEF CopiedAndWritten
  <2>2. room' = Room - 1 /\ (erase' = 0 \/ erase' = Sectors + 1)
    BY <1>4 DEF CopiedAndWritten
  <2>3. room' \in 0 .. Room /\ erase' \in 0 .. Sectors + 1
    BY <1>1, <2>2
  <2> QED
    BY <2>1, <2>3 DEF FlashOK
<1> QED
  BY <1>2, <1>3, <1>4

LEMMA AcceptTypes ==
  ASSUME QueuesOK, FlashOK,
         NEW r \in Slot, NEW S \in SUBSET Elem, Accept(r, S) \/ Reject(r)
  PROVE  QueuesOK' /\ FlashOK'
<1>0. QueueOK(queue) /\ FlashOK /\ tail \in 0 .. QueueSize - 1 /\ due \subseteq Elem
  BY DEF QueuesOK
<1> SUFFICES QueueOK(queue') /\ tail' \in 0 .. QueueSize - 1 /\ due' \subseteq Elem /\ FlashOK'
  BY DEF QueuesOK, QueueOK
<1>1. CASE Enqueue(queue, r) /\ due' = due \cup S /\ UNCHANGED flashVars
  <2>1. FlashOK'
    BY <1>0, <1>1 DEF FlashOK, flashVars
  <2> QED
    BY <1>0, <1>1, <2>1, EnqueueCases
<1>2. CASE MakeRoom(r) /\ due' = (due \cup S) \ ElemsOf(Head(queue))
  <2>1. queue \in Seq(Slot) /\ Len(queue) = QueueSize /\ QueueSize \in Nat \ {0}
    BY <1>0, <1>2, SizesAssumption DEF QueueOK, MakeRoom, QueueFull
  <2>2. queue # <<>>
    BY <2>1
  <2>3. QueueOK(queue') /\ tail' \in 0 .. QueueSize - 1
    BY <1>0, <1>2, <2>1, <2>2, TailSlot, AppendSlot, TailIndex DEF MakeRoom, QueueOK
  <2>4. FlashOK'
    BY <1>0, <1>2, FlashTypes DEF MakeRoom
  <2> QED
    BY <1>0, <1>2, <2>3, <2>4
<1>3. CASE Reject(r)
  BY <1>0, <1>3 DEF Reject, queueVars, flashVars, FlashOK
<1> QED
  BY <1>1, <1>2, <1>3 DEF Accept

LEMMA LocalFields ==
  ASSUME NEW o \in Local, NEW l \in BOOLEAN
  PROVE  /\ [o EXCEPT !.e = @ + 1] \in Local
         /\ [o EXCEPT !.e = @ + 1, !.left = l] \in Local
<1>1. o.e + 1 \in Nat
  BY DEF Local
<1>2. [o EXCEPT !.e = @ + 1] \in Local
  BY <1>1 DEF Local
<1>3. [o EXCEPT !.e = @ + 1, !.left = l] \in Local
  BY <1>1 DEF Local
<1> QED
  BY <1>2, <1>3

LEMMA FirstLocals ==
  /\ Idle \in Local
  /\ [Idle EXCEPT !.count = TRUE] \in Local
  /\ \A n \in Nat : [Idle EXCEPT !.e = n] \in Local
<1>1. Idle \in Local
  BY DEF Idle, Local
<1> QED
  BY <1>1 DEF Local

(* Groups of variables an action leaves alone.                             *)
LEMMA Frames ==
  /\ QueuesOK /\ UNCHANGED <<queueVars, due>> => QueuesOK'
  /\ SetsOK /\ UNCHANGED setVars => SetsOK'
  /\ TimesOK /\ UNCHANGED <<timeVars, critical>> => TimesOK'
  /\ FlashOK /\ UNCHANGED flashVars => FlashOK'
  /\ PlaceOK /\ UNCHANGED callVars => PlaceOK'
  BY DEF QueuesOK, QueueOK, SetsOK, TimesOK, FlashOK, PlaceOK,
         queueVars, setVars, timeVars, flashVars, callVars

LEMMA WriteTypes ==
  ASSUME QueuesOK, FlashOK, NEW r \in Slot, WriteNow(r)
  PROVE  QueuesOK' /\ FlashOK'
<1>1. FlashOK'
  BY FlashTypes DEF WriteNow
<1> QED
  BY <1>1 DEF WriteNow, QueuesOK, QueueOK, queueVars

LEMMA InvalidatedTypes ==
  ASSUME QueuesOK
  PROVE  /\ QueueOK(Invalidated)
         /\ Invalidated # <<>> => QueueOK(Tail(Invalidated))
<1>1. QueueOK(Invalidated) /\ Len(Invalidated) \in Nat
  BY InvalidatedSlots DEF QueuesOK, QueueOK
<1>2. ASSUME Invalidated # <<>>
      PROVE  QueueOK(Tail(Invalidated))
  <2>1. /\ Tail(Invalidated) \in Seq(Slot)
        /\ Len(Tail(Invalidated)) = Len(Invalidated) - 1
    BY <1>1, <1>2, TailSlot DEF QueueOK
  <2> QED
    BY <1>1, <2>1, SizesAssumption DEF QueueOK
<1> QED
  BY <1>1, <1>2

LEMMA TailTypes ==
  ASSUME QueuesOK, queue # <<>>
  PROVE  QueueOK(Tail(queue))
<1>1. queue \in Seq(Slot) /\ Len(queue) <= QueueSize /\ Len(queue) \in Nat /\ QueueSize \in Nat
  BY SizesAssumption DEF QueuesOK, QueueOK
<1> QED
  BY <1>1, TailSlot DEF QueueOK

LEMMA RequestTypes ==
  ASSUME TypeInv,
         \/ \E r \in Req : SaveOnIdle(r) \/ SyncSave(r)
         \/ \E e \in Entry : SaveOnCount(e) \/ SaveOnInterval(e)
         \/ \E count \in BOOLEAN : TimerTick(count)
         \/ AtomicSave
         \/ \E caller \in {"shutdown", "restore"} : Complete(caller)
  PROVE  TypeInv'
<1> USE DEF TypeInv
<1>1. ASSUME NEW r \in Req, SaveOnIdle(r)
      PROVE  TypeInv'
  <2>1. QueuesOK' /\ FlashOK'
    BY <1>1, AcceptTypes, Requests1, RequestElements DEF SaveOnIdle
  <2> QED
    BY <1>1, <2>1, Frames DEF SaveOnIdle
<1>2. ASSUME NEW r \in Req, SyncSave(r)
      PROVE  TypeInv'
  <2>1. QueuesOK' /\ FlashOK'
    BY <1>2, AcceptTypes, WriteTypes, Requests1, RequestElements DEF SyncSave
  <2> QED
    BY <1>2, <2>1, Frames DEF SyncSave
<1>3. ASSUME NEW e \in Entry, SaveOnCount(e)
      PROVE  TypeInv'
  <2>1. CASE counts[e] # 0 /\ counts' = [counts EXCEPT ![e] = @ - 1]
             /\ UNCHANGED <<queueVars, due, flashVars>>
    <3>1. SetsOK'
      BY <1>3, <2>1, SizesAssumption DEF SaveOnCount, SetsOK
    <3> QED
      BY <1>3, <2>1, <3>1, Frames DEF SaveOnCount
  <2>2. CASE counts' = [counts EXCEPT ![e] = Counts] /\ (Accept(All(e), ElemsOf(All(e))) \/ Reject(All(e)))
    <3>1. SetsOK'
      BY <1>3, <2>2, SizesAssumption DEF SaveOnCount, SetsOK
    <3>2. QueuesOK' /\ FlashOK'
      BY <2>2, AcceptTypes, Requests1, RequestElements
    <3> QED
      BY <1>3, <3>1, <3>2, Frames DEF SaveOnCount
  <2> QED
    BY <1>3, <2>1, <2>2 DEF SaveOnCount
<1>4. ASSUME NEW e \in Entry, SaveOnInterval(e)
      PROVE  TypeInv'
  <2>1. QueuesOK'
    BY <1>4, Requests1, RequestElements DEF SaveOnInterval, QueuesOK, QueueOK, queueVars
  <2>2. CASE UNCHANGED <<setVars, timeVars>>
    BY <1>4, <2>1, <2>2, Frames DEF SaveOnInterval
  <2>3. CASE /\ interval' = [interval EXCEPT ![e] = TRUE]
             /\ ticks' = [ticks EXCEPT ![e] = Ticks]
             /\ event' = TRUE /\ second' = FALSE
             /\ UNCHANGED counts
    <3>1. SetsOK'
      BY <2>3, SizesAssumption DEF SetsOK
    <3>2. event' \in BOOLEAN /\ second' \in BOOLEAN
      BY <2>3
    <3>3. TimesOK'
      BY <1>4, <3>2 DEF SaveOnInterval, TimesOK
    <3> QED
      BY <1>4, <2>1, <3>1, <3>3, Frames DEF SaveOnInterval
  <2> QED
    BY <1>4, <2>2, <2>3 DEF SaveOnInterval
<1>5. ASSUME NEW count \in BOOLEAN, TimerTick(count)
      PROVE  TypeInv'
  <2>1. op' \in Local /\ pc' = "tick" /\ by' = "tick"
    BY <1>5 DEF TimerTick, Local
  <2>2. PlaceOK'
    BY <2>1 DEF PlaceOK
  <2> QED
    BY <1>5, <2>2, Frames DEF TimerTick
<1>6. ASSUME AtomicSave
      PROVE  TypeInv'
  <2>1. CASE critical > 0 /\ Enqueue(Invalidated, CopyAll) /\ UNCHANGED callVars
    <3>1. QueueOK(queue') /\ tail' \in 0 .. QueueSize - 1
      BY <2>1, EnqueueCases, InvalidatedTypes, Requests1 DEF QueuesOK
    <3>2. QueuesOK'
      BY <1>6, <3>1 DEF AtomicSave, QueuesOK, QueueOK
    <3> QED
      BY <1>6, <2>1, <3>2, Frames DEF AtomicSave
  <2>2. CASE /\ queue' = Invalidated
             /\ pc' = "atomic" /\ by' = "atomic" /\ op' = [Idle EXCEPT !.e = FirstSaved]
             /\ UNCHANGED tail
    <3>1. QueuesOK'
      BY <1>6, <2>2, InvalidatedTypes DEF AtomicSave, QueuesOK, QueueOK
    <3>2. FirstSaved \in Nat
      BY SizesAssumption DEF FirstSaved, QueuesOK
    <3>3. PlaceOK'
      BY <2>2, <3>2, FirstLocals DEF PlaceOK
    <3> QED
      BY <1>6, <3>1, <3>3, Frames DEF AtomicSave
  <2> QED
    BY <1>6, <2>1, <2>2 DEF AtomicSave
<1>7. ASSUME NEW caller \in {"shutdown", "restore"}, Complete(caller)
      PROVE  TypeInv'
  <2>1. SetsOK' /\ TimesOK' /\ PlaceOK'
    BY <1>7, SizesAssumption DEF Complete, SetsOK, TimesOK, PlaceOK
  <2> QED
    BY <1>7, <2>1, Frames DEF Complete
<1> QED
  BY <1>1, <1>2, <1>3, <1>4, <1>5, <1>6, <1>7

LEMMA IdleTypes ==
  ASSUME TypeInv, NvIdle
  PROVE  TypeInv'
<1> USE DEF TypeInv
<1>1. CASE IdleCopy \/ IdleErase
  <2>0. room' \in 0 .. Room
    BY <1>1, SizesAssumption DEF IdleCopy, IdleErase, FlashOK
  <2>1. copyPending' \in BOOLEAN
    BY <1>1 DEF IdleCopy, IdleErase, FlashOK
  <2>2. erase' \in 0 .. Sectors + 1
    BY <1>1, SizesAssumption DEF IdleCopy, IdleErase, FlashOK
  <2>3. FlashOK'
    BY <2>0, <2>1, <2>2 DEF FlashOK
  <2>4. PlaceOK'
    BY <1>1 DEF IdleCopy, IdleErase, Return, PlaceOK
  <2> QED
    BY <1>1, <2>3, <2>4, Frames DEF IdleCopy, IdleErase
<1>2. CASE IdleTick
  <2>1. second' \in BOOLEAN
    BY <1>2 DEF IdleTick
  <2>2. TimesOK'
    BY <1>2, <2>1 DEF IdleTick, TimesOK
  <2>3. PlaceOK'
    BY <1>2, FirstLocals DEF IdleTick, Start, PlaceOK
  <2> QED
    BY <1>2, <2>2, <2>3, Frames DEF IdleTick
<1>3. CASE IdleDrain
  <2>1. PlaceOK'
    BY <1>3 DEF IdleDrain, Start, PlaceOK
  <2> QED
    BY <1>3, <2>1, Frames DEF IdleDrain
<1> QED
  BY <1>1, <1>2, <1>3 DEF NvIdle

LEMMA AtomicTypes ==
  ASSUME TypeInv, AtomicStep
  PROVE  TypeInv'
<1> USE DEF TypeInv
<1>1. AtomicEnd => PlaceOK'
  BY FirstLocals DEF AtomicEnd, PlaceOK
<1>2. CASE op.e \in Entry /\ WriteNow(All(op.e)) /\ op' = [op EXCEPT !.e = @ + 1] /\ UNCHANGED <<pc, by>>
  <2>1. QueuesOK' /\ FlashOK'
    BY <1>2, WriteTypes, Requests1
  <2>2. op' \in Local
    BY <1>2, LocalFields DEF PlaceOK
  <2>3. PlaceOK'
    BY <1>2, <2>2 DEF AtomicStep, PlaceOK
  <2> QED
    BY <2>1, <2>3, Frames DEF AtomicStep
<1>3. CASE op.e \in Entry /\ (Accept(All(op.e), {}) \/ Reject(All(op.e))) /\ AtomicEnd
  <2>1. All(op.e) \in Slot /\ {} \in SUBSET Elem
    BY <1>3, Requests1
  <2>2. QueuesOK' /\ FlashOK'
    BY <1>3, <2>1, AcceptTypes
  <2> QED
    BY <1>1, <1>3, <2>2, Frames DEF AtomicStep
<1>4. CASE AtomicEnd /\ UNCHANGED <<queueVars, due, flashVars>>
  BY <1>1, <1>4, Frames DEF AtomicStep
<1> QED
  BY <1>2, <1>3, <1>4 DEF AtomicStep

LEMMA TickTypes ==
  ASSUME TypeInv, TickWait \/ TickSave \/ TickRequest \/ TickEnd
  PROVE  TypeInv'
<1> USE DEF TypeInv
<1>1. CASE TickWait
  <2>1. TicksLeft(op.e) \in 0 .. Ticks
    BY <1>1, SizesAssumption DEF TickWait, TicksLeft, SetsOK
  <2>2. SetsOK'
    BY <1>1, <2>1 DEF TickWait, SetsOK
  <2>3. (op.left \/ interval[op.e]) \in BOOLEAN
    OBVIOUS
  <2>4. op' \in Local
    BY <1>1, <2>3, LocalFields DEF TickWait, NextEntry, PlaceOK
  <2>5. PlaceOK'
    BY <1>1, <2>4 DEF TickWait, PlaceOK
  <2> QED
    BY <1>1, <2>2, <2>5, Frames DEF TickWait
<1>2. CASE TickSave
  <2>1. SetsOK'
    BY <1>2, SizesAssumption DEF TickSave, SetsOK
  <2>2. QueuesOK'
    BY <1>2 DEF TickSave, QueuesOK, QueueOK, queueVars
  <2>3. FlashOK'
    BY <1>2, FlashTypes, Frames DEF TickSave
  <2>0. op \in Local /\ op.left \in BOOLEAN
    BY DEF PlaceOK, Local
  <2>4. op' \in Local
    BY <1>2, <2>0, LocalFields, ZenonT(60) DEF TickSave, NextEntry
  <2>5. PlaceOK'
    BY <1>2, <2>4 DEF TickSave, PlaceOK
  <2> QED
    BY <1>2, <2>1, <2>2, <2>3, <2>5, Frames DEF TickSave
<1>3. CASE TickRequest
  <2>1. All(op.e) \in Slot /\ {} \in SUBSET Elem
    BY <1>3, Requests1 DEF TickRequest, PlaceOK
  <2>2. QueuesOK' /\ FlashOK'
    BY <1>3, <2>1, AcceptTypes DEF TickRequest
  <2>3. SetsOK'
    BY <1>3 DEF TickRequest, SetsOK
  <2>4. op' \in Local
    BY <1>3, LocalFields DEF TickRequest, NextEntry, PlaceOK, Local
  <2>5. PlaceOK'
    BY <1>3, <2>4 DEF TickRequest, PlaceOK
  <2> QED
    BY <1>3, <2>2, <2>3, <2>5, Frames DEF TickRequest
<1>4. CASE TickEnd
  <2>1. op.left \in BOOLEAN
    BY DEF PlaceOK, Local
  <2>2. event' \in BOOLEAN
    BY <1>4, <2>1 DEF TickEnd, TimesOK
  <2>3. TimesOK'
    BY <1>4, <2>2 DEF TickEnd, TimesOK
  <2>4. PlaceOK'
    BY <1>4, FirstLocals DEF TickEnd, PlaceOK
  <2> QED
    BY <1>4, <2>3, <2>4, Frames DEF TickEnd
<1> QED
  BY <1>1, <1>2, <1>3, <1>4

LEMMA DrainTypes ==
  ASSUME TypeInv, DrainEmpty \/ DrainInvalid \/ DrainWrite \/ DrainAll \/ DrainRemove
  PROVE  TypeInv'
<1> USE DEF TypeInv
<1>1. CASE DrainEmpty
  <2>1. PlaceOK'
    BY <1>1 DEF DrainEmpty, Return, PlaceOK
  <2> QED
    BY <1>1, <2>1, Frames DEF DrainEmpty
<1>2. CASE DrainInvalid
  <2>1. QueuesOK'
    BY <1>2, TailTypes DEF DrainInvalid, QueuesOK, QueueOK
  <2> QED
    BY <1>2, <2>1, Frames DEF DrainInvalid
<1>3. CASE DrainWrite
  <2>1. QueueOK(queue')
    BY <1>3, TailTypes DEF DrainWrite, QueuesOK, QueueOK
  <2>2. QueuesOK'
    BY <1>3, <2>1 DEF DrainWrite, QueuesOK, QueueOK
  <2>3. FlashOK'
    BY <1>3, FlashTypes DEF DrainWrite
  <2>4. PlaceOK'
    BY <1>3 DEF DrainWrite, Return, PlaceOK
  <2> QED
    BY <1>3, <2>2, <2>3, <2>4, Frames DEF DrainWrite
<1>4. CASE DrainAll
  <2>1. Invalidated # <<>>
    BY <1>4, InvalidatedSlots DEF DrainAll, QueuesOK, QueueOK
  <2>2. QueueOK(queue')
    BY <1>4, <2>1, InvalidatedTypes DEF DrainAll
  <2>3. QueuesOK'
    BY <1>4, <2>2 DEF DrainAll, QueuesOK, QueueOK
  <2>4. FirstSaved \in Nat
    BY SizesAssumption DEF FirstSaved, QueuesOK
  <2>5. PlaceOK'
    BY <1>4, <2>4, FirstLocals DEF DrainAll, PlaceOK
  <2> QED
    BY <1>4, <2>3, <2>5, Frames DEF DrainAll
<1>5. CASE DrainRemove
  <2>1. QueueOK(queue')
    BY <1>5, TailTypes DEF DrainRemove, QueuesOK
  <2>2. QueuesOK'
    BY <1>5, <2>1 DEF DrainRemove, QueuesOK, QueueOK
  <2>3. PlaceOK'
    BY <1>5 DEF DrainRemove, PlaceOK
  <2> QED
    BY <1>5, <2>2, <2>3, Frames DEF DrainRemove
<1> QED
  BY <1>1, <1>2, <1>3, <1>4, <1>5

LEMMA LoopTypes ==
  ASSUME TypeInv, LoopCritical \/ LoopCheck
  PROVE  TypeInv'
<1>1. PlaceOK'
  BY DEF TypeInv, LoopCritical, LoopCheck, PlaceOK
<1> QED
  BY <1>1, Frames DEF TypeInv, LoopCritical, LoopCheck

LEMMA SectionTypes ==
  ASSUME TypeInv, SetCritical \/ ClearCritical \/ Elapse
  PROVE  TypeInv'
<1>1. second' \in BOOLEAN
  BY DEF TypeInv, TimesOK, SetCritical, ClearCritical, Elapse, timeVars
<1>2. critical' \in 0 .. MaxCritical
  BY SizesAssumption DEF TypeInv, TimesOK, SetCritical, ClearCritical, Elapse
<1>3. event' = event
  BY DEF SetCritical, ClearCritical, Elapse, timeVars
<1>4. TimesOK'
  BY <1>1, <1>2, <1>3 DEF TypeInv, TimesOK
<1> QED
  BY <1>4, Frames DEF TypeInv, SetCritical, ClearCritical, Elapse

LEMMA TypeInit == Init => TypeInv
<1> SUFFICES ASSUME Init PROVE TypeInv
  OBVIOUS
<1>1. QueuesOK /\ SetsOK
  BY SizesAssumption DEF Init, QueuesOK, QueueOK, SetsOK
<1>2. event \in BOOLEAN /\ second \in BOOLEAN /\ copyPending \in BOOLEAN
  BY DEF Init
<1>3. TimesOK /\ FlashOK
  BY <1>2, SizesAssumption DEF Init, TimesOK, FlashOK
<1>4. PlaceOK
  BY FirstLocals DEF Init, PlaceOK
<1> QED
  BY <1>1, <1>3, <1>4 DEF TypeInv

LEMMA TypeStep == TypeInv /\ [Next]_vars => TypeInv'
<1> SUFFICES ASSUME TypeInv, [Next]_vars PROVE TypeInv'
  OBVIOUS
<1>1. CASE Requests
  BY <1>1, RequestTypes DEF Requests
<1>2. CASE Inside
  BY <1>2, AtomicTypes, TickTypes, DrainTypes, LoopTypes DEF Inside
<1>3. CASE UNCHANGED vars
  BY <1>3, Frames DEF vars, TypeInv
<1> QED
  BY <1>1, <1>2, <1>3, IdleTypes, SectionTypes DEF Next

(* TypeOK: the queue stays within its slots, the counts and the ticks of a *)
(* data set within their settings, the critical section count is never     *)
(* negative and the local variables of a call are of their types.          *)
THEOREM TypeCorrect == Spec => []TypeOK
<1>1. TypeInv => TypeOK
  BY DEF TypeInv, QueuesOK, QueueOK, SetsOK, TimesOK, FlashOK, PlaceOK, Local, TypeOK
<1> QED
  BY <1>1, TypeInit, TypeStep, PTL DEF Spec
-----------------------------------------------------------------------------
(* No request is lost.                                                     *)

InQueue(q) == UNION {ElemsOf(q[j]) : j \in DOMAIN q}

(* What a request joining the queue adds and keeps.                        *)
LEMMA AbsorbedElements ==
  ASSUME NEW s \in Slot, NEW r \in Slot, s.id \in Entry, s.id = r.id
  PROVE  /\ ElemsOf(s) \subseteq ElemsOf(Widened(s))
         /\ r.all => ElemsOf(r) \subseteq ElemsOf(Widened(s))
         /\ s.all \/ (~r.all /\ s.i = r.i) => ElemsOf(r) \subseteq ElemsOf(s)
         /\ Widened(s).id \in Entry
<1>1. Widened(s) \in Slot /\ Widened(s).id = s.id /\ Widened(s).all
  BY SlotFields DEF Widened
<1>2. ElemsOf(Widened(s)) = {x \in Elem : x[1] = s.id}
  BY <1>1, RequestElements
<1> QED
  BY <1>1, <1>2, RequestElements

LEMMA EnqueueKeeps ==
  ASSUME NEW q, QueueOK(q), Plain(q), NEW r \in Slot, r.id \in Entry, Enqueue(q, r),
         tail \in 0 .. QueueSize - 1
  PROVE  /\ Plain(queue')
         /\ InQueue(q) \subseteq InQueue(queue')
         /\ ElemsOf(r) \subseteq InQueue(queue')
<1>0. q \in Seq(Slot) /\ \A j \in DOMAIN q : q[j] \in Slot /\ q[j].id \in Entry
  BY DEF QueueOK, Plain
<1>1. CASE /\ DOMAIN queue' = DOMAIN q
           /\ \E j \in Absorbing(q, r) :
                /\ queue'[j] = IF r.all THEN Widened(q[j]) ELSE q[j]
                /\ \A k \in DOMAIN q \ {j} : queue'[k] = q[k]
  <2>1. PICK j \in Absorbing(q, r) :
          /\ queue'[j] = IF r.all THEN Widened(q[j]) ELSE q[j]
          /\ \A k \in DOMAIN q \ {j} : queue'[k] = q[k]
    BY <1>1
  <2>2. j \in DOMAIN q /\ q[j] \in Slot /\ q[j].id = r.id /\ (q[j].all \/ r.all \/ q[j].i = r.i)
    BY <1>0, <2>1 DEF Absorbing
  <2>3. ElemsOf(q[j]) \subseteq ElemsOf(queue'[j]) /\ ElemsOf(r) \subseteq ElemsOf(queue'[j])
    BY <2>1, <2>2, AbsorbedElements
  <2>4. queue'[j].id \in Entry
    BY <2>1, <2>2, AbsorbedElements
  <2> QED
    BY <1>0, <1>1, <2>1, <2>2, <2>3, <2>4 DEF Plain, InQueue
<1>2. CASE /\ DOMAIN queue' = DOMAIN q
           /\ \E j \in Reusable(q) : queue'[j] = r
  <2>1. Reusable(q) = {}
    BY <1>0, Requests1 DEF Reusable, NoEntry
  <2> QED
    BY <1>2, <2>1
<1>3. CASE queue' = Append(q, r)
  <2>1. /\ \A j \in DOMAIN q : j \in DOMAIN queue' /\ queue'[j] = q[j]
        /\ Len(q) + 1 \in DOMAIN queue' /\ queue'[Len(q) + 1] = r
        /\ \A j \in DOMAIN queue' : j \in DOMAIN q \/ j = Len(q) + 1
    BY <1>0, <1>3, AppendSlot
  <2> QED
    BY <1>0, <2>1 DEF Plain, InQueue
<1> QED
  BY <1>1, <1>2, <1>3, EnqueueCases

LEMMA TailKeeps ==
  ASSUME NEW q \in Seq(Slot), q # <<>>, Plain(q)
  PROVE  /\ Plain(Tail(q)) /\ Head(q).id \in Entry
         /\ InQueue(q) \subseteq ElemsOf(Head(q)) \cup InQueue(Tail(q))
  BY TailSlot DEF Plain, InQueue

(* Every element of an accepted request that was queued is written or      *)
(* queued, and the accepted ones are.                                      *)
LEMMA AcceptKeeps ==
  ASSUME QueuesOK, Plain(queue), NEW r \in Slot, r.id \in Entry,
         NEW S \in SUBSET ElemsOf(r), Accept(r, S)
  PROVE  /\ Plain(queue')
         /\ \A x \in due' : x \in InQueue(queue') \/ (x \in due /\ x \notin InQueue(queue))
         /\ ElemsOf(r) \subseteq InQueue(queue')
<1>0. QueueOK(queue) /\ tail \in 0 .. QueueSize - 1
  BY DEF QueuesOK
<1>1. CASE Enqueue(queue, r) /\ due' = due \cup S
  BY <1>0, <1>1, EnqueueKeeps
<1>2. CASE MakeRoom(r) /\ due' = (due \cup S) \ ElemsOf(Head(queue))
  <2>1. queue \in Seq(Slot) /\ queue # <<>>
    BY <1>0, <1>2, SizesAssumption DEF QueueOK, MakeRoom, QueueFull
  <2>2. Tail(queue) \in Seq(Slot) /\ queue' = Append(Tail(queue), r)
    BY <1>2, <2>1, TailSlot DEF MakeRoom
  <2>3. /\ \A j \in DOMAIN Tail(queue) : j \in DOMAIN queue' /\ queue'[j] = Tail(queue)[j]
        /\ Len(Tail(queue)) + 1 \in DOMAIN queue' /\ queue'[Len(Tail(queue)) + 1] = r
        /\ \A j \in DOMAIN queue' : j \in DOMAIN Tail(queue) \/ j = Len(Tail(queue)) + 1
    BY <2>2, AppendSlot
  <2>4. InQueue(Tail(queue)) \subseteq InQueue(queue') /\ ElemsOf(r) \subseteq InQueue(queue')
    BY <2>3 DEF InQueue
  <2>5. Plain(queue')
    BY <2>1, <2>3, TailKeeps DEF Plain
  <2> QED
    BY <1>2, <2>1, <2>4, <2>5, TailKeeps
<1> QED
  BY <1>1, <1>2 DEF Accept

(* An accepted element is still queued, noted for a tick or on its way.     *)
Kept(x) == \/ x \in InQueue(queue)
           \/ x \in Elem /\ interval[x[1]]
           \/ pc = "request" /\ x \in ElemsOf(All(op.e))

(* Without __NvAtomicSave every queued request names its data set, and no  *)
(* table save ever runs.                                                   *)
KeptInv == /\ TypeInv
           /\ Plain(queue)
           /\ pc \notin {"atomic", "remove"}
           /\ \A x \in due : Kept(x)

(* Steps that change neither the queue nor the data sets.                  *)
LEMMA KeptFrame ==
  ASSUME KeptInv, queue' = queue, due' \subseteq due, interval' = interval,
         pc # "request", pc' \notin {"atomic", "remove"}, TypeInv'
  PROVE  KeptInv'
  BY DEF KeptInv, Kept, Plain, InQueue, ElemsOf, All, CopyAll

LEMMA KeptAccept ==
  ASSUME KeptInv, TypeInv', NEW r \in Slot, r.id \in Entry,
         Accept(r, ElemsOf(r)) \/ Reject(r),
         interval' = interval, UNCHANGED callVars
  PROVE  KeptInv'
<1>1. CASE Accept(r, ElemsOf(r))
  <2>1. Plain(queue') /\ \A x \in due' : x \in InQueue(queue') \/ (x \in due /\ x \notin InQueue(queue))
    BY <1>1, AcceptKeeps DEF KeptInv, TypeInv
  <2>2. \A x \in due' : Kept(x)'
    BY <2>1 DEF KeptInv, Kept, InQueue, callVars
  <2> QED
    BY <2>1, <2>2 DEF KeptInv, Plain, callVars
<1>2. CASE Reject(r)
  BY <1>2 DEF Reject, KeptInv, Kept, Plain, InQueue, queueVars, callVars
<1> QED
  BY <1>1, <1>2

LEMMA KeptRequests ==
  ASSUME KeptInv, TypeInv', "atomic" \notin Calls, Requests
  PROVE  KeptInv'
<1>0. TypeInv /\ \A r \in Req : r \in Slot /\ r.id \in Entry
  BY Requests1 DEF KeptInv
<1>1. ASSUME NEW r \in Req, SaveOnIdle(r)
      PROVE  KeptInv'
  BY <1>0, <1>1, KeptAccept DEF SaveOnIdle, setVars
<1>2. ASSUME NEW r \in Req, SyncSave(r)
      PROVE  KeptInv'
  <2>1. CASE WriteNow(r)
    BY <1>2, <2>1, KeptFrame DEF SyncSave, Call, WriteNow, queueVars, setVars, callVars
  <2>2. CASE Accept(r, ElemsOf(r)) \/ Reject(r)
    BY <1>0, <1>2, <2>2, KeptAccept DEF SyncSave, setVars
  <2> QED
    BY <1>2, <2>1, <2>2 DEF SyncSave
<1>3. ASSUME NEW e \in Entry, SaveOnCount(e)
      PROVE  KeptInv'
  <2>1. CASE UNCHANGED <<queueVars, due, flashVars>>
    BY <1>3, <2>1, KeptFrame DEF SaveOnCount, Call, queueVars, callVars
  <2>2. CASE Accept(All(e), ElemsOf(All(e))) \/ Reject(All(e))
    BY <1>0, <1>3, <2>2, KeptAccept, Requests1 DEF SaveOnCount
  <2> QED
    BY <1>3, <2>1, <2>2 DEF SaveOnCount
<1>4. ASSUME NEW e \in Entry, SaveOnInterval(e)
      PROVE  KeptInv'
  <2>1. \A x \in due' : x \in due \/ (x \in Elem /\ x[1] = e)
    BY <1>4, RequestElements DEF SaveOnInterval
  <2>2. interval'[e] /\ \A f \in Entry : interval[f] => interval'[f]
    BY <1>0, <1>4 DEF SaveOnInterval, setVars, TypeInv, SetsOK
  <2>3. pc = "ready" /\ UNCHANGED <<queueVars, callVars>>
    BY <1>4 DEF SaveOnInterval, Call
  <2>4. \A x \in due' : Kept(x)'
    BY <2>1, <2>2, <2>3, Requests1 DEF KeptInv, Kept, InQueue, queueVars, callVars
  <2> QED
    BY <2>3, <2>4 DEF KeptInv, Plain, queueVars, callVars
<1>5. ASSUME NEW count \in BOOLEAN, TimerTick(count)
      PROVE  KeptInv'
  BY <1>5, KeptFrame DEF TimerTick, Call, queueVars, setVars
<1>6. ~AtomicSave
  BY DEF AtomicSave, Call
<1>7. ASSUME NEW caller \in {"shutdown", "restore"}, Complete(caller)
      PROVE  KeptInv'
  BY <1>7, KeptFrame DEF Complete, Call, queueVars
<1> QED
  BY <1>1, <1>2, <1>3, <1>4, <1>5, <1>6, <1>7 DEF Requests

LEMMA KeptIdle ==
  ASSUME KeptInv, TypeInv', NvIdle
  PROVE  KeptInv'
  BY KeptFrame DEF NvIdle, IdleCopy, IdleErase, IdleTick, IdleDrain, Start, Return, queueVars, setVars

LEMMA KeptTick ==
  ASSUME KeptInv, TypeInv', TickWait \/ TickSave \/ TickRequest \/ TickEnd
  PROVE  KeptInv'
<1>0. TypeInv
  BY DEF KeptInv
<1>1. CASE TickWait \/ TickEnd
  BY <1>1, KeptFrame DEF TickWait, TickEnd, queueVars, setVars
<1>2. CASE TickSave
  <2>1. op.e \in Entry /\ ElemsOf(All(op.e)) = {x \in Elem : x[1] = op.e}
    BY <1>2, RequestElements DEF TickSave
  <2>2. \A f \in Entry : f # op.e => interval'[f] = interval[f]
    BY <1>0, <1>2 DEF TickSave, TypeInv, SetsOK
  <2>3. queue' = queue /\ pc = "tick" /\ pc' \in {"tick", "request"}
    BY <1>2 DEF TickSave, queueVars
  <2>4. \/ due' = due \ ElemsOf(All(op.e))
        \/ pc' = "request" /\ due' = due /\ op' = op
    BY <1>2 DEF TickSave
  <2>5. ASSUME NEW x \in due'
        PROVE  Kept(x)'
    <3>1. x \in due /\ Kept(x)
      BY <2>4 DEF KeptInv
    <3>2. CASE x \in InQueue(queue)
      BY <2>3, <3>2 DEF Kept
    <3>3. CASE x \in Elem /\ x[1] # op.e /\ interval[x[1]]
      BY <2>2, <3>3, Requests1 DEF Kept
    <3>4. CASE x \in Elem /\ x[1] = op.e
      <4>1. pc' = "request" /\ op' = op /\ x \in ElemsOf(All(op.e))
        BY <2>1, <2>4, <3>4
      <4> QED
        BY <4>1 DEF Kept
    <3> QED
      BY <2>3, <3>1, <3>2, <3>3, <3>4 DEF Kept
  <2> QED
    BY <2>3, <2>5 DEF KeptInv, Plain
<1>3. CASE TickRequest
  <2>1. op.e \in Entry /\ ElemsOf(All(op.e)) = {x \in Elem : x[1] = op.e}
    BY <1>0, <1>3, RequestElements DEF TickRequest, TypeInv, PlaceOK
  <2>2. All(op.e) \in Slot /\ All(op.e).id \in Entry /\ {} \in SUBSET ElemsOf(All(op.e))
    BY <2>1, Requests1
  <2>3. pc = "request" /\ pc' = "tick"
    BY <1>3 DEF TickRequest
  <2>4. CASE Accept(All(op.e), {}) /\ interval' = interval
    <3>1. /\ Plain(queue')
          /\ \A x \in due' : x \in InQueue(queue') \/ (x \in due /\ x \notin InQueue(queue))
          /\ ElemsOf(All(op.e)) \subseteq InQueue(queue')
      BY <1>0, <2>2, <2>4, AcceptKeeps DEF KeptInv, TypeInv
    <3>2. \A x \in due' : Kept(x)'
      BY <2>3, <2>4, <3>1 DEF KeptInv, Kept, InQueue
    <3> QED
      BY <2>3, <3>1, <3>2 DEF KeptInv, Plain
  <2>5. CASE Reject(All(op.e)) /\ interval' = [interval EXCEPT ![op.e] = TRUE]
    <3>1. interval'[op.e] /\ \A f \in Entry : interval[f] => interval'[f]
      BY <1>0, <2>1, <2>5 DEF TypeInv, SetsOK
    <3>2. queue' = queue /\ due' = due
      BY <2>5 DEF Reject, queueVars
    <3>3. \A x \in due' : Kept(x)'
      BY <2>1, <3>1, <3>2, Requests1 DEF KeptInv, Kept, InQueue
    <3> QED
      BY <2>3, <3>2, <3>3 DEF KeptInv, Plain
  <2> QED
    BY <1>3, <2>4, <2>5 DEF TickRequest
<1> QED
  BY <1>1, <1>2, <1>3

LEMMA KeptDrain ==
  ASSUME KeptInv, TypeInv', DrainEmpty \/ DrainInvalid \/ DrainWrite \/ DrainAll \/ DrainRemove
  PROVE  KeptInv'
<1>0. queue # <<>> => /\ Plain(Tail(queue)) /\ Head(queue).id \in Entry
                      /\ InQueue(queue) \subseteq ElemsOf(Head(queue)) \cup InQueue(Tail(queue))
  BY TailKeeps DEF KeptInv, TypeInv, QueuesOK, QueueOK
<1>1. ~DrainInvalid /\ ~DrainAll /\ ~DrainRemove
  BY <1>0, Requests1 DEF DrainInvalid, DrainAll, DrainRemove, CopyAll, NoEntry, KeptInv
<1>2. CASE DrainEmpty
  BY <1>2, KeptFrame DEF DrainEmpty, Return, queueVars, setVars
<1>3. CASE DrainWrite /\ Written /\ queue' = Tail(queue) /\ due' = due \ ElemsOf(Head(queue))
           /\ UNCHANGED <<pc, by>>
  <2>1. \A x \in due' : Kept(x)'
    BY <1>0, <1>3 DEF DrainWrite, setVars, KeptInv, Kept, InQueue
  <2> QED
    BY <1>0, <1>3, <2>1 DEF DrainWrite, KeptInv, Plain
<1>4. CASE DrainWrite /\ Return(by) /\ UNCHANGED <<queue, due>>
  BY <1>4, KeptFrame DEF DrainWrite, Return, setVars
<1> QED
  BY <1>1, <1>2, <1>3, <1>4 DEF DrainWrite

LEMMA KeptRest ==
  ASSUME KeptInv, TypeInv',
         LoopCritical \/ LoopCheck \/ SetCritical \/ ClearCritical \/ Elapse \/ UNCHANGED vars
  PROVE  KeptInv'
<1>1. CASE LoopCritical \/ LoopCheck
  BY <1>1, KeptFrame DEF LoopCritical, LoopCheck, queueVars, setVars
<1>2. CASE SetCritical \/ ClearCritical \/ Elapse \/ UNCHANGED vars
  <2>1. queue' = queue /\ due' = due /\ interval' = interval /\ pc' = pc /\ op' = op
    BY <1>2 DEF SetCritical, ClearCritical, Elapse, vars, queueVars, setVars, callVars
  <2> QED
    BY <2>1 DEF KeptInv, Kept, Plain, InQueue
<1> QED
  BY <1>1, <1>2

LEMMA KeptStep ==
  ASSUME KeptInv, "atomic" \notin Calls, [Next]_vars
  PROVE  KeptInv'
<1>1. TypeInv'
  BY TypeStep DEF KeptInv
<1>2. ~AtomicStep
  BY DEF KeptInv, AtomicStep
<1> QED
  BY <1>1, <1>2, KeptRequests, KeptIdle, KeptTick, KeptDrain, KeptRest DEF Next, Inside

LEMMA KeptInit == Init => KeptInv
  BY TypeInit DEF Init, KeptInv, Plain

LEMMA KeptMeans == KeptInv => NoRequestLost
<1> SUFFICES ASSUME KeptInv, NEW x \in due PROVE x \in Queued \cup Noted \cup Moving
  BY DEF NoRequestLost
<1> QED
  BY DEF KeptInv, Kept, InQueue, Queued, Noted, Moving

(* Whatever the order of the calls, ticks, copies and critical sections,   *)
(* an element of an accepted request that is not written since is queued,  *)
(* noted for a tick or being queued by one, in a program that does not     *)
(* call NvAtomicSave (which drops requests, as AtomicSavesTable shows).    *)
THEOREM RequestsKept ==
  ASSUME "atomic" \notin Calls
  PROVE  Spec => []NoRequestLost
<1>1. KeptInv /\ [Next]_vars => KeptInv'
  BY KeptStep
<1> QED
  BY <1>1, KeptInit, KeptMeans, PTL DEF Spec
-----------------------------------------------------------------------------
(* NvShutdown.                                                             *)

OffInv == pc = "off" => ~Pending

LEMMA OffStep == OffInv /\ [Next]_vars => OffInv'
<1> SUFFICES ASSUME OffInv, [Next]_vars, pc' = "off"
             PROVE  ~Pending'
  BY DEF OffInv
<1>1. CASE LoopCheck
  BY <1>1 DEF LoopCheck, Pending, queueVars, flashVars
<1>2. CASE pc = "off" /\ (SetCritical \/ ClearCritical \/ Elapse \/ UNCHANGED vars)
  BY <1>2 DEF OffInv, Pending, SetCritical, ClearCritical, Elapse, vars, queueVars, flashVars
<1>3. ~NvIdle
  BY DEF NvIdle, IdleCopy, IdleErase, IdleTick, IdleDrain, Start, Return
<1>4. ~Requests
  BY DEF Requests, Call, SaveOnIdle, SyncSave, SaveOnCount, SaveOnInterval, TimerTick,
         AtomicSave, Complete, callVars
<1>5. Inside => LoopCheck
  BY DEF Inside, AtomicStep, AtomicEnd, TickWait, TickSave, TickRequest, TickEnd,
         DrainEmpty, DrainInvalid, DrainWrite, DrainAll, DrainRemove, LoopCritical,
         Return, callVars
<1>6. pc' = pc \/ ~(SetCritical \/ ClearCritical \/ Elapse \/ UNCHANGED vars)
  BY DEF SetCritical, ClearCritical, Elapse, vars, callVars
<1> QED
  BY <1>1, <1>2, <1>3, <1>4, <1>5, <1>6 DEF Next

(* NvShutdown returns only with an empty queue, no page copy and no erase  *)
(* pending, and every accepted element then unwritten is one that a tick   *)
(* will save: the loop of NvCompletePendingOperationsUnsafe does not stop  *)
(* between the tick that clears a data set and the write of its record.    *)
THEOREM ShutdownCompletes ==
  ASSUME "atomic" \notin Calls
  PROVE  Spec => []ShutdownComplete
<1>1. KeptInv /\ [Next]_vars => KeptInv'
  BY KeptStep
<1>2. Init => OffInv
  BY DEF Init, OffInv
<1>3. OffInv /\ KeptInv => ShutdownComplete
  BY KeptMeans DEF OffInv, ShutdownComplete, Pending, NoRequestLost, Queued, Moving
<1> QED
  BY <1>1, <1>2, <1>3, KeptInit, OffStep, PTL DEF Spec
-----------------------------------------------------------------------------
(* Saves of the whole table.                                               *)

TableAlone(q) == \A j \in DOMAIN q : q[j] = CopyAll => Len(q) = 1

LEMMA EnqueueAlone ==
  ASSUME NEW q, QueueOK(q), TableAlone(q), NEW r \in Slot, r.id \in Entry, Enqueue(q, r),
         tail \in 0 .. QueueSize - 1
  PROVE  TableAlone(queue')
<1>0. q \in Seq(Slot) /\ queue' \in Seq(Slot)
  BY EnqueueCases DEF QueueOK
<1>1. r # CopyAll /\ \A s \in Slot : s.id \in Entry => Widened(s) # CopyAll
  BY Requests1 DEF CopyAll, NoEntry, Widened
<1>2. CASE DOMAIN queue' = DOMAIN q /\ \E j \in Absorbing(q, r) :
             /\ queue'[j] = IF r.all THEN Widened(q[j]) ELSE q[j]
             /\ \A k \in DOMAIN q \ {j} : queue'[k] = q[k]
  <2>1. Len(queue') = Len(q)
    BY <1>0, <1>2
  <2>2. \A k \in DOMAIN q : queue'[k] = CopyAll => q[k] = CopyAll
    BY <1>0, <1>1, <1>2 DEF Absorbing
  <2> QED
    BY <1>2, <2>1, <2>2 DEF TableAlone
<1>3. CASE DOMAIN queue' = DOMAIN q /\ \E j \in Reusable(q) :
             queue'[j] = r /\ \A k \in DOMAIN q \ {j} : queue'[k] = q[k]
  <2>1. Len(queue') = Len(q)
    BY <1>0, <1>3
  <2> QED
    BY <1>1, <1>3, <2>1 DEF TableAlone
<1>4. CASE Reusable(q) = {} /\ queue' = Append(q, r)
  <2>1. \A j \in DOMAIN q : q[j] # CopyAll
    BY <1>4 DEF Reusable, CopyAll
  <2> QED
    BY <1>0, <1>1, <1>4, <2>1, AppendSlot DEF TableAlone
<1> QED
  BY <1>2, <1>3, <1>4, EnqueueCases

LEMMA TailAlone ==
  ASSUME NEW q \in Seq(Slot), q # <<>>, TableAlone(q)
  PROVE  TableAlone(Tail(q))
<1>1. SUFFICES ASSUME NEW j \in DOMAIN Tail(q), Tail(q)[j] = CopyAll
               PROVE  FALSE
  BY DEF TableAlone
<1>2. Len(q) = 1 /\ Len(Tail(q)) = 0
  BY <1>1, TailSlot DEF TableAlone
<1> QED
  BY <1>1, <1>2, TailSlot

LEMMA AcceptAlone ==
  ASSUME QueuesOK, TableAlone(queue), NEW r \in Slot, r.id \in Entry, NEW S,
         Accept(r, S) \/ Reject(r)
  PROVE  TableAlone(queue')
<1>0. QueueOK(queue) /\ tail \in 0 .. QueueSize - 1
  BY DEF QueuesOK
<1>1. CASE MakeRoom(r)
  <2>1. queue \in Seq(Slot) /\ queue # <<>>
    BY <1>0, <1>1, SizesAssumption DEF QueueOK, MakeRoom, QueueFull
  <2>2. \A j \in DOMAIN queue : queue[j] # CopyAll
    BY <1>1 DEF MakeRoom, QueueFull, Reusable, CopyAll
  <2>3. r # CopyAll
    BY Requests1 DEF CopyAll, NoEntry
  <2>4. Tail(queue) \in Seq(Slot) /\ \A j \in DOMAIN Tail(queue) : Tail(queue)[j] # CopyAll
    BY <2>1, <2>2, TailSlot
  <2> QED
    BY <1>1, <2>3, <2>4, AppendSlot DEF MakeRoom, TableAlone
<1>2. CASE Enqueue(queue, r)
  BY <1>0, <1>2, EnqueueAlone
<1>3. CASE Reject(r)
  BY <1>3 DEF Reject, queueVars
<1> QED
  BY <1>1, <1>2, <1>3 DEF Accept

LEMMA InvalidatedAlone ==
  ASSUME QueuesOK, TableAlone(queue)
  PROVE  /\ TableAlone(Invalidated)
         /\ \A j \in DOMAIN Invalidated : Invalidated[j].id = NoEntry
         /\ Enqueue(Invalidated, CopyAll) => TableAlone(queue')
<1>0. /\ queue \in Seq(Slot) /\ Invalidated \in Seq(Slot) /\ Len(Invalidated) = Len(queue)
      /\ DOMAIN Invalidated = DOMAIN queue
      /\ \A j \in DOMAIN queue : queue[j] \in Slot /\ Invalidated[j] = Void(queue[j])
  BY InvalidatedSlots DEF QueuesOK, QueueOK
<1>1. \A s \in Slot : /\ Void(s).id = NoEntry
                      /\ Void(s) = CopyAll => s = CopyAll
                      /\ Widened(Void(s)) = CopyAll => s = CopyAll
  <2>1. ASSUME NEW s \in Slot, s # CopyAll
        PROVE  Void(s).i # 0 /\ Widened(Void(s)).i # 0
    BY <2>1 DEF Slot, Void, Widened
  <2> QED
    BY <2>1 DEF Void, CopyAll
<1>2. TableAlone(Invalidated)
  BY <1>0, <1>1 DEF TableAlone
<1>3. ASSUME Enqueue(Invalidated, CopyAll)
      PROVE  TableAlone(queue')
  <2>0. QueueOK(Invalidated) /\ tail \in 0 .. QueueSize - 1
    BY InvalidatedTypes DEF QueuesOK
  <2>1. CASE queue = <<>>
    <3>1. Invalidated = <<>> /\ Absorbing(Invalidated, CopyAll) = {} /\ Reusable(Invalidated) = {}
      BY <1>0, <2>1 DEF Absorbing, Reusable
    <3>2. queue' = Append(Invalidated, CopyAll)
      BY <1>3, <3>1 DEF Enqueue, First
    <3>3. Len(queue') = 1
      BY <3>1, <3>2
    <3> QED
      BY <3>3 DEF TableAlone
  <2>2. CASE queue # <<>>
    <3>1. 1 \in DOMAIN Invalidated
      BY <1>0, <2>2
    <3>2. Absorbing(Invalidated, CopyAll) # {}
      BY <1>0, <1>1, <3>1 DEF Absorbing, CopyAll
    <3>3. PICK j \in Absorbing(Invalidated, CopyAll) :
            queue' = [Invalidated EXCEPT ![j] = Widened(@)]
      BY <1>3, <3>2 DEF Enqueue, First, CopyAll
    <3>4. j \in DOMAIN queue /\ Widened(Invalidated[j]) \in Slot
      BY <1>0, <3>3, SlotFields DEF Absorbing
    <3>5. /\ Len(queue') = Len(queue) /\ DOMAIN queue' = DOMAIN queue
          /\ \A k \in DOMAIN queue :
               queue'[k] = IF k = j THEN Widened(Invalidated[j]) ELSE Invalidated[k]
      BY <1>0, <3>3, <3>4, UpdateSlot
    <3>6. \A k \in DOMAIN queue : queue'[k] = CopyAll => queue[k] = CopyAll
      BY <1>0, <1>1, <3>5
    <3> QED
      BY <3>5, <3>6 DEF TableAlone
  <2> QED
    BY <2>1, <2>2
<1> QED
  BY <1>0, <1>1, <1>2, <1>3

(* The queue changes in one of six ways.                                   *)
LEMMA QueueChanges ==
  ASSUME TypeInv, [Next]_vars
  PROVE  \/ queue' = queue
         \/ \E r \in Slot, S \in SUBSET Elem : r.id \in Entry /\ (Accept(r, S) \/ Reject(r))
         \/ Enqueue(Invalidated, CopyAll)
         \/ queue' = Invalidated
         \/ queue # <<>> /\ queue' = Tail(queue)
         \/ queue # <<>> /\ queue' = Tail(Invalidated)
<1> DEFINE G == \/ queue' = queue
                \/ \E r \in Slot, S \in SUBSET Elem : r.id \in Entry /\ (Accept(r, S) \/ Reject(r))
                \/ Enqueue(Invalidated, CopyAll)
                \/ queue' = Invalidated
                \/ queue # <<>> /\ queue' = Tail(queue)
                \/ queue # <<>> /\ queue' = Tail(Invalidated)
<1>0. /\ \A r \in Req : r \in Slot /\ r.id \in Entry /\ ElemsOf(r) \in SUBSET Elem
      /\ \A e \in Entry : All(e) \in Req
      /\ {} \in SUBSET Elem
  BY Requests1, RequestElements
<1>1. ASSUME NEW r \in Req, NEW S \in SUBSET Elem, Accept(r, S) \/ Reject(r)
      PROVE  G
  BY <1>0, <1>1
<1>2. ASSUME NEW r \in Req, SaveOnIdle(r) \/ SyncSave(r)
      PROVE  G
  BY <1>0, <1>1, <1>2 DEF SaveOnIdle, SyncSave, WriteNow, queueVars
<1>3. ASSUME NEW e \in Entry, SaveOnCount(e) \/ SaveOnInterval(e)
      PROVE  G
  BY <1>0, <1>1, <1>3 DEF SaveOnCount, SaveOnInterval, queueVars
<1>4. CASE AtomicSave
  BY <1>4 DEF AtomicSave
<1>5. CASE AtomicStep
  BY <1>0, <1>1, <1>5 DEF AtomicStep, WriteNow, queueVars
<1>6. CASE TickRequest
  <2>1. All(op.e) \in Req
    BY <1>0, <1>6 DEF TickRequest, TypeInv, PlaceOK
  <2> QED
    BY <1>0, <1>1, <1>6, <2>1 DEF TickRequest
<1>7. CASE DrainEmpty \/ DrainInvalid \/ DrainWrite \/ DrainAll \/ DrainRemove
  BY <1>7 DEF DrainEmpty, DrainInvalid, DrainWrite, DrainAll, DrainRemove, queueVars
<1>8. CASE \/ \E count \in BOOLEAN : TimerTick(count)
           \/ \E caller \in {"shutdown", "restore"} : Complete(caller)
           \/ NvIdle \/ TickWait \/ TickSave \/ TickEnd \/ LoopCritical \/ LoopCheck
           \/ SetCritical \/ ClearCritical \/ Elapse \/ UNCHANGED vars
  BY <1>8 DEF TimerTick, Complete, NvIdle, IdleCopy, IdleErase, IdleTick, IdleDrain,
              TickWait, TickSave, TickEnd, LoopCritical, LoopCheck,
              SetCritical, ClearCritical, Elapse, vars, queueVars
<1> QED
  BY <1>2, <1>3, <1>4, <1>5, <1>6, <1>7, <1>8 DEF Next, Requests, Inside

LEMMA AloneStep == TypeInv /\ TableAlone(queue) /\ [Next]_vars => TableAlone(queue')
<1> SUFFICES ASSUME TypeInv, TableAlone(queue), [Next]_vars
             PROVE  TableAlone(queue')
  OBVIOUS
<1>0. QueuesOK /\ queue \in Seq(Slot) /\ Invalidated \in Seq(Slot) /\ Len(Invalidated) = Len(queue)
  BY InvalidatedSlots DEF TypeInv, QueuesOK, QueueOK
<1>1. TableAlone(Invalidated)
  BY <1>0, InvalidatedAlone
<1>2. queue # <<>> => TableAlone(Tail(queue)) /\ TableAlone(Tail(Invalidated))
  BY <1>0, <1>1, TailAlone
<1> QED
  BY <1>0, <1>1, <1>2, QueueChanges, AcceptAlone, InvalidatedAlone

(* A queued save of the whole table, which NvIdle makes by invalidating    *)
(* every queued request, never has another request behind it.              *)
THEOREM TableSavesAlone == Spec => []TableSaveAlone
<1>1. Init => TableAlone(queue)
  BY DEF Init, TableAlone
<1>2. TableAlone(queue)' <=> TableAlone(queue')
  BY DEF TableAlone
<1>3. TableAlone(queue) <=> TableSaveAlone
  BY DEF TableAlone, TableSaveAlone
<1>4. TypeInv /\ TableAlone(queue) /\ [Next]_vars => TableAlone(queue)'
  BY <1>2, AloneStep
<1> QED
  BY <1>1, <1>3, <1>4, TypeInit, TypeStep, PTL DEF Spec

(* While __NvAtomicSave writes the table the queue holds only invalidated  *)
(* requests, whatever else is called: an older value of a record is never  *)
(* queued to be written after the table.                                   *)
THEOREM AtomicSaveOwns == Spec => []AtomicOwnsQueue
<1>1. Init => AtomicOwnsQueue
  BY DEF Init, AtomicOwnsQueue
<1>2. TypeInv /\ AtomicOwnsQueue /\ [Next]_vars => AtomicOwnsQueue'
  <2> SUFFICES ASSUME TypeInv, AtomicOwnsQueue, [Next]_vars, pc' = "atomic"
               PROVE  \A j \in DOMAIN queue' : queue'[j].id = NoEntry
    BY DEF AtomicOwnsQueue
  <2>1. CASE queue' = Invalidated
    BY <2>1 DEF Invalidated, Void
  <2>2. CASE pc = "atomic" /\ queue' = queue
    BY <2>2 DEF AtomicOwnsQueue
  <2>3. Inside => queue' = Invalidated \/ (pc = "atomic" /\ queue' = queue)
    BY DEF Inside, AtomicStep, AtomicEnd, WriteNow, TickWait, TickSave, TickRequest, TickEnd,
           DrainEmpty, DrainInvalid, DrainWrite, DrainAll, DrainRemove, LoopCritical, LoopCheck,
           Return, callVars, queueVars
  <2>4. Requests => queue' = Invalidated
    BY DEF Requests, Call, SaveOnIdle, SyncSave, SaveOnCount, SaveOnInterval, TimerTick,
           AtomicSave, Complete, callVars
  <2>5. ~NvIdle
    BY DEF NvIdle, IdleCopy, IdleErase, IdleTick, IdleDrain, Start, Return
  <2>6. SetCritical \/ ClearCritical \/ Elapse \/ UNCHANGED vars => pc = "atomic" /\ queue' = queue
    BY DEF SetCritical, ClearCritical, Elapse, vars, queueVars, callVars
  <2> QED
    BY <2>1, <2>2, <2>3, <2>4, <2>5, <2>6 DEF Next
<1> QED
  BY <1>1, <1>2, TypeInit, TypeStep, PTL DEF Spec
=============================================================================
