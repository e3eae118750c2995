---------------------------------- MODULE Ota ----------------------------------
(***************************************************************************)
(* services/OtaSupport/Source/OtaSupport.c: the download of a firmware     *)
(* image to a storage, with flash operations made at once or posted to a   *)
(* queue that the application or the idle task works off, and the request  *)
(* to the boot loader (platform/wireless_mcu/fwk_platform_ota.c).          *)
(*                                                                         *)
(* Unit k of image i is <<i, k>>. Asserts do nothing, as in a release      *)
(* build; cancelling an image while one of its operations is under way     *)
(* releases a transaction twice and ends the behaviour (broken), for what  *)
(* the lists become then is not known. The image begins at offset 0.       *)
(***************************************************************************)
EXTENDS OtaFlash

CONSTANTS Modes,          \* configurations: [queued, idle, driver]
          Capacity,       \* transactions of the pool
          MaxConsecutive, \* maxConsecutiveTransactions
          Lengths,        \* lengths of images
          Chunks,         \* lengths of chunks
          Windows,        \* sizes the application makes headroom for
          MaxImages,      \* bound: images downloaded
          MaxFaults       \* bound: failures of the flash and resets

(* Operations are made at once, or posted (OTA_UsePostedOperation) and      *)
(* worked off by the application or the idle task (ota_config_t).           *)
Mode(queued, idle, driver) == [queued |-> queued, idle |-> idle, driver |-> driver]
DirectExternal == {Mode(FALSE, FALSE, "external")}
AllModes == DirectExternal \cup
  {Mode(FALSE, FALSE, "internal"), Mode(TRUE, FALSE, "external"),
   Mode(TRUE, TRUE, "external"), Mode(TRUE, TRUE, "internal")}

ASSUME ConfigAssumption ==
  /\ Modes \subseteq [queued : BOOLEAN, idle : BOOLEAN, driver : {"external", "internal"}]
  /\ {Capacity, MaxConsecutive} \subseteq Nat \ {0} /\ {MaxImages, MaxFaults} \subseteq Nat
  /\ Lengths \subseteq 1 .. Size
  /\ Chunks \subseteq Nat \ {0} /\ Windows \subseteq Nat \ {0}

Node == 1 .. Capacity
NoNode == 0
NoOp == [kind |-> "none", addr |-> 0, data |-> <<>>, size |-> 0]
Op == [kind : {"none", "write", "erase", "erased"}, addr : Nat, data : Seq(Nat \X Nat), size : Nat]

VARIABLES mode,                 \* the configuration
          state,                \* FwUpdImageState
          total, current,       \* OtaImageTotalLength, OtaImageCurrentLength
          written,              \* StorageAddressWritten, OtaImageLengthWritten
          erased,               \* ErasedUntilOffset
          dev,                  \* the storage
          mem,                  \* what the transactions hold
          ops, cur, free,       \* op_queue, cur_transaction, transaction_free_list
          worker, phase, doing, count, \* OTA_TransactionResume: who, where, at which one, how many
          call, len,            \* the call of the application that waits; its chunk
          image,                \* the image being downloaded
          request,              \* the image the boot loader is asked to load, 0: none
          faults,               \* failures and resets so far
          spoiled,              \* a chunk was queued in part, or the queue forgotten
          broken                \* an operation under way was released
imageVars == <<state, total, current, written, erased>>
queueVars == <<mem, ops, cur, free>>
workVars  == <<worker, phase, doing, count>>
callVars  == <<call, len>>
vars == <<mode, imageVars, dev, queueVars, workVars, callVars, image, request,
          faults, spoiled, broken>>

TypeOK ==
  /\ mode \in Modes
  /\ state \in {"permanent", "acquiring", "ready", "fail"}
  /\ {total, current, len} \subseteq 0 .. Size /\ {written, erased} \subseteq Nat
  /\ dev \in Storage
  /\ mem \in [Node -> Op] /\ \A n \in Node : Len(mem[n].data) <= Page
  /\ ops \in Seq(Node) /\ free \in Seq(Node) /\ cur \in Node \cup {NoNode}
  /\ worker \in {"none", "app", "idle"} /\ doing \in Node \cup {NoNode}
  /\ phase \in {"take", "finish"} /\ count \in 0 .. MaxConsecutive
  /\ call \in {"ready", "resume", "end", "commit", "notify"}
  /\ image \in 0 .. MaxImages /\ request \in 0 .. image /\ faults \in 0 .. MaxFaults
  /\ {spoiled, broken} \subseteq BOOLEAN

Init == /\ mode \in Modes
        /\ state = "permanent" /\ total = 0 /\ current = 0 /\ written = 0 /\ erased = 0
        /\ dev = NewStorage(mode.driver, [u \in Units |-> Junk])
        /\ mem = [n \in Node |-> NoOp] /\ ops = <<>> /\ cur = NoNode
        /\ free = [n \in Node |-> n]
        /\ worker = "none" /\ phase = "take" /\ doing = NoNode /\ count = 0
        /\ call = "ready" /\ len = 0
        /\ image = 0 /\ request = 0 /\ faults = 0
        /\ spoiled = FALSE /\ broken = FALSE

Unit(i, k) == <<i, k>>
Intact(i, n) == \A u \in 0 .. n - 1 : dev.flash[u] = Unit(i, u)
Fault(f) == f # NoFault => faults < MaxFaults
Counted(f) == faults' = IF f = NoFault THEN faults ELSE faults + 1
-----------------------------------------------------------------------------
(* OTA_CancelImage with OTA_TransactionQueuePurge and OTA_InitContext.      *)

Freed == ops \o (IF cur = NoNode THEN <<>> ELSE <<cur>>)

(* Mutant: the transaction being filled is kept.                            *)
PurgeQueued == /\ ops' = <<>>
               /\ free' = free \o ops
               /\ mem' = [n \in Node |-> IF n \in ToSet(ops) THEN NoOp ELSE mem[n]]
               /\ UNCHANGED cur

Purge == /\ ops' = <<>> /\ cur' = NoNode
         /\ free' = free \o Freed
         /\ mem' = [n \in Node |-> IF n \in ToSet(Freed) THEN NoOp ELSE mem[n]]

(* Purging releases the operation under way, which is released again when   *)
(* it ends.                                                                 *)
CutShort == mode.queued /\ state # "permanent" /\ doing # NoNode

(* An image that is acquired, ready or failed is forgotten.                 *)
Cancel(to) == \/ /\ state = "permanent"
                 /\ state' = to
                 /\ UNCHANGED <<total, current, written, erased, queueVars>>
              \/ /\ state # "permanent"
                 /\ state' = to
                 /\ total' = 0 /\ current' = 0 /\ written' = 0 /\ erased' = 0
                 /\ IF mode.queued THEN Purge ELSE UNCHANGED queueVars

CancelImage == /\ call = "ready"
               /\ Cancel("permanent")
               /\ broken' = CutShort
               /\ UNCHANGED <<mode, dev, workVars, callVars, image, request, faults, spoiled>>
-----------------------------------------------------------------------------
(* OTA_StartImage, OTA_UpdateImgState(OtaImgState_Acquiring). The storage   *)
(* is selected again for each image, or the internal driver would not erase *)
(* what it has erased before.                                               *)
StartImage(n) == /\ call = "ready" /\ state = "permanent" /\ image < MaxImages
                 /\ dev.erased = {}
                 /\ state' = "acquiring"
                 /\ total' = n /\ current' = 0 /\ written' = 0
                 /\ image' = image + 1 /\ spoiled' = FALSE
                 /\ UNCHANGED <<mode, erased, dev, queueVars, workVars, callVars, request, faults, broken>>

(* OTA_Select{External,Internal}StoragePartition: the internal driver       *)
(* forgets what it has erased and buffered, the external one does not.      *)
Select == /\ call = "ready" /\ state # "acquiring" /\ (erased # 0 \/ dev.erased # {})
          /\ erased' = 0
          /\ dev' = IF mode.driver = "internal" THEN NewStorage("internal", dev.flash) ELSE dev
          /\ UNCHANGED <<mode, state, total, current, written, queueVars, workVars, callVars,
                         image, request, faults, spoiled, broken>>
-----------------------------------------------------------------------------
(* OTA_PushImageChunk.                                                      *)
Chunk(n) == [j \in 1 .. n |-> Unit(image, current + j - 1)]

(* OTA_WriteToFlash and OTA_CheckVerifyFlash. When the external driver fails *)
(* after the first page of a chunk, its buffer holds another page, and goes *)
(* to the first one when the chunk is pushed again.                         *)
PushNow(n, fault) ==
  LET r == Write(dev, current, Chunk(n), fault)
      verified == r.ok /\ \A j \in 1 .. n : Read(r.d, current + j - 1) = Chunk(n)[j]
  IN /\ ~mode.queued /\ (fault # NoFault => ~r.ok)
     /\ dev' = r.d
     /\ current' = IF verified THEN current + n ELSE current
     /\ spoiled' = (spoiled \/ (mode.driver = "external" /\ ~r.ok /\ r.d # dev /\ current < r.d.offs))
     /\ UNCHANGED <<written, queueVars, callVars>>

(* What is filled, then what can be allocated (OTA_FlashTransactionAlloc).  *)
Fillable == (IF cur = NoNode THEN <<>> ELSE <<cur>>) \o free
Begun == IF cur = NoNode THEN <<>> ELSE mem[cur].data

(* OTA_PostWriteToFlash: a page for each transaction. A full page is        *)
(* queued; when no transaction is left, what is queued stays queued. The    *)
(* queue is then worked off unless that is for the idle task.               *)
Post(n) ==
  LET text  == Begun \o Chunk(n)
      room  == Page * Len(Fillable)
      ok    == Len(text) <= room
      end   == IF ok THEN Len(text) ELSE room
      full  == end \div Page
      used  == (end + Page - 1) \div Page
      Begin(j)   == IF j = 1 /\ cur # NoNode THEN mem[cur]
                    ELSE [NoOp EXCEPT !.kind = "write", !.addr = current - Len(Begun) + (j - 1) * Page]
      Filling(j) == [Begin(j) EXCEPT !.data = SubSeq(text, (j - 1) * Page + 1,
                                                     IF j <= full THEN j * Page ELSE end)]
  IN /\ mode.queued
     /\ written <= current
     /\ mem' = [x \in Node |-> IF \E j \in 1 .. used : Fillable[j] = x
                               THEN Filling(CHOOSE j \in 1 .. used : Fillable[j] = x) ELSE mem[x]]
     /\ ops' = ops \o SubSeq(Fillable, 1, full)
     /\ cur' = IF used = full THEN NoNode ELSE Fillable[used]
     /\ free' = SubSeq(Fillable, used + 1, Len(Fillable))
     /\ IF ok /\ ~mode.idle /\ ops' # <<>>
        THEN call' = "resume" /\ len' = n /\ UNCHANGED current
        ELSE current' = (IF ok THEN current + n ELSE current) /\ UNCHANGED callVars
     /\ spoiled' = (spoiled \/ ~ok)
     /\ UNCHANGED <<written, dev>>

(* The application pushes into what it has made headroom for; the internal  *)
(* driver erases what it writes to.                                         *)
PushImageChunk(n, fault) ==
  /\ call = "ready" /\ state = "acquiring" /\ current + n <= total
  /\ mode.driver = "internal" \/ current + n <= erased
  /\ Fault(fault) /\ Counted(fault)
  /\ PushNow(n, fault) \/ (fault = NoFault /\ Post(n))
  /\ UNCHANGED <<mode, state, total, erased, workVars, image, request, broken>>

(* The chunk counts once the queue has been worked off, whatever became of  *)
(* the image meanwhile.                                                     *)
CallEnds == /\ call = "end"
            /\ current' = current + len
            /\ call' = "ready" /\ len' = 0
            /\ UNCHANGED <<mode, state, total, written, erased, dev, queueVars, workVars,
                           image, request, faults, spoiled, broken>>
-----------------------------------------------------------------------------
(* OTA_MakeHeadRoomForNextBlock.                                            *)
ToErase(size) == LET limit == IF total # 0 THEN total ELSE Size
                 IN IF erased + size >= limit THEN limit - erased ELSE size

(* Mutant: a failure leaves the limit where it was to be.                   *)
HeadRoomBlind(size, fault) ==
  LET r == EraseArea(dev, erased, ToErase(size), fault)
  IN /\ ~mode.queued /\ (fault # NoFault => ~r.ok)
     /\ dev' = r.d /\ erased' = r.next
     /\ UNCHANGED <<queueVars, callVars>>

HeadRoomNow(size, fault) ==
  LET r == EraseArea(dev, erased, ToErase(size), fault)
  IN /\ ~mode.queued /\ (fault # NoFault => ~r.ok)
     /\ dev' = r.d
     /\ erased' = IF r.ok THEN r.next ELSE 0
     /\ UNCHANGED <<queueVars, callVars>>

HeadRoomPosted(size) ==
  /\ mode.queued
  /\ \/ free = <<>> /\ UNCHANGED <<queueVars, callVars>>
     \/ /\ free # <<>>
        /\ mem' = [mem EXCEPT ![Head(free)] = [NoOp EXCEPT !.kind = "erase", !.addr = erased,
                                               !.size = ToErase(size)]]
        /\ ops' = Append(ops, Head(free))
        /\ free' = Tail(free)
        /\ call' = (IF mode.idle THEN call ELSE "resume")
        /\ UNCHANGED <<cur, len>>
  /\ UNCHANGED <<dev, erased>>

(* Headroom is made for the image that is acquired, one window at a time,   *)
(* before chunks are pushed into it.                                        *)
HeadRoom(size, fault) ==
  /\ call = "ready" /\ state = "acquiring" /\ current <= erased /\ erased < total
  /\ \A j \in DOMAIN ops : mem[ops[j]].kind = "write"
  /\ Fault(fault) /\ Counted(fault)
  /\ HeadRoomNow(size, fault) \/ (fault = NoFault /\ HeadRoomPosted(size))
  /\ UNCHANGED <<mode, state, total, current, written, workVars, image, request, spoiled, broken>>
-----------------------------------------------------------------------------
(* OTA_TransactionResume, by the idle task or inside a call. It holds the   *)
(* mutex, which calls of the application do not take for anything else.     *)
Others == <<mode, image, request>>

Resume(who) == /\ worker = "none" /\ mode.queued
               /\ \/ who = "idle" /\ ops # <<>>
                  \/ who = "app" /\ (call = "resume" \/ (call = "commit" /\ ops # <<>>))
               /\ worker' = who /\ count' = 0
               /\ UNCHANGED <<Others, imageVars, dev, queueVars, phase, doing, callVars,
                              faults, spoiled, broken>>

(* The head of the queue stays there while it is treated.                   *)
op == mem[Head(ops)]

(* Mutant: as many as there are, in one pass.                               *)
TakeAll(kinds) == /\ worker # "none" /\ phase = "take"
                  /\ ops # <<>> /\ op.kind \in kinds

Take(kinds) == /\ worker # "none" /\ phase = "take"
               /\ ops # <<>> /\ count < MaxConsecutive
               /\ op.kind \in kinds

(* Mutant: a pass goes on until nothing is left.                            *)
ReleaseDrained == /\ worker # "none" /\ phase = "take" /\ ops = <<>>
                  /\ worker' = "none" /\ count' = 0
                  /\ call' = IF worker = "app" /\ call = "resume" THEN "end" ELSE call
                  /\ UNCHANGED <<Others, imageVars, dev, queueVars, phase, doing, len, faults,
                                 spoiled, broken>>

(* Nothing left, enough for this pass, or the external flash is busy.       *)
Release == /\ worker # "none" /\ phase = "take"
           /\ ops = <<>> \/ count = MaxConsecutive \/ mode.driver = "external"
           /\ worker' = "none" /\ count' = 0
           /\ call' = IF worker = "app" /\ call = "resume" THEN "end" ELSE call
           /\ UNCHANGED <<Others, imageVars, dev, queueVars, phase, doing, len, faults, spoiled, broken>>

(* OTA_TreatFlashOpWrite up to the dequeueing: the last page is padded.     *)
Padded(data) == [j \in 1 .. Page |-> IF j <= Len(data) THEN data[j] ELSE Zero]

TreatWrite ==
  LET r == Write(dev, op.addr, Padded(op.data), NoFault)
      verified == r.ok /\ \A j \in 1 .. Page : Read(r.d, op.addr + j - 1) = Padded(op.data)[j]
  IN /\ Take({"write"}) /\ verified
     /\ dev' = r.d
     /\ written' = written + Page
     /\ phase' = "finish" /\ doing' = Head(ops) /\ count' = count + 1
     /\ UNCHANGED <<Others, state, total, current, erased, queueVars, worker, callVars,
                    faults, spoiled, broken>>

(* OTA_TreatFlashOpEraseNextBlock: the operation becomes its completion.    *)
TreatErase ==
  LET r == EraseArea(dev, op.addr, op.size, NoFault)
  IN /\ Take({"erase"}) /\ r.ok
     /\ dev' = r.d
     /\ erased' = r.next
     /\ mem' = [mem EXCEPT ![Head(ops)].kind = "erased"]
     /\ count' = count + 1
     /\ UNCHANGED <<Others, state, total, current, written, ops, cur, free, worker, phase, doing,
                    callVars, faults, spoiled, broken>>

(* OTA_TreatFlashOpEraseNextBlockComplete: the callback comes first; it may *)
(* cancel the image.                                                        *)
TreatErased ==
  /\ Take({"erased"})
  /\ phase' = "finish" /\ doing' = Head(ops) /\ count' = count + 1
  /\ \/ Cancel("permanent") /\ broken' = (state # "permanent")
     \/ UNCHANGED <<imageVars, queueVars, broken>>
  /\ UNCHANGED <<Others, dev, worker, callVars, faults, spoiled>>

(* Mutant: the transaction stays at the head of the queue.                  *)
FinishKeeping == /\ phase = "finish"
                 /\ free' = Append(free, doing)
                 /\ phase' = "take" /\ doing' = NoNode
                 /\ UNCHANGED <<Others, imageVars, dev, mem, ops, cur, worker, count, callVars,
                                faults, spoiled, broken>>

(* The treated transaction leaves the queue and is released.                *)
Finish == /\ phase = "finish"
          /\ ops' = Tail(ops)
          /\ free' = Append(free, doing)
          /\ mem' = [mem EXCEPT ![doing] = NoOp]
          /\ phase' = "take" /\ doing' = NoNode
          /\ UNCHANGED <<Others, imageVars, dev, cur, worker, count, callVars, faults, spoiled, broken>>

(* An operation that fails, or whose page does not read back, ends the pass *)
(* and cancels the image; a page written is dequeued and released before.   *)
TreatFails(fault) ==
  LET data == Padded(op.data)
      r    == IF op.kind = "write" THEN Write(dev, op.addr, data, fault)
              ELSE EraseArea(dev, op.addr, op.size, fault)
  IN /\ Take({"write", "erase"})
     /\ \/ ~r.ok
        \/ /\ op.kind = "write" /\ r.ok /\ fault = NoFault
           /\ \E j \in 1 .. Page : Read(r.d, op.addr + j - 1) # data[j]
     /\ Fault(fault) /\ Counted(fault)
     /\ dev' = r.d
     /\ Cancel("permanent")
     /\ worker' = "none" /\ count' = 0
     /\ call' = IF worker = "app" /\ call = "resume" THEN "end" ELSE call
     /\ UNCHANGED <<Others, phase, doing, len, spoiled, broken>>
-----------------------------------------------------------------------------
(* OTA_CommitImage.                                                         *)

(* OTA_WritePendingData: what is being filled is queued, or flushed; the    *)
(* result of the flush is only looked at by an assert.                      *)
Commit(fault) ==
  /\ call = "ready" /\ state = "acquiring" /\ current = total
  /\ Fault(fault) /\ Counted(fault)
  /\ fault # NoFault => ~mode.queued /\ ~Flush(dev, fault).ok
  /\ call' = "commit"
  /\ IF mode.queued
     THEN /\ ops' = (IF cur # NoNode THEN Append(ops, cur) ELSE ops)
          /\ cur' = NoNode
          /\ UNCHANGED dev
     ELSE dev' = Flush(dev, fault).d /\ UNCHANGED <<ops, cur>>
  /\ spoiled' = (spoiled \/ fault # NoFault)
  /\ UNCHANGED <<mode, imageVars, mem, free, workVars, len, image, request, broken>>

(* Mutant: the queue is not waited for.                                     *)
CommitNoWait == /\ call = "commit" /\ worker # "app"
                /\ written' = current
                /\ \/ state = "acquiring" /\ call' = "notify" /\ request' = 0 /\ UNCHANGED state
                   \/ state # "acquiring" /\ call' = "ready" /\ state' = "fail" /\ UNCHANGED request
                /\ UNCHANGED <<mode, total, current, erased, dev, queueVars, workVars, len, image,
                               faults, spoiled, broken>>

(* Mutant: an image cancelled meanwhile is not reckoned with.               *)
CommitUnfailed == /\ call = "commit" /\ worker # "app" /\ (mode.queued => ops = <<>>)
                  /\ state = "acquiring"
                  /\ written' = current /\ call' = "notify" /\ request' = 0
                  /\ UNCHANGED <<mode, state, total, current, erased, dev, queueVars, workVars,
                                 len, image, faults, spoiled, broken>>

(* Once the queue is empty the image counts as written whole. If a failure  *)
(* has cancelled it the state cannot change and becomes a failure.          *)
CommitDrained ==
  /\ call = "commit" /\ worker # "app" /\ (mode.queued => ops = <<>>)
  /\ written' = current
  /\ \/ state = "acquiring" /\ call' = "notify" /\ request' = 0 /\ UNCHANGED state
     \/ state # "acquiring" /\ call' = "ready" /\ state' = "fail" /\ UNCHANGED request
  /\ UNCHANGED <<mode, total, current, erased, dev, queueVars, workVars, len, image,
                 faults, spoiled, broken>>

(* PLATFORM_OtaNotifyNewImageReady has erased the configuration page of the *)
(* boot loader; it is programmed now, or that fails.                        *)
Notify == /\ call = "notify"
          /\ \/ request' = image /\ state' = "ready" /\ UNCHANGED faults
             \/ /\ faults < MaxFaults /\ faults' = faults + 1
                /\ state' = "fail" /\ UNCHANGED request
          /\ call' = "ready"
          /\ UNCHANGED <<mode, total, current, written, erased, dev, queueVars, workVars, len,
                         image, spoiled, broken>>

(* Reset: the boot loader has answered the request, and OTA_Initialize      *)
(* clears what it left (PLATFORM_OtaClearBootFlags).                        *)
Reset == /\ faults < MaxFaults
         /\ faults' = faults + 1
         /\ request' = 0
         /\ state' = "permanent" /\ total' = 0 /\ current' = 0 /\ written' = 0 /\ erased' = 0
         /\ dev' = NewStorage(mode.driver, dev.flash)
         /\ mem' = [n \in Node |-> NoOp] /\ ops' = <<>> /\ cur' = NoNode
         /\ free' = [n \in Node |-> n]
         /\ worker' = "none" /\ phase' = "take" /\ doing' = NoNode /\ count' = 0
         /\ call' = "ready" /\ len' = 0 /\ spoiled' = FALSE
         /\ UNCHANGED <<mode, image, broken>>
-----------------------------------------------------------------------------
Application == \/ CancelImage \/ Select
               \/ \E n \in Lengths : StartImage(n)
               \/ \E n \in Chunks, fault \in Faults : PushImageChunk(n, fault)
               \/ \E n \in Windows, fault \in Faults : HeadRoom(n, fault)
               \/ \E fault \in Faults : Commit(fault)

Calls == CallEnds \/ CommitDrained \/ Notify

Worker == \/ Finish \/ TreatErased \/ TreatErase \/ TreatWrite
          \/ \E fault \in Faults : TreatFails(fault)

Next == ~broken /\ (Application \/ Calls \/ Worker \/ Release \/ Reset
                    \/ \E who \in {"app", "idle"} : Resume(who))

Spec == Init /\ [][Next]_vars

(* The idle task runs again and again, calls go on, and a busy flash is     *)
(* ready at last: the queue is found workable again and again.              *)
Going == Calls \/ Release \/ \E who \in {"app", "idle"} : Resume(who)

FairSpec == Spec /\ WF_vars(~broken /\ Going) /\ SF_vars(~broken /\ Worker)
-----------------------------------------------------------------------------
(* An image that is ready for the boot loader is in the storage as it was   *)
(* pushed, whatever was posted, cancelled or failed before.                 *)
CandidateIntact == state = "ready" /\ ~spoiled => Intact(image, total)

(* Headroom is what it says: between what was pushed and ErasedUntilOffset  *)
(* the storage is erased, or holds already what a chunk that failed was to  *)
(* put there, also when an operation failed or a reset came in between.     *)
ErasedAhead == state = "acquiring" /\ call = "ready" /\ ~spoiled =>
  \A u \in Units : current <= u /\ u < erased => dev.flash[u] \in {Blank, Unit(image, u)}

(* No transaction is lost or in two places: each is free, queued or being   *)
(* filled.                                                                  *)
PoolSound == ~broken =>
  /\ Len(free) + Len(ops) + (IF cur = NoNode THEN 0 ELSE 1) = Capacity
  /\ ToSet(free) \cup ToSet(ops) \cup ({cur} \ {NoNode}) = Node

(* The pages of an image are written one after the other from its first on  *)
(* (the assert on StorageAddressWritten), also after an image was given up  *)
(* in the middle.                                                           *)
PagesInOrder == worker # "none" /\ phase = "take" /\ ops # <<>> /\ op.kind = "write" /\ ~spoiled
                => op.addr = written

(* What is queued is written or given up, whoever works the queue off and   *)
(* whatever fails.                                                          *)
QueueServed == ops # <<>> ~> (ops = <<>> \/ broken)

(* OTA_CommitImage comes to an end: it does not wait for ever for a queue   *)
(* that the idle task works off meanwhile.                                  *)
CommitEnds == call = "commit" ~> (call # "commit" \/ broken)
=============================================================================
