------------------------------- MODULE NvFlash -------------------------------
(***************************************************************************)
(* The flash side of services/NVM/Source/NV_Flash.c: two virtual pages,    *)
(* the records and meta information tags written into the active one, the  *)
(* copy to the other page when it is full, the erase of the old page one   *)
(* sector per call of NvIdle, the format, and the start-up that finds out  *)
(* from the flash alone which page to use. Power may be lost between any   *)
(* two flash operations and inside one.                                    *)
(*                                                                         *)
(* Abstractions. A page is a row of cells: a page counter, a meta tag or   *)
(* one element each take one. Data sets are mirrored in RAM. Flash         *)
(* operations succeed unless power is lost in them. The NVM mutex is held  *)
(* whenever pc # "ready": only the application's own writes to its RAM     *)
(* interleave with an operation.                                           *)
(***************************************************************************)
EXTENDS Integers, Sequences, FiniteSetsExt

CONSTANTS Entry,         \* the identifiers of the data sets (DataEntryID)
          ElementsCount, \* ElementsCount[e]: elements of data set e
          Val,           \* RAM values of an element
          PageSize,      \* cells of a virtual page
          QueueSize,     \* gNvPendingSavesQueueSize_c
          MinimumFree,   \* gNvMinimumFreeBytesCountStart_c, in cells
          Blank,         \* an erased cell
          Torn,          \* a cell whose program or erase was interrupted
          NoVal,         \* "nothing to restore"
          Calls,         \* the save functions the application calls, and how
          MaxSaves,      \* bound on save and format calls
          MaxPages,      \* bound on the page counter when a copy begins
          MaxCrashes     \* bound on power losses

Page == {0, 1}           \* gFirstVirtualPage_c, gSecondVirtualPage_c
NoPage == 2              \* gVirtualPageNone_c
Other(p) == 1 - p
Addr == 0 .. PageSize - 1
Top == 0
FirstMeta == 1           \* gNvFirstMetaOffset_c
Bottom == PageSize - 1
EmptyMeta == -1          \* gEmptyPageMetaAddress_c
SectorOf(a) == (2 * a) \div PageSize

Elem == UNION {{e} \X (1 .. ElementsCount[e]) : e \in Entry}

(* The check of the page size when the storage is first formatted: every   *)
(* element saved on its own fits, and MinimumFree cells are left (128      *)
(* bytes unless the application says otherwise).                           *)
ASSUME ElementsAssumption == IsFiniteSet(Entry) /\ ElementsCount \in [Entry -> Nat \ {0}]
ASSUME PageAssumption == /\ PageSize \in Nat /\ MinimumFree \in Nat \ {0} /\ QueueSize \in Nat \ {0}
                         /\ 2 * Cardinality(Elem) + MinimumFree <= PageSize - 2

(* A queued or executed save (NVM_TableEntryInfo_t): element i of e, or    *)
(* the whole table entry. NoReq: the local variable is not in use.         *)
Req == {[e |-> x[1], i |-> x[2], all |-> FALSE] : x \in Elem}
       \cup {[e |-> e, i |-> 1, all |-> TRUE] : e \in Entry}
NoReq == [e |-> NoVal, i |-> 0, all |-> FALSE]
Size(r) == IF r.all THEN ElementsCount[r.e] ELSE 1
Saved(r, k) == <<r.e, IF r.all THEN k + 1 ELSE r.i>>
ElemsOf(r) == {Saved(r, k) : k \in 0 .. Size(r) - 1}

(* A meta information tag (NVM_RecordMetaInfo_t) whose validation bytes    *)
(* agree; `off` is NvmRecordOffset.                                        *)
TagOf(r, off) == [e |-> r.e, i |-> r.i, all |-> r.all, off |-> off]
Meta == {TagOf(r, off) : r \in Req, off \in Addr}
IsMeta(c) == c \notin {Blank, Torn} \cup Val

(* Validation bytes and counters tell what a cell holds.                   *)
ASSUME CellAssumption == /\ Blank # Torn
                         /\ {Blank, Torn, NoVal} \cap (Val \cup Meta \cup Nat) = {}
                         /\ Val \cap Meta = {}

VARIABLES flash,       \* flash[p][a]
          ram,         \* the application's data sets
          active,      \* mNvActivePageId
          lastMeta,    \* NvLastMetaInfoAddress of each page; 0: never set
          pageCounter, \* mNvPageCounter
          copyPending, \* mNvCopyOperationIsPending
          erase,       \* mNvErasePgCmdStatus
          queue,       \* mNvPendingSavesQueue
          pc,          \* where the operation holding the mutex is
          by,          \* the function on whose behalf it runs
          op,          \* its local variables
          saves, crashes \* what is used of the bounds

ramVars  == <<active, lastMeta, pageCounter, copyPending, erase, queue>>
bounds   == <<saves, crashes>>
vars == <<flash, ram, ramVars, pc, by, op, bounds>>

Idle == [req |-> NoReq, hold |-> NoReq, rec |-> 0, mt |-> 0, k |-> 0, src |-> 0]
-----------------------------------------------------------------------------
(* Reading the flash.                                                      *)

IsBlank(f) == \A a \in Addr : f[a] = Blank
DirtySectors(f) == {SectorOf(a) : a \in {b \in Addr : f[b] # Blank}}

(* IsVirtualPageValid.                                                     *)
ValidPage(f) == f[Top] = f[Bottom] /\ f[Top] \notin {Blank, Torn}

(* Mutant: the first page wins whenever it is valid.                       *)
FirstPage(fl) == IF ValidPage(fl[0]) THEN 0 ELSE IF ValidPage(fl[1]) THEN 1 ELSE NoPage

(* NvInitStorageSystem: the page the system starts on.                     *)
BootPage(fl) == CASE ValidPage(fl[0]) /\ ValidPage(fl[1]) ->
                       IF fl[0][Top] >= fl[1][Top] THEN 0 ELSE 1
                  [] ValidPage(fl[0]) /\ ~ValidPage(fl[1]) -> 0
                  [] ~ValidPage(fl[0]) /\ ValidPage(fl[1]) -> 1
                  [] OTHER -> NoPage

(* NvUpdateLastMetaInfoAddress: the last valid tag before the first blank  *)
(* cell; 0, left by the start-up code, when there are only invalid tags.   *)
LastMetaOf(f) ==
  LET Found(a) == IsMeta(f[a]) /\ \A b \in FirstMeta .. a : f[b] # Blank
  IN  IF f[FirstMeta] = Blank THEN EmptyMeta
      ELSE CHOOSE a \in 0 .. Bottom - 1 :
             (a = 0 \/ Found(a)) /\ \A b \in a + 1 .. Bottom - 1 : ~Found(b)

(* NvRestoreData for one element: the newest tag that covers it.           *)
Covers(c, x) == IsMeta(c) /\ c.e = x[1] /\ (c.all \/ c.i = x[2])

RestoredFrom(f, last, x) ==
  IF \A a \in FirstMeta .. last : ~Covers(f[a], x) THEN NoVal
  ELSE LET m == f[CHOOSE a \in FirstMeta .. last :
                    Covers(f[a], x) /\ \A b \in a + 1 .. last : ~Covers(f[b], x)]
       IN  f[m.off + IF m.all THEN x[2] - 1 ELSE 0]

(* What the next start-up would restore.                                   *)
Contents(f) == [x \in Elem |-> RestoredFrom(f, LastMetaOf(f), x)]

Recovered(fl) == CASE BootPage(fl) = 0 -> Contents(fl[0])
                   [] BootPage(fl) = 1 -> Contents(fl[1])
                   [] BootPage(fl) = NoPage -> [x \in Elem |-> NoVal]

(* Mutant: the last tag is counted as free.                                *)
FreeSpaceOver(f, last) == CASE last = EmptyMeta -> PageSize - 2
                            [] last = 0         -> 0
                            [] OTHER            -> f[last].off - (last - 1)

(* NvGetPageFreeSpace.                                                     *)
FreeSpace(f, last) == CASE last = EmptyMeta -> PageSize - 2
                        [] last = 0         -> 0
                        [] OTHER            -> f[last].off - (last + 1)

(* Mutant: only the first cell is looked at.                               *)
AvailableFirst(f, a, n) == a >= 0 /\ a + n <= PageSize /\ (n > 0 => f[a] = Blank)

(* NvIsMemoryAreaAvailable.                                                *)
Available(f, a, n) == a >= 0 /\ a + n <= PageSize /\ \A b \in a .. a + n - 1 : f[b] = Blank
-----------------------------------------------------------------------------
(* The pending-save queue.                                                 *)

(* The slot that absorbs request r: the first of the same data set that is *)
(* a full save, or becomes one, or is for the same element.                *)
Absorbing(q, r) == {j \in DOMAIN q : q[j].e = r.e /\ (q[j].all \/ r.all \/ q[j].i = r.i)}

Absorb(q, r) == LET j == Min(Absorbing(q, r))
                IN  IF r.all THEN [q EXCEPT ![j] = r] ELSE q

(* NvLookAheadInPendingSaveQueue: the loop from Head to Tail sees nothing  *)
(* of a full queue.                                                        *)
PendingSave(e, i) == /\ Len(queue) < QueueSize
                     /\ \E j \in DOMAIN queue : queue[j].e = e /\ (queue[j].all \/ queue[j].i = i)
-----------------------------------------------------------------------------
(* NvWriteRecord. Place: where NvMetaAndRecordAddressRegulate puts record  *)
(* and tag, below the last valid record and after the last valid tag, past *)
(* whatever an interrupted write left there.                               *)
Place(f, last, r) ==
  LET n    == Size(r)
      rec0 == IF last = EmptyMeta THEN Bottom - n ELSE f[last].off - n
      mt0  == IF last = EmptyMeta THEN FirstMeta ELSE last + 1
      d    == Min({PageSize} \cup {i \in Addr : Available(f, rec0 - i * n, n)})
      m    == Min({PageSize} \cup {i \in Addr : Available(f, mt0 + i, 1)})
  IN  [fits |-> n + 2 < FreeSpace(f, last) - d * n - m, rec |-> rec0 - d * n, mt |-> mt0 + m]

Fits(r) == /\ ~copyPending
           /\ Size(r) + 2 <= FreeSpace(flash[active], lastMeta[active])
           /\ Place(flash[active], lastMeta[active], r).fits

(* NvCopyPage begins: the other page is erased first if it is not blank.   *)
BeginCopy(f, o) ==
  /\ pageCounter < MaxPages
  /\ by' = f
  /\ op' = [o EXCEPT !.src = lastMeta[active], !.mt = FirstMeta, !.rec = Bottom, !.k = 0]
  /\ pc' = IF IsBlank(flash[Other(active)]) THEN "scan" ELSE "blank"

(* Write request r for function f; a record that does not fit asks for a   *)
(* page copy, which the synchronous callers make at once.                  *)
WriteRecord(f, r, hold) ==
  LET o == [Idle EXCEPT !.req = r, !.hold = hold]
      place == Place(flash[active], lastMeta[active], r)
  IN
  \/ /\ Fits(r)
     /\ pc' = "data"
     /\ by' = f
     /\ op' = [o EXCEPT !.rec = place.rec, !.mt = place.mt]
     /\ UNCHANGED <<copyPending, queue>>
  \/ /\ ~Fits(r)
     /\ copyPending' = TRUE
     /\ \/ /\ f \in {"sync", "full"}
           /\ BeginCopy(f, o)
           /\ UNCHANGED queue
        \/ /\ f \in {"idle", "syncAgain"}
           /\ pc' = "ready" /\ by' = "none" /\ op' = Idle
           /\ UNCHANGED queue
        \/ /\ f = "fullAgain"         \* gNVM_SaveRequestRecursive_c
           /\ pc' = "add" /\ by' = "full" /\ op' = o
           /\ queue' = Append(queue, hold)

(* NvAddSaveRequestToQueue: absorbed, appended, or, when the queue is      *)
(* full, appended once NvProcessFirstSaveInQueue has written its head.     *)
AddRequest(r) ==
  \/ /\ Absorbing(queue, r) # {}
     /\ queue' = Absorb(queue, r)
     /\ UNCHANGED <<pc, by, op>>
  \/ /\ Absorbing(queue, r) = {} /\ Len(queue) < QueueSize
     /\ queue' = Append(queue, r)
     /\ UNCHANGED <<pc, by, op>>
  \/ /\ Absorbing(queue, r) = {} /\ Len(queue) = QueueSize
     /\ queue' = Tail(queue)
     /\ pc' = "again" /\ by' = "full"
     /\ op' = [Idle EXCEPT !.req = Head(queue), !.hold = r]

(* When that head could not be written even after a page copy, the call    *)
(* goes on to add it again, its status still gNVM_SaveRequestRecursive_c:  *)
(* the loop ends only through a later head that is written.                *)
Add == /\ pc = "add"
       /\ AddRequest(op.req)
       /\ UNCHANGED <<flash, ram, active, lastMeta, pageCounter, copyPending, erase, bounds>>

(* The write of the popped head, or the second write after a page copy.    *)
Again == /\ pc = "again"
         /\ WriteRecord(by, op.req, op.hold)
         /\ UNCHANGED <<flash, ram, active, lastMeta, pageCounter, erase, bounds>>

(* NvWriteRecordToFlash: the record cell by cell, read from RAM as it is   *)
(* programmed, then the tag that makes it valid.                           *)
WriteData == /\ pc = "data"
             /\ flash' = [flash EXCEPT ![active][op.rec + op.k] = ram[Saved(op.req, op.k)]]
             /\ op' = [op EXCEPT !.k = @ + 1]
             /\ pc' = IF op.k + 1 = Size(op.req) THEN "meta" ELSE "data"
             /\ UNCHANGED <<ram, ramVars, by, bounds>>

WriteMeta ==
  /\ pc = "meta"
  /\ flash' = [flash EXCEPT ![active][op.mt] = TagOf(op.req, op.rec)]
  /\ lastMeta' = [lastMeta EXCEPT ![active] = op.mt]
  /\ queue' = CASE by = "idle" -> Tail(queue)
                [] by \in {"full", "fullAgain"} -> Append(queue, op.hold)
                [] OTHER -> queue
  /\ pc' = IF by = "idle" THEN "drain" ELSE "ready"
  /\ by' = IF by = "idle" THEN "idle" ELSE "none"
  /\ op' = Idle
  /\ UNCHANGED <<ram, active, pageCounter, copyPending, erase, bounds>>
-----------------------------------------------------------------------------
(* NvCopyPage, from the newest tag of the active page to the oldest. `mt`  *)
(* and `rec` are the next tag address and the last record address of the   *)
(* other page, `src` the tag being copied.                                 *)

EraseDirty(p) ==
  LET s == Min(DirtySectors(flash[p]))
  IN  flash' = [flash EXCEPT ![p] = [a \in Addr |-> IF SectorOf(a) = s THEN Blank ELSE @[a]]]

EraseMirror == /\ pc = "blank"
               /\ EraseDirty(Other(active))
               /\ pc' = IF Cardinality(DirtySectors(flash[Other(active)])) = 1 THEN "scan" ELSE "blank"
               /\ UNCHANGED <<ram, ramVars, by, op, bounds>>

(* Mutant: older tags of a copied record are copied again.                 *)
NeverCopied(m) == FALSE

(* NvIsRecordCopied: the other page has a tag that supersedes m.           *)
IsRecordCopied(m) ==
  \E a \in FirstMeta .. op.mt - 1 :
    LET d == flash[Other(active)][a]
    IN  IsMeta(d) /\ d.e = m.e /\ (d.all \/ (~m.all /\ d.i = m.i))

(* Tags the copy does not skip: single elements about to be saved are      *)
(* skipped, counting on the pending save to write them again.              *)
Copyable(a) == LET m == flash[active][a]
               IN  /\ IsMeta(m)
                   /\ ~IsRecordCopied(m)
                   /\ m.all \/ ~PendingSave(m.e, m.i)

(* Mutant: single elements are copied apart from their full save.          *)
NoFullSave(e, a) == {}

(* NvGetTblEntryMetaAddrFromId: the newest full save of e up to tag a.     *)
FullSaves(e, a) == {b \in FirstMeta .. a : IsMeta(flash[active][b]) /\ flash[active][b].e = e
                                             /\ flash[active][b].all}

(* The tag the copy of tag a gets: single elements are merged into the     *)
(* full save they update (NvInternalDefragmentedCopy), if there is one.    *)
CopiedReq(a) == LET m == flash[active][a]
                IN  IF m.all \/ FullSaves(m.e, a) # {}
                    THEN [e |-> m.e, i |-> 1, all |-> TRUE]
                    ELSE [e |-> m.e, i |-> m.i, all |-> FALSE]

Scan ==
  LET todo == {a \in FirstMeta .. op.src : Copyable(a)}
  IN
  /\ pc = "scan"
  /\ \/ /\ todo # {}
        /\ LET r == CopiedReq(Max(todo))
           IN  op' = [op EXCEPT !.src = Max(todo), !.rec = @ - Size(r), !.k = 0]
        /\ pc' = "copyData"
        /\ UNCHANGED <<lastMeta, pageCounter>>
     \/ /\ todo = {}
        /\ lastMeta' = [lastMeta EXCEPT ![Other(active)] = IF op.mt = FirstMeta THEN EmptyMeta
                                                           ELSE op.mt - 1]
        /\ pageCounter' = pageCounter + 1
        /\ pc' = "top"
        /\ UNCHANGED op
  /\ UNCHANGED <<flash, ram, active, copyPending, erase, queue, by, bounds>>

(* The value of the k-th copied cell: the newest one up to tag `src`.      *)
CopyData ==
  LET r == CopiedReq(op.src)
  IN
  /\ pc = "copyData"
  /\ flash' = [flash EXCEPT ![Other(active)][op.rec + op.k] =
                              RestoredFrom(flash[active], op.src, Saved(r, op.k))]
  /\ op' = [op EXCEPT !.k = @ + 1]
  /\ pc' = IF op.k + 1 = Size(r) THEN "copyMeta" ELSE "copyData"
  /\ UNCHANGED <<ram, ramVars, by, bounds>>

CopyMeta ==
  /\ pc = "copyMeta"
  /\ flash' = [flash EXCEPT ![Other(active)][op.mt] = TagOf(CopiedReq(op.src), op.rec)]
  /\ op' = [op EXCEPT !.mt = @ + 1, !.src = @ - 1, !.k = 0]
  /\ pc' = "scan"
  /\ UNCHANGED <<ram, ramVars, by, bounds>>

(* NvSaveRamTable: the counter at the top, then the one at the bottom,     *)
(* which makes the page valid.                                             *)
WriteTop == /\ pc = "top"
            /\ flash' = [flash EXCEPT ![Other(active)][Top] = pageCounter]
            /\ pc' = "bottom"
            /\ UNCHANGED <<ram, ramVars, by, op, bounds>>

(* Mutant: the page id is read after it was updated.                       *)
EraseOther(p) == [pending |-> TRUE, page |-> Other(p), sector |-> 0]

(* NvSetErasePgCmdStatus, and the end of NvCopyPage.                       *)
EraseOf(p) == [pending |-> TRUE, page |-> p, sector |-> 0]

WriteBottom ==
  /\ pc = "bottom"
  /\ flash' = [flash EXCEPT ![Other(active)][Bottom] = pageCounter]
  /\ erase' = EraseOf(active)
  /\ active' = Other(active)
  /\ copyPending' = FALSE
  /\ pc' = CASE by = "idle" -> "sector" [] by = "sync" -> "wipe"
             [] by = "full" -> "again"  [] by = "boot" -> "restore"
  /\ by' = CASE by = "idle" -> "idle" [] by = "sync" -> "syncAgain"
             [] by = "full" -> "fullAgain" [] by = "boot" -> "boot"
  /\ op' = [op EXCEPT !.rec = 0, !.mt = 0, !.k = 0, !.src = 0]
  /\ UNCHANGED <<ram, lastMeta, pageCounter, queue, bounds>>

(* __NvSyncSave erases the whole old page before it writes again.          *)
EraseOldPage ==
  /\ pc = "wipe"
  /\ EraseDirty(erase.page)
  /\ \/ /\ Cardinality(DirtySectors(flash[erase.page])) = 1
        /\ lastMeta' = [lastMeta EXCEPT ![erase.page] = EmptyMeta]
        /\ erase' = [erase EXCEPT !.pending = FALSE]
        /\ pc' = "again"
     \/ /\ Cardinality(DirtySectors(flash[erase.page])) > 1
        /\ UNCHANGED <<lastMeta, erase, pc>>
  /\ UNCHANGED <<ram, active, pageCounter, copyPending, queue, by, op, bounds>>
-----------------------------------------------------------------------------
(* Mutant: a page copy asked for is not made.                              *)
IdleTaskNoCopy ==
  /\ pc = "ready" /\ ~copyPending
  /\ pc' = IF erase.pending THEN "sector" ELSE "drain"
  /\ erase.pending \/ queue # <<>>
  /\ by' = "idle" /\ op' = Idle
  /\ UNCHANGED <<flash, ram, ramVars, bounds>>

(* __NvIdle: a pending copy, then one sector of a pending erase, and, with *)
(* neither, the pending saves in order until the queue is empty or a       *)
(* record does not fit.                                                    *)
IdleTask ==
  /\ pc = "ready"
  /\ \/ /\ copyPending
        /\ BeginCopy("idle", Idle)
     \/ /\ ~copyPending /\ erase.pending
        /\ pc' = "sector" /\ by' = "idle" /\ op' = Idle
     \/ /\ ~copyPending /\ ~erase.pending /\ queue # <<>>
        /\ pc' = "drain" /\ by' = "idle" /\ op' = Idle
  /\ UNCHANGED <<flash, ram, ramVars, bounds>>

(* Mutant: one sector past the page is erased.                             *)
EraseSectorPast ==
  /\ pc = "sector"
  /\ LET p == erase.page
         s == erase.sector
     IN  /\ flash' = [flash EXCEPT ![p] = [a \in Addr |-> IF SectorOf(a) = s THEN Blank ELSE @[a]]]
         /\ erase' = [erase EXCEPT !.sector = s + 1, !.pending = s < 2]
         /\ UNCHANGED lastMeta
  /\ pc' = "ready" /\ by' = "none" /\ op' = Idle
  /\ UNCHANGED <<ram, active, pageCounter, copyPending, queue, bounds>>

EraseSector ==
  /\ pc = "sector"
  /\ LET p == erase.page
         s == erase.sector
     IN  \/ /\ s < 2
            /\ flash' = [flash EXCEPT ![p] = [a \in Addr |-> IF SectorOf(a) = s THEN Blank ELSE @[a]]]
            /\ erase' = [erase EXCEPT !.sector = s + 1]
            /\ UNCHANGED lastMeta
         \/ /\ s = 2
            /\ lastMeta' = [lastMeta EXCEPT ![p] = EmptyMeta]
            /\ erase' = [erase EXCEPT !.pending = FALSE]
            /\ UNCHANGED flash
  /\ pc' = "ready" /\ by' = "none" /\ op' = Idle
  /\ UNCHANGED <<ram, active, pageCounter, copyPending, queue, bounds>>

Drain == /\ pc = "drain"
         /\ \/ /\ queue = <<>>
               /\ pc' = "ready" /\ by' = "none"
               /\ UNCHANGED <<op, copyPending, queue>>
            \/ /\ queue # <<>>
               /\ WriteRecord("idle", Head(queue), NoReq)
         /\ UNCHANGED <<flash, ram, active, lastMeta, pageCounter, erase, bounds>>
-----------------------------------------------------------------------------
(* The application: its RAM, NvSaveOnIdle, NvSyncSave and NvFormat.        *)

ChangeRam(x, v) == /\ by # "boot"
                   /\ ram' = [ram EXCEPT ![x] = v]
                   /\ UNCHANGED <<flash, ramVars, pc, by, op, bounds>>

Call(r, way) == /\ pc = "ready"
                /\ saves < MaxSaves
                /\ <<way, r.all>> \in Calls
                /\ saves' = saves + 1

SaveOnIdle(r) == /\ Call(r, "idle")
                 /\ AddRequest(r)
                 /\ UNCHANGED <<flash, ram, active, lastMeta, pageCounter, copyPending, erase, crashes>>

SyncSave(r) == /\ Call(r, "sync")
               /\ WriteRecord("sync", r, NoReq)
               /\ UNCHANGED <<flash, ram, active, lastMeta, pageCounter, erase, crashes>>

(* A blank counter reads as 0xFFFFFFFF, and one more is 0.                 *)
Format == /\ pc = "ready"
          /\ saves < MaxSaves
          /\ saves' = saves + 1
          /\ pageCounter' = IF flash[active][Top] = Blank THEN 0 ELSE flash[active][Top] + 1
          /\ pc' = "format" /\ by' = "format" /\ op' = Idle
          /\ UNCHANGED <<flash, ram, active, lastMeta, copyPending, erase, queue, crashes>>

(* NvInternalFormat: both pages are erased, then the first one is used.    *)
FormatErase ==
  /\ pc = "format"
  /\ LET dirty == {p \in Page : ~IsBlank(flash[p])}
     IN  \/ /\ dirty # {}
            /\ EraseDirty(Min(dirty))
            /\ UNCHANGED <<active, pc>>
         \/ /\ dirty = {}
            /\ active' = 0
            /\ pc' = "formatTop"
            /\ UNCHANGED flash
  /\ UNCHANGED <<ram, lastMeta, pageCounter, copyPending, erase, queue, by, op, bounds>>

FormatTop == /\ pc = "formatTop"
             /\ flash' = [flash EXCEPT ![active][Top] = pageCounter]
             /\ pc' = "formatBottom"
             /\ UNCHANGED <<ram, ramVars, by, op, bounds>>

FormatBottom ==
  /\ pc = "formatBottom"
  /\ flash' = [flash EXCEPT ![active][Bottom] = pageCounter]
  /\ lastMeta' = [lastMeta EXCEPT ![active] = EmptyMeta]
  /\ queue' = <<>>
  /\ pc' = IF by = "boot" THEN "restore" ELSE "ready"
  /\ by' = IF by = "boot" THEN "boot" ELSE "none"
  /\ UNCHANGED <<ram, active, pageCounter, copyPending, erase, op, bounds>>
-----------------------------------------------------------------------------
(* Power is lost between two flash operations, or in the middle of one:    *)
(* the cell programmed or the sector erased is then in no defined state.   *)

ProgramAt == CASE pc = "data"         -> <<active, op.rec + op.k>>
               [] pc = "meta"         -> <<active, op.mt>>
               [] pc = "copyData"     -> <<Other(active), op.rec + op.k>>
               [] pc = "copyMeta"     -> <<Other(active), op.mt>>
               [] pc = "top"          -> <<Other(active), Top>>
               [] pc = "bottom"       -> <<Other(active), Bottom>>
               [] pc = "formatTop"    -> <<active, Top>>
               [] pc = "formatBottom" -> <<active, Bottom>>

Programming == {"data", "meta", "copyData", "copyMeta", "top", "bottom", "formatTop", "formatBottom"}

Dirty(p) == <<p, Min(DirtySectors(flash[p]))>>

(* NvPostFwUpdateMaintenance: pages with a blank top counter that are not  *)
(* blank.                                                                  *)
Leftover == {p \in Page : flash[p][Top] = Blank /\ ~IsBlank(flash[p])}

EraseAt == CASE pc = "blank"  -> {Dirty(Other(active))}
             [] pc = "wipe"   -> {Dirty(erase.page)}
             [] pc = "sector" -> IF erase.sector < 2 THEN {<<erase.page, erase.sector>>} ELSE {}
             [] pc = "format" -> {Dirty(p) : p \in {q \in Page : ~IsBlank(flash[q])}}
             [] pc = "off"    -> {Dirty(p) : p \in Leftover}
             [] OTHER         -> {}

PowerLoss ==
  /\ crashes < MaxCrashes
  /\ crashes' = crashes + 1
  /\ \/ UNCHANGED flash
     \/ /\ pc \in Programming
        /\ flash' = [flash EXCEPT ![ProgramAt[1]][ProgramAt[2]] = Torn]
     \/ /\ EraseAt # {}
        /\ LET e == CHOOSE e \in EraseAt : \A f \in EraseAt : e[1] <= f[1]
           IN  flash' = [flash EXCEPT ![e[1]] = [a \in Addr |-> IF SectorOf(a) = e[2] THEN Torn ELSE @[a]]]
  /\ active' = NoPage
  /\ lastMeta' = [p \in Page |-> 0]
  /\ pageCounter' = 0
  /\ copyPending' = FALSE
  /\ erase' = [pending |-> FALSE, page |-> 0, sector |-> 0]
  /\ queue' = <<>>
  /\ pc' = "off" /\ by' = "boot" /\ op' = Idle
  /\ UNCHANGED <<ram, saves>>
-----------------------------------------------------------------------------
(* NvModuleInit.                                                           *)

(* Pages with no top counter are erased first.                             *)
Maintain == /\ pc = "off"
            /\ Leftover # {}
            /\ EraseDirty(Min(Leftover))
            /\ UNCHANGED <<ram, ramVars, pc, by, op, bounds>>

(* NvInitStorageSystem found no valid page, or the valid page has only     *)
(* invalid tags (NvGetPageFreeSpace fails): the storage is formatted.      *)
Unusable == LET p == BootPage(flash) IN p # NoPage => LastMetaOf(flash[p]) = 0

(* The other page is to be erased unless it is blank or valid.             *)
EraseRequest(p) == IF ValidPage(flash[Other(p)]) \/ IsBlank(flash[Other(p)]) THEN erase
                   ELSE EraseOf(Other(p))

BootFormat == /\ pc = "off"
              /\ Leftover = {}
              /\ Unusable
              /\ pageCounter' = 1
              /\ erase' = IF BootPage(flash) = NoPage THEN erase ELSE EraseRequest(BootPage(flash))
              /\ pc' = "format"
              /\ UNCHANGED <<flash, ram, active, lastMeta, copyPending, queue, by, op, bounds>>

(* The active page is known: its last tag is looked up, and the page is    *)
(* copied when it is nearly full.                                          *)
Boot ==
  LET p == BootPage(flash)
      last == LastMetaOf(flash[p])
  IN
  /\ pc = "off"
  /\ Leftover = {}
  /\ ~Unusable
  /\ active' = p
  /\ pageCounter' = flash[p][Top]
  /\ lastMeta' = [lastMeta EXCEPT ![p] = last]
  /\ erase' = EraseRequest(p)
  /\ \/ /\ FreeSpace(flash[p], last) < MinimumFree
        /\ op' = [Idle EXCEPT !.src = last, !.mt = FirstMeta, !.rec = Bottom]
        /\ pc' = IF IsBlank(flash[Other(p)]) THEN "scan" ELSE "blank"
     \/ /\ FreeSpace(flash[p], last) >= MinimumFree
        /\ pc' = "restore"
        /\ UNCHANGED op
  /\ UNCHANGED <<flash, ram, copyPending, queue, by, bounds>>

(* The application restores its data sets (NvRestoreDataSet).              *)
Restore ==
  /\ pc = "restore"
  /\ LET found(x) == RestoredFrom(flash[active], lastMeta[active], x)
     IN  ram' = [x \in Elem |-> IF found(x) = NoVal THEN ram[x] ELSE found(x)]
  /\ pc' = "ready" /\ by' = "none" /\ op' = Idle
  /\ UNCHANGED <<flash, ramVars, bounds>>
-----------------------------------------------------------------------------
Init == /\ flash = [p \in Page |-> [a \in Addr |-> Blank]]
        /\ ram \in [Elem -> Val]
        /\ active = NoPage
        /\ lastMeta = [p \in Page |-> 0]
        /\ pageCounter = 0
        /\ copyPending = FALSE
        /\ erase = [pending |-> FALSE, page |-> 0, sector |-> 0]
        /\ queue = <<>>
        /\ pc = "off" /\ by = "boot" /\ op = Idle
        /\ saves = 0 /\ crashes = 0

Running == \/ Add \/ Again \/ WriteData \/ WriteMeta
           \/ EraseMirror \/ Scan \/ CopyData \/ CopyMeta \/ WriteTop \/ WriteBottom
           \/ EraseOldPage \/ EraseSector \/ Drain
           \/ FormatErase \/ FormatTop \/ FormatBottom
           \/ Maintain \/ BootFormat \/ Boot \/ Restore

Next == \/ Running
        \/ IdleTask
        \/ \E x \in Elem, v \in Val : ChangeRam(x, v)
        \/ \E r \in Req : SaveOnIdle(r) \/ SyncSave(r)
        \/ Format
        \/ PowerLoss

(* The processor runs, and the task that calls NvIdle is scheduled.        *)
Fairness == WF_vars(Running) /\ WF_vars(IdleTask)

Spec == Init /\ [][Next]_vars /\ Fairness

(* A format (NvFormat, or the one of a start-up) begins while no erase is  *)
(* requested.                                                              *)
FormatWithoutErase == pc # "format" /\ pc' = "format" => ~erase'.pending

(* A format begins while the other page is not valid: interrupted, it      *)
(* would leave that page, and its older records, to the next start-up.     *)
FormatLastPage == pc # "format" /\ pc' = "format" =>
                    \A p \in Page \ {BootPage(flash)} : ~ValidPage(flash[p])

QuietSpec == Init /\ [][Next /\ FormatWithoutErase]_vars /\ Fairness
StoreSpec == Init /\ [][Next /\ FormatWithoutErase /\ FormatLastPage]_vars /\ Fairness
-----------------------------------------------------------------------------
TypeOK == /\ DOMAIN flash = Page
          /\ \A p \in Page :
               /\ DOMAIN flash[p] = Addr
               /\ \A a \in {Top, Bottom} : flash[p][a] \in {Blank, Torn} \cup Nat
               /\ \A a \in Addr \ {Top, Bottom} : flash[p][a] \in {Blank, Torn} \cup Val \cup Meta
          /\ ram \in [Elem -> Val]
          /\ active \in Page \cup {NoPage}
          /\ lastMeta \in [Page -> Addr \cup {EmptyMeta}]
          /\ pageCounter \in Nat
          /\ copyPending \in BOOLEAN
          /\ erase \in [pending : BOOLEAN, page : Page, sector : 0 .. 2]
          /\ queue \in Seq(Req) /\ Len(queue) <= QueueSize
          /\ by \in {"none", "boot", "idle", "sync", "syncAgain", "full", "fullAgain", "format"}
          /\ pc \in {"off", "ready", "again", "add", "blank", "scan", "wipe", "sector", "drain",
                     "format", "restore"} \cup Programming
          /\ op \in [req : Req \cup {NoReq}, hold : Req \cup {NoReq}, rec : Addr, mt : Addr,
                    k : Nat, src : Addr \cup {EmptyMeta}]

(* The system always runs on the page a restart would choose, and that     *)
(* page is valid: counters written last by the copy, never erased before.  *)
ActivePageValid == pc = "ready" => BootPage(flash) = active

(* What the RAM remembers of the active page is what a restart would find  *)
(* in the flash, and the tag scan meets a blank cell before the records    *)
(* (NV_Flash.c:6126-6127).                                                 *)
TagsFound == pc = "ready" =>
               /\ LastMetaOf(flash[active]) = lastMeta[active]
               /\ \A a \in FirstMeta .. lastMeta[active] :
                    IsMeta(flash[active][a]) => flash[active][a].off > lastMeta[active] + 1

(* A flash cell is programmed only once between two erases.                *)
OnlyBlankProgrammed ==
  [][\A p \in Page, a \in Addr :
       flash'[p][a] # flash[p][a] /\ flash'[p][a] \notin {Blank, Torn} => flash[p][a] = Blank]_vars

(* A page copy preserves what a restart would find of every element that   *)
(* no queued save is about to write again.                                 *)
CopyKeepsSettled ==
  [][WriteBottom =>
       \A x \in Elem : x \notin UNION {ElemsOf(queue[j]) : j \in DOMAIN queue}
                       => Recovered(flash')[x] = Recovered(flash)[x]]_vars

(* The copy made to write a record leaves room for it: the start-up check  *)
(* of the page size (NV_Flash.c:2600-2613) keeps MinimumFree cells spare.  *)
CopyMakesRoom == [][WriteBottom /\ by \in {"sync", "full"} => Fits(op.req)']_vars

(* Nothing but the tag that completes a save (or a format) changes what a  *)
(* restart restores: not a copy, an erase, a power loss or a start-up.     *)
Store == INSTANCE NvStore
  WITH Unit <- {ElemsOf(r) : r \in Req},
       stored <- Recovered(flash),
       saving <- IF pc \in {"data", "meta"} THEN ElemsOf(op.req) ELSE {},
       image <- [x \in Elem |->
                   IF pc \in {"data", "meta"} /\ \E k \in 0 .. op.k - 1 : x = Saved(op.req, k)
                   THEN flash[active][op.rec + (CHOOSE k \in 0 .. op.k - 1 : x = Saved(op.req, k))]
                   ELSE NoVal]

ImplementsStore == Store!SSpec

(* Every queued save is eventually written, unless power is lost.          *)
PendingSavesWritten == (pc # "off" /\ queue # <<>>) ~> (queue = <<>>)
=============================================================================
