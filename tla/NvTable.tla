------------------------------ MODULE NvTable ------------------------------
(***************************************************************************)
(* The extended features of services/NVM/Source/NV_Flash.c: the copy of    *)
(* the RAM table that the active page begins with, what the start-up does  *)
(* with the records when the firmware, or the other of two images, comes   *)
(* with another table, the conversion of a page of the legacy format, and  *)
(* the entries registered and erased while the program runs.               *)
(*                                                                         *)
(* Abstractions. A page copy is one step (NvFlash has its steps and the    *)
(* resets between them); records are saved at once, not queued. An element *)
(* of a data set is a value <<id, index, n>>, n the save that wrote it, 0  *)
(* the default the firmware has in RAM. Reading bytes under another        *)
(* element size, or past a record, is Garbage. Positions of a page are in  *)
(* entries: the table, its end marker, the meta tags.                      *)
(***************************************************************************)
EXTENDS Integers, Sequences, FiniteSetsExt, SequencesExt

CONSTANTS Firmwares,   \* each firmware's [version, table]
          Dynamic,     \* the entries an application registers at run time
          Variants,    \* values of gNvDualImageSupport_d
          Cells,       \* positions of a page
          MaxSaves,    \* bound on saves
          MaxBoots,    \* bound on starts
          MaxChanges   \* bound on entries registered and erased

NoId == 0              \* gNvInvalidDataEntry_c, and gNvCopyAll_c as an argument
Nothing == <<0>>       \* nothing to restore
Garbage == <<1>>
Blank == [all |-> FALSE, id |-> NoId, i |-> 0, size |-> 0, vals |-> <<>>]

VARIABLES dual,       \* gNvDualImageSupport_d
          table,      \* pNVM_DataTable; `set`: pData is not NULL
          version,    \* mNvFlashTableVersion
          page,       \* the active page: version, table and meta tags
          legacy,     \* it has the legacy format
          tableSize,  \* mNvTableSizeInFlash
          last,       \* NvLastMetaInfoAddress; 0: gEmptyPageMetaAddress_c
          live,       \* mNvModuleInitialized
          critical,   \* mNvCriticalSectionFlag > 0
          pending,    \* mNvCopyOperationIsPending
          saves, boots, changes,
          kept,       \* the values that must still be there
          loose       \* entries whose records the stored table may not describe
vars == <<dual, table, version, page, legacy, tableSize, last, live, critical, pending, saves, boots, changes, kept, loose>>

(* The tables of a firmware with two data sets, and of one that has only    *)
(* the first.                                                               *)
DataSet(id) == [id |-> id, count |-> 1, size |-> 1, mirrored |-> TRUE, set |-> TRUE]
TwoFirmwares == {[version |-> 1, table |-> <<DataSet(1), DataSet(2)>>], [version |-> 2, table |-> <<DataSet(1)>>]}

Stored(e) == [id |-> e.id, count |-> e.count, size |-> e.size, mirrored |-> e.mirrored]
Default(id, i) == <<id, i, 0>>
IdsOf(t) == {t[k].id : k \in DOMAIN t}
IndexOf(t, id) == Min({k \in DOMAIN t : t[k].id = id})
FirstMeta(n) == n + 2          \* gNvFirstMetaOffset_c
Positions == 1 .. Cells
NoMetas == [p \in Positions |-> Blank]
Void(e) == e.count = 0 \/ e.size = 0

Init == /\ dual = FALSE /\ table = <<>> /\ version = 0
        /\ page = [version |-> 0, table |-> <<>>, meta |-> NoMetas] /\ legacy = FALSE
        /\ tableSize = 0 /\ last = 0 /\ live = FALSE /\ critical = FALSE /\ pending = FALSE
        /\ saves = 0 /\ boots = 0 /\ changes = 0 /\ kept = {} /\ loose = {}
-----------------------------------------------------------------------------
(* Reading records.                                                        *)

(* The bytes of element i of a record, read with elements of `size`.       *)
Element(r, i, size) == IF r.size # size \/ (r.all /\ i > Len(r.vals)) THEN Garbage
                       ELSE r.vals[IF r.all THEN i ELSE 1]

Covering(meta, n, id, i) == {p \in n .. last : meta[p].id = id /\ (meta[p].all \/ meta[p].i = i)}

(* What NvRestoreDataSet gives for element i of the data set id.           *)
Restored(id, i) ==
  LET at == Covering(page.meta, FirstMeta(tableSize), id, i)
  IN  IF at = {} THEN Nothing ELSE Element(page.meta[Max(at)], i, table[IndexOf(table, id)].size)

(* NvUpdateLastMetaInfoAddress: the last tag before the first blank one.   *)
LastMeta(meta, n) == LET end == Min({p \in FirstMeta(n) .. Cells : meta[p] = Blank})
                     IN  IF end = FirstMeta(n) THEN 0 ELSE end - 1
-----------------------------------------------------------------------------
(* The page copy. `t`: the RAM table; `up`: mNvTableUpdated; `ver`: the    *)
(* version of the running firmware; `n`: mNvTableSizeInFlash; `to`: the    *)
(* last tag; `skip`: the entry that is not copied.                         *)

(* NvGetEntryInfoNeedToAddInNVM.                                           *)
NeedToAdd(t, n) == {k \in DOMAIN t : ~Void(t[k]) /\ t[k].id \notin IdsOf(SubSeq(page.table, 1, n))}

(* NvSaveRamTable, or NvSaveAllDataSetEntry of a dual image: the entries   *)
(* in flash, those in RAM as they are there, then the new ones.            *)
SavedTable(t, n) ==
  IF ~dual THEN [k \in DOMAIN t |-> Stored(t[k])]
  ELSE LET InRam(id) == {k \in DOMAIN t : t[k].id = id /\ ~Void(t[k])}
           old == [k \in 1 .. n |-> IF InRam(page.table[k].id) = {} THEN page.table[k]
                                    ELSE Stored(t[Min(InRam(page.table[k].id))])]
           new == SelectSeq(t, LAMBDA e : ~Void(e) /\ e.id \notin IdsOf(SubSeq(page.table, 1, n)))
       IN  old \o [k \in DOMAIN new |-> Stored(new[k])]

InFlash(id) == id \in IdsOf(page.table)
FlashEntry(id) == page.table[IndexOf(page.table, id)]      \* NvGetTableEntry
EntryOf(t, id) == IF id \in IdsOf(t) THEN Stored(t[IndexOf(t, id)])
                  ELSE IF InFlash(id) THEN FlashEntry(id)
                  ELSE [id |-> NoId, count |-> 0, size |-> 0, mirrored |-> FALSE]

(* NvIsMetaInfoValid.                                                      *)
Valid(r, t, up, skip) == /\ r # Blank /\ r.id # skip
                         /\ r.id \in IdsOf(t) \/ (dual /\ (up => InFlash(r.id)))

(* NvIsNvTableChanged: the record is lost.                                 *)
Changed(r, t, up, ver) ==
  /\ up /\ r.id \in IdsOf(t) /\ InFlash(r.id)
  /\ LET f == FlashEntry(r.id)
         e == t[IndexOf(t, r.id)]
     IN  \/ f.mirrored # e.mirrored
         \/ f.size # e.size
         \/ f.count # e.count /\ (page.version = ver \/ (~r.all /\ r.i > e.count))

(* The elements that come from the old record, not from RAM.               *)
FromFlash(t, up, ver, id) ==
  LET e == EntryOf(t, id)
  IN  IF up /\ id \in IdsOf(t) /\ InFlash(id) THEN Min({e.count, FlashEntry(id).count}) ELSE e.count

(* Mutant: the full record is copied, without the newer elements.          *)
Unmerged(f, single, i, size) == Element(page.meta[f], i, size)

(* NvInternalRecordsUpdate: the newest of the full record and a single one.*)
Merged(f, single, i, size) ==
  IF single[i] = {} THEN Element(page.meta[f], i, size) ELSE Element(page.meta[Max(single[i])], i, size)

(* The records NvCopyRecord makes of those of one data set: the newest     *)
(* full one with what was saved of it since (NvInternalDefragmentedCopy,   *)
(* NvInternalCopy), or its single ones, each as it is. An entry the stored *)
(* table does not have is filled from RAM when elements are merged.        *)
CopyRecord(t, up, ver, id, ps) ==
  LET e == EntryOf(t, id)
      full == {p \in ps : page.meta[p].all}
      single == [i \in 1 .. e.count |-> {p \in ps : /\ ~page.meta[p].all /\ page.meta[p].i = i
                                                    /\ \A q \in full : q < p}]
      merge == \E i \in DOMAIN single : single[i] # {}
      n == IF up /\ merge /\ ~InFlash(id) THEN 0 ELSE FromFlash(t, up, ver, id)
      f == Max(full)
  IN  IF full # {}
      THEN {[all |-> TRUE, id |-> id, i |-> 0, size |-> e.size,
             vals |-> [i \in 1 .. e.count |-> IF i > n THEN Default(id, i) ELSE Merged(f, single, i, e.size)]]}
      ELSE {[all |-> FALSE, id |-> id, i |-> i, size |-> e.size,
             vals |-> <<Element(page.meta[Max(single[i])], i, e.size)>>] : i \in {j \in DOMAIN single : single[j] # {}}}

(* NvCopyPage. The tags are placed after a table of the old size (that of  *)
(* the active page, which is still the old one when the size is read       *)
(* again). A longer table reaches the tags that have been copied, which    *)
(* cannot be programmed again: the old page stays.                         *)
Copied(t, up, ver, n, to, skip) ==
  LET ps == {p \in FirstMeta(n) .. to : Valid(page.meta[p], t, up, skip) /\ ~Changed(page.meta[p], t, up, ver)}
      recs == UNION {CopyRecord(t, up, ver, id, {p \in ps : page.meta[p].id = id}) : id \in {page.meta[p].id : p \in ps}}
      seq == SetToSeq(recs)
      new == SavedTable(t, n)
      first == FirstMeta(n) + IF dual THEN Cardinality(NeedToAdd(t, n)) ELSE 0
      fits == seq = <<>> \/ Len(new) + 1 < first
  IN  [last |-> IF ~fits THEN to ELSE IF seq = <<>> THEN 0 ELSE first + Len(seq) - 1,
       page |-> IF ~fits THEN page
                ELSE [version |-> ver, table |-> new,
                      meta |-> [p \in Positions |-> IF p \in first .. first + Len(seq) - 1 THEN seq[p - first + 1]
                                                    ELSE Blank]]]

CopyPage(t, skip) == \E c \in {Copied(t, FALSE, version, tableSize, last, skip)} :
                        page' = c.page /\ last' = c.last /\ UNCHANGED tableSize
-----------------------------------------------------------------------------
(* Start-up.                                                               *)

(* RecoverNvEntry: the application takes entries as they are in flash.     *)
Recovered(t) == [k \in DOMAIN t |->
  IF k \in DOMAIN page.table /\ (t[k].id = page.table[k].id \/ ~t[k].set) /\ ~Void(page.table[k])
  THEN [id |-> page.table[k].id, count |-> page.table[k].count, size |-> page.table[k].size,
        mirrored |-> page.table[k].mirrored, set |-> TRUE]
  ELSE t[k]]

(* NvIsRamTableUpdated.                                                    *)
RamTableUpdated(t) ==
  \E k \in DOMAIN page.table :
    LET f == page.table[k]
    IN  IF f.id \notin IdsOf(t) THEN ~dual ELSE Stored(t[IndexOf(t, f.id)]) # f

(* NvInternalFormat, done twice by a dual image that finds nothing.        *)
Format(t, ver) ==
  LET stored == [k \in DOMAIN t |-> Stored(t[k])]
      new == IF dual' THEN SelectSeq(stored, LAMBDA e : ~Void(e)) ELSE stored
  IN  page' = [version |-> ver, table |-> new, meta |-> NoMetas] /\ tableSize' = Len(new) /\ last' = 0

(* What the documentation promises of the values saved: those of entries   *)
(* that did not change stay, those of an entry that got another number of  *)
(* elements too if the version is another one, up to the smaller number.   *)
Surviving(t, ver) ==
  {x \in kept :
     IF x[1] \notin IdsOf(t) THEN dual
     ELSE LET e == t[IndexOf(t, x[1])]
          IN  /\ InFlash(x[1])
              /\ LET f == FlashEntry(x[1])
                 IN  /\ f.size = e.size /\ f.mirrored = e.mirrored
                     /\ f.count = e.count \/ (page.version # ver /\ x[2] <= e.count)}

(* __NvModuleInit, after a reset, an update or a switch of the image.      *)
ModuleInit(fw, recover) ==
  LET t == IF recover THEN Recovered(fw.table) ELSE fw.table
      n == Len(page.table)
      l == LastMeta(page.meta, n)
      up == page.version # fw.version \/ RamTableUpdated(t) \/ (dual /\ NeedToAdd(t, n) # {})
  IN
  /\ boots < MaxBoots /\ ~legacy
  /\ \A j, k \in DOMAIN t : j # k /\ t[j].set /\ t[k].set => t[j].id # t[k].id
  /\ boots' = boots + 1
  /\ table' = t /\ version' = fw.version
  /\ live' = TRUE /\ critical' = FALSE /\ pending' = FALSE
  /\ IF page.table = <<>> THEN dual' \in Variants ELSE dual' = dual
  /\ \/ /\ page.table = <<>>
        /\ Format(t, fw.version)
        /\ UNCHANGED <<kept, loose>>
     \/ /\ page.table # <<>>
        /\ IF up THEN \E c \in {Copied(t, TRUE, fw.version, n, l, NoId)} :
                         page' = c.page /\ last' = c.last
           ELSE page' = page /\ last' = l
        /\ tableSize' = n
        /\ kept' = Surviving(t, fw.version)
        /\ UNCHANGED loose
  /\ UNCHANGED <<legacy, saves, changes>>

(* A device with the legacy firmware: its page, with records.              *)
LegacyPage(fw) ==
  /\ page.table = <<>> /\ dual' \in Variants
  /\ LET e == fw.table[1]
         v == [i \in 1 .. e.count |-> <<e.id, i, 1>>]
         n == Len(fw.table)
     IN  /\ page' = [version |-> 0, table |-> [k \in 1 .. n |-> Stored(fw.table[k])],
                     meta |-> [NoMetas EXCEPT ![FirstMeta(n)] =
                                 [all |-> TRUE, id |-> e.id, i |-> 0, size |-> e.size, vals |-> v]]]
         /\ kept' = {v[i] : i \in 1 .. e.count}
  /\ legacy' = TRUE /\ saves' = 1
  /\ UNCHANGED <<table, version, tableSize, last, live, critical, pending, boots, changes, loose>>

(* UpgradeLegacyTable: the page in the present format, with version 1.     *)
UpgradeLegacyTable ==
  /\ legacy /\ legacy' = FALSE
  /\ page' = [page EXCEPT !.version = 1]
  /\ UNCHANGED <<dual, table, version, tableSize, last, live, critical, pending, saves, boots, changes, kept, loose>>
-----------------------------------------------------------------------------
(* Running.                                                                *)

Write(r, xs) ==
  LET p == IF last = 0 THEN Min({q \in FirstMeta(tableSize) .. Cells : q > Len(page.table) + 1 /\ page.meta[q] = Blank})
           ELSE Min({q \in last + 1 .. Cells : page.meta[q] = Blank})
  IN  /\ page' = [page EXCEPT !.meta[p] = r]
      /\ last' = p
      /\ kept' = {x \in kept : \A y \in xs : <<x[1], x[2]>> # <<y[1], y[2]>>} \cup xs

(* A save of a whole data set, or of one element of it (NvWriteRecord).    *)
Save == /\ live /\ ~critical /\ ~pending /\ saves < MaxSaves
        /\ saves' = saves + 1
        /\ \E k \in DOMAIN table :
             LET e == table[k]
                 v == [i \in 1 .. e.count |-> <<e.id, i, saves + 1>>]
             IN  /\ e.set
                 /\ \/ /\ e.mirrored
                       /\ Write([all |-> TRUE, id |-> e.id, i |-> 0, size |-> e.size, vals |-> v],
                                 {v[i] : i \in 1 .. e.count})
                    \/ \E i \in 1 .. e.count :
                          Write([all |-> FALSE, id |-> e.id, i |-> i, size |-> e.size, vals |-> <<v[i]>>], {v[i]})
        /\ UNCHANGED <<dual, table, version, legacy, tableSize, live, critical, pending, boots, changes, loose>>

(* The page is full, or a copy was postponed (NvIdle).                     *)
PageCopy == /\ live /\ ~critical
            /\ CopyPage(table, NoId)
            /\ pending' = FALSE
            /\ UNCHANGED <<dual, table, version, legacy, live, critical, saves, boots, changes, kept, loose>>

(* NvSetCriticalSection and NvClearCriticalSection.                        *)
Critical == /\ live
            /\ critical \/ changes < MaxChanges
            /\ critical' = ~critical
            /\ UNCHANGED <<dual, table, version, page, legacy, tableSize, last, live, pending, saves, boots, changes, kept, loose>>

(* __NvEraseEntryFromStorage: a page copy without the entry. One that is   *)
(* postponed does not know of the entry any more, and an empty page keeps  *)
(* the table it has.                                                       *)
EraseEntryFromStorage(t, id) ==
  /\ IF critical THEN pending' = TRUE /\ UNCHANGED <<page, tableSize, last>>
     ELSE IF last # 0 THEN CopyPage(t, id) /\ UNCHANGED pending
     ELSE UNCHANGED <<page, tableSize, last, pending>>
  /\ loose' = IF critical \/ last = 0 THEN loose \cup {id} ELSE loose \ {id}
  /\ kept' = {x \in kept : x[1] # id}

(* __NvRegisterTableEntry with overwrite: the entry gets another geometry. *)
Overwrite(d) ==
  /\ live /\ d.id \in IdsOf(table)
  /\ changes < MaxChanges /\ changes' = changes + 1
  /\ \E t \in {[table EXCEPT ![IndexOf(table, d.id)] = d]} : table' = t /\ EraseEntryFromStorage(t, d.id)
  /\ UNCHANGED <<dual, version, legacy, live, critical, saves, boots>>

(* __NvRegisterTableEntry without it: the first slot with no data is       *)
(* taken, before any later one is looked at for the id.                    *)
Register(d) ==
  LET free == {k \in DOMAIN table : ~table[k].set}
  IN  /\ live /\ d.id \notin IdsOf(table) /\ free # {}
      /\ changes < MaxChanges /\ changes' = changes + 1
      /\ \E t \in {[table EXCEPT ![Min(free)] = d]} :
           /\ table' = t
           /\ IF critical THEN pending' = TRUE /\ UNCHANGED <<page, tableSize, last>>
              ELSE CopyPage(t, NoId) /\ UNCHANGED pending
      /\ kept' = {x \in kept : x[1] # table[Min(free)].id}
      /\ loose' = IF InFlash(d.id) /\ FlashEntry(d.id) # Stored(d) THEN loose \cup {d.id} ELSE loose
      /\ UNCHANGED <<dual, version, legacy, live, critical, saves, boots>>

(* NvEraseEntryFromStorage: the id stays in the slot.                      *)
EraseEntry ==
  /\ live
  /\ changes < MaxChanges /\ changes' = changes + 1
  /\ \E k \in DOMAIN table :
       /\ table[k].set
       /\ \E t \in {[table EXCEPT ![k].set = FALSE, ![k].count = 0, ![k].size = 0]} :
            table' = t /\ EraseEntryFromStorage(t, table[k].id)
  /\ UNCHANGED <<dual, version, legacy, live, critical, saves, boots>>

Next == \/ \E fw \in Firmwares, r \in BOOLEAN : ModuleInit(fw, r)
        \/ \E fw \in Firmwares : LegacyPage(fw)
        \/ UpgradeLegacyTable
        \/ Save \/ PageCopy \/ Critical \/ EraseEntry
        \/ \E d \in Dynamic : Overwrite(d)
        \/ \E d \in Dynamic : Register(d)

Spec == Init /\ [][Next]_vars
-----------------------------------------------------------------------------
TypeOK == /\ dual \in BOOLEAN /\ live \in BOOLEAN /\ critical \in BOOLEAN /\ pending \in BOOLEAN
          /\ tableSize \in Nat /\ last \in 0 .. Cells /\ saves \in 0 .. MaxSaves /\ boots \in 0 .. MaxBoots /\ changes \in 0 .. MaxChanges
          /\ DOMAIN page.meta = Positions

(* Whatever tables the firmwares have that were started, the values saved  *)
(* are there as far as README.md:98-102 promises, and no element is read   *)
(* with bytes of another; entries aside that were overwritten or erased    *)
(* in a critical section or on an empty page.                              *)
TableKept ==
  live => \A k \in DOMAIN table :
            table[k].set /\ table[k].id \notin loose =>
              \A i \in 1 .. table[k].count :
                LET v == Restored(table[k].id, i)
                IN  /\ v # Garbage
                    /\ \A x \in kept : <<x[1], x[2]>> = <<table[k].id, i>> => v = x
=============================================================================
