---------------------------------- MODULE Nvs ----------------------------------
(***************************************************************************)
(* zephyr/subsys/fs/nvs/nvs.c: a store of identified values in a ring of   *)
(* flash sectors. Data are written upwards from the start of a sector,     *)
(* allocation entries (ATEs) downwards from its end, where the last one is *)
(* reserved for closing the sector. A full sector is closed and what is    *)
(* still valid in the oldest one is copied to the next, which leaves that  *)
(* one to be erased.                                                       *)
(*                                                                         *)
(* An address counts cells of the size of an ATE, SectorSize of them to a  *)
(* sector. The lookup cache is not configured. A reset may come between    *)
(* all flash operations and in the middle of one: a cell being programmed, *)
(* or not blank when its sector is being erased, is left "bad".            *)
(***************************************************************************)
EXTENDS Integers, FiniteSetsExt

CONSTANTS Ids, Values,
          Large,       \* the values of two cells, the others take one
          None,        \* no value: not stored, or deleted
          SectorCount, SectorSize

VARIABLES flash,       \* contents of the cells
          ready, ate_wra, data_wra,
          pc,          \* next flash operation, or idle
          id, value,   \* arguments of nvs_write
          gc_count, gc_addr,
          mounting,    \* the garbage is collected by nvs_startup
          rc,          \* result of the last call
          kept,        \* the values each id may have for its user
          missed       \* the recovery of a sector has not found its last ATE
vars == <<flash, ready, ate_wra, data_wra, pc, id, value, gc_count, gc_addr, mounting, rc, kept, missed>>

Cells == 0 .. SectorCount * SectorSize - 1
Sector(addr) == addr \div SectorSize
Offset(addr) == addr % SectorSize
At(sector, offset) == sector * SectorSize + offset
SectorOf(addr) == {At(Sector(addr), o) : o \in 0 .. SectorSize - 1}
Advance(addr) == At((Sector(addr) + 1) % SectorCount, Offset(addr))

Special == "0xFFFF"
Blank == [kind |-> "blank"]
Bad == [kind |-> "bad"]
Data(v) == [kind |-> "data", value |-> v]
Len(v) == IF v = None THEN 0 ELSE IF v \in Large THEN 2 ELSE 1
Ate(i, v, offset) == [kind |-> "ate", id |-> i, len |-> Len(v), offset |-> offset]
Contents == {Blank, Bad} \cup {Data(v) : v \in Values}
            \cup {Ate(i, v, o) : i \in Ids \cup {Special}, v \in Values \cup {None}, o \in 0 .. SectorSize - 1}

Steps == {"idle", "space", "data", "ate", "close", "gc", "move", "copied", "gc_done", "erase",
          "restart", "next", "unused", "end", "clear"}

TypeOK == /\ flash \in [Cells -> Contents] /\ ready \in BOOLEAN
          /\ ate_wra \in Cells /\ data_wra \in Cells
          /\ pc \in Steps /\ id \in Ids /\ value \in Values \cup {None}
          /\ gc_count \in 0 .. SectorCount /\ gc_addr \in Cells
          /\ mounting \in BOOLEAN /\ rc \in {"ok", "ENOSPC", "EDEADLK", "ESPIPE"}
          /\ missed \in BOOLEAN
          /\ kept \in [Ids -> SUBSET (Values \cup {None})]

(* An area that was not used, or where another version of the store was    *)
(* stopped after its first data.                                           *)
Init == /\ ready = FALSE
        /\ \E c \in {Blank, Bad} : flash = [[i \in Cells |-> Blank] EXCEPT ![0] = c]
        /\ ate_wra = 0 /\ data_wra = 0 /\ pc = "idle"
        /\ id = (CHOOSE i \in Ids : TRUE) /\ value = None
        /\ gc_count = 0 /\ gc_addr = 0 /\ mounting = FALSE /\ rc = "ok"
        /\ kept = [i \in Ids |-> {None}] /\ missed = FALSE
--------------------------------------------------------------------------------
IsBlank(addr) == flash[addr] = Blank
AreaIsBlank(cells) == \A c \in cells : IsBlank(c)

nvs_ate_valid(c) == c.kind = "ate" /\ c.offset < SectorSize - 1
nvs_close_ate_valid(c) == nvs_ate_valid(c) /\ c.len = 0 /\ c.id = Special
Matches(addr, i) == nvs_ate_valid(flash[addr]) /\ flash[addr].id = i

(* The last valid ATE below a closing ATE that is not valid: its walk down *)
(* ends where the data of the ATEs found so far do.                        *)
nvs_recover_last_ate(close) ==
  LET walk[a \in Cells] ==   \* the lowest valid ATE above a, and the end of its data
        IF a = close - 1 THEN [last |-> a, dataEnd |-> At(Sector(close), 0)]
        ELSE LET above == walk[a + 1]
             IN IF a + 1 > above.dataEnd /\ nvs_ate_valid(flash[a + 1])
                THEN [last |-> a + 1, dataEnd |-> At(Sector(close), flash[a + 1].offset + flash[a + 1].len)]
                ELSE above
  IN walk[At(Sector(close), 0)].last

(* From an ATE to the one written before it; at the beginning of the ring  *)
(* the walk is back at ate_wra.                                            *)
nvs_prev_ate(addr) ==
  IF Offset(addr + 1) # SectorSize - 1 THEN addr + 1
  ELSE LET close == At((Sector(addr) + SectorCount - 1) % SectorCount, SectorSize - 1)
       IN CASE IsBlank(close) -> ate_wra
            [] nvs_close_ate_valid(flash[close]) -> At(Sector(close), flash[close].offset)
            [] OTHER -> nvs_recover_last_ate(close)

RECURSIVE Walk(_, _)
Walk(addr, i) ==   \* the newest ATE of i at addr or before it, or ate_wra
  IF Matches(addr, i) THEN addr
  ELSE LET before == nvs_prev_ate(addr) IN IF before = ate_wra THEN ate_wra ELSE Walk(before, i)
Find(i) == Walk(ate_wra, i)

Value(ateAddr) == IF flash[ateAddr].len = 0 THEN None
                  ELSE flash[At(Sector(ateAddr), flash[ateAddr].offset)].value

(* The ATEs from the newest to the oldest.                                 *)
RECURSIVE Back(_)
Back(addr) == {addr} \cup (LET before == nvs_prev_ate(addr) IN IF before = ate_wra THEN {} ELSE Back(before))

(* Mutant: older values count as well.                                     *)
FreeSpaceOfAll == (SectorCount - 1) * (SectorSize - 1)
                  - FoldSet(LAMBDA a, n : n + flash[a].len + 1, 0,
                            {a \in Back(ate_wra) : nvs_ate_valid(flash[a]) /\ flash[a].len > 0})

(* Room in the sectors but one, less what is the newest of its id; the     *)
(* walk for the newest does not ask whether an ATE is valid.               *)
RECURSIVE FirstOf(_, _)
FirstOf(addr, i) == IF (flash[addr].kind = "ate" /\ flash[addr].id = i) \/ nvs_prev_ate(addr) = ate_wra THEN addr
                    ELSE FirstOf(nvs_prev_ate(addr), i)
nvs_calc_free_space ==
  LET counted == {a \in Back(ate_wra) : nvs_ate_valid(flash[a]) /\ flash[a].len > 0
                                         /\ FirstOf(ate_wra, flash[a].id) = a}
  IN (SectorCount - 1) * (SectorSize - 1) - FoldSet(LAMBDA a, n : n + flash[a].len + 1, 0, counted)

(* nvs_read and nvs_read_hist; nvs_file_stat.                              *)
nvs_read(i) == LET found == Find(i) IN IF Matches(found, i) THEN Value(found) ELSE None
nvs_file_stat(i) == LET found == Find(i) IN IF Matches(found, i) THEN flash[found].len ELSE 0
--------------------------------------------------------------------------------
Return(r) == pc' = "idle" /\ rc' = r
Put(addr, c) == flash' = [flash EXCEPT ![addr] = c]
PutData(addr, v) == flash' = [c \in Cells |-> IF c \in addr .. addr + Len(v) - 1 THEN Data(v) ELSE flash[c]]
EraseSector(addr) == flash' = [c \in Cells |-> IF c \in SectorOf(addr) THEN Blank ELSE flash[c]]
call == <<id, value>>
gcVars == <<gc_count, gc_addr, mounting>>

(* nvs_write, and nvs_delete, up to its first flash operation.             *)
nvs_write(i, v) ==
  /\ pc = "idle" /\ ready
  /\ id' = i /\ value' = v
  /\ rc' = "ok"
  /\ IF nvs_read(i) = v THEN UNCHANGED <<pc, gc_count, kept>>
     ELSE pc' = "space" /\ gc_count' = 0 /\ kept' = [kept EXCEPT ![i] = @ \cup {v}]
  /\ UNCHANGED <<flash, ready, ate_wra, data_wra, gc_addr, mounting, missed>>

(* Mutant: no ATE is left for a deletion.                                  *)
RequiredNow == Len(value)

(* Mutant: one is left for the next deletion as well.                      *)
RequiredAlways == Len(value) + 1

(* An ATE is left for a deletion, which needs no more.                     *)
Required == IF value = None THEN 0 ELSE Len(value) + 1
Space == /\ pc = "space"
         /\ IF gc_count = SectorCount
            THEN Return("ENOSPC") /\ kept' = [kept EXCEPT ![id] = {nvs_read(id)} \cap @]
            ELSE /\ pc' = IF ate_wra < data_wra + Required THEN "close"
                          ELSE IF value = None THEN "ate" ELSE "data"
                 /\ UNCHANGED <<rc, kept>>
         /\ UNCHANGED <<flash, ready, ate_wra, data_wra, call, gcVars, missed>>

WriteData == /\ pc = "data" /\ PutData(data_wra, value)
             /\ data_wra' = data_wra + Len(value) /\ pc' = "ate"
             /\ UNCHANGED <<ready, ate_wra, call, gcVars, rc, kept, missed>>
WriteAte == /\ pc = "ate"
            /\ Put(ate_wra, Ate(id, value, Offset(data_wra - Len(value))))
            /\ ate_wra' = ate_wra - 1 /\ Return("ok")
            /\ kept' = [kept EXCEPT ![id] = {value}]
            /\ UNCHANGED <<ready, data_wra, call, gcVars, missed>>

(* nvs_sector_close.                                                       *)
CloseSector == /\ pc = "close"
               /\ Put(At(Sector(ate_wra), SectorSize - 1), Ate(Special, None, Offset(ate_wra + 1)))
               /\ ate_wra' = Advance(At(Sector(ate_wra), SectorSize - 2))
               /\ data_wra' = Advance(At(Sector(ate_wra), 0))
               /\ pc' = "gc"
               /\ UNCHANGED <<ready, call, gcVars, rc, kept, missed>>
--------------------------------------------------------------------------------
(* nvs_gc looks for the ATEs of the sector after the new one.              *)
GcBegin == /\ pc = "gc"
           /\ LET close == At(Sector(Advance(ate_wra)), SectorSize - 1)
              IN IF IsBlank(close) THEN pc' = "gc_done" /\ UNCHANGED gc_addr
                 ELSE /\ gc_addr' = IF nvs_close_ate_valid(flash[close])
                                    THEN At(Sector(close), flash[close].offset)
                                    ELSE nvs_recover_last_ate(close)
                      /\ pc' = "move"
           /\ UNCHANGED <<flash, ready, ate_wra, data_wra, call, gc_count, mounting, rc, kept, missed>>

(* What is not the newest of its id, or deleted, need not be copied.       *)
NeedsCopy(addr) == /\ nvs_ate_valid(flash[addr]) /\ flash[addr].len > 0
                   /\ Find(flash[addr].id) = addr
(* Mutant: the last ATE of the sector is not looked at.                    *)
AfterMoveEarly == IF Offset(gc_addr) >= SectorSize - 3 THEN pc' = "gc_done" /\ UNCHANGED gc_addr
                  ELSE pc' = "move" /\ gc_addr' = gc_addr + 1
AfterMove == IF Offset(gc_addr) = SectorSize - 2 THEN pc' = "gc_done" /\ UNCHANGED gc_addr
             ELSE pc' = "move" /\ gc_addr' = gc_addr + 1
Move == /\ pc = "move"
        /\ IF NeedsCopy(gc_addr)
           THEN /\ PutData(data_wra, Value(gc_addr))
                /\ data_wra' = data_wra + flash[gc_addr].len
                /\ pc' = "copied" /\ UNCHANGED gc_addr
           ELSE AfterMove /\ UNCHANGED <<flash, data_wra>>
        /\ UNCHANGED <<ready, ate_wra, call, gc_count, mounting, rc, kept, missed>>
Copied == /\ pc = "copied"
          /\ Put(ate_wra, [flash[gc_addr] EXCEPT !.offset = Offset(data_wra - flash[gc_addr].len)])
          /\ ate_wra' = ate_wra - 1
          /\ AfterMove
          /\ UNCHANGED <<ready, data_wra, call, gc_count, mounting, rc, kept, missed>>

(* nvs_add_gc_done_ate, if there is room for it.                           *)
AddGcDone == Put(ate_wra, Ate(Special, None, Offset(data_wra))) /\ ate_wra' = ate_wra - 1
GcDone == /\ pc = "gc_done"
          /\ IF ate_wra >= data_wra + 1 THEN AddGcDone ELSE UNCHANGED <<flash, ate_wra>>
          /\ pc' = "erase"
          /\ UNCHANGED <<ready, data_wra, call, gcVars, rc, kept, missed>>
GcErase == /\ pc = "erase"
           /\ EraseSector(Advance(ate_wra))
           /\ IF mounting THEN pc' = "end" /\ UNCHANGED gc_count
              ELSE pc' = "space" /\ gc_count' = gc_count + 1
           /\ UNCHANGED <<ready, ate_wra, data_wra, call, gc_addr, mounting, rc, kept, missed>>
--------------------------------------------------------------------------------
(* nvs_startup. The sector to write is an open one after a closed one; if  *)
(* none is closed it is the first, or the last of two when that is in use. *)
Closed == {s \in 0 .. SectorCount - 1 : ~ IsBlank(At(s, SectorSize - 1))}
OpenAfterClosed == {s \in Closed : (s + 1) % SectorCount \notin Closed}
WriteSector == IF OpenAfterClosed # {}
               THEN ((CHOOSE s \in OpenAfterClosed : \A t \in OpenAfterClosed : s <= t) + 1) % SectorCount
               ELSE IF IsBlank(At(SectorCount - 1, SectorSize - 2)) THEN 0 ELSE SectorCount - 1

(* Down from the last valid ATE to the first blank one.                    *)
RECURSIVE FirstBlank(_, _)
FirstBlank(addr, dataEnd) ==
  IF addr < dataEnd \/ IsBlank(addr) THEN [ate |-> addr, data |-> dataEnd, full |-> FALSE]
  ELSE IF ~ nvs_ate_valid(flash[addr]) THEN FirstBlank(addr - 1, dataEnd)
  ELSE LET end == At(Sector(addr), flash[addr].offset + flash[addr].len)
       IN IF addr = end /\ flash[addr].len > 0 THEN [ate |-> addr, data |-> end, full |-> TRUE]
          ELSE FirstBlank(addr - 1, end)

(* Mutant: data that were written without an ATE are written over.         *)
AfterAte(ate, data) == data

(* Data that were written without an ATE are passed over.                  *)
AfterData(ate, data) == IF \A c \in data .. ate - 1 : IsBlank(c) THEN data
                        ELSE CHOOSE d \in data .. ate :
                               /\ \A c \in d .. ate - 1 : IsBlank(c)
                               /\ d > data /\ ~ IsBlank(d - 1)

HasGcDone(ate) == \E a \in ate + 1 .. At(Sector(ate), SectorSize - 2) : Matches(a, Special) /\ flash[a].len = 0

nvs_mount ==
  /\ pc = "idle" /\ ~ ready /\ mounting' = TRUE
  /\ IF Closed = 0 .. SectorCount - 1
     THEN Return("EDEADLK") /\ UNCHANGED <<ate_wra, data_wra>>
     ELSE LET last == nvs_recover_last_ate(At(WriteSector, SectorSize - 1))
              first == FirstBlank(last, At(WriteSector, 0))
              start == At(WriteSector, 0)
              top == At(WriteSector, SectorSize - 2)
              data == AfterData(first.ate, first.data)
          IN IF first.full THEN Return("ESPIPE") /\ UNCHANGED <<ate_wra, data_wra>>
             ELSE /\ IF AreaIsBlank(SectorOf(Advance(first.ate)))
                     THEN /\ ate_wra' = first.ate /\ data_wra' = data
                          /\ pc' = IF first.ate = At(0, SectorSize - 2) /\ data # start THEN "unused" ELSE "end"
                     ELSE IF HasGcDone(first.ate)
                     THEN ate_wra' = first.ate /\ data_wra' = first.data /\ pc' = "next"
                     ELSE ate_wra' = top /\ data_wra' = start /\ pc' = "restart"
                  /\ UNCHANGED rc
  /\ UNCHANGED <<flash, ready, call, gc_count, gc_addr, kept, missed>>

(* The sector after is erased, the unfinished collection is restarted, or  *)
(* a sector with data but without ATEs is erased, which is done in the     *)
(* first sector only: the address, with its sector, is compared.           *)
EraseNext == /\ pc = "next" /\ EraseSector(Advance(ate_wra)) /\ pc' = "end"
             /\ UNCHANGED <<ready, ate_wra, data_wra, call, gcVars, rc, kept, missed>>
Restart == /\ pc = "restart" /\ EraseSector(ate_wra) /\ pc' = "gc"
           /\ UNCHANGED <<ready, ate_wra, data_wra, call, gcVars, rc, kept, missed>>
EraseUnused == /\ pc = "unused" /\ EraseSector(ate_wra) /\ pc' = "end"
               /\ data_wra' = At(Sector(ate_wra), 0)
               /\ UNCHANGED <<ready, ate_wra, call, gcVars, rc, kept, missed>>

(* An empty sector gets a mark at once. What the user finds is kept now.   *)
EndMount == /\ pc = "end"
            /\ IF Offset(ate_wra) = SectorSize - 2 THEN AddGcDone ELSE UNCHANGED <<flash, ate_wra>>
            /\ ready' = TRUE /\ Return("ok")
            /\ mounting' = FALSE
            /\ kept' = [i \in Ids |-> {nvs_read(i)} \cap kept[i]]
            /\ UNCHANGED <<data_wra, call, gc_count, gc_addr, missed>>

nvs_unmount == /\ pc = "idle" /\ ready /\ ready' = FALSE
               /\ UNCHANGED <<flash, ate_wra, data_wra, pc, call, gcVars, rc, kept, missed>>

(* nvs_clear erases the sectors in turn; until it ends any value may be    *)
(* found again.                                                            *)
nvs_clear == /\ pc = "idle" /\ ready
             /\ pc' = "clear" /\ gc_addr' = 0
             /\ kept' = [i \in Ids |-> Values \cup {None}]
             /\ UNCHANGED <<flash, ready, ate_wra, data_wra, call, gc_count, mounting, rc, missed>>
Clear == /\ pc = "clear" /\ EraseSector(gc_addr)
         /\ IF Sector(gc_addr) = SectorCount - 1
            THEN Return("ok") /\ ready' = FALSE /\ kept' = [i \in Ids |-> {None}] /\ UNCHANGED gc_addr
            ELSE gc_addr' = Advance(gc_addr) /\ UNCHANGED <<pc, rc, ready, kept>>
         /\ UNCHANGED <<ate_wra, data_wra, call, gc_count, mounting, missed>>
--------------------------------------------------------------------------------
Programmed == CASE pc \in {"ate", "copied", "gc_done"} -> {ate_wra}
                [] pc = "data" \/ (pc = "move" /\ NeedsCopy(gc_addr)) -> {data_wra}
                [] pc = "close" -> {At(Sector(ate_wra), SectorSize - 1)}
                [] pc = "end" /\ Offset(ate_wra) = SectorSize - 2 -> {ate_wra}
                [] OTHER -> {}
Erased == CASE pc \in {"erase", "next"} -> SectorOf(Advance(ate_wra))
            [] pc \in {"restart", "unused"} -> SectorOf(ate_wra)
            [] pc = "clear" -> SectorOf(gc_addr)
            [] OTHER -> {}
Reset == /\ \/ UNCHANGED <<flash, missed>>
            \/ /\ missed' = (missed \/ (pc = "close" /\ nvs_ate_valid(flash[ate_wra + 1])
                                      /\ nvs_recover_last_ate(At(Sector(ate_wra), SectorSize - 1)) # ate_wra + 1))
               /\ flash' = [c \in Cells |-> IF c \in Programmed \/ (c \in Erased /\ ~ IsBlank(c)) THEN Bad ELSE flash[c]]
         /\ ready' = FALSE /\ pc' = "idle" /\ rc' = "ok"
         /\ ate_wra' = 0 /\ data_wra' = 0 /\ id' = (CHOOSE i \in Ids : TRUE) /\ value' = None
         /\ gc_count' = 0 /\ gc_addr' = 0 /\ mounting' = FALSE
         /\ UNCHANGED kept

FlashStep == \/ Space \/ WriteData \/ WriteAte \/ CloseSector
             \/ GcBegin \/ Move \/ Copied \/ GcDone \/ GcErase
             \/ EraseNext \/ Restart \/ EraseUnused \/ EndMount \/ Clear
Next == \/ \E i \in Ids, v \in Values \cup {None} : nvs_write(i, v)
        \/ nvs_mount \/ nvs_unmount \/ nvs_clear \/ FlashStep \/ Reset
Spec == Init /\ [][Next]_vars
--------------------------------------------------------------------------------
(* What is read is what was last written; a write, or a clearing, that a   *)
(* reset interrupts has happened or not, and after the next mount for good.*)
(* Except where the recovery of a sector with a torn closing ATE misses a  *)
(* deletion directly above the data, and the deleted value is back.        *)
ReadsKept == ready /\ pc = "idle" /\ ~ missed => \A i \in Ids : kept[i] = {nvs_read(i)} /\ nvs_file_stat(i) = Len(nvs_read(i))

(* The free space is what the stored values leave of all sectors but one.  *)
FreeSpaceExact ==
  ready /\ pc = "idle" =>
    nvs_calc_free_space = (SectorCount - 1) * (SectorSize - 1)
                          - FoldSet(LAMBDA i, n : n + Len(nvs_read(i)) + (IF nvs_read(i) = None THEN 0 ELSE 1), 0, Ids)

(* After any reset the store can be mounted again.                         *)
Mounts == rc \notin {"EDEADLK", "ESPIPE"}

(* A deletion always finds space, as nvs_write says (1 ate to always allow *)
(* a delete).                                                              *)
DeletionsFit == rc = "ENOSPC" => value # None

(* Only blank cells are programmed.                                        *)
ProgramsBlank == \A c \in Programmed : IsBlank(c)
================================================================================
