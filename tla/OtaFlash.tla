------------------------------- MODULE OtaFlash -------------------------------
(***************************************************************************)
(* services/OtaSupport/Source/OtaExternalFlash.c and OtaInternalFlash.c:   *)
(* the storage an image is downloaded to, behind the functions of          *)
(* OtaFlashOps_t.                                                          *)
(*                                                                         *)
(* A storage d holds its driver, what each unit of the flash holds, the    *)
(* buffer the driver accumulates a page (external) or a phrase (internal)  *)
(* in, and the sectors the internal driver remembers to have erased. An    *)
(* operation returns [ok, d]; `fault` is where in it the flash fails: what *)
(* it has erased or programmed below that place stays so.                  *)
(***************************************************************************)
EXTENDS Integers, Sequences, SequencesExt

CONSTANTS Page,     \* units of a page, and of a phrase of the internal flash
          Sector,   \* units of an erase sector
          Size,     \* units of the partition
          Blank,    \* an erased unit
          Zero,     \* the padding of the last page
          Junk      \* a unit programmed twice with different data

(* The pages and the sectors of the flash, the partition of the image.      *)
ASSUME GeometryAssumption == {Page, Sector} \subseteq Nat \ {0} /\ Size \in Nat

Units == 0 .. Size - 1
SectorOf(u) == u \div Sector
PageOf(u) == u \div Page

BlankBuffer == [i \in 0 .. Page - 1 |-> Blank]
NewStorage(driver, content) ==
  [driver |-> driver, flash |-> content, erased |-> {},
   buf |-> BlankBuffer, offs |-> 0, level |-> 0]

(* A unit of an image is <<image, place>>.                                  *)
Cell == {Blank, Zero, Junk} \cup (Nat \X Nat)
Storage == [driver : {"external", "internal"}, flash : [Units -> Cell], erased : SUBSET Nat,
            buf : [0 .. Page - 1 -> Cell], offs : Nat, level : Nat]

Done(ok, d) == [ok |-> ok, d |-> d]

(* A page that cannot be programmed, or the sector of a page that cannot be *)
(* erased.                                                                  *)
NoFault == [op |-> "none", at |-> 0]
Faults == {NoFault} \cup [op : {"erase", "program"}, at : {u \in Units : u % Page = 0}]
ProgramFails(fault, offs, size) == fault.op = "program" /\ fault.at \in offs .. offs + size - 1
Reached(sectors, fault) ==
  {s \in sectors : fault.op = "erase" /\ SectorOf(fault.at) \in sectors => s < SectorOf(fault.at)}

(* Programming clears bits: only an erased unit takes any value.            *)
Merged(old, new) == IF new = Blank THEN old
                    ELSE IF old \in {Blank, new} \/ new = Zero THEN new ELSE Junk

(* PLATFORM_WriteExternalFlash, HAL_FlashProgramUnaligned.                  *)
Programmed(d, offs, data) ==
  [d EXCEPT !.flash = [u \in Units |-> IF u \in offs .. offs + Len(data) - 1
                                       THEN Merged(d.flash[u], data[u - offs + 1])
                                       ELSE d.flash[u]]]

ErasedSectors(d, sectors) ==
  [d EXCEPT !.flash = [u \in Units |-> IF SectorOf(u) \in sectors THEN Blank ELSE d.flash[u]]]

BufferSeq(d) == [i \in 1 .. Page |-> d.buf[i - 1]]

(* Sectors of an area, its end rounded up to a sector.                      *)
SectorsOf(offs, size) == SectorOf(offs) .. SectorOf(offs + size - 1)
InPartition(offs, size) == offs + size <= Size
-----------------------------------------------------------------------------
(* External flash.                                                          *)

(* ExternalFlash_FlushWriteBuffer.                                          *)
ExternalFlush(d, fault) ==
  IF ProgramFails(fault, d.offs, Page) THEN Done(FALSE, d)
  ELSE Done(TRUE, [Programmed(d, d.offs, BufferSeq(d))
                     EXCEPT !.buf = BlankBuffer, !.level = 0])

(* The buffer when the data has reached page p.                             *)
PageBuffer(d, p, offs, data) ==
  [i \in 0 .. Page - 1 |-> LET u == p * Page + i
                           IN IF u \in offs .. offs + Len(data) - 1 THEN data[u - offs + 1]
                              ELSE IF p = PageOf(offs) THEN d.buf[i] ELSE Blank]
Buffered(d, p, offs, data) ==
  [d EXCEPT !.buf = PageBuffer(d, p, offs, data), !.offs = p * Page,
            !.level = (IF p = PageOf(offs) THEN @ - offs ELSE -p * Page)
                      + IF p < PageOf(offs + Len(data)) THEN (p + 1) * Page ELSE offs + Len(data)]

(* ExternalFlash_WriteData: a page is written when the data reaches its end, *)
(* up to a page that fails; data of the size of a page is not buffered.     *)
ExternalWrite(d, offs, data, fault) ==
  LET first == PageOf(offs)
      end   == offs + Len(data)
      last  == PageOf(end)
      stop  == IF ProgramFails(fault, first * Page, (last - first) * Page)
               THEN PageOf(fault.at) ELSE last
  IN IF ~InPartition(offs, Len(data)) THEN Done(FALSE, d)
     ELSE IF Len(data) = Page
          THEN IF ProgramFails(fault, offs, Page) THEN Done(FALSE, d)
               ELSE Done(TRUE, Programmed(d, offs, data))
     ELSE Done(stop = last,
            [(IF stop < last \/ end % Page # 0 THEN Buffered(d, stop, offs, data)
              ELSE [d EXCEPT !.buf = BlankBuffer, !.offs = end - Page, !.level = 0])
               EXCEPT !.flash = [u \in Units |->
                        IF PageOf(u) \in first .. stop - 1
                        THEN Merged(d.flash[u], PageBuffer(d, PageOf(u), offs, data)[u % Page])
                        ELSE d.flash[u]]])

(* ExternalFlash_EraseBlock, without a bitmap of the erased sectors         *)
(* (gOtaEraseBeforeImageBlockReq_c is 1).                                   *)
ExternalErase(d, offs, size, fault) ==
  LET sectors == SectorsOf(offs, size)
      done    == Reached(sectors, fault)
  IN IF ~InPartition(offs, size) THEN Done(FALSE, d)
     ELSE Done(done = sectors, ErasedSectors(d, done))
-----------------------------------------------------------------------------
(* Internal flash.                                                          *)

(* InternalFlash_PrepareForWrite and EraseArea: each sector is erased once. *)
InternalErase(d, offs, size, fault) ==
  LET new  == SectorsOf(offs, size) \ d.erased
      done == Reached(new, fault)
  IN IF ~InPartition(offs, size) THEN Done(FALSE, d)
     ELSE Done(done = new, [ErasedSectors(d, done) EXCEPT !.erased = @ \cup done])

Filled(d) == SubSeq(BufferSeq(d), 1, IF d.level < Page THEN d.level ELSE Page)

(* InternalFlash_FlushWriteBuffer.                                          *)
InternalFlush(d, fault) ==
  IF d.level = 0 THEN Done(TRUE, d)
  ELSE IF ProgramFails(fault, d.offs, Page) THEN Done(FALSE, d)
  ELSE Done(TRUE, [Programmed(d, d.offs, Filled(d)) EXCEPT !.level = 0])

(* Whole phrases go to the flash, the rest to the buffer, which comes first. *)
InternalProgram(d, offs, data, fault) ==
  LET rest  == Len(data) % Page
      whole == Len(data) - rest
      fails == ProgramFails(fault, offs, whole)
      put   == IF fails THEN fault.at - offs ELSE whole
  IN IF offs % Page # 0 THEN Done(FALSE, d)
     ELSE Done(~fails, [Programmed(d, offs, SubSeq(data, 1, put))
                        EXCEPT !.level = rest, !.offs = offs + whole,
                               !.buf = [i \in 0 .. Page - 1 |->
                                          IF i < rest THEN data[whole + i + 1] ELSE d.buf[i]]])

(* InternalFlash_WriteData: the phrase in the buffer is completed first.    *)
InternalWrite(d, offs, data, fault) ==
  LET e     == InternalErase(d, offs, Len(data), fault)
      open  == e.d.level # 0
      same  == offs \in e.d.offs .. e.d.offs + Page - 1
      taken == IF ~open \/ ~same THEN 0
               ELSE LET left == e.d.offs + Page - offs
                    IN IF Len(data) < left THEN Len(data) ELSE left
      b     == IF same THEN [e.d EXCEPT !.buf = [i \in 0 .. Page - 1 |->
                                LET u == e.d.offs + i
                                IN IF u \in offs .. offs + taken - 1 THEN data[u - offs + 1]
                                   ELSE e.d.buf[i]],
                              !.level = @ + taken]
               ELSE [e.d EXCEPT !.buf = [i \in 0 .. Page - 1 |->
                                           IF i < e.d.level THEN e.d.buf[i] ELSE Blank],
                                !.level = Page]
      f     == InternalFlush(b, fault)
  IN IF ~InPartition(offs, Len(data)) THEN Done(FALSE, d)
     ELSE IF ~e.ok THEN e
     ELSE IF ~open THEN InternalProgram(e.d, offs, data, fault)
     ELSE IF b.level < Page THEN Done(TRUE, b)
     ELSE IF ~f.ok THEN f
     ELSE InternalProgram(f.d, offs + taken, SubSeq(data, taken + 1, Len(data)), fault)
-----------------------------------------------------------------------------
(* The functions of OtaFlashOps_t.                                          *)
Write(d, offs, data, fault) == IF d.driver = "external" THEN ExternalWrite(d, offs, data, fault)
                               ELSE InternalWrite(d, offs, data, fault)
Flush(d, fault) == IF d.driver = "external" THEN ExternalFlush(d, fault)
                   ELSE InternalFlush(d, fault)

(* ReadData: what is still in the buffer is read from there.                *)
Read(d, u) == IF u - d.offs \in 0 .. d.level - 1 /\ u - d.offs < Page
              THEN d.buf[u - d.offs] ELSE d.flash[u]

(* EraseArea: from a sector boundary; returns where the next erase begins.  *)
EraseArea(d, offs, size, fault) ==
  LET r == IF size <= 0 THEN Done(TRUE, d)
           ELSE IF d.driver = "external" THEN ExternalErase(d, offs, size, fault)
           ELSE InternalErase(d, offs, size, fault)
  IN IF offs % Sector # 0 THEN [ok |-> FALSE, d |-> d, next |-> offs]
     ELSE [ok |-> r.ok, d |-> r.d, next |-> (SectorOf(offs + size) + 1) * Sector]
=============================================================================
