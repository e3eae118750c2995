--------------------------- MODULE OtaImage_proofs ---------------------------
(***************************************************************************)
(* Proofs about what the storage holds: that headroom is erased, and that  *)
(* an image offered to the boot loader is the one that was pushed.         *)
(***************************************************************************)
EXTENDS Ota_proofs

(* Headroom for a window, or for an image, that ends on the boundary of a  *)
(* sector skips that sector (the end of an area is rounded up,             *)
(* OtaExternalFlash.c:504).                                                *)
WindowsInside == \A n \in Windows : n % Sector # 0
LengthsInside == \A n \in Lengths : n % Sector # 0

(* A chunk of a page passes the write buffer of the external driver.       *)
ChunksBuffered == (\E m \in Modes : ~m.queued /\ m.driver = "external") => Page \notin Chunks
-----------------------------------------------------------------------------
(* Units, pages and sectors.                                                *)

LEMMA SectorWithin ==
  ASSUME NEW a \in Nat, NEW b \in Nat, NEW x \in Nat
  PROVE  /\ a * Sector <= x <=> a <= SectorOf(x)
         /\ x < b * Sector <=> SectorOf(x) < b
         /\ SectorOf(x) \in Nat
<1>1. PICK p : p = SectorOf(x)
  OBVIOUS
<1>2. p \in Nat /\ p * Sector <= x /\ x < p * Sector + Sector /\ Sector \in Nat \ {0}
  BY <1>1, Geometry, Division DEF SectorOf
<1>3. ASSUME NEW c \in Nat
      PROVE  c * Sector <= x <=> c <= p
  <2>1. CASE c <= p
    <3>1. c * Sector <= p * Sector /\ c * Sector \in Nat /\ p * Sector \in Nat
      BY <2>1, <1>2
    <3> QED
      BY <3>1, <2>1, <1>2
  <2>2. CASE ~(c <= p)
    <3>1. p + 1 <= c /\ (p + 1) * Sector = p * Sector + Sector
      BY <2>2, <1>2
    <3>2. (p + 1) * Sector <= c * Sector /\ c * Sector \in Nat /\ p * Sector \in Nat
      BY <3>1, <1>2
    <3> QED
      BY <3>1, <3>2, <2>2, <1>2
  <2> QED
    BY <2>1, <2>2
<1>4. x < b * Sector <=> p < b
  <2>1. b * Sector <= x <=> b <= p
    BY <1>3
  <2>2. b * Sector \in Nat
    BY <1>2
  <2> QED
    BY <2>1, <2>2, <1>2
<1> QED
  BY <1>1, <1>2, <1>3, <1>4

(* The units an erasure reaches, from a sector boundary up to the next one *)
(* after its end.                                                           *)
EndOf(offs, size) == (SectorOf(offs + size) + 1) * Sector

LEMMA SectorsReached ==
  ASSUME NEW offs \in Nat, NEW size \in Nat \ {0}, offs % Sector = 0, (offs + size) % Sector # 0
  PROVE  /\ \A u \in Nat : SectorOf(u) \in SectorsOf(offs, size) <=> offs <= u /\ u < EndOf(offs, size)
         /\ offs + size <= EndOf(offs, size)
<1>1. PICK a : a = SectorOf(offs)
  OBVIOUS
<1>2. PICK e : e = SectorOf(offs + size)
  OBVIOUS
<1>3. a \in Nat /\ offs = a * Sector /\ Sector \in Nat \ {0}
  BY <1>1, Geometry, Division DEF SectorOf
<1>4. /\ e \in Nat /\ e * Sector <= offs + size /\ offs + size < e * Sector + Sector
      /\ offs + size = e * Sector + ((offs + size) % Sector) /\ e * Sector \in Nat
  <2>1. PICK x : x = offs + size
    OBVIOUS
  <2>2. x \in Nat /\ e = x \div Sector
    BY <1>2, <2>1 DEF SectorOf
  <2>3. e \in Nat /\ x = e * Sector + (x % Sector) /\ x % Sector \in 0 .. Sector - 1
    BY <2>2, Geometry, Division
  <2>4. e * Sector \in Nat
    BY <2>3, <1>3
  <2> QED
    BY <2>1, <2>2, <2>3, <2>4, <1>3
<1>5. e * Sector <= offs + size - 1
  <2>1. PICK m : m = (offs + size) % Sector
    OBVIOUS
  <2>2. m \in 0 .. Sector - 1 /\ m # 0
    BY <2>1, Geometry, Division
  <2> QED
    BY <2>1, <2>2, <1>3, <1>4
<1>6. SectorOf(offs + size - 1) = e
  <2>1. PICK x \in Nat : x = offs + size - 1
    OBVIOUS
  <2>2. e <= SectorOf(x) /\ SectorOf(x) \in Nat
    BY <2>1, <1>4, <1>5, SectorWithin
  <2>3. x < (e + 1) * Sector
    <3>1. (e + 1) * Sector = e * Sector + Sector
      BY <1>3, <1>4
    <3>2. PICK y : y = e * Sector
      OBVIOUS
    <3>3. x < y + Sector
      BY <3>2, <2>1, <1>3, <1>4
    <3> QED
      BY <3>1, <3>2, <3>3
  <2>4. SectorOf(x) < e + 1
    BY <2>1, <2>3, <1>4, SectorWithin
  <2> QED
    BY <2>1, <2>2, <2>4, <1>4
<1>7. EndOf(offs, size) = (e + 1) * Sector /\ (e + 1) * Sector = e * Sector + Sector
  BY <1>2, <1>3, <1>4 DEF EndOf
<1>8. ASSUME NEW u \in Nat
      PROVE  SectorOf(u) \in SectorsOf(offs, size) <=> offs <= u /\ u < EndOf(offs, size)
  <2>1. SectorOf(u) \in Nat /\ (a * Sector <= u <=> a <= SectorOf(u))
        /\ (u < (e + 1) * Sector <=> SectorOf(u) < e + 1)
    BY <1>3, <1>4, SectorWithin
  <2>2. SectorsOf(offs, size) = a .. e
    BY <1>1, <1>6 DEF SectorsOf
  <2> QED
    BY <2>1, <2>2, <1>3, <1>4, <1>7
<1>9. offs + size <= EndOf(offs, size)
  <2>1. PICK y : y = e * Sector
    OBVIOUS
  <2>2. y \in Nat /\ offs + size < y + Sector /\ EndOf(offs, size) = y + Sector
    BY <2>1, <1>4, <1>7
  <2> QED
    BY <2>2, <1>3
<1> QED
  BY <1>8, <1>9

(* A unit and its place in its page.                                        *)
LEMMA PlaceInPage ==
  ASSUME NEW u \in Nat
  PROVE  /\ PageOf(u) \in Nat /\ PageOf(u) * Page \in Nat
         /\ PageOf(u) * Page <= u /\ u < PageOf(u) * Page + Page
         /\ u % Page = u - PageOf(u) * Page /\ u % Page \in 0 .. Page - 1
<1>1. PICK p : p = PageOf(u)
  OBVIOUS
<1>2. p \in Nat /\ u = p * Page + (u % Page) /\ u % Page \in 0 .. Page - 1 /\ Page \in Nat \ {0}
  BY <1>1, Geometry, Division DEF PageOf
<1>3. p * Page \in Nat
  BY <1>2
<1> QED
  BY <1>1, <1>2, <1>3
-----------------------------------------------------------------------------
(* What the flash operations do to its contents.                            *)

LEMMA MergedIs ==
  ASSUME NEW old, NEW new
  PROVE  (old \in {Blank, new} => Merged(old, new) = new) /\ Merged(old, Blank) = old
BY DEF Merged

LEMMA ProgrammedIs ==
  ASSUME NEW d \in Storage, NEW offs, NEW data, NEW p, p = Programmed(d, offs, data)
  PROVE  /\ \A u \in Units : p.flash[u] = IF u \in offs .. offs + Len(data) - 1
                                          THEN Merged(d.flash[u], data[u - offs + 1]) ELSE d.flash[u]
         /\ p.driver = d.driver /\ p.erased = d.erased /\ p.buf = d.buf /\ p.offs = d.offs /\ p.level = d.level
BY DEF Programmed, Storage

LEMMA ErasedIs ==
  ASSUME NEW d \in Storage, NEW sectors, NEW p, p = ErasedSectors(d, sectors)
  PROVE  /\ \A u \in Units : p.flash[u] = IF SectorOf(u) \in sectors THEN Blank ELSE d.flash[u]
         /\ p.driver = d.driver /\ p.erased = d.erased /\ p.buf = d.buf /\ p.offs = d.offs /\ p.level = d.level
BY DEF ErasedSectors, Storage

(* The buffer of a page, unit by unit.                                      *)
LEMMA PageBufferAt ==
  ASSUME NEW d \in Storage, NEW u \in Nat, NEW offs \in Nat, NEW data
  PROVE  PageBuffer(d, PageOf(u), offs, data)[u - PageOf(u) * Page]
           = IF u \in offs .. offs + Len(data) - 1 THEN data[u - offs + 1]
             ELSE IF PageOf(u) = PageOf(offs) THEN d.buf[u - PageOf(u) * Page] ELSE Blank
<1>1. PICK p : p = PageOf(u)
  OBVIOUS
<1>2. PICK i : i = u - p * Page
  OBVIOUS
<1>3. p \in Nat /\ i \in 0 .. Page - 1 /\ p * Page + i = u
  <2>1. p * Page \in Nat /\ p \in Nat /\ p * Page <= u /\ u < p * Page + Page /\ Page \in Nat
    BY <1>1, PlaceInPage, Geometry
  <2> QED
    BY <2>1, <1>2
<1>4. PageBuffer(d, p, offs, data)[i]
        = LET x == p * Page + i
          IN IF x \in offs .. offs + Len(data) - 1 THEN data[x - offs + 1]
             ELSE IF p = PageOf(offs) THEN d.buf[i] ELSE Blank
  BY <1>3 DEF PageBuffer
<1> QED
  BY <1>1, <1>2, <1>3, <1>4

(* ExternalFlash_WriteData: the pages from that of offs up to page `stop`   *)
(* are programmed, and what follows is buffered.                            *)
Pages(d, e, offs, data, stop) ==
  \A u \in Units : e.flash[u] = IF PageOf(u) \in PageOf(offs) .. stop - 1
                                THEN Merged(d.flash[u], PageBuffer(d, PageOf(u), offs, data)[u - PageOf(u) * Page])
                                ELSE d.flash[u]

LEMMA ExternalWriteIs ==
  ASSUME NEW d \in Storage, NEW offs \in Nat, NEW data \in Seq(Cell), Len(data) > 0, Len(data) # Page,
         offs + Len(data) <= Size, NEW fault, NEW r, r = ExternalWrite(d, offs, data, fault)
  PROVE  \E stop \in PageOf(offs) .. PageOf(offs + Len(data)) :
           /\ r.ok = (stop = PageOf(offs + Len(data)))
           /\ Pages(d, r.d, offs, data, stop)
           /\ stop < PageOf(offs + Len(data)) \/ (offs + Len(data)) % Page # 0 =>
                /\ r.d.buf = PageBuffer(d, stop, offs, data) /\ r.d.offs = stop * Page
                /\ r.d.level = Buffered(d, stop, offs, data).level
           /\ stop = PageOf(offs + Len(data)) /\ (offs + Len(data)) % Page = 0 =>
                r.d.buf = BlankBuffer /\ r.d.level = 0
<1> DEFINE first == PageOf(offs)
           end == offs + Len(data)
           last == PageOf(end)
           stop == IF ProgramFails(fault, first * Page, (last - first) * Page)
                   THEN PageOf(fault.at) ELSE last
           b == IF stop < last \/ end % Page # 0 THEN Buffered(d, stop, offs, data)
                ELSE [d EXCEPT !.buf = BlankBuffer, !.offs = end - Page, !.level = 0]
           g == [u \in Units |-> IF PageOf(u) \in first .. stop - 1
                                 THEN Merged(d.flash[u], PageBuffer(d, PageOf(u), offs, data)[u % Page])
                                 ELSE d.flash[u]]
<1>0. end \in Nat /\ Len(data) \in Nat
  BY LenProperties
<1>1. first \in Nat /\ last \in Nat /\ stop \in first .. last
  BY <1>0, StopIs
<1>2. r = Done(stop = last, [b EXCEPT !.flash = g])
  BY DEF ExternalWrite, InPartition
<1>3. \A u \in Units : g[u] = IF PageOf(u) \in first .. stop - 1
                              THEN Merged(d.flash[u], PageBuffer(d, PageOf(u), offs, data)[u - PageOf(u) * Page])
                              ELSE d.flash[u]
  <2>1. ASSUME NEW u \in Units
        PROVE  u % Page = u - PageOf(u) * Page
    <3>1. u \in Nat
      BY Geometry DEF Units
    <3> QED
      BY <3>1, PlaceInPage
  <2> QED
    BY <2>1
<1> HIDE DEF stop, g, b
<1>4. r.ok = (stop = last) /\ r.d = [b EXCEPT !.flash = g]
  BY <1>2 DEF Done
<1>5. r.d.flash = g
      /\ (stop < last \/ end % Page # 0 =>
            /\ r.d.buf = PageBuffer(d, stop, offs, data) /\ r.d.offs = stop * Page
            /\ r.d.level = Buffered(d, stop, offs, data).level)
      /\ (stop = last /\ end % Page = 0 => r.d.buf = BlankBuffer /\ r.d.level = 0)
  <2>1. CASE stop < last \/ end % Page # 0
    <3>1. PICK B : B = PageBuffer(d, stop, offs, data)
      OBVIOUS
    <3>2. PICK l : l = (IF stop = PageOf(offs) THEN d.level - offs ELSE -stop * Page)
                        + IF stop < PageOf(offs + Len(data)) THEN (stop + 1) * Page ELSE offs + Len(data)
      OBVIOUS
    <3>3. PICK z : z = stop * Page
      OBVIOUS
    <3>4. Buffered(d, stop, offs, data) = [d EXCEPT !.buf = B, !.offs = z, !.level = l]
      BY <3>1, <3>2, <3>3 DEF Buffered, Storage
    <3>5. b = [d EXCEPT !.buf = B, !.offs = z, !.level = l]
      BY <3>4, <2>1 DEF b
    <3>6. r.d.flash = g /\ r.d.buf = B /\ r.d.offs = z /\ r.d.level = l
      <4>1. PICK R, G, c : R = r.d /\ G = g /\ c = b
        OBVIOUS
      <4>3. R = [c EXCEPT !.flash = G] /\ c = [d EXCEPT !.buf = B, !.offs = z, !.level = l]
        BY <3>5, <1>4, <4>1
      <4>2. R.flash = G /\ R.buf = B /\ R.offs = z /\ R.level = l
        BY <4>3 DEF Storage
      <4> QED
        BY <4>1, <4>2
    <3>7. Buffered(d, stop, offs, data).level = l
      BY <3>4 DEF Storage
    <3> QED
      BY <3>6, <3>7, <3>1, <3>3, <2>1, <1>1
  <2>2. CASE ~(stop < last \/ end % Page # 0)
    <3>1. PICK z : z = end - Page
      OBVIOUS
    <3>2. b = [d EXCEPT !.buf = BlankBuffer, !.offs = z, !.level = 0]
      BY <3>1, <2>2 DEF b
    <3>3. r.d.flash = g /\ r.d.buf = BlankBuffer /\ r.d.level = 0
      <4>1. PICK R, G, c, B, l : R = r.d /\ G = g /\ c = b /\ B = BlankBuffer /\ l = 0
        OBVIOUS
      <4>2. c = [d EXCEPT !.buf = B, !.offs = z, !.level = l] /\ R = [c EXCEPT !.flash = G]
        BY <3>2, <1>4, <4>1
      <4>3. R.flash = G /\ R.buf = B /\ R.level = l
        BY <4>2 DEF Storage
      <4> QED
        BY <4>1, <4>3
    <3> QED
      BY <3>3, <2>2
  <2> QED
    BY <2>1, <2>2
<1>6. Pages(d, r.d, offs, data, stop)
  BY <1>3, <1>5 DEF Pages
<1> QED
  BY <1>1, <1>4, <1>5, <1>6
-----------------------------------------------------------------------------
(* The external driver, when chunks are pushed: of image `im`, the units    *)
(* below c are in whole pages of the flash and in the buffer, and what is   *)
(* above, up to e, is erased.                                               *)
Start(u) == PageOf(u) * Page

ExternalHolds(d, im, c, e) ==
  /\ \A u \in Units : u < Start(c) => d.flash[u] = Unit(im, u)
  /\ \A u \in Units : Start(c) <= u /\ u < e => d.flash[u] = Blank
  /\ Start(c) < c => d.offs = Start(c) /\ c - d.offs <= d.level
  /\ \A u \in Start(c) .. c - 1 : d.buf[u - Start(c)] = Unit(im, u)
  /\ Start(c) = c => c <= d.offs \/ d.buf = BlankBuffer

(* Pages by the place where they start.                                     *)
LEMMA StartIs ==
  ASSUME NEW u \in Nat
  PROVE  /\ Start(u) \in Nat /\ Start(u) <= u /\ u < Start(u) + Page /\ u % Page = u - Start(u)
         /\ PageOf(u) \in Nat
BY PlaceInPage DEF Start

LEMMA StartOrder ==
  ASSUME NEW u \in Nat, NEW c \in Nat
  PROVE  /\ PageOf(u) < PageOf(c) <=> u < Start(c)
         /\ PageOf(u) < PageOf(c) => Start(u) + Page <= Start(c)
         /\ PageOf(u) = PageOf(c) <=> Start(u) = Start(c)
         /\ PageOf(u) = PageOf(c) <=> Start(c) <= u /\ u < Start(c) + Page
<1>1. PICK a : a = PageOf(u)
  OBVIOUS
<1>2. PICK b : b = PageOf(c)
  OBVIOUS
<1>3. /\ a \in Nat /\ b \in Nat /\ Page \in Nat \ {0}
      /\ a * Page \in Nat /\ a * Page <= u /\ u < a * Page + Page /\ b * Page \in Nat
  BY <1>1, <1>2, StartIs, Geometry DEF Start
<1>4. a < b <=> u < b * Page
  BY <1>1, <1>3, PageWithin
<1>5. a < b => a * Page + Page <= b * Page
  <2>1. CASE a < b
    <3>1. a + 1 <= b /\ (a + 1) * Page = a * Page + Page
      BY <2>1, <1>3
    <3>2. (a + 1) * Page <= b * Page
      BY <3>1, <1>3
    <3> QED
      BY <3>1, <3>2
  <2> QED
    BY <2>1
<1>6. b < a => b * Page + Page <= a * Page
  <2>1. CASE b < a
    <3>1. b + 1 <= a /\ (b + 1) * Page = b * Page + Page
      BY <2>1, <1>3
    <3>2. (b + 1) * Page <= a * Page
      BY <3>1, <1>3
    <3> QED
      BY <3>1, <3>2
  <2> QED
    BY <2>1
<1>7. PICK x : x = a * Page
  OBVIOUS
<1>8. PICK y : y = b * Page
  OBVIOUS
<1>9. /\ x \in Nat /\ x <= u /\ u < x + Page /\ y \in Nat
      /\ (a < b <=> u < y) /\ (a < b => x + Page <= y) /\ (b < a => y + Page <= x)
      /\ (a = b => x = y)
  BY <1>3, <1>4, <1>5, <1>6, <1>7, <1>8
<1>10. (a = b <=> x = y) /\ (a = b <=> y <= u /\ u < y + Page)
  BY <1>9, <1>3
<1> QED
  BY <1>9, <1>10, <1>1, <1>2, <1>7, <1>8 DEF Start

(* A piece of the image, and what is read of it.                            *)
HasUnits(data, im, c) == \A j \in 1 .. Len(data) : data[j] = Unit(im, c + j - 1)
ReadsAs(d, im, a, b) == \A u \in Units : a <= u /\ u < b => Read(d, u) = Unit(im, u)

LEMMA UnitsNat == ASSUME NEW u \in Units PROVE u \in Nat
  BY Geometry DEF Units

LEMMA ExternalWriteHolds ==
  ASSUME NEW d \in Storage, NEW im, NEW c \in Nat, NEW e \in Nat, NEW data \in Seq(Cell),
         Len(data) > 0, Len(data) # Page, c + Len(data) <= Size, c + Len(data) <= e,
         HasUnits(data, im, c),
         ExternalHolds(d, im, c, e), NEW fault, NEW r, r = ExternalWrite(d, c, data, fault)
  PROVE  /\ r.ok => /\ ExternalHolds(r.d, im, c + Len(data), e)
                    /\ ReadsAs(r.d, im, c, c + Len(data))
         /\ ~r.ok => ExternalHolds(r.d, im, c, e) \/ c < r.d.offs
<1>1. PICK end : end = c + Len(data)
  OBVIOUS
<1>2. end \in Nat /\ c < end /\ end <= Size /\ end <= e /\ Len(data) \in Nat
  BY <1>1, LenProperties
<1>3. PICK stop \in PageOf(c) .. PageOf(end) :
           /\ r.ok = (stop = PageOf(end))
           /\ Pages(d, r.d, c, data, stop)
           /\ stop < PageOf(end) \/ end % Page # 0 =>
                /\ r.d.buf = PageBuffer(d, stop, c, data) /\ r.d.offs = stop * Page
                /\ r.d.level = Buffered(d, stop, c, data).level
           /\ stop = PageOf(end) /\ end % Page = 0 => r.d.buf = BlankBuffer /\ r.d.level = 0
  <2>1. \E stop \in PageOf(c) .. PageOf(c + Len(data)) :
           /\ r.ok = (stop = PageOf(c + Len(data)))
           /\ Pages(d, r.d, c, data, stop)
           /\ stop < PageOf(c + Len(data)) \/ (c + Len(data)) % Page # 0 =>
                /\ r.d.buf = PageBuffer(d, stop, c, data) /\ r.d.offs = stop * Page
                /\ r.d.level = Buffered(d, stop, c, data).level
           /\ stop = PageOf(c + Len(data)) /\ (c + Len(data)) % Page = 0 =>
                r.d.buf = BlankBuffer /\ r.d.level = 0
    BY ExternalWriteIs, SMTT(30)
  <2> QED
    BY <2>1, <1>1
<1>4. PICK P : P = Start(c)
  OBVIOUS
<1>5. PICK Q : Q = Start(end)
  OBVIOUS
<1>6. PICK S : S = stop * Page
  OBVIOUS
<1>7. /\ P \in Nat /\ P <= c /\ c < P + Page /\ Q \in Nat /\ Q <= end /\ end < Q + Page
      /\ end % Page = end - Q /\ PageOf(c) \in Nat /\ PageOf(end) \in Nat /\ Page \in Nat \ {0}
  BY <1>2, <1>4, <1>5, StartIs, Geometry
<1>8. stop \in Nat /\ S \in Nat
  BY <1>7, <1>6
<1>9. /\ stop = PageOf(end) => S = Q
      /\ stop = PageOf(c) => S = P
      /\ stop # PageOf(c) => c < S
      /\ P <= S /\ S <= Q
  <2>1. S % Page = 0 /\ PageOf(S) = stop
    <3>1. PageOf(S) \in Nat /\ stop <= PageOf(S) /\ ~(stop + 1 <= PageOf(S))
      <4>1. (stop + 1) * Page = S + Page /\ stop * Page <= S
        BY <1>6, <1>7, <1>8
      <4>2. stop + 1 \in Nat
        BY <1>8
      <4>3. (stop + 1) * Page <= S <=> stop + 1 <= PageOf(S)
        BY <1>8, <4>2, PageWithin
      <4>4. (stop * Page <= S <=> stop <= PageOf(S)) /\ PageOf(S) \in Nat
        BY <1>8, PageWithin
      <4> QED
        BY <4>1, <4>3, <4>4, <1>7, <1>8
    <3>2. PageOf(S) = stop
      BY <3>1, <1>8
    <3>3. S % Page = S - Start(S)
      BY <1>8, StartIs
    <3>4. Start(S) = S
      BY <3>2, <1>6 DEF Start
    <3> QED
      BY <3>2, <3>3, <3>4, <1>8
  <2>2. Start(S) = S
    BY <2>1, <1>6 DEF Start
  <2>3. /\ (PageOf(c) < PageOf(S) <=> c < Start(S)) /\ (PageOf(c) = PageOf(S) <=> P = Start(S))
        /\ (PageOf(S) < PageOf(end) => Start(S) + Page <= Q) /\ (PageOf(S) = PageOf(end) <=> Start(S) = Q)
    BY <1>2, <1>4, <1>5, <1>8, StartOrder
  <2> QED
    BY <2>1, <2>2, <2>3, <1>3, <1>7, <1>8
<1>10. ASSUME NEW u \in Units
       PROVE  u \in Nat /\ (PageOf(u) \in PageOf(c) .. stop - 1 <=> P <= u /\ u < S)
  <2>1. u \in Nat
    BY Geometry DEF Units
  <2>2. (PageOf(u) < PageOf(c) <=> u < P) /\ PageOf(u) \in Nat
    BY <2>1, <1>4, StartOrder, StartIs
  <2>3. u < S <=> PageOf(u) < stop
    BY <2>1, <1>6, <1>8, PageWithin
  <2> QED
    BY <2>1, <2>2, <2>3, <1>7, <1>8
<1>11. ASSUME NEW u \in Nat, P <= u, u < end
       PROVE  PageBuffer(d, PageOf(u), c, data)[u - PageOf(u) * Page] = Unit(im, u)
  <2>1. CASE c <= u
    <3>1. u \in c .. c + Len(data) - 1 /\ u - c + 1 \in 1 .. Len(data)
      BY <2>1, <1>11, <1>1, <1>2
    <3>2. data[u - c + 1] = Unit(im, c + (u - c + 1) - 1)
      BY <3>1 DEF HasUnits
    <3>3. c + (u - c + 1) - 1 = u
      OBVIOUS
    <3> QED
      BY <3>1, <3>2, <3>3, PageBufferAt
  <2>2. CASE u < c
    <3>1. ~(u \in c .. c + Len(data) - 1)
      BY <2>2, <1>2
    <3>2. PageOf(u) = PageOf(c)
      <4>1. u < P + Page
        BY <2>2, <1>7
      <4> QED
        BY <4>1, <1>11, <1>4, StartOrder
    <3>3. PageOf(u) * Page = P
      BY <3>2, <1>4 DEF Start
    <3>4. u \in P .. c - 1
      BY <2>2, <1>11, <1>7
    <3>5. d.buf[u - P] = Unit(im, u)
      BY <3>4, <1>4 DEF ExternalHolds
    <3> QED
      BY <3>1, <3>2, <3>3, <3>5, PageBufferAt, ZenonT(60)
  <2> QED
    BY <2>1, <2>2
<1>12. /\ \A u \in Units : u < S => r.d.flash[u] = Unit(im, u)
       /\ \A u \in Units : S <= u => r.d.flash[u] = d.flash[u]
       /\ \A u \in Units : S <= u /\ u < e => r.d.flash[u] = Blank
  <2>1. ASSUME NEW u \in Units
        PROVE  (u < S => r.d.flash[u] = Unit(im, u)) /\ (S <= u => r.d.flash[u] = d.flash[u])
               /\ (S <= u /\ u < e => r.d.flash[u] = Blank)
    <3>1. u \in Nat /\ (PageOf(u) \in PageOf(c) .. stop - 1 <=> P <= u /\ u < S)
      BY <1>10
    <3>2. r.d.flash[u] = IF P <= u /\ u < S
                         THEN Merged(d.flash[u], PageBuffer(d, PageOf(u), c, data)[u - PageOf(u) * Page])
                         ELSE d.flash[u]
      BY <3>1, <1>3 DEF Pages
    <3>3. CASE P <= u /\ u < S
      <4>1. u < end /\ u < e
        BY <3>3, <3>1, <1>9, <1>7, <1>2, <1>8
      <4>2. d.flash[u] = Blank
        BY <4>1, <3>3, <1>4 DEF ExternalHolds
      <4>3. PageBuffer(d, PageOf(u), c, data)[u - PageOf(u) * Page] = Unit(im, u)
        BY <4>1, <3>1, <3>3, <1>11
      <4>4. r.d.flash[u] = Merged(Blank, Unit(im, u))
        BY <4>2, <4>3, <3>2, <3>3
      <4>5. Merged(Blank, Unit(im, u)) = Unit(im, u)
        BY MergedIs
      <4> QED
        BY <4>4, <4>5, <3>3, <3>1, <1>8
    <3>4. CASE u < P
      <4>1. d.flash[u] = Unit(im, u) /\ ~(P <= u)
        BY <3>4, <3>1, <1>4, <1>7 DEF ExternalHolds
      <4> QED
        BY <4>1, <3>2, <3>4, <3>1, <1>7, <1>8, <1>9
    <3>5. CASE S <= u
      <4>1. u < e => d.flash[u] = Blank
        BY <3>5, <3>1, <1>4, <1>9, <1>7, <1>8 DEF ExternalHolds
      <4> QED
        BY <4>1, <3>2, <3>5, <3>1, <1>8
    <3> QED
      BY <3>3, <3>4, <3>5, <3>1, <1>7, <1>8
  <2> QED
    BY <2>1
<1>13. ASSUME stop = PageOf(end)
       PROVE  ExternalHolds(r.d, im, end, e) /\ \A u \in c .. end - 1 : Read(r.d, u) = Unit(im, u)
  <2>0. S = Q
    BY <1>13, <1>9
  <2>1. ASSUME NEW u \in c .. end - 1
        PROVE  u \in Nat /\ u \in Units
    BY <1>2, Geometry DEF Units
  <2>2. CASE end = Q
    <3>1. r.d.buf = BlankBuffer /\ r.d.level = 0
      BY <2>2, <1>13, <1>3, <1>7
    <3>2. ExternalHolds(r.d, im, end, e)
      <4>1. ~(Start(end) < end) /\ Start(end) .. end - 1 = {}
        BY <2>2, <1>5, <1>2
      <4> QED
        BY <4>1, <3>1, <2>0, <1>12, <1>5 DEF ExternalHolds
    <3>3. ASSUME NEW u \in c .. end - 1
          PROVE  Read(r.d, u) = Unit(im, u)
      <4>1. r.d.flash[u] = Unit(im, u)
        <5>1. u \in Units /\ u < S
          BY <2>0, <2>1, <2>2, <1>2
        <5> QED
          BY <5>1, <1>12
      <4>2. 0 .. r.d.level - 1 = {}
        BY <3>1
      <4> QED
        BY <4>1, <4>2 DEF Read
    <3> QED
      BY <3>2, <3>3
  <2>3. CASE end # Q
    <3>1. /\ r.d.buf = PageBuffer(d, PageOf(end), c, data) /\ r.d.offs = Q
          /\ r.d.level = Buffered(d, PageOf(end), c, data).level
      <4>1. end % Page # 0
        <5>1. PICK x : x = end % Page
          OBVIOUS
        <5> QED
          BY <5>1, <2>3, <1>2, <1>7
      <4> QED
        BY <4>1, <2>0, <1>13, <1>3, <1>6
    <3>2. r.d.level \in Int /\ end - Q <= r.d.level
      <4>1. PICK l : l = r.d.level
        OBVIOUS
      <4>2. l = (IF PageOf(end) = PageOf(c) THEN d.level - c ELSE -PageOf(end) * Page)
                + (IF PageOf(end) < PageOf(end) THEN (PageOf(end) + 1) * Page ELSE end)
        BY <3>1, <4>1, <1>1 DEF Buffered, Storage
      <4>3. l = (IF PageOf(end) = PageOf(c) THEN d.level - c ELSE -PageOf(end) * Page) + end
        BY <4>2, <1>7
      <4>4. d.level \in Nat
        BY StorageFields DEF Fields
      <4>5. CASE PageOf(end) = PageOf(c)
        <5>1. P = Q
          BY <4>5, <1>4, <1>5 DEF Start
        <5>2. P < c => c - P <= d.level
          BY <1>4 DEF ExternalHolds
        <5> QED
          BY <4>1, <4>3, <4>4, <4>5, <5>1, <5>2, <1>7, <1>2, SMTT(30)
      <4>6. CASE PageOf(end) # PageOf(c)
        <5>1. -PageOf(end) * Page = -Q
          <6>1. -PageOf(end) * Page = -(PageOf(end) * Page)
            BY <1>7
          <6> QED
            BY <6>1, <1>5 DEF Start
        <5> QED
          BY <5>1, <4>1, <4>3, <4>6, <1>7, <1>2, SMTT(30)
      <4> QED
        BY <4>5, <4>6
    <3>3. ASSUME NEW u \in Nat, Q <= u, u < end
          PROVE  r.d.buf[u - Q] = Unit(im, u)
      <4>1. u < Q + Page
        BY <3>3, <1>2, <1>7
      <4>2. PageOf(u) = PageOf(end) /\ PageOf(u) * Page = Q
        <5>1. PageOf(u) = PageOf(end)
          BY <4>1, <3>3, <1>5, <1>2, StartOrder
        <5> QED
          BY <5>1, <1>5 DEF Start
      <4>3. P <= u
        BY <3>3, <2>0, <1>9, <1>7, <1>8
      <4> QED
        BY <3>1, <3>3, <4>2, <4>3, <1>11
    <3>4. ExternalHolds(r.d, im, end, e)
      <4>1. \A u \in Q .. end - 1 : r.d.buf[u - Q] = Unit(im, u)
        <5>1. ASSUME NEW u \in Q .. end - 1
              PROVE  u \in Nat /\ Q <= u /\ u < end
          BY <1>2, <1>7
        <5> QED
          BY <5>1, <3>3
      <4> QED
        BY <4>1, <3>1, <3>2, <2>0, <2>3, <1>12, <1>5 DEF ExternalHolds
    <3>5. ASSUME NEW u \in c .. end - 1
          PROVE  Read(r.d, u) = Unit(im, u)
      <4>1. CASE u < Q
        <5>1. r.d.flash[u] = Unit(im, u)
          BY <4>1, <2>0, <2>1, <1>12
        <5>2. ~(u - r.d.offs \in 0 .. r.d.level - 1)
          BY <4>1, <3>1, <3>2, <2>1, <1>7
        <5> QED
          BY <5>1, <5>2 DEF Read
      <4>2. CASE Q <= u
        <5>1. r.d.buf[u - r.d.offs] = Unit(im, u)
          BY <4>2, <3>1, <3>3, <2>1, <1>2
        <5>2. u - r.d.offs \in 0 .. r.d.level - 1 /\ u - r.d.offs < Page
          BY <4>2, <3>1, <3>2, <2>1, <1>2, <1>7
        <5> QED
          BY <5>1, <5>2 DEF Read
      <4> QED
        BY <4>1, <4>2, <2>1, <1>7
    <3> QED
      BY <3>4, <3>5
  <2> QED
    BY <2>2, <2>3
<1>14. ASSUME stop < PageOf(end)
       PROVE  ExternalHolds(r.d, im, c, e) \/ c < r.d.offs
  <2>1. /\ r.d.buf = PageBuffer(d, stop, c, data) /\ r.d.offs = S
        /\ r.d.level = Buffered(d, stop, c, data).level
    BY <1>14, <1>3, <1>6
  <2>2. CASE stop = PageOf(c)
    <3>1. S = P
      BY <2>2, <1>9
    <3>2. c - P <= r.d.level
      <4>1. PICK l : l = r.d.level
        OBVIOUS
      <4>2. l = (d.level - c) + (stop + 1) * Page
        BY <2>1, <2>2, <4>1, <1>1, <1>14 DEF Buffered, Storage
      <4>3. (stop + 1) * Page = S + Page
        BY <1>6, <1>7, <1>8
      <4>4. d.level \in Nat /\ (P < c => c - P <= d.level)
        BY StorageFields, <1>4 DEF Fields, ExternalHolds
      <4>5. PICK y : y = d.level
        OBVIOUS
      <4>6. PICK z : z = (stop + 1) * Page
        OBVIOUS
      <4>7. l = (y - c) + z /\ z = S + Page /\ y \in Nat /\ (P < c => c - P <= y)
        BY <4>2, <4>3, <4>4, <4>5, <4>6
      <4>8. S = P /\ P \in Int /\ S \in Int /\ Page \in Nat /\ c <= P + Page /\ P <= c
        BY <3>1, <1>7
      <4>9. (y - c) + (P + Page) >= c - P
        BY <4>7, <4>8
      <4> QED
        BY <4>1, <4>7, <4>8, <4>9
    <3>3. \A u \in P .. c - 1 : r.d.buf[u - P] = Unit(im, u)
      <4>1. ASSUME NEW u \in P .. c - 1
            PROVE  r.d.buf[u - P] = Unit(im, u)
        <5>1. u \in Nat /\ P <= u /\ u < end /\ u < P + Page
          BY <1>7, <1>2
        <5>2. PageOf(u) = PageOf(c) /\ PageOf(u) * Page = P
          <6>1. PageOf(u) = PageOf(c)
            BY <5>1, <1>4, StartOrder
          <6> QED
            BY <6>1, <1>4 DEF Start
        <5> QED
          BY <5>1, <5>2, <2>1, <2>2, <1>11
      <4> QED
        BY <4>1
    <3>4. c = P => c <= r.d.offs
      BY <2>1, <3>1
    <3> QED
      BY <3>1, <3>2, <3>3, <3>4, <2>1, <1>12, <1>4 DEF ExternalHolds
  <2>3. CASE stop # PageOf(c)
    BY <2>1, <2>3, <1>9
  <2> QED
    BY <2>2, <2>3
<1>15. stop = PageOf(end) \/ stop < PageOf(end)
  BY <1>3, <1>7
<1>16. /\ r.ok => stop = PageOf(end)
       /\ ~r.ok => stop < PageOf(end)
  BY <1>3, <1>15
<1>17. ASSUME NEW u \in Units, c <= u, u < end
       PROVE  u \in c .. end - 1
  BY <1>17, <1>2, UnitsNat
<1>18. r.ok => ReadsAs(r.d, im, c, end)
  BY <1>13, <1>16, <1>17 DEF ReadsAs
<1> QED
  BY <1>1, <1>13, <1>14, <1>16, <1>18
-----------------------------------------------------------------------------
(* Erasing.                                                                 *)

LEMMA SectorsOfArea ==
  ASSUME NEW offs \in Nat, NEW size \in Nat \ {0}, NEW u \in Nat
  PROVE  /\ u \in offs .. offs + size - 1 => SectorOf(u) \in SectorsOf(offs, size)
         /\ offs % Sector = 0 /\ SectorOf(u) \in SectorsOf(offs, size) => offs <= u
         /\ offs % Sector = 0 /\ (offs + size) % Sector # 0 /\ offs <= u /\ u < EndOf(offs, size)
              => SectorOf(u) \in SectorsOf(offs, size)
<1>1. PICK a : a = SectorOf(offs)
  OBVIOUS
<1>2. PICK b : b = SectorOf(offs + size - 1)
  OBVIOUS
<1>3. PICK l \in Nat : l = offs + size - 1
  OBVIOUS
<1>4. PICK x : x = a * Sector
  OBVIOUS
<1>5. PICK y : y = b * Sector
  OBVIOUS
<1>6. /\ a \in Nat /\ b \in Nat /\ x \in Nat /\ y \in Nat /\ Sector \in Nat \ {0}
      /\ x <= offs /\ offs < x + Sector /\ y <= l /\ l < y + Sector /\ SectorOf(u) \in Nat
      /\ offs = x + (offs % Sector)
  <2>1. a \in Nat /\ b \in Nat /\ Sector \in Nat \ {0} /\ SectorOf(u) \in Nat
    BY <1>1, <1>2, <1>3, Geometry, Division DEF SectorOf
  <2>2. a * Sector <= offs /\ offs < a * Sector + Sector /\ offs = a * Sector + (offs % Sector)
    BY <1>1, Geometry, Division DEF SectorOf
  <2>3. b * Sector <= l /\ l < b * Sector + Sector
    BY <1>2, <1>3, Geometry, Division DEF SectorOf
  <2>4. a * Sector \in Nat /\ b * Sector \in Nat
    BY <2>1
  <2> QED
    BY <2>1, <2>2, <2>3, <2>4, <1>4, <1>5
<1>7. (x <= u <=> a <= SectorOf(u)) /\ (u < y + Sector <=> SectorOf(u) < b + 1)
  <2>1. (b + 1) * Sector = y + Sector /\ b + 1 \in Nat
    BY <1>5, <1>6
  <2> QED
    BY <2>1, <1>4, <1>6, SectorWithin
<1>8. SectorsOf(offs, size) = a .. b
  BY <1>1, <1>2 DEF SectorsOf
<1>9. u \in offs .. offs + size - 1 => SectorOf(u) \in a .. b
  BY <1>3, <1>6, <1>7
<1>10. offs % Sector = 0 /\ SectorOf(u) \in a .. b => offs <= u
  <2>1. offs % Sector = 0 => offs = x
    BY <1>6
  <2> QED
    BY <2>1, <1>6, <1>7
<1>11. offs % Sector = 0 /\ (offs + size) % Sector # 0 /\ offs <= u /\ u < EndOf(offs, size)
         => SectorOf(u) \in SectorsOf(offs, size)
  BY SectorsReached
<1> QED
  BY <1>8, <1>9, <1>10, <1>11

(* An erasure leaves what is buffered, and erases the sectors of X.         *)
Still(d, e) == e.buf = d.buf /\ e.offs = d.offs /\ e.level = d.level /\ e.driver = d.driver
Wiped(d, e, X) == \A u \in Units : e.flash[u] = IF SectorOf(u) \in X THEN Blank ELSE d.flash[u]
Cleared(d, e) == Still(d, e) /\ d.erased \subseteq e.erased /\ Wiped(d, e, e.erased \ d.erased)

LEMMA InternalEraseIs ==
  ASSUME NEW d \in Storage, NEW offs, NEW size, NEW fault, NEW r, r = InternalErase(d, offs, size, fault)
  PROVE  Cleared(d, r.d) /\ (r.ok => SectorsOf(offs, size) \subseteq r.d.erased /\ offs + size <= Size)
<1>1. CASE ~InPartition(offs, size)
  <2>1. r = Done(FALSE, d)
    BY <1>1 DEF InternalErase
  <2> QED
    BY <2>1 DEF Done, Cleared, Still, Wiped
<1>2. CASE InPartition(offs, size)
  <2>1. PICK new : new = SectorsOf(offs, size) \ d.erased
    OBVIOUS
  <2>2. PICK done : done = Reached(new, fault)
    OBVIOUS
  <2>3. PICK p : p = ErasedSectors(d, done)
    OBVIOUS
  <2>4. r = Done(done = new, [p EXCEPT !.erased = @ \cup done])
    BY <1>2, <2>1, <2>2, <2>3 DEF InternalErase
  <2>5. PICK q : q = [p EXCEPT !.erased = @ \cup done]
    OBVIOUS
  <2>6. p \in Storage
    BY <2>3, ErasedTyped
  <2>7. p.driver = d.driver /\ p.erased = d.erased /\ p.buf = d.buf /\ p.offs = d.offs /\ p.level = d.level
        /\ \A u \in Units : p.flash[u] = IF SectorOf(u) \in done THEN Blank ELSE d.flash[u]
    BY <2>3, ErasedIs
  <2>8. q.flash = p.flash /\ q.driver = p.driver /\ q.buf = p.buf /\ q.offs = p.offs
        /\ q.level = p.level /\ q.erased = p.erased \cup done
    BY <2>5, <2>6 DEF Storage
  <2>9. done \subseteq new
    BY <2>2 DEF Reached
  <2>10. q.erased \ d.erased = done /\ d.erased \subseteq q.erased
    BY <2>1, <2>7, <2>8, <2>9
  <2>11. r.d = q /\ r.ok = (done = new)
    BY <2>4, <2>5 DEF Done
  <2>12. Cleared(d, q)
    BY <2>7, <2>8, <2>10 DEF Cleared, Still, Wiped
  <2>13. r.ok => SectorsOf(offs, size) \subseteq q.erased
    BY <2>1, <2>7, <2>8, <2>11
  <2> QED
    BY <2>11, <2>12, <2>13, <1>2 DEF InPartition
<1> QED
  BY <1>1, <1>2

LEMMA ExternalEraseIs ==
  ASSUME NEW d \in Storage, NEW offs, NEW size, NEW fault, NEW r, r = ExternalErase(d, offs, size, fault)
  PROVE  /\ Still(d, r.d) /\ r.d.erased = d.erased
         /\ \E X \in SUBSET SectorsOf(offs, size) : Wiped(d, r.d, X) /\ (r.ok => X = SectorsOf(offs, size))
<1>1. CASE ~InPartition(offs, size)
  <2>1. r = Done(FALSE, d)
    BY <1>1 DEF ExternalErase
  <2>2. r.d = d /\ ~r.ok
    BY <2>1 DEF Done
  <2>3. Wiped(d, r.d, {})
    BY <2>2 DEF Wiped
  <2> QED
    BY <2>2, <2>3 DEF Still
<1>2. CASE InPartition(offs, size)
  <2>1. PICK S : S = SectorsOf(offs, size)
    OBVIOUS
  <2>2. PICK done : done = Reached(S, fault)
    OBVIOUS
  <2>3. r = Done(done = S, ErasedSectors(d, done))
    BY <1>2, <2>1, <2>2 DEF ExternalErase
  <2>4. r.ok = (done = S) /\ r.d = ErasedSectors(d, done)
    BY <2>3 DEF Done
  <2>5. done \subseteq S
    BY <2>2 DEF Reached
  <2>6. Still(d, r.d) /\ r.d.erased = d.erased /\ Wiped(d, r.d, done)
    BY <2>4, ErasedIs DEF Still, Wiped
  <2> QED
    BY <2>1, <2>4, <2>5, <2>6
<1> QED
  BY <1>1, <1>2

LEMMA EraseIs ==
  ASSUME NEW d \in Storage, NEW offs \in Nat, NEW size \in Nat \ {0}, NEW fault,
         NEW r, r = EraseArea(d, offs, size, fault)
  PROVE  /\ Still(d, r.d)
         /\ r.ok => offs % Sector = 0 /\ r.next = EndOf(offs, size)
         /\ d.driver = "external" =>
              /\ r.d.erased = d.erased
              /\ \E X \in SUBSET SectorsOf(offs, size) :
                   /\ Wiped(d, r.d, X) /\ (r.ok => X = SectorsOf(offs, size))
                   /\ X # {} => offs % Sector = 0
         /\ d.driver = "internal" => Cleared(d, r.d) /\ (r.ok => SectorsOf(offs, size) \subseteq r.d.erased)
<1>1. CASE offs % Sector # 0
  <2>1. r = [ok |-> FALSE, d |-> d, next |-> offs]
    BY <1>1 DEF EraseArea
  <2>2. r.d = d /\ ~r.ok
    BY <2>1
  <2>3. Wiped(d, d, {}) /\ Cleared(d, d) /\ Still(d, d)
    BY DEF Wiped, Cleared, Still
  <2> QED
    BY <2>2, <2>3
<1>2. CASE offs % Sector = 0
  <2>1. PICK e : e = EndOf(offs, size)
    OBVIOUS
  <2>2. ASSUME d.driver = "external"
        PROVE  /\ Still(d, r.d) /\ r.next = e /\ r.d.erased = d.erased
               /\ \E X \in SUBSET SectorsOf(offs, size) : Wiped(d, r.d, X) /\ (r.ok => X = SectorsOf(offs, size))
    <3>1. PICK q : q = ExternalErase(d, offs, size, fault)
      OBVIOUS
    <3>2. r = [ok |-> q.ok, d |-> q.d, next |-> e]
      <4>1. ~(size <= 0)
        OBVIOUS
      <4> QED
        BY <4>1, <1>2, <2>1, <2>2, <3>1 DEF EraseArea, EndOf
    <3>3. r.ok = q.ok /\ r.d = q.d /\ r.next = e
      BY <3>2
    <3> QED
      BY <3>1, <3>3, ExternalEraseIs
  <2>3. ASSUME d.driver = "internal"
        PROVE  /\ r.next = e /\ Cleared(d, r.d) /\ (r.ok => SectorsOf(offs, size) \subseteq r.d.erased)
    <3>1. PICK q : q = InternalErase(d, offs, size, fault)
      OBVIOUS
    <3>2. r = [ok |-> q.ok, d |-> q.d, next |-> e]
      <4>1. ~(size <= 0)
        OBVIOUS
      <4> QED
        BY <4>1, <1>2, <2>1, <2>3, <3>1 DEF EraseArea, EndOf
    <3>3. r.ok = q.ok /\ r.d = q.d /\ r.next = e
      BY <3>2
    <3> QED
      BY <3>1, <3>3, InternalEraseIs
  <2>4. d.driver \in {"external", "internal"}
    BY StorageFields DEF Fields
  <2>5. Cleared(d, r.d) => Still(d, r.d)
    BY DEF Cleared
  <2> QED
    BY <1>2, <2>1, <2>2, <2>3, <2>4, <2>5
<1> QED
  BY <1>1, <1>2

(* Headroom of the external driver: only what is above e is erased.         *)
LEMMA ExternalEraseHolds ==
  ASSUME NEW d \in Storage, d.driver = "external", NEW im, NEW c \in Nat, NEW e \in Nat, NEW f \in Nat,
         NEW offs \in Nat, c <= offs, e <= offs,
         NEW size \in Nat \ {0}, ExternalHolds(d, im, c, e), NEW fault,
         NEW r, r = EraseArea(d, offs, size, fault),
         \A u \in Nat : e <= u /\ u < f =>
             offs <= u /\ (u < offs + size \/ ((offs + size) % Sector # 0 /\ u < EndOf(offs, size)))
  PROVE  /\ ExternalHolds(r.d, im, c, 0)
         /\ r.ok => ExternalHolds(r.d, im, c, f)
<1>1. PICK X \in SUBSET SectorsOf(offs, size) :
             /\ Wiped(d, r.d, X) /\ (r.ok => X = SectorsOf(offs, size)) /\ (X # {} => offs % Sector = 0)
  BY EraseIs
<1>2. r.d.buf = d.buf /\ r.d.offs = d.offs /\ r.d.level = d.level /\ (r.ok => offs % Sector = 0)
  BY EraseIs DEF Still
<1>3. Start(c) \in Nat /\ Start(c) <= c
  BY StartIs
<1>4. ASSUME NEW u \in Units, u < Start(c)
      PROVE  r.d.flash[u] = Unit(im, u)
  <2>1. u \in Nat
    BY Geometry DEF Units
  <2>2. u < offs
    BY <2>1, <1>3, <1>4
  <2>3. SectorOf(u) \notin X
    BY <2>1, <2>2, <1>1, SectorsOfArea
  <2> QED
    BY <2>3, <1>1, <1>4 DEF Wiped, ExternalHolds
<1>5. ASSUME r.ok, NEW u \in Units, Start(c) <= u, u < f
      PROVE  r.d.flash[u] = Blank
  <2>1. u \in Nat
    BY Geometry DEF Units
  <2>2. CASE u < e
    BY <2>2, <1>1, <1>5 DEF Wiped, ExternalHolds
  <2>3. CASE ~(u < e)
    <3>1. offs <= u /\ (u < offs + size \/ ((offs + size) % Sector # 0 /\ u < EndOf(offs, size)))
      BY <2>1, <2>3, <1>5
    <3>2. u < offs + size => u \in offs .. offs + size - 1
      BY <2>1, <3>1
    <3>3. SectorOf(u) \in X
      BY <2>1, <3>1, <3>2, <1>1, <1>2, <1>5, SectorsOfArea
    <3> QED
      BY <3>3, <1>1 DEF Wiped
  <2> QED
    BY <2>2, <2>3
<1>6. ASSUME NEW u \in Units, Start(c) <= u, u < 0
      PROVE  FALSE
  BY <1>6, <1>3 DEF Units
<1>7. ExternalHolds(r.d, im, c, 0)
  BY <1>2, <1>4, <1>6 DEF ExternalHolds
<1>8. r.ok => ExternalHolds(r.d, im, c, f)
  BY <1>2, <1>4, <1>5 DEF ExternalHolds
<1> QED
  BY <1>7, <1>8

(* The last page of an image is programmed.                                 *)
LEMMA ExternalFlushHolds ==
  ASSUME NEW d \in Storage, NEW im, NEW c \in Nat, NEW e \in Nat, c <= e, c <= Size,
         ExternalHolds(d, im, c, e), NEW fault, NEW r, r = ExternalFlush(d, fault), r.ok
  PROVE  \A u \in Units : u < c => r.d.flash[u] = Unit(im, u)
<1>1. PICK s : s = BufferSeq(d)
  OBVIOUS
<1>2. PICK p : p = Programmed(d, d.offs, s)
  OBVIOUS
<1>3. r = Done(TRUE, [p EXCEPT !.buf = BlankBuffer, !.level = 0])
  BY <1>1, <1>2 DEF ExternalFlush, Done
<1>4. d.buf \in [0 .. Page - 1 -> Cell] /\ d.offs \in Nat /\ d.level \in Nat /\ Page \in Nat \ {0}
  BY StorageFields, Geometry DEF Fields
<1>5. s = [i \in 1 .. Page |-> d.buf[i - 1]] /\ Len(s) = Page
  BY <1>1, <1>4 DEF BufferSeq
<1>6. p \in Storage
  <2>1. s \in Seq(Cell)
    <3>1. \A i \in 1 .. Page : d.buf[i - 1] \in Cell
      BY <1>4
    <3> QED
      BY <3>1, <1>4, <1>5
  <2> QED
    BY <2>1, <1>2, <1>4, ProgrammedTyped
<1>7. r.d.flash = p.flash
  <2>1. PICK B : B = BlankBuffer
    OBVIOUS
  <2>2. r.d = [p EXCEPT !.buf = B, !.level = 0]
    BY <1>3, <2>1 DEF Done
  <2>3. [p EXCEPT !.buf = B, !.level = 0].flash = p.flash
    BY <1>6 DEF Storage
  <2> QED
    BY <2>2, <2>3
<1> SUFFICES ASSUME NEW u \in Units, u < c
             PROVE  r.d.flash[u] = Unit(im, u)
  OBVIOUS
<1>8. u \in Nat /\ Start(c) \in Nat /\ Start(c) <= c /\ c < Start(c) + Page
  BY Geometry, StartIs DEF Units
<1>9. r.d.flash[u] = IF u \in d.offs .. d.offs + Page - 1
                     THEN Merged(d.flash[u], d.buf[u - d.offs]) ELSE d.flash[u]
  <2>1. p.flash[u] = IF u \in d.offs .. d.offs + Len(s) - 1
                     THEN Merged(d.flash[u], s[u - d.offs + 1]) ELSE d.flash[u]
    BY <1>2, ProgrammedIs
  <2>2. u \in d.offs .. d.offs + Page - 1 => s[u - d.offs + 1] = d.buf[u - d.offs]
    <3>1. ASSUME u \in d.offs .. d.offs + Page - 1
          PROVE  u - d.offs + 1 \in 1 .. Page /\ (u - d.offs + 1) - 1 = u - d.offs
      BY <3>1, <1>4, <1>8, SMTT(30)
    <3> QED
      BY <3>1, <1>5
  <2> QED
    BY <2>1, <2>2, <1>5, <1>7
<1>10. CASE Start(c) = c
  <2>1. d.flash[u] = Unit(im, u)
    BY <1>10, <1>8 DEF ExternalHolds
  <2>2. CASE c <= d.offs
    <3>1. ~(u \in d.offs .. d.offs + Page - 1)
      BY <2>2, <1>4, <1>8
    <3> QED
      BY <3>1, <2>1, <1>9
  <2>3. CASE d.buf = BlankBuffer
    <3>1. u \in d.offs .. d.offs + Page - 1 => d.buf[u - d.offs] = Blank
      <4>1. ASSUME u \in d.offs .. d.offs + Page - 1
            PROVE  u - d.offs \in 0 .. Page - 1
        BY <4>1, <1>4, <1>8
      <4> QED
        BY <4>1, <2>3 DEF BlankBuffer
    <3> QED
      BY <3>1, <2>1, <1>9, MergedIs
  <2> QED
    BY <2>2, <2>3, <1>10 DEF ExternalHolds
<1>11. CASE Start(c) < c
  <2>1. d.offs = Start(c)
    BY <1>11 DEF ExternalHolds
  <2>2. CASE u < Start(c)
    <3>1. ~(u \in d.offs .. d.offs + Page - 1) /\ d.flash[u] = Unit(im, u)
      BY <2>1, <2>2, <1>8, <1>4 DEF ExternalHolds
    <3> QED
      BY <3>1, <1>9
  <2>3. CASE Start(c) <= u
    <3>1. u \in d.offs .. d.offs + Page - 1 /\ u < e /\ u \in Start(c) .. c - 1
      BY <2>1, <2>3, <1>8, <1>4
    <3>2. d.flash[u] = Blank /\ d.buf[u - d.offs] = Unit(im, u)
      BY <2>1, <2>3, <3>1 DEF ExternalHolds
    <3> QED
      BY <3>1, <3>2, <1>9, MergedIs
  <2> QED
    BY <2>2, <2>3, <1>8
<1> QED
  BY <1>8, <1>10, <1>11
-----------------------------------------------------------------------------
(* What programming whole phrases does to the storage.                      *)
Phrases(d, offs, data, r, whole, rest, put) ==
  /\ whole + rest = Len(data) /\ put <= whole /\ (r.ok <=> put = whole)
  /\ offs % Page = 0 /\ rest = Len(data) % Page
  /\ r.d.level = rest /\ r.d.offs = offs + whole /\ r.d.erased = d.erased /\ r.d.driver = d.driver
  /\ \A u \in Units : r.d.flash[u] = IF u \in offs .. offs + put - 1
                                     THEN Merged(d.flash[u], data[u - offs + 1]) ELSE d.flash[u]
  /\ \A i \in 0 .. Page - 1 : r.d.buf[i] = IF i < rest THEN data[whole + i + 1] ELSE d.buf[i]

LEMMA InternalProgramIs ==
  ASSUME NEW d \in Storage, NEW offs \in Nat, NEW data \in Seq(Cell), NEW fault,
         NEW r, r = InternalProgram(d, offs, data, fault)
  PROVE  \/ r.d = d /\ ~r.ok
         \/ \E whole \in Nat, rest \in 0 .. Page - 1, put \in Nat : Phrases(d, offs, data, r, whole, rest, put)
<1> DEFINE rest == Len(data) % Page
           whole == Len(data) - rest
           fails == ProgramFails(fault, offs, whole)
           put == IF fails THEN fault.at - offs ELSE whole
           part == SubSeq(data, 1, put)
           b == [i \in 0 .. Page - 1 |-> IF i < rest THEN data[whole + i + 1] ELSE d.buf[i]]
           p == Programmed(d, offs, part)
<1>1. Len(data) \in Nat /\ rest \in 0 .. Page - 1 /\ rest <= Len(data)
  <2>1. Len(data) \in Nat
    BY LenProperties
  <2>2. rest \in 0 .. Page - 1 /\ Len(data) = (Len(data) \div Page) * Page + rest /\ (Len(data) \div Page) * Page \in Nat
    <3>1. Len(data) \div Page \in Nat
      BY <2>1, Geometry, Division
    <3>2. (Len(data) \div Page) * Page \in Nat
      BY <3>1, Geometry
    <3> QED
      BY <3>2, <2>1, Geometry, Division
  <2> HIDE DEF rest
  <2> QED
    BY <2>1, <2>2, Geometry
<1> HIDE DEF rest
<1>2. whole \in Nat /\ whole + rest = Len(data) /\ whole <= Len(data)
  <2>1. rest \in Nat
    BY <1>1, Geometry
  <2> QED
    BY <1>1, <2>1
<1> HIDE DEF whole
<1>3. put \in Nat /\ put <= whole /\ (~fails <=> put = whole)
  BY <1>2 DEF ProgramFails
<1> HIDE DEF put, fails
<1>4. part \in Seq(Cell) /\ Len(part) = put /\ \A j \in 1 .. put : part[j] = data[j]
  <2>1. \A j \in 1 .. put : data[j] \in Cell
    BY <1>1, <1>2, <1>3, ElementOfSeq
  <2>2. 1 \in Int /\ put \in Int
    BY <1>3
  <2> QED
    BY <2>1, <2>2, <1>3, SubSeqProperties
<1> HIDE DEF part
<1>5. p \in Storage
  BY <1>4, ProgrammedTyped
<1>6. /\ \A u \in Units : p.flash[u] = IF u \in offs .. offs + Len(part) - 1
                                       THEN Merged(d.flash[u], part[u - offs + 1]) ELSE d.flash[u]
      /\ p.erased = d.erased /\ p.driver = d.driver
  BY ProgrammedIs
<1>7. ASSUME NEW u \in Units
      PROVE  p.flash[u] = IF u \in offs .. offs + put - 1
                          THEN Merged(d.flash[u], data[u - offs + 1]) ELSE d.flash[u]
  <2>1. u \in offs .. offs + put - 1 => u - offs + 1 \in 1 .. put
    BY <1>3 DEF Units
  <2> QED
    BY <2>1, <1>4, <1>6
<1> HIDE DEF p, b
<1>8. CASE offs % Page # 0
  <2>1. r = Done(FALSE, d)
    BY <1>8 DEF InternalProgram
  <2> QED
    BY <2>1 DEF Done
<1>9. CASE offs % Page = 0
  <2>1. r = Done(~fails, [p EXCEPT !.level = rest, !.offs = offs + whole, !.buf = b])
    BY <1>9 DEF InternalProgram, p, part, b, put, fails, whole, rest
  <2>2. PICK x : x = offs + whole
    OBVIOUS
  <2>3. r.d = [p EXCEPT !.level = rest, !.offs = x, !.buf = b] /\ r.ok = ~fails
    BY <2>1, <2>2 DEF Done
  <2>4. r.d.level = rest /\ r.d.offs = x /\ r.d.buf = b /\ r.d.flash = p.flash /\ r.d.erased = p.erased
        /\ r.d.driver = p.driver
    BY <2>3, <1>5 DEF Storage
  <2>5. \A i \in 0 .. Page - 1 : r.d.buf[i] = IF i < rest THEN data[whole + i + 1] ELSE d.buf[i]
    BY <2>4 DEF b
  <2>6. rest = Len(data) % Page
    BY DEF rest
  <2>7. r.ok <=> put = whole
    BY <2>3, <1>3
  <2>8. \A u \in Units : r.d.flash[u] = IF u \in offs .. offs + put - 1
                                        THEN Merged(d.flash[u], data[u - offs + 1]) ELSE d.flash[u]
    BY <2>4, <1>7
  <2>9. r.d.erased = d.erased /\ r.d.offs = offs + whole /\ r.d.driver = d.driver
    BY <2>4, <2>2, <1>6
  <2>10. Phrases(d, offs, data, r, whole, rest, put)
    BY <2>4, <2>5, <2>6, <2>7, <2>8, <2>9, <1>2, <1>3, <1>9 DEF Phrases
  <2> QED
    BY <2>10, <1>1, <1>2, <1>3
<1> QED
  BY <1>8, <1>9
-----------------------------------------------------------------------------
(* The internal driver, when chunks are pushed: the units of image `im`     *)
(* below c are in the flash or in the buffer; what else is buffered is the  *)
(* image, or is blank; sectors that are remembered as erased hold nothing   *)
(* but the image.                                                           *)
InBuffer(d, u) == u - d.offs \in 0 .. d.level - 1 /\ u - d.offs < Page

LEMMA InBufferIs ==
  ASSUME NEW d, NEW u \in Nat, d.offs \in Nat, d.level \in Nat
  PROVE  InBuffer(d, u) <=> d.offs <= u /\ u < d.offs + d.level /\ u < d.offs + Page
<1>1. PICK o \in Nat, l \in Nat : o = d.offs /\ l = d.level
  OBVIOUS
<1>2. InBuffer(d, u) <=> u - o \in 0 .. l - 1 /\ u - o < Page
  BY <1>1 DEF InBuffer
<1> QED
  BY <1>1, <1>2, Geometry

InternalHolds(d, im, c) ==
  /\ \A u \in Units : u < c =>
       /\ SectorOf(u) \in d.erased
       /\ \/ d.flash[u] = Unit(im, u)
          \/ InBuffer(d, u) /\ d.buf[u - d.offs] = Unit(im, u)
  /\ \A u \in Units : InBuffer(d, u) =>
       \/ d.buf[u - d.offs] = Blank
       \/ d.buf[u - d.offs] = Unit(im, u) /\ SectorOf(u) \in d.erased
  /\ \A u \in Units : SectorOf(u) \in d.erased => d.flash[u] \in {Blank, Unit(im, u)}

(* The next unit goes behind what the buffer holds.                         *)
OpenAt(d, c) == d.level \in 1 .. Page - 1 /\ c - d.offs \in 0 .. Page - 1 => c = d.offs + d.level

(* The same with nothing in the buffer.                                     *)
Flashed(d, im, c) ==
  /\ d.level = 0
  /\ \A u \in Units : u < c => SectorOf(u) \in d.erased /\ d.flash[u] = Unit(im, u)
  /\ \A u \in Units : SectorOf(u) \in d.erased => d.flash[u] \in {Blank, Unit(im, u)}

LEMMA InternalLess ==
  ASSUME NEW d, NEW im, NEW a \in Nat, NEW c \in Nat, c <= a
  PROVE  (InternalHolds(d, im, a) => InternalHolds(d, im, c)) /\ (Flashed(d, im, a) => Flashed(d, im, c))
<1>1. \A u \in Units : u < c => u < a
  BY UnitsNat
<1> QED
  BY <1>1, Zenon DEF InternalHolds, Flashed

LEMMA FlashedHolds ==
  ASSUME NEW d, NEW im, NEW c, Flashed(d, im, c)
  PROVE  InternalHolds(d, im, c) /\ \A x : OpenAt(d, x)
<1>1. \A u : ~InBuffer(d, u)
  BY DEF Flashed, InBuffer
<1>2. ~(d.level \in 1 .. Page - 1)
  BY Geometry DEF Flashed
<1> QED
  BY <1>1, <1>2 DEF Flashed, InternalHolds, OpenAt

(* A sector is erased once: what is in the image's sectors stays.           *)
LEMMA InternalEraseHolds ==
  ASSUME NEW d, NEW e, NEW im, NEW c, Cleared(d, e), InternalHolds(d, im, c)
  PROVE  InternalHolds(e, im, c) /\ \A x : OpenAt(d, x) => OpenAt(e, x)
<1>1. e.buf = d.buf /\ e.offs = d.offs /\ e.level = d.level /\ d.erased \subseteq e.erased
  BY DEF Cleared, Still
<1>2. \A u : InBuffer(e, u) <=> InBuffer(d, u)
  BY <1>1 DEF InBuffer
<1>3. \A u \in Units : e.flash[u] = IF SectorOf(u) \in e.erased \ d.erased THEN Blank ELSE d.flash[u]
  BY DEF Cleared, Wiped
<1>4. ASSUME NEW u \in Units, u < c
      PROVE  /\ SectorOf(u) \in e.erased
             /\ e.flash[u] = Unit(im, u) \/ (InBuffer(e, u) /\ e.buf[u - e.offs] = Unit(im, u))
  BY <1>1, <1>2, <1>3, <1>4 DEF InternalHolds
<1>5. ASSUME NEW u \in Units, InBuffer(e, u)
      PROVE  e.buf[u - e.offs] = Blank \/ (e.buf[u - e.offs] = Unit(im, u) /\ SectorOf(u) \in e.erased)
  BY <1>1, <1>2, <1>5 DEF InternalHolds
<1>6. ASSUME NEW u \in Units, SectorOf(u) \in e.erased
      PROVE  e.flash[u] \in {Blank, Unit(im, u)}
  BY <1>3, <1>6 DEF InternalHolds
<1>7. InternalHolds(e, im, c)
  BY <1>4, <1>5, <1>6 DEF InternalHolds
<1> QED
  BY <1>1, <1>7 DEF OpenAt

LEMMA InternalFlushIs ==
  ASSUME NEW d \in Storage, NEW fault, NEW r, r = InternalFlush(d, fault)
  PROVE  /\ ~r.ok => r.d = d
         /\ r.ok => /\ r.d.level = 0 /\ r.d.erased = d.erased /\ r.d.driver = d.driver
                    /\ \A u \in Units : r.d.flash[u] = IF InBuffer(d, u)
                                                       THEN Merged(d.flash[u], d.buf[u - d.offs]) ELSE d.flash[u]
<1>1. CASE d.level = 0
  <2>1. r = Done(TRUE, d)
    BY <1>1 DEF InternalFlush
  <2>2. \A u : ~InBuffer(d, u)
    BY <1>1 DEF InBuffer
  <2> QED
    BY <2>1, <2>2, <1>1 DEF Done
<1>2. CASE d.level # 0 /\ ProgramFails(fault, d.offs, Page)
  <2>1. r = Done(FALSE, d)
    BY <1>2 DEF InternalFlush
  <2> QED
    BY <2>1 DEF Done
<1>3. CASE d.level # 0 /\ ~ProgramFails(fault, d.offs, Page)
  <2>0. d.buf \in [0 .. Page - 1 -> Cell] /\ d.offs \in Nat /\ d.level \in Nat /\ Page \in Nat \ {0}
    BY StorageFields, Geometry DEF Fields
  <2>1. PICK n : n = IF d.level < Page THEN d.level ELSE Page
    OBVIOUS
  <2>2. PICK s : s = BufferSeq(d)
    OBVIOUS
  <2>3. n \in Nat /\ n <= Page /\ \A u \in Nat : InBuffer(d, u) <=> u \in d.offs .. d.offs + n - 1
    <3>1. n \in Nat /\ n <= Page /\ n <= d.level
      BY <2>0, <2>1
    <3>2. ASSUME NEW u \in Nat
          PROVE  InBuffer(d, u) <=> u \in d.offs .. d.offs + n - 1
      BY <2>0, <2>1, SMTT(30) DEF InBuffer
    <3> QED
      BY <3>1, <3>2
  <2>4. s = [i \in 1 .. Page |-> d.buf[i - 1]]
    BY <2>2 DEF BufferSeq
  <2>5. \A i \in 1 .. n : s[i] = d.buf[i - 1] /\ s[i] \in Cell
    BY <2>0, <2>3, <2>4
  <2>6. PICK f : f = Filled(d)
    OBVIOUS
  <2>7. f = SubSeq(s, 1, n)
    BY <2>1, <2>2, <2>6 DEF Filled
  <2>8. f \in Seq(Cell) /\ Len(f) = n /\ \A i \in 1 .. n : f[i] = s[i]
    <3>1. n \in Int /\ 1 \in Int
      BY <2>3
    <3>2. \A i \in 1 .. n : s[i] \in Cell
      BY <2>5
    <3> HIDE DEF Cell
    <3> QED
      BY <3>1, <3>2, <2>3, <2>7, SubSeqProperties
  <2>9. PICK p : p = Programmed(d, d.offs, f)
    OBVIOUS
  <2>10. p \in Storage
    BY <2>0, <2>8, <2>9, ProgrammedTyped
  <2>11. /\ \A u \in Units : p.flash[u] = IF u \in d.offs .. d.offs + Len(f) - 1
                                          THEN Merged(d.flash[u], f[u - d.offs + 1]) ELSE d.flash[u]
         /\ p.erased = d.erased /\ p.driver = d.driver
    BY <2>9, ProgrammedIs
  <2>12. r.ok /\ r.d = [p EXCEPT !.level = 0]
    BY <1>3, <2>6, <2>9 DEF InternalFlush, Done
  <2>13. r.d.level = 0 /\ r.d.flash = p.flash /\ r.d.erased = p.erased /\ r.d.driver = p.driver
    BY <2>10, <2>12 DEF Storage
  <2>14. ASSUME NEW u \in Units
         PROVE  r.d.flash[u] = IF InBuffer(d, u) THEN Merged(d.flash[u], d.buf[u - d.offs]) ELSE d.flash[u]
    <3>1. u \in Nat
      BY UnitsNat
    <3>2. CASE InBuffer(d, u)
      <4>1. u \in d.offs .. d.offs + n - 1
        BY <3>1, <3>2, <2>3
      <4>2. u - d.offs + 1 \in 1 .. n /\ (u - d.offs + 1) - 1 = u - d.offs
        BY <4>1, <3>1, <2>0, <2>3
      <4>3. f[u - d.offs + 1] = d.buf[u - d.offs]
        <5>1. PICK j \in 1 .. n : j = u - d.offs + 1 /\ j - 1 = u - d.offs
          BY <4>2
        <5>2. f[j] = d.buf[j - 1]
          BY <2>5, <2>8
        <5> QED
          BY <5>1, <5>2
      <4> QED
        BY <4>1, <4>3, <3>2, <2>8, <2>11, <2>13
    <3>3. CASE ~InBuffer(d, u)
      <4>1. ~(u \in d.offs .. d.offs + n - 1)
        BY <3>1, <3>3, <2>3
      <4> QED
        BY <4>1, <3>3, <2>8, <2>11, <2>13
    <3> QED
      BY <3>2, <3>3
  <2> QED
    BY <2>11, <2>12, <2>13, <2>14
<1> QED
  BY <1>1, <1>2, <1>3

LEMMA InternalFlushTyped ==
  ASSUME NEW d \in Storage, d.driver = "internal", NEW fault, NEW r, r = InternalFlush(d, fault)
  PROVE  r.d \in Storage
<1>1. r = Flush(d, fault)
  BY DEF Flush
<1> QED
  BY <1>1, FlushTyped

(* What was buffered of the image is in the flash then.                     *)
LEMMA InternalFlushHolds ==
  ASSUME NEW d \in Storage, NEW im, NEW c, InternalHolds(d, im, c),
         NEW fault, NEW r, r = InternalFlush(d, fault), r.ok
  PROVE  Flashed(r.d, im, c) /\ r.d.erased = d.erased
<1>1. /\ r.d.level = 0 /\ r.d.erased = d.erased
      /\ \A u \in Units : r.d.flash[u] = IF InBuffer(d, u)
                                         THEN Merged(d.flash[u], d.buf[u - d.offs]) ELSE d.flash[u]
  BY InternalFlushIs
<1>2. ASSUME NEW u \in Units, SectorOf(u) \in d.erased
      PROVE  /\ r.d.flash[u] \in {Blank, Unit(im, u)}
             /\ d.flash[u] = Unit(im, u) => r.d.flash[u] = Unit(im, u)
             /\ InBuffer(d, u) /\ d.buf[u - d.offs] = Unit(im, u) => r.d.flash[u] = Unit(im, u)
  <2>1. d.flash[u] \in {Blank, Unit(im, u)}
    BY <1>2 DEF InternalHolds
  <2>2. CASE InBuffer(d, u)
    <3>1. r.d.flash[u] = Merged(d.flash[u], d.buf[u - d.offs])
      BY <2>2, <1>1
    <3>2. d.buf[u - d.offs] \in {Blank, Unit(im, u)}
      BY <2>2 DEF InternalHolds
    <3>3. CASE d.buf[u - d.offs] = Unit(im, u)
      <4>1. r.d.flash[u] = Unit(im, u)
        BY <3>1, <3>3, <2>1, MergedIs
      <4> QED
        BY <4>1
    <3>4. CASE d.buf[u - d.offs] # Unit(im, u)
      <4>1. r.d.flash[u] = d.flash[u]
        BY <3>1, <3>2, <3>4, MergedIs
      <4> QED
        BY <4>1, <3>4, <2>1
    <3> QED
      BY <3>3, <3>4
  <2>3. CASE ~InBuffer(d, u)
    BY <2>1, <2>3, <1>1
  <2> QED
    BY <2>2, <2>3
<1>3. ASSUME NEW u \in Units, u < c
      PROVE  SectorOf(u) \in r.d.erased /\ r.d.flash[u] = Unit(im, u)
  BY <1>1, <1>2, <1>3 DEF InternalHolds
<1> QED
  BY <1>1, <1>2, <1>3 DEF Flashed

(* Whole phrases go to the flash, and the rest to the buffer.               *)
LEMMA InternalProgramHolds ==
  ASSUME NEW d \in Storage, NEW im, NEW a \in Nat, NEW data \in Seq(Cell), Flashed(d, im, a),
         \A j \in 1 .. Len(data) : data[j] = Unit(im, a + j - 1),
         \A u \in Units : a <= u /\ u < a + Len(data) => SectorOf(u) \in d.erased,
         NEW fault, NEW r, r = InternalProgram(d, a, data, fault)
  PROVE  /\ d.erased \subseteq r.d.erased
         /\ r.ok => /\ InternalHolds(r.d, im, a + Len(data)) /\ OpenAt(r.d, a + Len(data))
                    /\ ReadsAs(r.d, im, 0, a + Len(data))
         /\ ~r.ok => InternalHolds(r.d, im, a) /\ \A c \in 0 .. a : OpenAt(r.d, c)
<1>0. Len(data) \in Nat /\ Page \in Nat \ {0}
  BY LenProperties, Geometry
<1>1. CASE r.d = d /\ ~r.ok
  BY <1>1, FlashedHolds
<1>2. CASE \E whole \in Nat, rest \in 0 .. Page - 1, put \in Nat : Phrases(d, a, data, r, whole, rest, put)
  <2>1. PICK whole \in Nat, rest \in 0 .. Page - 1, put \in Nat : Phrases(d, a, data, r, whole, rest, put)
    BY <1>2
  <2>2. /\ whole + rest = Len(data) /\ put <= whole /\ (r.ok <=> put = whole)
        /\ r.d.level = rest /\ r.d.offs = a + whole /\ r.d.erased = d.erased
        /\ \A u \in Units : r.d.flash[u] = IF u \in a .. a + put - 1
                                           THEN Merged(d.flash[u], data[u - a + 1]) ELSE d.flash[u]
        /\ \A i \in 0 .. Page - 1 : r.d.buf[i] = IF i < rest THEN data[whole + i + 1] ELSE d.buf[i]
    BY <2>1 DEF Phrases
  <2>3. ASSUME NEW u \in Units
        PROVE  /\ SectorOf(u) \in d.erased => r.d.flash[u] \in {Blank, Unit(im, u)}
               /\ u < a + put => SectorOf(u) \in d.erased /\ r.d.flash[u] = Unit(im, u)
    <3>1. u \in Nat
      BY UnitsNat
    <3>2. CASE u \in a .. a + put - 1
      <4>1. u < a + Len(data) /\ a <= u /\ u - a + 1 \in 1 .. Len(data) /\ a + (u - a + 1) - 1 = u
        BY <3>1, <3>2, <2>2, <1>0
      <4>2. data[u - a + 1] = Unit(im, u)
        BY <4>1
      <4>3. SectorOf(u) \in d.erased /\ d.flash[u] \in {Blank, Unit(im, u)}
        BY <4>1 DEF Flashed
      <4>4. r.d.flash[u] = Merged(d.flash[u], data[u - a + 1])
        BY <3>2, <2>2
      <4> QED
        BY <4>2, <4>3, <4>4, MergedIs
    <3>3. CASE ~(u \in a .. a + put - 1)
      <4>1. r.d.flash[u] = d.flash[u] /\ (u < a + put => u < a)
        BY <3>1, <3>3, <2>2
      <4> QED
        BY <4>1 DEF Flashed
    <3> QED
      BY <3>2, <3>3
  <2>4. ASSUME NEW u \in Units
        PROVE  InBuffer(r.d, u) <=> a + whole <= u /\ u < a + Len(data)
    <3>1. u \in Nat
      BY UnitsNat
    <3> QED
      BY <3>1, <2>2, <1>0 DEF InBuffer
  <2>5. ASSUME NEW u \in Units, InBuffer(r.d, u)
        PROVE  r.d.buf[u - r.d.offs] = Unit(im, u) /\ SectorOf(u) \in d.erased
    <3>1. u \in Nat /\ a + whole <= u /\ u < a + Len(data)
      BY <2>4, <2>5, UnitsNat
    <3>2. PICK i \in 0 .. Page - 1 : i = u - r.d.offs /\ i < rest
      BY <3>1, <2>2, <1>0
    <3>3. whole + i + 1 \in 1 .. Len(data) /\ a + (whole + i + 1) - 1 = u
      BY <3>1, <3>2, <2>2, <1>0
    <3>4. data[whole + i + 1] = Unit(im, u)
      BY <3>3
    <3> QED
      BY <3>1, <3>2, <3>4, <2>2
  <2>6. ASSUME r.ok
        PROVE  /\ InternalHolds(r.d, im, a + Len(data)) /\ OpenAt(r.d, a + Len(data))
               /\ ReadsAs(r.d, im, 0, a + Len(data))
    <3>1. ASSUME NEW u \in Units, u < a + Len(data)
          PROVE  /\ SectorOf(u) \in d.erased
                 /\ r.d.flash[u] = Unit(im, u) \/ (InBuffer(r.d, u) /\ r.d.buf[u - r.d.offs] = Unit(im, u))
      <4>1. u \in Nat
        BY UnitsNat
      <4>2. u < a + put \/ InBuffer(r.d, u)
        BY <4>1, <3>1, <2>2, <2>4, <2>6
      <4> QED
        BY <4>2, <2>3, <2>5
    <3>2. InternalHolds(r.d, im, a + Len(data))
      BY <3>1, <2>2, <2>3, <2>5 DEF InternalHolds
    <3>3. OpenAt(r.d, a + Len(data))
      <4>1. a + Len(data) = r.d.offs + r.d.level
        <5>1. whole + rest = Len(data) /\ r.d.level = rest /\ r.d.offs = a + whole /\ rest \in Nat
          BY <2>2, <1>0
        <5>2. ASSUME NEW l, l = whole + rest
              PROVE  a + l = (a + whole) + rest
          <6>1. rest \in Nat
            BY <5>1
          <6> QED
            BY <6>1, <5>2
        <5> QED
          BY <5>1, <5>2
      <4> QED
        BY <4>1 DEF OpenAt
    <3>4. ReadsAs(r.d, im, 0, a + Len(data))
      <4>1. ASSUME NEW u \in Units, u < a + Len(data)
            PROVE  Read(r.d, u) = Unit(im, u)
        <5>1. CASE InBuffer(r.d, u)
          <6>1. Read(r.d, u) = r.d.buf[u - r.d.offs]
            BY <5>1 DEF Read, InBuffer
          <6> QED
            BY <6>1, <5>1, <2>5
        <5>2. CASE ~InBuffer(r.d, u)
          <6>1. Read(r.d, u) = r.d.flash[u]
            BY <5>2 DEF Read, InBuffer
          <6> QED
            BY <6>1, <5>2, <4>1, <3>1
        <5> QED
          BY <5>1, <5>2
      <4> QED
        BY <4>1 DEF ReadsAs
    <3> QED
      BY <3>2, <3>3, <3>4
  <2>7. ASSUME ~r.ok
        PROVE  InternalHolds(r.d, im, a) /\ \A c \in 0 .. a : OpenAt(r.d, c)
    <3>1. whole # 0
      BY <2>2, <2>7
    <3>2. \A u \in Units : u < a => u < a + put
      BY UnitsNat
    <3>3. InternalHolds(r.d, im, a)
      BY <3>2, <2>2, <2>3, <2>5 DEF InternalHolds
    <3>4. \A c \in 0 .. a : OpenAt(r.d, c)
      BY <3>1, <2>2 DEF OpenAt
    <3> QED
      BY <3>3, <3>4
  <2> QED
    BY <2>2, <2>6, <2>7
<1> QED
  BY <1>1, <1>2, InternalProgramIs

(* The phrase in the buffer is filled up with what is pushed.               *)
TakenOf(d, c, n) == IF n < d.offs + Page - c THEN n ELSE d.offs + Page - c
FilledUp(d, c, data, taken) ==
  [i \in 0 .. Page - 1 |-> LET u == d.offs + i
                           IN IF u \in c .. c + taken - 1 THEN data[u - c + 1] ELSE d.buf[i]]
Ready(d, a, b) == \A u \in Units : a <= u /\ u < b => SectorOf(u) \in d.erased

Filling(d, im, c, data, taken, b) ==
  /\ InternalHolds(d, im, c) /\ OpenAt(d, c) /\ d.level # 0 /\ c \in d.offs .. d.offs + Page - 1
  /\ HasUnits(data, im, c) /\ Ready(d, c, c + Len(data))
  /\ taken \in 0 .. Len(data) /\ taken = TakenOf(d, c, Len(data))
  /\ b.buf = FilledUp(d, c, data, taken) /\ b.level = d.level + taken
  /\ b.flash = d.flash /\ b.offs = d.offs /\ b.erased = d.erased

LEMMA FillHolds ==
  ASSUME NEW d \in Storage, NEW im, NEW c \in Nat, NEW data \in Seq(Cell), NEW taken, NEW b,
         Filling(d, im, c, data, taken, b)
  PROVE  /\ InternalHolds(b, im, c + taken)
         /\ b.level < Page => taken = Len(data) /\ OpenAt(b, c + taken) /\ ReadsAs(b, im, c, c + taken)
         /\ b.level >= Page => OpenAt(b, c)
<1>0. /\ InternalHolds(d, im, c) /\ OpenAt(d, c) /\ d.level # 0 /\ c \in d.offs .. d.offs + Page - 1
      /\ HasUnits(data, im, c) /\ Ready(d, c, c + Len(data))
      /\ taken \in 0 .. Len(data) /\ taken = TakenOf(d, c, Len(data))
  BY DEF Filling
<1>1. PICK g : g = FilledUp(d, c, data, taken)
  OBVIOUS
<1>2. b.buf = g /\ b.level = d.level + taken /\ b.flash = d.flash /\ b.offs = d.offs /\ b.erased = d.erased
  BY <1>1 DEF Filling
<1>3. Len(data) \in Nat /\ Page \in Nat \ {0} /\ d.offs \in Nat /\ d.level \in Nat /\ taken \in Nat
  BY <1>0, LenProperties, Geometry, StorageFields DEF Fields
<1>4. d.level < Page => c = d.offs + d.level
  BY <1>0, <1>3, SMTT(30) DEF OpenAt
<1>5. ASSUME NEW u \in Units
      PROVE  /\ InBuffer(b, u) <=> InBuffer(d, u) \/ (c <= u /\ u < c + taken)
             /\ c <= u /\ u < c + taken => b.buf[u - b.offs] = Unit(im, u) /\ SectorOf(u) \in d.erased
             /\ InBuffer(d, u) /\ ~(c <= u /\ u < c + taken) => b.buf[u - b.offs] = d.buf[u - d.offs]
  <2>1. u \in Nat
    BY UnitsNat
  <2>2. InBuffer(b, u) <=> InBuffer(d, u) \/ (c <= u /\ u < c + taken)
    <3>1. PICK o, v, n : o = d.offs /\ v = d.level /\ n = Len(data)
      OBVIOUS
    <3>2. /\ o \in Nat /\ v \in Nat /\ n \in Nat /\ taken \in Nat /\ Page \in Nat
          /\ o <= c /\ c < o + Page /\ taken <= n /\ taken <= o + Page - c
          /\ (v >= Page \/ c = o + v)
      BY <1>0, <1>3, <1>4, <3>1, SMTT(30) DEF TakenOf
    <3>3. InBuffer(d, u) <=> o <= u /\ u < o + v /\ u < o + Page
      BY <3>1, <3>2, <2>1, InBufferIs
    <3>4. InBuffer(b, u) <=> o <= u /\ u < o + v + taken /\ u < o + Page
      <4>1. b.level = v + taken /\ b.offs = o /\ b.level \in Nat /\ b.offs \in Nat
        BY <3>1, <3>2, <1>2
      <4>2. InBuffer(b, u) <=> b.offs <= u /\ u < b.offs + b.level /\ u < b.offs + Page
        BY <4>1, <2>1, InBufferIs
      <4>3. InBuffer(b, u) <=> o <= u /\ u < o + (v + taken) /\ u < o + Page
        BY <4>1, <4>2, Zenon
      <4>4. o + (v + taken) = o + v + taken
        BY <3>2
      <4> QED
        BY <4>3, <4>4, Zenon
    <3>5. (o <= u /\ u < o + v + taken /\ u < o + Page)
            <=> (o <= u /\ u < o + v /\ u < o + Page) \/ (c <= u /\ u < c + taken)
      <4>1. CASE v >= Page
        BY <4>1, <3>2, <2>1
      <4>2. CASE c = o + v
        BY <4>2, <3>2, <2>1
      <4> QED
        BY <4>1, <4>2, <3>2
    <3> QED
      BY <3>3, <3>4, <3>5
  <2>3. ASSUME u - d.offs \in 0 .. Page - 1
        PROVE  b.buf[u - b.offs] = IF u \in c .. c + taken - 1 THEN data[u - c + 1] ELSE d.buf[u - d.offs]
    <3>1. PICK i \in 0 .. Page - 1 : i = u - d.offs /\ d.offs + i = u
      BY <2>1, <2>3, <1>3
    <3>2. g[i] = LET x == d.offs + i IN IF x \in c .. c + taken - 1 THEN data[x - c + 1] ELSE d.buf[i]
      BY <1>1 DEF FilledUp
    <3> QED
      BY <3>1, <3>2, <1>2
  <2>4. ASSUME c <= u, u < c + taken
        PROVE  b.buf[u - b.offs] = Unit(im, u) /\ SectorOf(u) \in d.erased
    <3>1. u - d.offs \in 0 .. Page - 1 /\ u \in c .. c + taken - 1 /\ u < c + Len(data)
      <4>1. PICK o : o = d.offs
        OBVIOUS
      <4>2. PICK n : n = Len(data)
        OBVIOUS
      <4>3. /\ o \in Nat /\ n \in Nat /\ taken \in 0 .. n /\ c \in o .. o + Page - 1
            /\ taken = IF n < o + Page - c THEN n ELSE o + Page - c
        BY <1>0, <1>3, <4>1, <4>2 DEF TakenOf
      <4>5. o <= c /\ c < o + Page /\ taken <= n /\ taken <= o + Page - c
        BY <4>3, <1>3
      <4>4. u - o \in 0 .. Page - 1 /\ u \in c .. c + taken - 1 /\ u < c + n
        <5>1. o \in Nat /\ n \in Nat /\ taken \in Nat /\ Page \in Nat
          BY <4>3, <1>3
        <5> QED
          BY <5>1, <4>5, <2>1, <2>4
      <4> QED
        BY <4>1, <4>2, <4>4
    <3>2. PICK j \in 1 .. Len(data) : j = u - c + 1 /\ c + j - 1 = u
      BY <2>1, <2>4, <1>0, <1>3
    <3>3. data[u - c + 1] = Unit(im, u) /\ SectorOf(u) \in d.erased
      BY <1>0, <3>1, <3>2, <2>4 DEF HasUnits, Ready
    <3> QED
      BY <3>1, <3>3, <2>3, <2>4
  <2>5. InBuffer(d, u) => u - d.offs \in 0 .. Page - 1
    BY <2>1, <1>3 DEF InBuffer
  <2>6. u \in c .. c + taken - 1 => c <= u /\ u < c + taken
    BY <2>1, <1>3
  <2> QED
    BY <2>2, <2>3, <2>4, <2>5, <2>6
<1>6. ASSUME NEW u \in Units, u < c + taken
      PROVE  /\ SectorOf(u) \in b.erased
             /\ b.flash[u] = Unit(im, u) \/ (InBuffer(b, u) /\ b.buf[u - b.offs] = Unit(im, u))
  <2>1. u \in Nat
    BY UnitsNat
  <2>2. CASE c <= u
    BY <2>2, <1>2, <1>5, <1>6
  <2>3. CASE u < c
    <3>1. ~(c <= u)
      BY <2>1, <2>3
    <3> QED
      BY <1>0, <2>3, <3>1, <1>2, <1>5 DEF InternalHolds
  <2> QED
    BY <2>1, <2>2, <2>3
<1>7. ASSUME NEW u \in Units, InBuffer(b, u)
      PROVE  b.buf[u - b.offs] = Blank \/ (b.buf[u - b.offs] = Unit(im, u) /\ SectorOf(u) \in b.erased)
  <2>1. CASE c <= u /\ u < c + taken
    BY <2>1, <1>2, <1>5
  <2>2. CASE ~(c <= u /\ u < c + taken)
    <3>1. InBuffer(d, u) /\ b.buf[u - b.offs] = d.buf[u - d.offs]
      BY <2>2, <1>5, <1>7
    <3> QED
      BY <1>0, <3>1, <1>2 DEF InternalHolds
  <2> QED
    BY <2>1, <2>2
<1>8. InternalHolds(b, im, c + taken)
  BY <1>0, <1>2, <1>6, <1>7 DEF InternalHolds
<1>9. ASSUME b.level < Page
      PROVE  taken = Len(data) /\ OpenAt(b, c + taken) /\ ReadsAs(b, im, c, c + taken)
  <2>1. c + taken = b.offs + b.level /\ taken = Len(data)
    <3>1. PICK o : o = d.offs
      OBVIOUS
    <3>2. PICK v : v = d.level
      OBVIOUS
    <3>3. PICK n : n = Len(data)
      OBVIOUS
    <3>10. o \in Nat /\ v \in Nat /\ n \in Nat /\ Page \in Nat /\ taken \in Nat
      BY <1>3, <3>1, <3>2, <3>3
    <3>5. b.offs = o /\ b.level = v + taken /\ v + taken < Page
      BY <1>2, <1>9, <3>1, <3>2
    <3>4. c = o + v
      <4>1. v < Page
        BY <3>5, <3>10
      <4> QED
        BY <1>4, <3>1, <3>2, <4>1
    <3>6. taken = IF n < o + Page - c THEN n ELSE o + Page - c
      BY <1>0, <1>3, <3>1, <3>3 DEF TakenOf
    <3>7. o + Page - c = Page - v
      BY <3>4, <3>10
    <3>8. taken = n
      BY <3>5, <3>6, <3>7, <3>10
    <3>9. c + taken = o + (v + taken)
      BY <3>4, <3>8, <3>10
    <3> QED
      BY <3>3, <3>5, <3>8, <3>9
  <2>2. ASSUME NEW u \in Units, c <= u, u < c + taken
        PROVE  Read(b, u) = Unit(im, u)
    <3>1. InBuffer(b, u) /\ b.buf[u - b.offs] = Unit(im, u)
      BY <2>2, <1>5
    <3> QED
      BY <3>1 DEF InBuffer, Read
  <2> QED
    BY <2>1, <2>2 DEF OpenAt, ReadsAs
<1>10. b.level >= Page => OpenAt(b, c)
  BY <1>2, <1>3 DEF OpenAt
<1> QED
  BY <1>2, <1>8, <1>9, <1>10

(* A phrase that is not continued is padded.                                *)
LEMMA PadHolds ==
  ASSUME NEW d \in Storage, NEW im, NEW c, InternalHolds(d, im, c),
         NEW b, b = [d EXCEPT !.buf = [i \in 0 .. Page - 1 |-> IF i < d.level THEN d.buf[i] ELSE Blank],
                              !.level = Page]
  PROVE  InternalHolds(b, im, c) /\ b.erased = d.erased /\ b.level = Page /\ \A x : OpenAt(b, x)
<1>1. PICK g : g = [i \in 0 .. Page - 1 |-> IF i < d.level THEN d.buf[i] ELSE Blank]
  OBVIOUS
<1>2. b.buf = g /\ b.level = Page /\ b.flash = d.flash /\ b.offs = d.offs /\ b.erased = d.erased
  <2>1. b = [d EXCEPT !.buf = g, !.level = Page]
    BY <1>1
  <2> QED
    BY <2>1 DEF Storage
<1>3. Page \in Nat \ {0} /\ d.offs \in Nat /\ d.level \in Nat
  BY Geometry, StorageFields DEF Fields
<1>4. ASSUME NEW u \in Units
      PROVE  /\ InBuffer(d, u) => InBuffer(b, u) /\ b.buf[u - b.offs] = d.buf[u - d.offs]
             /\ InBuffer(b, u) /\ ~InBuffer(d, u) => b.buf[u - b.offs] = Blank
  <2>1. u \in Nat
    BY UnitsNat
  <2>2. InBuffer(d, u) => InBuffer(b, u)
    BY <2>1, <1>2, <1>3 DEF InBuffer
  <2>3. ASSUME InBuffer(b, u)
        PROVE  b.buf[u - b.offs] = IF InBuffer(d, u) THEN d.buf[u - d.offs] ELSE Blank
    <3>1. PICK i \in 0 .. Page - 1 : i = u - d.offs
      BY <2>1, <2>3, <1>2, <1>3 DEF InBuffer
    <3>2. i < d.level <=> InBuffer(d, u)
      BY <2>1, <3>1, <1>3 DEF InBuffer
    <3>3. g[i] = IF i < d.level THEN d.buf[i] ELSE Blank
      BY <1>1
    <3> QED
      BY <3>1, <3>2, <3>3, <1>2
  <2> QED
    BY <2>2, <2>3
<1>5. ASSUME NEW u \in Units, u < c
      PROVE  /\ SectorOf(u) \in b.erased
             /\ b.flash[u] = Unit(im, u) \/ (InBuffer(b, u) /\ b.buf[u - b.offs] = Unit(im, u))
  BY <1>2, <1>4, <1>5 DEF InternalHolds
<1>6. ASSUME NEW u \in Units, InBuffer(b, u)
      PROVE  b.buf[u - b.offs] = Blank \/ (b.buf[u - b.offs] = Unit(im, u) /\ SectorOf(u) \in b.erased)
  BY <1>2, <1>4, <1>6 DEF InternalHolds
<1>7. InternalHolds(b, im, c)
  BY <1>2, <1>5, <1>6 DEF InternalHolds
<1>8. ~(b.level \in 1 .. Page - 1)
  BY <1>2, <1>3
<1> QED
  BY <1>2, <1>7, <1>8 DEF OpenAt

LEMMA InternalWriteHolds ==
  ASSUME NEW d \in Storage, d.driver = "internal", NEW im, NEW c \in Nat, NEW data \in Seq(Cell),
         Len(data) > 0, InternalHolds(d, im, c), OpenAt(d, c),
         \A j \in 1 .. Len(data) : data[j] = Unit(im, c + j - 1),
         NEW fault, NEW r, r = InternalWrite(d, c, data, fault)
  PROVE  /\ d.erased \subseteq r.d.erased
         /\ r.ok => /\ InternalHolds(r.d, im, c + Len(data)) /\ OpenAt(r.d, c + Len(data))
                    /\ ReadsAs(r.d, im, c, c + Len(data))
         /\ ~r.ok => InternalHolds(r.d, im, c) /\ OpenAt(r.d, c)
<1>1. PICK n \in Nat \ {0} : n = Len(data)
  BY LenProperties
<1>2. PICK q : q = InternalErase(d, c, n, fault)
  OBVIOUS
<1>3. PICK e : e = q.d
  OBVIOUS
<1>4. e \in Storage
  BY <1>2, <1>3, InternalEraseTyped
<1>5. /\ d.erased \subseteq e.erased /\ InternalHolds(e, im, c) /\ OpenAt(e, c) /\ e.driver = "internal"
      /\ q.ok => SectorsOf(c, n) \subseteq e.erased
  <2>1. Cleared(d, e) /\ (q.ok => SectorsOf(c, n) \subseteq e.erased)
    BY <1>2, <1>3, InternalEraseIs
  <2>2. d.erased \subseteq e.erased /\ e.driver = "internal"
    BY <2>1 DEF Cleared, Still
  <2> QED
    BY <2>1, <2>2, InternalEraseHolds
<1>6. q.ok => \A u \in Units : c <= u /\ u < c + n => SectorOf(u) \in e.erased
  <2>1. ASSUME q.ok, NEW u \in Units, c <= u, u < c + n
        PROVE  SectorOf(u) \in e.erased
    <3>1. u \in Nat /\ u \in c .. c + n - 1
      BY <2>1, UnitsNat
    <3>2. SectorOf(u) \in SectorsOf(c, n)
      BY <3>1, SectorsOfArea
    <3> QED
      BY <3>2, <2>1, <1>5
  <2> QED
    BY <2>1
<1>7. Page \in Nat \ {0} /\ e.offs \in Nat /\ e.level \in Nat
  BY <1>4, Geometry, StorageFields DEF Fields
<1>8. CASE ~InPartition(c, n)
  <2>1. r = Done(FALSE, d)
    BY <1>1, <1>8 DEF InternalWrite
  <2> QED
    BY <2>1 DEF Done
<1>9. CASE InPartition(c, n) /\ ~q.ok
  <2>1. r = q
    BY <1>1, <1>2, <1>9 DEF InternalWrite
  <2> QED
    BY <2>1, <1>3, <1>5, <1>9
<1>10. CASE InPartition(c, n) /\ q.ok /\ e.level = 0
  <2>1. r = InternalProgram(e, c, data, fault)
    BY <1>1, <1>2, <1>3, <1>10 DEF InternalWrite
  <2>2. Flashed(e, im, c)
    <3>1. \A u : ~InBuffer(e, u)
      BY <1>10 DEF InBuffer
    <3> QED
      BY <3>1, <1>5, <1>10 DEF InternalHolds, Flashed
  <2>3. \A u \in Units : c <= u /\ u < c + Len(data) => SectorOf(u) \in e.erased
    BY <1>1, <1>6, <1>10
  <2>4. /\ e.erased \subseteq r.d.erased
        /\ r.ok => /\ InternalHolds(r.d, im, c + Len(data)) /\ OpenAt(r.d, c + Len(data))
                   /\ ReadsAs(r.d, im, 0, c + Len(data))
        /\ ~r.ok => InternalHolds(r.d, im, c) /\ \A x \in 0 .. c : OpenAt(r.d, x)
    BY <2>1, <2>2, <2>3, <1>4, InternalProgramHolds
  <2>5. ReadsAs(r.d, im, 0, c + Len(data)) => ReadsAs(r.d, im, c, c + Len(data))
    BY UnitsNat DEF ReadsAs
  <2>6. c \in 0 .. c
    OBVIOUS
  <2> QED
    BY <2>4, <2>5, <2>6, <1>5
<1>11. ASSUME InPartition(c, n), q.ok, e.level # 0,
              NEW taken \in 0 .. n, NEW b \in Storage,
              InternalHolds(b, im, c + taken), b.erased = e.erased,
              b.level < Page => taken = n /\ OpenAt(b, c + taken) /\ ReadsAs(b, im, c, c + taken),
              b.level >= Page => OpenAt(b, c),
              NEW f, f = InternalFlush(b, fault), f.d \in Storage,
              r = IF b.level < Page THEN Done(TRUE, b)
                  ELSE IF ~f.ok THEN f
                  ELSE InternalProgram(f.d, c + taken, SubSeq(data, taken + 1, n), fault)
       PROVE  /\ d.erased \subseteq r.d.erased
              /\ r.ok => /\ InternalHolds(r.d, im, c + n) /\ OpenAt(r.d, c + n)
                         /\ ReadsAs(r.d, im, c, c + n)
              /\ ~r.ok => InternalHolds(r.d, im, c) /\ OpenAt(r.d, c)
  <2>0. taken \in Nat /\ c <= c + taken /\ c + taken \in Nat /\ b.level \in Nat
    BY <1>11, StorageFields DEF Fields
  <2>1. CASE b.level < Page
    <3>1. r.ok /\ r.d = b
      BY <2>1, <1>11 DEF Done
    <3> QED
      BY <3>1, <2>1, <1>5, <1>11
  <2>2. CASE ~(b.level < Page) /\ ~f.ok
    <3>1. r = f /\ f.d = b
      BY <2>2, <1>11, InternalFlushIs
    <3>2. InternalHolds(b, im, c)
      BY <2>0, <1>11, InternalLess
    <3>3. OpenAt(b, c)
      BY <2>0, <2>2, <1>7, <1>11
    <3> QED
      BY <3>1, <3>2, <3>3, <2>2, <1>5, <1>11
  <2>3. CASE ~(b.level < Page) /\ f.ok
    <3>1. PICK s : s = SubSeq(data, taken + 1, n)
      OBVIOUS
    <3>2. PICK a \in Nat : a = c + taken
      BY <2>0
    <3>3. r = InternalProgram(f.d, a, s, fault)
      BY <2>3, <1>11, <3>1, <3>2
    <3>4. s \in Seq(Cell) /\ Len(s) = n - taken /\ \A j \in 1 .. Len(s) : s[j] = Unit(im, a + j - 1)
      <4>1. \A i \in taken + 1 .. n : data[i] \in Cell
        <5>1. \A i \in taken + 1 .. n : i \in 1 .. Len(data)
          BY <2>0, <1>1
        <5> QED
          BY <5>1, ElementOfSeq
      <4>2. taken + 1 \in Int /\ n \in Int
        BY <2>0, <1>1
      <4>3. s \in Seq(Cell)
        BY <3>1, <4>1, <4>2, SubSeqProperties
      <4>4. Len(s) = IF taken + 1 <= n THEN n - (taken + 1) + 1 ELSE 0
        BY <3>1, <4>1, <4>2, SubSeqProperties
      <4>5. Len(s) = n - taken
        BY <4>4, <2>0, <1>1, <1>11
      <4>6. ASSUME NEW j \in 1 .. Len(s)
            PROVE  s[j] = Unit(im, a + j - 1)
        <5>1. j \in 1 .. n - taken /\ j \in 1 .. n - (taken + 1) + 1
          BY <4>5, <2>0, <1>1
        <5>2. s[j] = data[taken + 1 + j - 1]
          BY <3>1, <4>1, <4>2, <5>1, SubSeqProperties
        <5>3. PICK i \in 1 .. Len(data) : i = taken + 1 + j - 1 /\ c + i - 1 = a + j - 1
          BY <5>1, <3>2, <2>0, <1>1
        <5> QED
          BY <5>2, <5>3
      <4> QED
        BY <4>3, <4>5, <4>6
    <3>5. Flashed(f.d, im, a) /\ f.d.erased = e.erased
      BY <2>3, <3>2, <1>11, InternalFlushHolds
    <3>6. a + Len(s) = c + n
      BY <3>2, <3>4, <2>0, <1>1
    <3>7. \A u \in Units : a <= u /\ u < a + Len(s) => SectorOf(u) \in f.d.erased
      <4>1. ASSUME NEW u \in Units, a <= u, u < a + Len(s)
            PROVE  c <= u /\ u < c + n
        BY <4>1, <3>2, <3>6, <2>0, UnitsNat
      <4> QED
        BY <4>1, <3>5, <1>6, <1>11
    <3>8. /\ f.d.erased \subseteq r.d.erased
          /\ r.ok => /\ InternalHolds(r.d, im, a + Len(s)) /\ OpenAt(r.d, a + Len(s))
                     /\ ReadsAs(r.d, im, 0, a + Len(s))
          /\ ~r.ok => InternalHolds(r.d, im, a) /\ \A x \in 0 .. a : OpenAt(r.d, x)
      <4>1. PICK g : g = f.d
        OBVIOUS
      <4>2. /\ g \in Storage /\ Flashed(g, im, a) /\ r = InternalProgram(g, a, s, fault)
            /\ \A u \in Units : a <= u /\ u < a + Len(s) => SectorOf(u) \in g.erased
        BY <4>1, <1>11, <3>3, <3>5, <3>7
      <4>3. s \in Seq(Cell) /\ \A j \in 1 .. Len(s) : s[j] = Unit(im, a + j - 1)
        BY <3>4
      <4>4. /\ g.erased \subseteq r.d.erased
            /\ r.ok => /\ InternalHolds(r.d, im, a + Len(s)) /\ OpenAt(r.d, a + Len(s))
                       /\ ReadsAs(r.d, im, 0, a + Len(s))
            /\ ~r.ok => InternalHolds(r.d, im, a) /\ \A x \in 0 .. a : OpenAt(r.d, x)
        BY <4>2, <4>3, InternalProgramHolds
      <4> QED
        BY <4>1, <4>4
    <3>9. ReadsAs(r.d, im, 0, c + n) => ReadsAs(r.d, im, c, c + n)
      BY UnitsNat DEF ReadsAs
    <3>10. c \in 0 .. a /\ (InternalHolds(r.d, im, a) => InternalHolds(r.d, im, c))
      BY <3>2, <2>0, InternalLess
    <3> QED
      BY <3>5, <3>6, <3>8, <3>9, <3>10, <1>5
  <2> QED
    BY <2>1, <2>2, <2>3
<1>12. CASE InPartition(c, n) /\ q.ok /\ e.level # 0 /\ c \in e.offs .. e.offs + Page - 1
  <2>1. PICK taken : taken = IF n < e.offs + Page - c THEN n ELSE e.offs + Page - c
    OBVIOUS
  <2>2. taken \in 0 .. n
    BY <2>1, <1>7, <1>12
  <2>3. PICK b : b = [e EXCEPT !.buf = [i \in 0 .. Page - 1 |-> LET u == e.offs + i
                                           IN IF u \in c .. c + taken - 1 THEN data[u - c + 1] ELSE e.buf[i]],
                               !.level = @ + taken]
    OBVIOUS
  <2>4. PICK f : f = InternalFlush(b, fault)
    OBVIOUS
  <2>5. r = IF b.level < Page THEN Done(TRUE, b)
            ELSE IF ~f.ok THEN f
            ELSE InternalProgram(f.d, c + taken, SubSeq(data, taken + 1, n), fault)
    BY <1>1, <1>2, <1>3, <1>12, <2>1, <2>3, <2>4, ZenonT(60) DEF InternalWrite
  <2>9. PICK g : g = [i \in 0 .. Page - 1 |-> LET u == e.offs + i
                                           IN IF u \in c .. c + taken - 1 THEN data[u - c + 1] ELSE e.buf[i]]
    OBVIOUS
  <2>10. PICK l \in Nat : l = e.level + taken
    BY <2>2, <1>7
  <2>11. b = [e EXCEPT !.buf = g, !.level = l]
    BY <2>3, <2>9, <2>10, <1>4 DEF Storage
  <2>6. /\ InternalHolds(b, im, c + taken) /\ b.erased = e.erased /\ b.level = e.level + taken
        /\ b.level < Page => taken = Len(data) /\ OpenAt(b, c + taken) /\ ReadsAs(b, im, c, c + taken)
        /\ b.level >= Page => OpenAt(b, c)
    <3>1. \A u \in Units : c <= u /\ u < c + Len(data) => SectorOf(u) \in e.erased
      BY <1>1, <1>6, <1>12
    <3>2. taken \in 0 .. Len(data) /\ taken = TakenOf(e, c, Len(data)) /\ Ready(e, c, c + Len(data))
      BY <2>1, <2>2, <3>1, <1>1 DEF TakenOf, Ready
    <3>3. /\ InternalHolds(e, im, c) /\ OpenAt(e, c) /\ e.level # 0 /\ c \in e.offs .. e.offs + Page - 1
          /\ HasUnits(data, im, c)
      BY <1>5, <1>12 DEF HasUnits
    <3>4. g = FilledUp(e, c, data, taken)
      BY <2>9 DEF FilledUp
    <3>5. b.buf = g /\ b.level = l /\ b.flash = e.flash /\ b.offs = e.offs /\ b.erased = e.erased
      BY <2>11, <1>4 DEF Storage
    <3>6. Filling(e, im, c, data, taken, b)
      BY <3>2, <3>3, <3>4, <3>5, <2>10 DEF Filling
    <3> QED
      BY <3>5, <3>6, <2>10, <1>4, FillHolds
  <2>7. b \in Storage
    <3>2. \A i \in 0 .. Page - 1 : g[i] \in Cell
      <4>1. ASSUME NEW i \in 0 .. Page - 1
            PROVE  g[i] \in Cell
        <5>1. PICK u : u = e.offs + i
          OBVIOUS
        <5>2. g[i] = IF u \in c .. c + taken - 1 THEN data[u - c + 1] ELSE e.buf[i]
          BY <2>9, <5>1
        <5>3. u \in Nat /\ e.buf[i] \in Cell
          BY <5>1, <1>4, <1>7, StorageFields DEF Fields
        <5>4. u \in c .. c + taken - 1 => u - c + 1 \in 1 .. Len(data)
          BY <5>3, <2>2, <1>1
        <5>5. u \in c .. c + taken - 1 => data[u - c + 1] \in Cell
          BY <5>4, ElementOfSeq
        <5> QED
          BY <5>2, <5>3, <5>5
      <4> QED
        BY <4>1
    <3>3. g \in [0 .. Page - 1 -> Cell]
      BY <2>9, <3>2
    <3> QED
      BY <3>3, <2>10, <2>11, <1>4 DEF Storage
  <2>8. f.d \in Storage
    <3>1. b.driver = e.driver
      BY <2>3, <1>4 DEF Storage
    <3> QED
      BY <3>1, <2>4, <2>7, <1>5, InternalFlushTyped
  <2> QED
    BY <1>1, <1>11, <1>12, <2>2, <2>4, <2>5, <2>6, <2>7, <2>8
<1>13. CASE InPartition(c, n) /\ q.ok /\ e.level # 0 /\ ~(c \in e.offs .. e.offs + Page - 1)
  <2>1. PICK b : b = [e EXCEPT !.buf = [i \in 0 .. Page - 1 |-> IF i < e.level THEN e.buf[i] ELSE Blank],
                               !.level = Page]
    OBVIOUS
  <2>2. PICK f : f = InternalFlush(b, fault)
    OBVIOUS
  <2>3. r = IF b.level < Page THEN Done(TRUE, b)
            ELSE IF ~f.ok THEN f
            ELSE InternalProgram(f.d, c + 0, SubSeq(data, 0 + 1, n), fault)
    BY <1>1, <1>2, <1>3, <1>13, <2>1, <2>2 DEF InternalWrite
  <2>4. InternalHolds(b, im, c) /\ b.erased = e.erased /\ b.level = Page /\ \A x : OpenAt(b, x)
    BY <2>1, <1>4, <1>5, PadHolds, ZenonT(60)
  <2>5. b \in Storage
    <3>1. [i \in 0 .. Page - 1 |-> IF i < e.level THEN e.buf[i] ELSE Blank] \in [0 .. Page - 1 -> Cell]
      BY <1>4, StorageFields DEF Fields, Cell
    <3> QED
      BY <3>1, <2>1, <1>4, <1>7 DEF Storage
  <2>6. f.d \in Storage
    <3>1. b.driver = e.driver
      BY <2>1, <1>4 DEF Storage
    <3> QED
      BY <3>1, <2>2, <2>5, <1>5, InternalFlushTyped
  <2>7. c + 0 = c /\ 0 \in 0 .. n /\ ~(b.level < Page)
    BY <2>4, <1>1, <1>7
  <2> QED
    BY <1>1, <1>11, <1>13, <2>2, <2>3, <2>4, <2>5, <2>6, <2>7
<1>14. InPartition(c, n) \in BOOLEAN /\ q.ok \in BOOLEAN
  BY <1>2, InternalEraseTyped DEF InPartition
<1> QED
  BY <1>8, <1>9, <1>10, <1>12, <1>13
-----------------------------------------------------------------------------
(* What a write does to the sectors and the buffer.                        *)
LEMMA InternalWriteIs ==
  ASSUME NEW d \in Storage, d.driver = "internal", NEW offs \in Nat, NEW data \in Seq(Cell), Len(data) > 0,
         NEW fault, NEW r, r = InternalWrite(d, offs, data, fault)
  PROVE  \/ r.d = d /\ ~r.ok
         \/ \E e \in Storage :
              /\ Cleared(d, e)
              /\ \/ r.d = e /\ ~r.ok
                 \/ /\ SectorsOf(offs, Len(data)) \subseteq e.erased /\ offs + Len(data) <= Size
                    /\ r.d.erased = e.erased /\ r.d.driver = e.driver
                    /\ e.level # 0 \/ r = InternalProgram(e, offs, data, fault)
<1>1. PICK q, b, f, taken, rest : Steps(d, offs, data, fault, r, q, b, f, taken, rest)
  BY InternalWriteSteps
<1>2. PICK n \in Nat \ {0} : n = Len(data)
  BY LenProperties
<1>3. PICK e : e = q.d
  OBVIOUS
<1>4. e \in Storage /\ Cleared(d, e) /\ (q.ok => SectorsOf(offs, n) \subseteq e.erased /\ offs + n <= Size)
  BY <1>1, <1>2, <1>3, InternalEraseIs DEF Steps
<1>5. CASE ~InPartition(offs, n)
  <2>1. r = Done(FALSE, d)
    BY <1>1, <1>2, <1>5 DEF Steps
  <2> QED
    BY <2>1 DEF Done
<1>6. CASE InPartition(offs, n) /\ ~q.ok
  <2>1. r = q
    BY <1>1, <1>2, <1>6 DEF Steps
  <2> QED
    BY <2>1, <1>3, <1>4, <1>6
<1>7. CASE InPartition(offs, n) /\ q.ok
  <2>1. e.driver = "internal"
    BY <1>4 DEF Cleared, Still
  <2>2. r.d.erased = e.erased /\ r.d.driver = e.driver /\ (e.level # 0 \/ r = InternalProgram(e, offs, data, fault))
    <3>1. \A g \in Storage, a \in Nat, s \in Seq(Cell) :
            LET t == InternalProgram(g, a, s, fault)
            IN t.d.erased = g.erased /\ t.d.driver = g.driver
      <4>1. ASSUME NEW g \in Storage, NEW a \in Nat, NEW s \in Seq(Cell),
                   NEW t, t = InternalProgram(g, a, s, fault)
            PROVE  t.d.erased = g.erased /\ t.d.driver = g.driver
        <5>1. \/ t.d = g
              \/ \E whole \in Nat, put \in Nat, r2 \in 0 .. Page - 1 : Phrases(g, a, s, t, whole, r2, put)
          BY <4>1, InternalProgramIs
        <5> QED
          BY <5>1 DEF Phrases
      <4> QED
        BY <4>1
    <3>2. CASE e.level = 0
      <4>1. r = InternalProgram(e, offs, data, fault)
        BY <3>2, <1>1, <1>2, <1>3, <1>7 DEF Steps
      <4> QED
        BY <4>1, <3>1, <1>4
    <3>3. CASE e.level # 0 /\ b.level < Page
      <4>1. r = Done(TRUE, b)
        BY <3>3, <1>1, <1>2, <1>3, <1>7 DEF Steps
      <4> QED
        BY <4>1, <3>3, <2>1, <1>1, <1>3 DEF Done, Steps
    <3>4. CASE e.level # 0 /\ ~(b.level < Page)
      <4>1. r = IF ~f.ok THEN f ELSE InternalProgram(f.d, offs + taken, rest, fault)
        BY <3>4, <1>1, <1>2, <1>3, <1>7 DEF Steps
      <4>2. f.d.erased = b.erased /\ f.d.driver = b.driver
        BY <1>1, InternalFlushIs DEF Steps
      <4>3. offs + taken \in Nat /\ rest \in Seq(Cell) /\ f.d \in Storage
        BY <1>1, <1>2 DEF Steps
      <4>4. r.d.erased = f.d.erased /\ r.d.driver = f.d.driver
        BY <4>1, <4>3, <3>1
      <4> QED
        BY <4>2, <4>4, <3>4, <2>1, <1>1, <1>3 DEF Steps
    <3> QED
      BY <3>2, <3>3, <3>4
  <2> QED
    BY <2>2, <1>2, <1>4, <1>7
<1>8. InPartition(offs, n) \in BOOLEAN /\ q.ok \in BOOLEAN
  BY <1>1 DEF Steps, InPartition
<1> QED
  BY <1>5, <1>6, <1>7, <1>8

LEMMA WriteKeeps ==
  ASSUME NEW d \in Storage, NEW offs \in Nat, NEW data \in Seq(Cell), Len(data) > 0, NEW fault,
         NEW r, r = Write(d, offs, data, fault)
  PROVE  /\ r.d.driver = d.driver
         /\ d.driver = "internal" => d.erased \subseteq r.d.erased /\ (r.d.erased = {} => r.d.level = d.level)
         /\ d.level = 0 /\ Len(data) = Page => r.d.level = 0
<1>1. d.driver \in {"external", "internal"}
  BY StorageFields DEF Fields
<1>2. CASE d.driver = "external"
  <2>1. r = ExternalWrite(d, offs, data, fault)
    BY <1>2 DEF Write
  <2>2. CASE Len(data) = Page \/ ~InPartition(offs, Len(data))
    <3>1. r.d = d \/ r.d = Programmed(d, offs, data)
      BY <2>1, <2>2 DEF ExternalWrite, Done
    <3> QED
      BY <3>1, <1>2, ProgrammedIs
  <2>3. CASE Len(data) # Page /\ InPartition(offs, Len(data))
    <3>1. r.d.driver = d.driver
      <4> DEFINE first == PageOf(offs)
                 end == offs + Len(data)
                 last == PageOf(end)
                 stop == IF ProgramFails(fault, first * Page, (last - first) * Page)
                         THEN PageOf(fault.at) ELSE last
                 g == [u \in Units |-> IF PageOf(u) \in first .. stop - 1
                                 THEN Merged(d.flash[u], PageBuffer(d, PageOf(u), offs, data)[u % Page])
                                 ELSE d.flash[u]]
                 b == IF stop < last \/ end % Page # 0 THEN Buffered(d, stop, offs, data)
                      ELSE [d EXCEPT !.buf = BlankBuffer, !.offs = end - Page, !.level = 0]
      <4>1. r = Done(stop = last, [b EXCEPT !.flash = g])
        BY <2>1, <2>3 DEF ExternalWrite
      <4>2. \E x, o, l : b = [d EXCEPT !.buf = x, !.offs = o, !.level = l]
        <5>1. PICK y : y = PageBuffer(d, stop, offs, data)
          OBVIOUS
        <5>2. PICK o : o = stop * Page
          OBVIOUS
        <5>3. PICK l : l = (IF stop = PageOf(offs) THEN d.level - offs ELSE -stop * Page)
                      + IF stop < PageOf(offs + Len(data)) THEN (stop + 1) * Page ELSE offs + Len(data)
          OBVIOUS
        <5>4. Buffered(d, stop, offs, data) = [d EXCEPT !.buf = y, !.offs = o, !.level = l]
          BY <5>1, <5>2, <5>3 DEF Buffered, Storage
        <5> HIDE DEF stop, last, end
        <5> QED
          BY <5>4
      <4>3. PICK h : h = g
        OBVIOUS
      <4>4. r.d = [b EXCEPT !.flash = h]
        BY <4>1, <4>3 DEF Done
      <4> HIDE DEF b, g, stop
      <4>5. PICK c : c = b
        OBVIOUS
      <4>6. PICK x, o, l : c = [d EXCEPT !.buf = x, !.offs = o, !.level = l]
        BY <4>2, <4>5
      <4>7. r.d = [[d EXCEPT !.buf = x, !.offs = o, !.level = l] EXCEPT !.flash = h]
        BY <4>4, <4>5, <4>6
      <4> QED
        BY <4>7 DEF Storage
    <3> QED
      BY <3>1, <2>3, <1>2
  <2> QED
    BY <2>2, <2>3
<1>3. CASE d.driver = "internal"
  <2>1. r = InternalWrite(d, offs, data, fault)
    BY <1>3 DEF Write
  <2>2. SectorsOf(offs, Len(data)) # {}
    <3>1. offs \in offs .. offs + Len(data) - 1 /\ Len(data) \in Nat \ {0}
      BY LenProperties
    <3> QED
      BY <3>1, SectorsOfArea
  <2>3. CASE r.d = d
    BY <2>3
  <2>4. ASSUME NEW e \in Storage, Cleared(d, e), r.d = e \/ SectorsOf(offs, Len(data)) \subseteq e.erased,
               r.d # e => /\ r.d.erased = e.erased /\ r.d.driver = e.driver
                          /\ e.level # 0 \/ r = InternalProgram(e, offs, data, fault)
        PROVE  /\ r.d.driver = d.driver
               /\ d.erased \subseteq r.d.erased /\ (r.d.erased = {} => r.d.level = d.level)
               /\ d.level = 0 /\ Len(data) = Page => r.d.level = 0
    <3>1. e.driver = d.driver /\ e.level = d.level /\ d.erased \subseteq e.erased
      BY <2>4 DEF Cleared, Still
    <3>2. CASE r.d = e
      BY <3>1, <3>2
    <3>3. CASE r.d # e
      <4>1. e.erased # {} /\ r.d.erased = e.erased /\ r.d.driver = e.driver
        BY <3>3, <2>2, <2>4
      <4>2. ASSUME d.level = 0, Len(data) = Page
            PROVE  r.d.level = 0
        <5>1. r = InternalProgram(e, offs, data, fault)
          BY <4>2, <3>1, <3>3, <2>4
        <5>2. PICK whole, rest, put : Phrases(e, offs, data, r, whole, rest, put)
          BY <5>1, <3>3, <2>4, InternalProgramIs
        <5>3. r.d.level = Page % Page
          BY <5>2, <4>2 DEF Phrases
        <5> QED
          BY <5>3, Geometry
      <4> QED
        BY <4>1, <4>2, <3>1
    <3> QED
      BY <3>2, <3>3
  <2>5. \/ r.d = d
        \/ \E e \in Storage : /\ Cleared(d, e)
                              /\ r.d = e \/ SectorsOf(offs, Len(data)) \subseteq e.erased
                              /\ r.d # e => /\ r.d.erased = e.erased /\ r.d.driver = e.driver
                                            /\ e.level # 0 \/ r = InternalProgram(e, offs, data, fault)
    BY <2>1, <1>3, InternalWriteIs
  <2> QED
    BY <2>3, <2>4, <2>5, <1>3
<1> QED
  BY <1>1, <1>2, <1>3

(* With nothing buffered the flash is read.                                 *)
LEMMA ReadIs == ASSUME NEW d, NEW u, d.level = 0 PROVE Read(d, u) = d.flash[u]
<1>1. ~(u - d.offs \in 0 .. d.level - 1)
  OBVIOUS
<1> QED
  BY <1>1 DEF Read

(* A page that is posted goes to the flash, and no other unit changes, but  *)
(* for the sectors that the internal driver erases first.                   *)
LEMMA PageWriteIs ==
  ASSUME NEW d \in Storage, d.level = 0, NEW offs \in Nat, NEW data \in Seq(Cell), Len(data) = Page,
         NEW fault, NEW r, r = Write(d, offs, data, fault), r.ok
  PROVE  /\ \A u \in Units : u < offs \/ offs + Page <= u =>
              r.d.flash[u] = IF SectorOf(u) \in r.d.erased \ d.erased THEN Blank ELSE d.flash[u]
         /\ d.erased \subseteq r.d.erased
         /\ d.driver = "internal" => SectorsOf(offs, Page) \subseteq r.d.erased
         /\ d.driver = "external" => r.d.erased = d.erased
<1>1. d.driver \in {"external", "internal"}
  BY StorageFields DEF Fields
<1>2. CASE d.driver = "external"
  <2>1. r = ExternalWrite(d, offs, data, fault)
    BY <1>2 DEF Write
  <2>2. r.d = Programmed(d, offs, data)
    BY <2>1 DEF ExternalWrite, Done
  <2>3. /\ r.d.erased = d.erased
        /\ \A u \in Units : r.d.flash[u] = IF u \in offs .. offs + Len(data) - 1
                                           THEN Merged(d.flash[u], data[u - offs + 1]) ELSE d.flash[u]
    <3>1. PICK p : p = Programmed(d, offs, data)
      OBVIOUS
    <3> QED
      BY <2>2, <3>1, ProgrammedIs
  <2> QED
    BY <2>3, <1>2, UnitsNat, Geometry
<1>3. CASE d.driver = "internal"
  <2>1. r = InternalWrite(d, offs, data, fault) /\ Len(data) > 0
    BY <1>3, Geometry DEF Write
  <2>2. PICK e \in Storage :
               /\ Cleared(d, e)
               /\ SectorsOf(offs, Page) \subseteq e.erased
               /\ r.d.erased = e.erased
               /\ e.level # 0 \/ r = InternalProgram(e, offs, data, fault)
    BY <2>1, <1>3, InternalWriteIs
  <2>3. e.level = 0 /\ d.erased \subseteq e.erased
        /\ \A u \in Units : e.flash[u] = IF SectorOf(u) \in e.erased \ d.erased THEN Blank ELSE d.flash[u]
    <3>1. Still(d, e) /\ d.erased \subseteq e.erased /\ Wiped(d, e, e.erased \ d.erased)
      BY <2>2 DEF Cleared
    <3> QED
      BY <3>1 DEF Still, Wiped
  <2>4. PICK whole \in Nat, rest \in 0 .. Page - 1, put \in Nat : Phrases(e, offs, data, r, whole, rest, put)
    BY <2>2, <2>3, InternalProgramIs
  <2>5. put <= Page
    BY <2>4, Geometry DEF Phrases
  <2>6. ASSUME NEW u \in Units, u < offs \/ offs + Page <= u
        PROVE  r.d.flash[u] = e.flash[u]
    <3>1. ~(u \in offs .. offs + put - 1)
      BY <2>5, <2>6, UnitsNat, Geometry
    <3> QED
      BY <3>1, <2>4 DEF Phrases
  <2> QED
    BY <2>2, <2>3, <2>6, <1>3
<1> QED
  BY <1>1, <1>2, <1>3

LEMMA FlushKeeps ==
  ASSUME NEW d \in Storage, NEW fault, NEW r, r = Flush(d, fault)
  PROVE  /\ r.d.driver = d.driver /\ r.d.erased = d.erased
         /\ d.level = 0 => r.d.level = 0
         /\ fault = NoFault => r.ok
<1>1. CASE d.driver = "external"
  <2>1. r = ExternalFlush(d, fault)
    BY <1>1 DEF Flush
  <2>2. PICK p : p = Programmed(d, d.offs, BufferSeq(d))
    OBVIOUS
  <2>3. p.driver = d.driver /\ p.erased = d.erased
    BY <2>2, ProgrammedIs
  <2>4. p \in [driver : {p.driver}, flash : {p.flash}, erased : {p.erased}, buf : {p.buf}, offs : {p.offs}, level : {p.level}]
    BY <2>2 DEF Programmed, Storage
  <2>5. r.d = d \/ r.d = [p EXCEPT !.buf = BlankBuffer, !.level = 0]
    BY <2>1, <2>2 DEF ExternalFlush, Done
  <2>6. fault = NoFault => r.ok
    BY <2>1 DEF ExternalFlush, ProgramFails, NoFault, Done
  <2> QED
    BY <2>3, <2>4, <2>5, <2>6, ZenonT(60)
<1>2. CASE d.driver = "internal"
  <2>1. r = InternalFlush(d, fault)
    BY <1>2 DEF Flush
  <2>2. r.ok \in BOOLEAN
    BY FlushTyped
  <2>3. fault = NoFault => r.ok
    BY <2>1 DEF InternalFlush, ProgramFails, NoFault, Done
  <2> QED
    BY <2>1, <2>2, <2>3, InternalFlushIs
<1> QED
  BY <1>1, <1>2, StorageFields DEF Fields
-----------------------------------------------------------------------------
(* The invariant, in parts.                                                *)

(* Up to where the storage is erased: the sector behind an image that ends *)
(* on the boundary of a sector is passed over.                             *)
Assured(x, n) == IF x <= n \/ LengthsInside THEN x ELSE n

(* What OtaSupport.c keeps in its variables and in the drivers.            *)
BookInv ==
  /\ broken => state = "permanent"
  /\ dev.driver = mode.driver
  /\ ~mode.queued => call \in {"ready", "commit", "notify"}
  /\ state = "acquiring" => total \in Lengths
  /\ state = "acquiring" /\ call \in {"commit", "notify"} => current = total
  /\ call = "notify" => state = "acquiring"
  /\ state = "permanent" /\ ~broken => erased = 0
  /\ mode.driver = "internal" /\ dev.erased = {} => dev.level = 0
  /\ mode.queued => dev.level = 0

(* The image is whole: it was flushed, or its queue has been worked off.   *)
ImageDone == \/ state = "acquiring" /\ (call = "notify" \/ (call = "commit" /\ ~mode.queued))
             \/ state = "ready"
DoneInv == ImageDone /\ ~spoiled => Intact(image, total)

(* Operations made at once.                                                *)
DirectInv ==
  ~mode.queued /\ ~spoiled /\ state = "acquiring" /\ call = "ready" =>
    /\ mode.driver = "external" => /\ ExternalHolds(dev, image, current, Assured(erased, total))
                                   /\ current <= Assured(erased, total) \/ current < total
    /\ mode.driver = "internal" => /\ InternalHolds(dev, image, current) /\ OpenAt(dev, current)
                                   /\ \A u \in Units : u < Assured(erased, total) => SectorOf(u) \in dev.erased

(* Operations posted: what is to be written, and erased.                   *)
Queueing == mode.queued /\ ~spoiled /\ state = "acquiring" /\ call # "notify"

PageText(x, im, n) == \A k \in 1 .. Page : x.addr + k - 1 < n => Padded(x.data)[k] = Unit(im, x.addr + k - 1)
NextErase(x, e, n) == /\ x.addr = e /\ e < n /\ x.size \in Nat \ {0}
                      /\ x.size = n - e \/ x.size \in Windows

QueueText ==
  Queueing =>
    /\ \A j \in WritesOf(ops, mem, phase) :
         PageText(mem[ops[j]], image, total) /\ (call # "commit" => mem[ops[j]].addr + Page <= Pushed)
    /\ cur # NoNode => \A k \in 1 .. Len(mem[cur].data) : mem[cur].data[k] = Unit(image, mem[cur].addr + k - 1)
    /\ \A j \in DOMAIN ops : mem[ops[j]].kind = "erase" => NextErase(mem[ops[j]], erased, total)
    /\ \A i, j \in DOMAIN ops : mem[ops[i]].kind = "erase" /\ mem[ops[j]].kind = "erase" => i = j

(* What has been written, and erased.                                      *)
WrittenHolds(d, im, w, p) ==
  /\ \A u \in Units : u < w /\ u < p => d.flash[u] = Unit(im, u)
  /\ d.driver = "internal" => \A u \in Units : u < w => SectorOf(u) \in d.erased
ErasedHolds(d, im, p, e) ==
  /\ d.driver = "external" => \A u \in Units : p <= u /\ u < e => d.flash[u] = Blank
  /\ d.driver = "internal" => \A u \in Units :
       /\ u < e => SectorOf(u) \in d.erased
       /\ SectorOf(u) \in d.erased => d.flash[u] \in {Blank, Unit(im, u)}

QueueFlash ==
  Queueing =>
    /\ WrittenHolds(dev, image, written, Pushed)
    /\ dev.driver = "external" => Pushed <= erased
    /\ call # "commit" => ErasedHolds(dev, image, Pushed, Assured(erased, total))

ImageInv == BookInv /\ DoneInv /\ DirectInv /\ QueueText /\ QueueFlash
-----------------------------------------------------------------------------
(* Where the next headroom is vouched for.                                 *)

LEMMA MultipleOf ==
  ASSUME NEW a \in Nat, NEW b \in Nat, a % Sector = 0, (a + b) % Sector = 0
  PROVE  b % Sector = 0
<1>1. PICK s \in Nat \ {0} : s = Sector
  BY Geometry
<1>0. ASSUME NEW x \in Nat, x % s = 0
      PROVE  \E q \in Nat : x = q * s
  <2>1. PICK q : q = x \div s
    OBVIOUS
  <2>2. q \in Nat /\ x = q * s + (x % s)
    BY <2>1, <1>1, Division
  <2>3. q * s \in Nat
    BY <2>2
  <2> QED
    BY <2>2, <2>3, <1>0
<1>2. PICK q \in Nat, k \in Nat : a = q * s /\ a + b = k * s
  <2>1. a + b \in Nat /\ (a + b) % s = 0 /\ a % s = 0
    BY <1>1
  <2> QED
    BY <2>1, <1>0, ZenonT(60)
<1>3. b = (k - q) * s /\ k - q \in Nat
  <2>1. b = k * s - q * s
    BY <1>2
  <2>2. k * s - q * s = (k - q) * s
    OBVIOUS
  <2>3. ~(k < q)
    <3>1. ASSUME k < q
          PROVE  FALSE
      <4>1. (q - k) * s >= s
        <5>1. q - k >= 1
          BY <3>1
        <5> QED
          BY <5>1
      <4>2. (q - k) * s = q * s - k * s
        OBVIOUS
      <4> QED
        BY <4>1, <4>2, <1>2
    <3> QED
      BY <3>1
  <2> QED
    BY <2>1, <2>2, <2>3
<1>4. ((k - q) * s) % s = 0
  BY <1>3
<1> QED
  BY <1>1, <1>3, <1>4

LEMMA EndOfNat == ASSUME NEW offs \in Nat, NEW size \in Nat PROVE EndOf(offs, size) \in Nat /\ offs + size < EndOf(offs, size)
<1>1. PICK n \in Nat : n = offs + size
  OBVIOUS
<1>2. n \div Sector \in Nat /\ n < (n \div Sector) * Sector + Sector
  BY Geometry, Division
<1>3. PICK q \in Nat : q = n \div Sector
  BY <1>2
<1>4. (q + 1) * Sector \in Nat /\ (q + 1) * Sector = q * Sector + Sector
  BY Geometry
<1> QED
  BY <1>1, <1>2, <1>3, <1>4 DEF EndOf, SectorOf

(* What an erasure adds to it is reached by the erasure.                    *)
Reaches(offs, size, e, f) ==
  \A u \in Nat : e <= u /\ u < f =>
     offs <= u /\ (u < offs + size \/ ((offs + size) % Sector # 0 /\ u < EndOf(offs, size)))

LEMMA AssuredNext ==
  ASSUME WindowsInside, NEW n \in Lengths, NEW e \in Nat, e < n, e % Sector = 0,
         NEW size \in Nat \ {0}, size = n - e \/ size \in Windows
  PROVE  Reaches(e, size, Assured(e, n), Assured(EndOf(e, size), n)) /\ Assured(e, n) = e
         /\ Assured(EndOf(e, size), n) \in Nat
<1>1. n \in Nat /\ Assured(e, n) = e
  BY ConfigAssumption, Geometry DEF Assured
<1>2. PICK f \in Nat : f = EndOf(e, size) /\ e + size < f
  BY EndOfNat
<1>3. size % Sector # 0 => (e + size) % Sector # 0
  BY MultipleOf
<1>4. Assured(EndOf(e, size), n) = IF f <= n \/ LengthsInside THEN f ELSE n
  BY <1>2 DEF Assured
<1> SUFFICES ASSUME NEW u \in Nat, Assured(e, n) <= u, u < Assured(EndOf(e, size), n)
             PROVE  e <= u /\ (u < e + size \/ ((e + size) % Sector # 0 /\ u < EndOf(e, size)))
  BY <1>1, <1>2, <1>4 DEF Reaches
<1>5. CASE size \in Windows
  <2>1. (e + size) % Sector # 0
    BY <1>3, <1>5 DEF WindowsInside
  <2>2. u < f
    BY <1>1, <1>2, <1>4
  <2> QED
    BY <2>1, <2>2, <1>1, <1>2
<1>6. CASE size = n - e
  <2>1. e + size = n
    BY <1>1, <1>6
  <2>2. CASE LengthsInside
    <3>1. n % Sector # 0
      BY <2>2 DEF LengthsInside
    <3> QED
      BY <3>1, <2>1, <2>2, <1>1, <1>2, <1>4
  <2>3. CASE ~LengthsInside
    BY <2>1, <2>3, <1>1, <1>2, <1>4
  <2> QED
    BY <2>2, <2>3
<1> QED
  BY <1>5, <1>6

-----------------------------------------------------------------------------
(* What the operations that are posted do to the storage.                   *)

(* A page written that reads back.                                          *)
PageDone(d, r, im, a, data, n) ==
  /\ d \in Storage /\ d.level = 0 /\ data \in Seq(Cell) /\ Len(data) = Page /\ r.ok
  /\ \A j \in 1 .. Page : Read(r.d, a + j - 1) = data[j]
  /\ \A k \in 1 .. Page : a + k - 1 < n => data[k] = Unit(im, a + k - 1)

LEMMA PageIn ==
  ASSUME NEW a \in Nat, NEW d, NEW data, NEW im, NEW n \in Nat, NEW fault,
         NEW r, r = Write(d, a, data, fault), PageDone(d, r, im, a, data, n),
         NEW u \in Units, a <= u, u < a + Page, u < n
  PROVE  r.d.flash[u] = Unit(im, u)
<1>1. r.d.level = 0
  <2>1. Len(data) > 0
    BY Geometry DEF PageDone
  <2> QED
    BY <2>1, WriteKeeps DEF PageDone
<1>2. PICK k \in 1 .. Page : k = u - a + 1
  BY UnitsNat, Geometry
<1>3. a + k - 1 = u
  BY <1>2, UnitsNat
<1>4. Read(r.d, u) = data[k] /\ data[k] = Unit(im, u)
  BY <1>2, <1>3 DEF PageDone
<1> QED
  BY <1>1, <1>4, ReadIs

LEMMA WrittenAfterPage ==
  ASSUME NEW a \in Nat, NEW d, NEW data, NEW im, NEW n \in Nat, NEW p \in Nat, p <= n, NEW fault,
         NEW r, r = Write(d, a, data, fault), PageDone(d, r, im, a, data, n), WrittenHolds(d, im, a, p)
  PROVE  WrittenHolds(r.d, im, a + Page, p)
<1>1. /\ \A u \in Units : u < a \/ a + Page <= u =>
              r.d.flash[u] = IF SectorOf(u) \in r.d.erased \ d.erased THEN Blank ELSE d.flash[u]
      /\ d.erased \subseteq r.d.erased
      /\ d.driver = "internal" => SectorsOf(a, Page) \subseteq r.d.erased
      /\ d.driver = "external" => r.d.erased = d.erased
  BY PageWriteIs DEF PageDone
<1>2. r.d.driver = d.driver /\ d.driver \in {"external", "internal"}
  <2>1. Len(data) > 0
    BY Geometry DEF PageDone
  <2> QED
    BY <2>1, WriteKeeps, StorageFields DEF PageDone, Fields
<1>3. ASSUME NEW u \in Units, u < a + Page, u < p
      PROVE  r.d.flash[u] = Unit(im, u)
  <2>1. CASE a <= u
    <3>1. u < n
      BY <1>3, UnitsNat
    <3> QED
      BY <3>1, <2>1, <1>3, PageIn
  <2>2. CASE ~(a <= u)
    <3>1. u < a
      BY <2>2, UnitsNat
    <3>2. d.driver = "internal" => SectorOf(u) \in d.erased
      BY <3>1 DEF WrittenHolds
    <3>3. r.d.flash[u] = d.flash[u]
      BY <3>1, <3>2, <1>1, <1>2
    <3> QED
      BY <3>1, <3>3, <1>3 DEF WrittenHolds
  <2> QED
    BY <2>1, <2>2
<1>4. ASSUME d.driver = "internal", NEW u \in Units, u < a + Page
      PROVE  SectorOf(u) \in r.d.erased
  <2>1. CASE a <= u
    <3>1. u \in Nat /\ u \in a .. a + Page - 1 /\ Page \in Nat \ {0}
      BY <2>1, <1>4, UnitsNat, Geometry
    <3>2. SectorOf(u) \in SectorsOf(a, Page)
      BY <3>1, SectorsOfArea
    <3> QED
      BY <3>2, <1>1, <1>4
  <2>2. CASE ~(a <= u)
    <3>1. u < a
      BY <2>2, UnitsNat
    <3>2. SectorOf(u) \in d.erased
      BY <3>1, <1>4 DEF WrittenHolds
    <3> QED
      BY <3>2, <1>1
  <2> QED
    BY <2>1, <2>2
<1> QED
  BY <1>2, <1>3, <1>4 DEF WrittenHolds

LEMMA ErasedAfterPage ==
  ASSUME NEW a \in Nat, NEW d, NEW data, NEW im, NEW n \in Nat, NEW p \in Nat, p <= n, a + Page <= p, NEW e, NEW fault,
         NEW r, r = Write(d, a, data, fault), PageDone(d, r, im, a, data, n), ErasedHolds(d, im, p, e)
  PROVE  ErasedHolds(r.d, im, p, e)
<1>1. /\ \A u \in Units : u < a \/ a + Page <= u =>
              r.d.flash[u] = IF SectorOf(u) \in r.d.erased \ d.erased THEN Blank ELSE d.flash[u]
      /\ d.erased \subseteq r.d.erased
      /\ d.driver = "external" => r.d.erased = d.erased
  BY PageWriteIs DEF PageDone
<1>2. r.d.driver = d.driver
  <2>1. Len(data) > 0
    BY Geometry DEF PageDone
  <2> QED
    BY <2>1, WriteKeeps DEF PageDone
<1>3. ASSUME d.driver = "external", NEW u \in Units, p <= u, u < e
      PROVE  r.d.flash[u] = Blank
  <2>1. a + Page <= u
    BY <1>3, UnitsNat, Geometry
  <2> QED
    BY <2>1, <1>1, <1>3 DEF ErasedHolds
<1>4. ASSUME d.driver = "internal", NEW u \in Units
      PROVE  /\ u < e => SectorOf(u) \in r.d.erased
             /\ SectorOf(u) \in r.d.erased => r.d.flash[u] \in {Blank, Unit(im, u)}
  <2>1. u < e => SectorOf(u) \in r.d.erased
    BY <1>1, <1>4 DEF ErasedHolds
  <2>2. CASE a <= u /\ u < a + Page
    <3>1. u < n
      BY <2>2, UnitsNat, Geometry
    <3> QED
      BY <2>1, <2>2, <3>1, PageIn
  <2>3. CASE u < a \/ a + Page <= u
    BY <2>1, <2>3, <1>1, <1>4 DEF ErasedHolds
  <2> QED
    BY <2>2, <2>3, UnitsNat, Geometry
<1> QED
  BY <1>2, <1>3, <1>4 DEF ErasedHolds

(* Headroom.                                                                *)
LEMMA WrittenAfterErase ==
  ASSUME NEW d \in Storage, NEW offs \in Nat, NEW size \in Nat \ {0}, NEW im, NEW w \in Nat, NEW p \in Nat,
         d.driver = "external" => p <= offs, WrittenHolds(d, im, w, p),
         NEW fault, NEW r, r = EraseArea(d, offs, size, fault)
  PROVE  WrittenHolds(r.d, im, w, p)
<1>1. r.d.driver = d.driver /\ d.driver \in {"external", "internal"}
  BY EraseIs, StorageFields DEF Still, Fields
<1>2. CASE d.driver = "external"
  <2>1. PICK X \in SUBSET SectorsOf(offs, size) : Wiped(d, r.d, X) /\ (X # {} => offs % Sector = 0)
    BY <1>2, EraseIs
  <2>2. ASSUME NEW u \in Units, u < w, u < p
        PROVE  r.d.flash[u] = Unit(im, u)
    <3>1. u \in Nat /\ ~(offs <= u)
      BY <2>2, <1>2, UnitsNat
    <3>2. SectorOf(u) \notin X
      BY <3>1, <2>1, SectorsOfArea
    <3> QED
      BY <3>2, <2>1, <2>2 DEF Wiped, WrittenHolds
  <2> QED
    BY <2>2, <1>1, <1>2 DEF WrittenHolds
<1>3. CASE d.driver = "internal"
  <2>1. d.erased \subseteq r.d.erased /\ Wiped(d, r.d, r.d.erased \ d.erased)
    BY <1>3, EraseIs DEF Cleared
  <2>2. ASSUME NEW u \in Units, u < w
        PROVE  SectorOf(u) \in d.erased /\ r.d.flash[u] = d.flash[u]
    BY <2>1, <2>2, <1>3 DEF Wiped, WrittenHolds
  <2> QED
    BY <2>1, <2>2, <1>1, <1>3 DEF WrittenHolds
<1> QED
  BY <1>1, <1>2, <1>3

(* The internal driver remembers what it erases.                            *)
LEMMA RememberedAfterErase ==
  ASSUME NEW d \in Storage, d.driver = "internal", NEW offs \in Nat, NEW size \in Nat \ {0},
         NEW e \in Nat, NEW f \in Nat, Reaches(offs, size, e, f),
         \A u \in Units : u < e => SectorOf(u) \in d.erased,
         NEW fault, NEW r, r = EraseArea(d, offs, size, fault), r.ok
  PROVE  \A u \in Units : u < f => SectorOf(u) \in r.d.erased
<1>0. Cleared(d, r.d) /\ SectorsOf(offs, size) \subseteq r.d.erased /\ offs % Sector = 0
  BY EraseIs
<1>1. d.erased \subseteq r.d.erased /\ SectorsOf(offs, size) \subseteq r.d.erased /\ offs % Sector = 0
  BY <1>0 DEF Cleared
<1> SUFFICES ASSUME NEW u \in Units, u < f
             PROVE  SectorOf(u) \in r.d.erased
  OBVIOUS
<1>2. u \in Nat
  BY UnitsNat
<1>3. CASE u < e
  BY <1>1, <1>3
<1>4. CASE ~(u < e)
  <2>1. offs <= u /\ (u < offs + size \/ ((offs + size) % Sector # 0 /\ u < EndOf(offs, size)))
    BY <1>2, <1>4 DEF Reaches
  <2>2. u < offs + size => u \in offs .. offs + size - 1
    BY <2>1, <1>2
  <2>3. SectorOf(u) \in SectorsOf(offs, size)
    BY <2>1, <2>2, <1>1, <1>2, SectorsOfArea
  <2> QED
    BY <2>3, <1>1
<1> QED
  BY <1>3, <1>4

LEMMA ErasedAfterErase ==
  ASSUME NEW d \in Storage, NEW offs \in Nat, NEW size \in Nat \ {0}, NEW im, NEW p \in Nat,
         NEW e \in Nat, NEW f \in Nat, Reaches(offs, size, e, f), ErasedHolds(d, im, p, e),
         NEW fault, NEW r, r = EraseArea(d, offs, size, fault), r.ok
  PROVE  ErasedHolds(r.d, im, p, f)
<1>1. r.d.driver = d.driver /\ d.driver \in {"external", "internal"} /\ offs % Sector = 0
  BY EraseIs, StorageFields DEF Still, Fields
<1>2. CASE d.driver = "external"
  <2>1. Wiped(d, r.d, SectorsOf(offs, size))
    BY <1>2, EraseIs
  <2>2. ASSUME NEW u \in Units, p <= u, u < f
        PROVE  r.d.flash[u] = Blank
    <3>1. u \in Nat
      BY UnitsNat
    <3>2. CASE u < e
      BY <2>1, <2>2, <3>2, <1>2 DEF Wiped, ErasedHolds
    <3>3. CASE ~(u < e)
      <4>1. offs <= u /\ (u < offs + size \/ ((offs + size) % Sector # 0 /\ u < EndOf(offs, size)))
        BY <2>2, <3>1, <3>3 DEF Reaches
      <4>2. u < offs + size => u \in offs .. offs + size - 1
        BY <4>1, <3>1
      <4>3. SectorOf(u) \in SectorsOf(offs, size)
        BY <4>1, <4>2, <3>1, <1>1, SectorsOfArea
      <4> QED
        BY <4>3, <2>1 DEF Wiped
    <3> QED
      BY <3>2, <3>3
  <2> QED
    BY <2>2, <1>1, <1>2 DEF ErasedHolds
<1>3. CASE d.driver = "internal"
  <2>1. d.erased \subseteq r.d.erased /\ Wiped(d, r.d, r.d.erased \ d.erased)
    <3>1. Cleared(d, r.d)
      BY <1>3, EraseIs
    <3> QED
      BY <3>1 DEF Cleared
  <2>2. \A u \in Units : u < f => SectorOf(u) \in r.d.erased
    BY <1>3, RememberedAfterErase DEF ErasedHolds
  <2>3. \A u \in Units : SectorOf(u) \in r.d.erased => r.d.flash[u] \in {Blank, Unit(im, u)}
    BY <2>1, <1>3 DEF Wiped, ErasedHolds
  <2> QED
    BY <2>2, <2>3, <1>1, <1>3 DEF ErasedHolds
<1> QED
  BY <1>1, <1>2, <1>3
-----------------------------------------------------------------------------
(* Each step keeps BookInv.                                                *)

LEMMA EraseKeeps ==
  ASSUME NEW d \in Storage, NEW offs \in Nat, NEW size \in Nat, NEW fault,
         NEW r, r = EraseArea(d, offs, size, fault)
  PROVE  r.d.driver = d.driver /\ r.d.level = d.level /\ d.erased \subseteq r.d.erased
<1>1. CASE size = 0
  <2>1. r.d = d
    BY <1>1 DEF EraseArea, Done
  <2> QED
    BY <2>1
<1>2. CASE size # 0
  <2>1. d.driver \in {"external", "internal"}
    BY StorageFields DEF Fields
  <2>2. Still(d, r.d) /\ (d.driver = "external" => r.d.erased = d.erased)
        /\ (d.driver = "internal" => Cleared(d, r.d))
    BY <1>2, EraseIs
  <2> QED
    BY <2>1, <2>2 DEF Still, Cleared
<1> QED
  BY <1>1, <1>2

LEMMA ToEraseIs ==
  ASSUME total \in Nat, erased \in Nat, erased < total, NEW n \in Windows
  PROVE  /\ ToErase(n) \in Nat \ {0}
         /\ ToErase(n) = total - erased \/ ToErase(n) \in Windows
<1>1. n \in Nat \ {0}
  BY ConfigAssumption
<1>2. ToErase(n) = IF erased + n >= total THEN total - erased ELSE n
  BY DEF ToErase
<1> QED
  BY <1>1, <1>2

(* The driver, and what it erased and buffered, are as they should be.      *)
DriverInv(m, d) ==
  /\ d.driver = m.driver
  /\ m.driver = "internal" /\ d.erased = {} => d.level = 0
  /\ m.queued => d.level = 0

LEMMA BookIs ==
  BookInv <=> /\ broken => state = "permanent"
              /\ DriverInv(mode, dev)
              /\ ~mode.queued => call \in {"ready", "commit", "notify"}
              /\ state = "acquiring" => total \in Lengths
              /\ state = "acquiring" /\ call \in {"commit", "notify"} => current = total
              /\ call = "notify" => state = "acquiring"
              /\ state = "permanent" /\ ~broken => erased = 0
BY DEF BookInv, DriverInv

LEMMA DriverAfter ==
  ASSUME NEW m, NEW d, NEW r, DriverInv(m, d), r.driver = d.driver,
         d.erased \subseteq r.erased \/ m.driver # "internal",
         r.erased = {} /\ m.driver = "internal" => r.level = d.level,
         m.queued => r.level = d.level
  PROVE  DriverInv(m, r)
BY DEF DriverInv

LEMMA NewDriver ==
  ASSUME mode \in Modes, NEW content PROVE DriverInv(mode, NewStorage(mode.driver, content))
BY DEF DriverInv, NewStorage

(* Where the storage is left alone.                                         *)
LEMMA QuietBook ==
  ASSUME IInv, BookInv, ~broken,
         \/ CancelImage \/ (\E n \in Lengths : StartImage(n)) \/ CallEnds \/ CommitDrained \/ Notify
         \/ Finish \/ TreatErased \/ Release \/ (\E who \in {"app", "idle"} : Resume(who))
  PROVE  BookInv'
<1>0. dev' = dev /\ mode' = mode
  BY DEF CancelImage, StartImage, CallEnds, CommitDrained, Notify, Finish, TreatErased, Release, Resume, Others
<1>1. CASE CancelImage
  <2>1. state' = "permanent" /\ UNCHANGED callVars /\ call = "ready" /\ (state # "permanent" => erased' = 0)
        /\ (state = "permanent" => erased' = erased)
    BY <1>1 DEF CancelImage, Cancel
  <2> QED
    BY <1>0, <2>1 DEF BookInv, callVars
<1>2. CASE \E n \in Lengths : StartImage(n)
  <2>1. state' = "acquiring" /\ UNCHANGED <<callVars, broken>> /\ call = "ready" /\ total' \in Lengths
    BY <1>2 DEF StartImage
  <2> QED
    BY <1>0, <2>1 DEF BookInv, callVars
<1>3. CASE CallEnds
  <2>1. call = "end" /\ call' = "ready" /\ UNCHANGED <<state, total, erased, broken>>
    BY <1>3 DEF CallEnds
  <2> QED
    BY <1>0, <2>1 DEF BookInv
<1>4. CASE CommitDrained
  <2>1. call = "commit" /\ UNCHANGED <<total, current, erased, broken>>
        /\ \/ state = "acquiring" /\ call' = "notify" /\ state' = state
           \/ state # "acquiring" /\ call' = "ready" /\ state' = "fail"
    BY <1>4 DEF CommitDrained
  <2> QED
    BY <1>0, <2>1 DEF BookInv
<1>5. CASE Notify
  <2>1. call' = "ready" /\ state' \in {"ready", "fail"} /\ UNCHANGED broken
    BY <1>5 DEF Notify
  <2> QED
    BY <1>0, <2>1 DEF BookInv
<1>6. CASE Finish
  <2>1. UNCHANGED <<imageVars, callVars, broken>>
    BY <1>6 DEF Finish
  <2> QED
    BY <1>0, <2>1 DEF BookInv, imageVars, callVars
<1>7. CASE TreatErased
  <2>1. state = "acquiring" /\ call # "notify"
    BY <1>7, HeadIs DEF TreatErased, Take, IInv, PostedInv
  <2>2. UNCHANGED callVars /\ (UNCHANGED <<imageVars, broken>> \/ Cancel("permanent"))
    BY <1>7 DEF TreatErased
  <2>3. Cancel("permanent") => state' = "permanent" /\ erased' = 0
    BY <2>1 DEF Cancel
  <2> QED
    BY <1>0, <2>1, <2>2, <2>3 DEF BookInv, imageVars, callVars
<1>8. CASE Release \/ \E who \in {"app", "idle"} : Resume(who)
  <2>1. UNCHANGED <<imageVars, broken>> /\ (call' = call \/ (call = "resume" /\ call' = "end"))
    BY <1>8 DEF Release, Resume, callVars
  <2> QED
    BY <1>0, <2>1 DEF BookInv, imageVars
<1> QED
  BY <1>1, <1>2, <1>3, <1>4, <1>5, <1>6, <1>7, <1>8

LEMMA SelectBook ==
  ASSUME IInv, BookInv, ~broken, Select
  PROVE  BookInv'
<1>1. call = "ready" /\ state # "acquiring" /\ erased' = 0 /\ UNCHANGED <<mode, state, total, current, callVars, broken>>
      /\ dev' = IF mode.driver = "internal" THEN NewStorage("internal", dev.flash) ELSE dev
  BY DEF Select
<1>2. DriverInv(mode, dev')
  <2>1. mode.driver = "internal" => DriverInv(mode, NewStorage("internal", dev.flash))
    BY NewDriver DEF IInv, TypeOK
  <2> QED
    BY <2>1, <1>1, BookIs
<1> QED
  BY <1>1, <1>2 DEF BookInv, DriverInv, callVars

LEMMA ResetBook ==
  ASSUME IInv, BookInv, ~broken, Reset
  PROVE  BookInv'
<1>1. /\ dev' = NewStorage(mode.driver, dev.flash) /\ state' = "permanent" /\ erased' = 0 /\ call' = "ready"
      /\ UNCHANGED <<mode, broken>>
  BY DEF Reset
<1>2. DriverInv(mode, dev')
  BY <1>1, NewDriver DEF IInv, TypeOK
<1> QED
  BY <1>1, <1>2 DEF BookInv, DriverInv

(* What is pushed is a text of units.                                       *)
LEMMA ChunkIs ==
  ASSUME IInv, NEW n \in Nat
  PROVE  /\ Chunk(n) \in Seq(Cell) /\ Len(Chunk(n)) = n
         /\ \A j \in 1 .. n : Chunk(n)[j] = Unit(image, current + j - 1)
<1>1. current \in Nat /\ image \in Nat
  BY Geometry, ConfigAssumption DEF IInv, TypeOK
<1>2. \A j \in 1 .. n : Unit(image, current + j - 1) \in Cell
  BY <1>1 DEF Unit, Cell
<1> QED
  BY <1>2 DEF Chunk

LEMMA PushBook ==
  ASSUME IInv, BookInv, ~broken, NEW n \in Chunks, NEW fault \in Faults, PushImageChunk(n, fault)
  PROVE  BookInv'
<1>1. /\ call = "ready" /\ state = "acquiring"
      /\ PushNow(n, fault) \/ Post(n)
      /\ UNCHANGED <<mode, state, total, erased, broken>>
  BY DEF PushImageChunk
<1>2. CASE PushNow(n, fault)
  <2>1. PICK c : c = Chunk(n)
    OBVIOUS
  <2>2. PICK r : r = Write(dev, current, c, fault)
    OBVIOUS
  <2>3. ~mode.queued /\ dev' = r.d /\ UNCHANGED callVars
    BY <1>2, <2>1, <2>2 DEF PushNow
  <2>4. c \in Seq(Cell) /\ Len(c) > 0 /\ current \in Nat /\ dev \in Storage
    <3>1. n \in Nat \ {0}
      BY ConfigAssumption
    <3> QED
      BY <2>1, <3>1, ChunkIs, Geometry DEF IInv, TypeOK
  <2>5. PICK a \in Nat : a = current
    BY <2>4
  <2>6. PICK d \in Storage : d = dev
    BY <2>4
  <2>7. r.d.driver = d.driver
        /\ (d.driver = "internal" => d.erased \subseteq r.d.erased /\ (r.d.erased = {} => r.d.level = d.level))
    BY <2>2, <2>4, <2>5, <2>6, WriteKeeps
  <2>8. DriverInv(mode, r.d)
    BY <2>3, <2>6, <2>7, DriverAfter, BookIs DEF DriverInv
  <2> QED
    BY <1>1, <2>3, <2>8 DEF BookInv, DriverInv, callVars
<1>3. CASE Post(n)
  <2>1. dev' = dev /\ call' \in {"ready", "resume"} /\ mode.queued
    <3>1. PICK ok : IF ok /\ ~mode.idle /\ ops' # <<>>
                    THEN call' = "resume" /\ len' = n /\ UNCHANGED current
                    ELSE current' = (IF ok THEN current + n ELSE current) /\ UNCHANGED callVars
      <4>1. PICK b : b = (Len(Begun \o Chunk(n)) <= Page * Len(Fillable))
        OBVIOUS
      <4> QED
        BY <1>3, <4>1, Zenon DEF Post
    <3> QED
      BY <1>1, <1>3, <3>1 DEF Post, callVars
  <2> QED
    BY <1>1, <2>1 DEF BookInv
<1> QED
  BY <1>1, <1>2, <1>3

LEMMA HeadRoomBook ==
  ASSUME IInv, BookInv, ~broken, NEW n \in Windows, NEW fault \in Faults, HeadRoom(n, fault)
  PROVE  BookInv'
<1>1. /\ call = "ready" /\ state = "acquiring" /\ erased < total
      /\ HeadRoomNow(n, fault) \/ HeadRoomPosted(n)
      /\ UNCHANGED <<mode, state, total, current, broken>>
  BY DEF HeadRoom
<1>2. CASE HeadRoomNow(n, fault)
  <2>1. PICK s : s = ToErase(n)
    OBVIOUS
  <2>2. PICK e : e = erased
    OBVIOUS
  <2>3. PICK d : d = dev
    OBVIOUS
  <2>4. PICK r : r = EraseArea(d, e, s, fault)
    OBVIOUS
  <2>5. ~mode.queued /\ dev' = r.d /\ UNCHANGED callVars
    BY <1>2, <2>1, <2>2, <2>3, <2>4 DEF HeadRoomNow
  <2>6. s \in Nat /\ e \in Nat /\ d \in Storage
    <3>1. total \in Nat /\ erased \in Nat
      BY Geometry DEF IInv, TypeOK
    <3> QED
      BY <3>1, <2>1, <2>2, <2>3, <1>1, ToEraseIs DEF IInv, TypeOK
  <2>7. r.d.driver = d.driver /\ r.d.level = d.level /\ d.erased \subseteq r.d.erased
    BY <2>4, <2>6, EraseKeeps
  <2>8. DriverInv(mode, r.d)
    BY <2>3, <2>7, DriverAfter, BookIs
  <2> QED
    BY <1>1, <2>5, <2>8 DEF BookInv, DriverInv, callVars
<1>3. CASE HeadRoomPosted(n)
  <2>1. dev' = dev /\ call' \in {"ready", "resume"} /\ mode.queued
    BY <1>1, <1>3 DEF HeadRoomPosted, callVars
  <2> QED
    BY <1>1, <2>1 DEF BookInv
<1> QED
  BY <1>1, <1>2, <1>3

LEMMA CommitBook ==
  ASSUME IInv, BookInv, ~broken, NEW fault \in Faults, Commit(fault)
  PROVE  BookInv'
<1>1. /\ call = "ready" /\ state = "acquiring" /\ current = total /\ call' = "commit"
      /\ UNCHANGED <<mode, imageVars, broken>>
  BY DEF Commit
<1>2. CASE mode.queued
  <2>1. dev' = dev
    BY <1>2 DEF Commit
  <2> QED
    BY <1>1, <2>1 DEF BookInv, imageVars
<1>3. CASE ~mode.queued
  <2>1. PICK d : d = dev
    OBVIOUS
  <2>2. PICK r : r = Flush(d, fault)
    OBVIOUS
  <2>3. dev' = r.d
    BY <1>3, <2>1, <2>2 DEF Commit
  <2>4. d \in Storage
    BY <2>1 DEF IInv, TypeOK
  <2>5. r.d.driver = d.driver /\ r.d.erased = d.erased /\ (d.level = 0 => r.d.level = 0)
    BY <2>2, <2>4, FlushKeeps
  <2>6. DriverInv(mode, r.d)
    BY <1>3, <2>1, <2>5, BookIs DEF DriverInv
  <2> QED
    BY <1>1, <2>3, <2>6 DEF BookInv, DriverInv, imageVars
<1> QED
  BY <1>2, <1>3

(* The operation at the head of the queue and what it does to the storage.  *)
LEMMA TreatDriver ==
  ASSUME IInv, BookInv, ~broken, ops # <<>>, NEW fault,
         NEW r, r = IF op.kind = "write" THEN Write(dev, op.addr, Padded(op.data), fault)
                    ELSE EraseArea(dev, op.addr, op.size, fault)
  PROVE  DriverInv(mode, r.d)
<1>1. op \in Op /\ Len(op.data) <= Page /\ mode.queued
  BY HeadIs
<1>2. PICK a \in Nat : a = op.addr
  BY <1>1 DEF Op
<1>3. PICK s \in Nat : s = op.size
  BY <1>1 DEF Op
<1>4. PICK p : p = Padded(op.data)
  OBVIOUS
<1>5. p \in Seq(Cell) /\ Len(p) = Page /\ Len(p) > 0
  BY <1>1, <1>4, PaddedTyped, Geometry DEF Op
<1>6. PICK d \in Storage : d = dev
  BY DEF IInv, TypeOK
<1>7. DriverInv(mode, d) /\ d.level = 0
  BY <1>1, <1>6, BookIs DEF BookInv
<1>8. CASE op.kind = "write"
  <2>1. r = Write(d, a, p, fault)
    BY <1>2, <1>4, <1>6, <1>8
  <2>2. r.d.driver = d.driver /\ r.d.level = 0
    BY <2>1, <1>5, <1>7, WriteKeeps
  <2> QED
    BY <2>2, <1>7 DEF DriverInv
<1>9. CASE op.kind # "write"
  <2>1. r = EraseArea(d, a, s, fault)
    BY <1>2, <1>3, <1>6, <1>9
  <2>2. r.d.driver = d.driver /\ r.d.level = d.level
    BY <2>1, EraseKeeps
  <2> QED
    BY <2>2, <1>7 DEF DriverInv
<1> QED
  BY <1>8, <1>9

LEMMA TreatBook ==
  ASSUME IInv, BookInv, ~broken, TreatWrite \/ TreatErase \/ \E fault \in Faults : TreatFails(fault)
  PROVE  BookInv'
<1>0. ops # <<>>
  BY DEF TreatWrite, TreatErase, TreatFails, Take
<1>1. state = "acquiring" /\ call # "notify" /\ mode.queued
  BY <1>0, HeadIs DEF IInv, PostedInv
<1>2. CASE TreatWrite
  <2>1. PICK r : r = Write(dev, op.addr, Padded(op.data), NoFault)
    OBVIOUS
  <2>2. op.kind = "write" /\ dev' = r.d /\ UNCHANGED <<Others, state, total, current, erased, callVars, broken>>
    BY <1>2, <2>1 DEF TreatWrite, Take
  <2>3. DriverInv(mode, r.d)
    BY <1>0, <2>1, <2>2, TreatDriver
  <2> QED
    BY <2>2, <2>3 DEF BookInv, DriverInv, Others, callVars
<1>3. CASE TreatErase
  <2>1. PICK r : r = EraseArea(dev, op.addr, op.size, NoFault)
    OBVIOUS
  <2>2. op.kind = "erase" /\ dev' = r.d /\ UNCHANGED <<Others, state, total, current, callVars, broken>>
    BY <1>3, <2>1 DEF TreatErase, Take
  <2>3. DriverInv(mode, r.d)
    BY <1>0, <2>1, <2>2, TreatDriver
  <2> QED
    BY <1>1, <2>2, <2>3 DEF BookInv, DriverInv, Others, callVars
<1>4. ASSUME NEW fault \in Faults, TreatFails(fault)
      PROVE  BookInv'
  <2>1. PICK r : r = IF op.kind = "write" THEN Write(dev, op.addr, Padded(op.data), fault)
                     ELSE EraseArea(dev, op.addr, op.size, fault)
    OBVIOUS
  <2>2. /\ dev' = r.d /\ Cancel("permanent") /\ UNCHANGED <<Others, broken>>
        /\ call' = IF worker = "app" /\ call = "resume" THEN "end" ELSE call
    BY <1>4, <2>1, Zenon DEF TreatFails
  <2>3. DriverInv(mode, r.d)
    BY <1>0, <2>1, TreatDriver
  <2>4. state' = "permanent" /\ erased' = 0
    BY <1>1, <2>2 DEF Cancel
  <2> QED
    BY <1>1, <2>2, <2>3, <2>4 DEF BookInv, DriverInv, Others
<1> QED
  BY <1>2, <1>3, <1>4
-----------------------------------------------------------------------------
(* Operations made at once: the storage a chunk, or headroom, leaves.       *)

(* DirectInv of a storage, an image and its lengths.                        *)
DirectHolds(m, d, im, c, e) ==
  /\ m.driver = "external" => ExternalHolds(d, im, c, e)
  /\ m.driver = "internal" => /\ InternalHolds(d, im, c) /\ OpenAt(d, c)
                              /\ \A u \in Units : u < e => SectorOf(u) \in d.erased

LEMMA DirectIs ==
  DirectInv <=> (~mode.queued /\ ~spoiled /\ state = "acquiring" /\ call = "ready" =>
                   /\ DirectHolds(mode, dev, image, current, Assured(erased, total))
                   /\ mode.driver = "external" => current <= Assured(erased, total) \/ current < total)
BY DEF DirectInv, DirectHolds

LEMMA DirectPrimed ==
  ASSUME ~mode'.queued /\ ~spoiled' /\ state' = "acquiring" /\ call' = "ready" =>
           /\ DirectHolds(mode', dev', image', current', Assured(erased', total'))
           /\ mode'.driver = "external" => current' <= Assured(erased', total') \/ current' < total'
  PROVE  DirectInv'
BY DEF DirectInv, DirectHolds

LEMMA PushDirect ==
  ASSUME ChunksBuffered, IInv, BookInv, DirectInv, ~broken, NEW n \in Chunks, NEW fault \in Faults,
         PushImageChunk(n, fault), PushNow(n, fault)
  PROVE  DirectInv'
<1>1. /\ call = "ready" /\ state = "acquiring" /\ current + n <= total
      /\ mode.driver = "internal" \/ current + n <= erased
      /\ UNCHANGED <<mode, state, total, erased, image, broken>>
  BY DEF PushImageChunk
<1>2. PICK data : data = Chunk(n)
  OBVIOUS
<1>3. PICK c : c = current
  OBVIOUS
<1>4. PICK r : r = Write(dev, c, data, fault)
  OBVIOUS
<1>5. PICK e : e = Assured(erased, total)
  OBVIOUS
<1>6. PICK verified : verified = (r.ok /\ \A j \in 1 .. n : Read(r.d, c + j - 1) = data[j])
  OBVIOUS
<1>7. /\ ~mode.queued /\ dev' = r.d /\ current' = IF verified THEN c + n ELSE c
      /\ spoiled' = (spoiled \/ (mode.driver = "external" /\ ~r.ok /\ r.d # dev /\ c < r.d.offs))
  BY <1>2, <1>3, <1>4, <1>6, Zenon DEF PushNow
<1> SUFFICES ASSUME ~spoiled'
             PROVE  DirectInv'
  BY DEF DirectInv
<1>8. /\ ~spoiled /\ DirectHolds(mode, dev, image, c, e)
      /\ mode.driver = "external" => c <= e \/ c < total
  BY <1>1, <1>3, <1>5, <1>7, DirectIs
<1>9. /\ n \in Nat \ {0} /\ c \in Nat /\ dev \in Storage /\ total \in Nat /\ total <= Size /\ erased \in Nat
      /\ mode \in Modes
  BY <1>3, ConfigAssumption, Geometry DEF IInv, TypeOK
<1>10. e \in Nat /\ (c + n <= erased => c + n <= e)
  BY <1>1, <1>3, <1>5, <1>9 DEF Assured
<1>11. /\ data \in Seq(Cell) /\ Len(data) = n
       /\ \A j \in 1 .. Len(data) : data[j] = Unit(image, c + j - 1)
  BY <1>2, <1>3, <1>9, ChunkIs
<1>12. PICK d \in Storage : d = dev
  BY <1>9
<1>13. d.driver = mode.driver
  BY <1>12 DEF BookInv
<1>14. ASSUME r.ok, \A u \in Units : c <= u /\ u < c + n => Read(r.d, u) = Unit(image, u)
       PROVE  verified
  <2>1. ASSUME NEW j \in 1 .. n
        PROVE  Read(r.d, c + j - 1) = data[j]
    <3>1. PICK u : u = c + j - 1
      OBVIOUS
    <3>2. u \in Units /\ c <= u /\ u < c + n
      <4>1. c + n <= total
        BY <1>1, <1>3
      <4>2. \A x \in Nat, y \in Nat, t \in Nat : \A i \in 1 .. y :
              x + y <= t /\ t <= Size => x + i - 1 \in 0 .. Size - 1 /\ x <= x + i - 1 /\ x + i - 1 < x + y
        BY Geometry
      <4> QED
        BY <3>1, <4>1, <4>2, <1>9 DEF Units
    <3>3. Read(r.d, u) = Unit(image, u) /\ data[j] = Unit(image, u)
      BY <3>1, <3>2, <1>11, <1>14
    <3> QED
      BY <3>1, <3>3
  <2> QED
    BY <2>1, <1>6, <1>14
<1>15. r.ok \in BOOLEAN
  BY <1>4, <1>9, <1>11, <1>12, WriteTyped
<1>16. PICK im : im = image
  OBVIOUS
<1>17. CASE mode.driver = "external"
  <2>1. r = ExternalWrite(d, c, data, fault)
    BY <1>4, <1>12, <1>13, <1>17 DEF Write
  <2>2. n # Page
    BY <1>7, <1>9, <1>17 DEF ChunksBuffered
  <2>3. ExternalHolds(d, im, c, e) /\ c + n <= e /\ c + n <= Size
    <3>1. ExternalHolds(d, im, c, e)
      BY <1>8, <1>12, <1>16, <1>17 DEF DirectHolds
    <3>2. c + n <= erased
      BY <1>1, <1>3, <1>17
    <3>3. c + n <= total
      BY <1>1, <1>3
    <3>4. c + n <= Size
      BY <3>3, <1>9, Geometry
    <3> QED
      BY <3>1, <3>2, <3>4, <1>10
  <2>4. /\ Len(data) > 0 /\ Len(data) # Page /\ c + Len(data) <= Size /\ c + Len(data) <= e
        /\ \A j \in 1 .. Len(data) : data[j] = Unit(im, c + j - 1)
    BY <2>2, <2>3, <1>9, <1>11, <1>16
  <2>5. /\ r.ok => /\ ExternalHolds(r.d, im, c + Len(data), e)
                   /\ ReadsAs(r.d, im, c, c + Len(data))
        /\ ~r.ok => ExternalHolds(r.d, im, c, e) \/ c < r.d.offs
    <3>1. /\ e \in Nat /\ c \in Nat /\ data \in Seq(Cell) /\ ExternalHolds(d, im, c, e)
          /\ Len(data) > 0 /\ Len(data) # Page /\ c + Len(data) <= Size /\ c + Len(data) <= e
      BY <2>3, <2>4, <1>9, <1>10, <1>11
    <3>2. HasUnits(data, im, c)
      BY <2>4 DEF HasUnits
    <3> QED
      BY <2>1, <3>1, <3>2, <1>12, ExternalWriteHolds
  <2>6. CASE r.ok
    <3>1. \A u \in Units : c <= u /\ u < c + n => Read(r.d, u) = Unit(image, u)
      BY <2>5, <2>6, <1>11, <1>16 DEF ReadsAs
    <3>2. current' = c + n
      BY <3>1, <2>6, <1>7, <1>14
    <3>3. DirectHolds(mode, r.d, im, c + n, e)
      BY <2>5, <2>6, <1>11, <1>17 DEF DirectHolds
    <3> QED
      BY <3>2, <3>3, <2>3, <1>1, <1>5, <1>7, <1>16, DirectPrimed
  <2>7. CASE ~r.ok
    <3>1. current' = c
      BY <2>7, <1>6, <1>7
    <3>2. ExternalHolds(r.d, im, c, e)
      <4>1. r.d = d \/ ~(c < r.d.offs)
        BY <2>7, <1>7, <1>12, <1>17
      <4> QED
        BY <4>1, <2>3, <2>5, <2>7
    <3>3. DirectHolds(mode, r.d, im, c, e)
      BY <3>2, <1>17 DEF DirectHolds
    <3> QED
      BY <3>1, <3>3, <1>1, <1>5, <1>7, <1>8, <1>16, DirectPrimed
  <2> QED
    BY <2>6, <2>7
<1>18. CASE mode.driver = "internal"
  <2>1. r = InternalWrite(d, c, data, fault) /\ d.driver = "internal"
    BY <1>4, <1>12, <1>13, <1>18 DEF Write
  <2>2. InternalHolds(d, im, c) /\ OpenAt(d, c) /\ \A u \in Units : u < e => SectorOf(u) \in d.erased
    BY <1>8, <1>12, <1>16, <1>18 DEF DirectHolds
  <2>3. Len(data) > 0 /\ \A j \in 1 .. Len(data) : data[j] = Unit(im, c + j - 1)
    BY <1>9, <1>11, <1>16
  <2>4. /\ d.erased \subseteq r.d.erased
        /\ r.ok => /\ InternalHolds(r.d, im, c + Len(data)) /\ OpenAt(r.d, c + Len(data))
                   /\ ReadsAs(r.d, im, c, c + Len(data))
        /\ ~r.ok => InternalHolds(r.d, im, c) /\ OpenAt(r.d, c)
    BY <2>1, <2>2, <2>3, <1>9, <1>11, InternalWriteHolds
  <2>5. \A u \in Units : u < e => SectorOf(u) \in r.d.erased
    BY <2>2, <2>4
  <2>6. CASE r.ok
    <3>1. current' = c + n
      BY <2>4, <2>6, <1>7, <1>11, <1>14, <1>16 DEF ReadsAs
    <3>2. DirectHolds(mode, r.d, im, c + n, e)
      BY <2>4, <2>5, <2>6, <1>11, <1>18 DEF DirectHolds
    <3> QED
      BY <3>1, <3>2, <1>1, <1>5, <1>7, <1>16, <1>18, DirectPrimed
  <2>7. CASE ~r.ok
    <3>1. current' = c
      BY <2>7, <1>6, <1>7
    <3>2. DirectHolds(mode, r.d, im, c, e)
      BY <2>4, <2>5, <2>7, <1>18 DEF DirectHolds
    <3> QED
      BY <3>1, <3>2, <1>1, <1>5, <1>7, <1>16, <1>18, DirectPrimed
  <2> QED
    BY <1>15, <2>6, <2>7
<1> QED
  BY <1>12, <1>13, <1>17, <1>18, StorageFields DEF Fields

LEMMA HeadRoomDirect ==
  ASSUME WindowsInside, IInv, BookInv, DirectInv, ~broken, NEW n \in Windows, NEW fault \in Faults,
         HeadRoom(n, fault), HeadRoomNow(n, fault)
  PROVE  DirectInv'
<1>1. /\ call = "ready" /\ state = "acquiring" /\ current <= erased /\ erased < total
      /\ UNCHANGED <<mode, state, total, current, image, spoiled, broken>>
  BY DEF HeadRoom
<1>2. PICK s : s = ToErase(n)
  OBVIOUS
<1>3. PICK e : e = erased
  OBVIOUS
<1>4. PICK d : d = dev
  OBVIOUS
<1>5. PICK r : r = EraseArea(d, e, s, fault)
  OBVIOUS
<1>6. PICK c : c = current
  OBVIOUS
<1>7. ~mode.queued /\ dev' = r.d /\ erased' = IF r.ok THEN r.next ELSE 0
  BY <1>2, <1>3, <1>4, <1>5 DEF HeadRoomNow
<1> SUFFICES ASSUME ~spoiled
             PROVE  DirectInv'
  BY <1>1 DEF DirectInv
<1>8. /\ total \in Lengths /\ total \in Nat /\ e \in Nat /\ c \in Nat /\ d \in Storage /\ d.driver = mode.driver
      /\ e < total /\ c <= e
  BY <1>1, <1>3, <1>4, <1>6, Geometry DEF IInv, TypeOK, BookInv
<1>9. s \in Nat \ {0} /\ (s = total - e \/ s \in Windows)
  BY <1>1, <1>2, <1>3, <1>8, ToEraseIs
<1>10. Assured(e, total) = e /\ Assured(0, total) = 0
  BY <1>8 DEF Assured
<1>11. PICK im : im = image
  OBVIOUS
<1>12. DirectHolds(mode, d, im, c, e)
  BY <1>1, <1>3, <1>4, <1>6, <1>7, <1>10, <1>11, DirectIs
<1>13. r.ok => r.next = EndOf(e, s) /\ e % Sector = 0
  BY <1>5, <1>8, <1>9, EraseIs
<1>14. r.ok \in BOOLEAN
  BY <1>5, <1>8, <1>9, EraseTyped
<1>15. PICK f : f = IF r.ok THEN Assured(EndOf(e, s), total) ELSE 0
  OBVIOUS
<1>16. Assured(erased', total) = f
  BY <1>7, <1>10, <1>13, <1>14, <1>15
<1>17. f \in Nat /\ Reaches(e, s, e, f)
  <2>1. CASE r.ok
    BY <2>1, <1>8, <1>9, <1>13, <1>15, AssuredNext
  <2>2. CASE ~r.ok
    BY <2>2, <1>8, <1>15 DEF Reaches
  <2> QED
    BY <2>1, <2>2
<1>18. DirectHolds(mode, r.d, im, c, f)
  <2>1. CASE mode.driver = "external"
    <3>1. /\ ExternalHolds(r.d, im, c, 0)
          /\ r.ok => ExternalHolds(r.d, im, c, f)
      <4>1. ExternalHolds(d, im, c, e)
        BY <2>1, <1>12 DEF DirectHolds
      <4>2. \A u \in Nat : e <= u /\ u < f =>
              e <= u /\ (u < e + s \/ ((e + s) % Sector # 0 /\ u < EndOf(e, s)))
        BY <1>17 DEF Reaches
      <4> QED
        BY <4>1, <4>2, <2>1, <1>5, <1>8, <1>9, <1>17, ExternalEraseHolds
    <3>2. ExternalHolds(r.d, im, c, f)
      BY <3>1, <1>15
    <3> QED
      BY <3>2, <2>1 DEF DirectHolds
  <2>2. CASE mode.driver = "internal"
    <3>1. InternalHolds(d, im, c) /\ OpenAt(d, c) /\ \A u \in Units : u < e => SectorOf(u) \in d.erased
      BY <2>2, <1>12 DEF DirectHolds
    <3>2. InternalHolds(r.d, im, c) /\ OpenAt(r.d, c)
      <4>1. Cleared(d, r.d)
        BY <2>2, <1>5, <1>8, <1>9, EraseIs
      <4> QED
        BY <4>1, <3>1, InternalEraseHolds
    <3>3. r.ok => \A u \in Units : u < f => SectorOf(u) \in r.d.erased
      BY <3>1, <2>2, <1>5, <1>8, <1>9, <1>17, RememberedAfterErase
    <3>4. ~r.ok => \A u \in Units : ~(u < f)
      BY <1>15, UnitsNat
    <3> QED
      BY <3>2, <3>3, <3>4, <2>2 DEF DirectHolds
  <2> QED
    BY <2>1, <2>2, <1>8, StorageFields DEF Fields
<1> QED
  BY <1>1, <1>6, <1>7, <1>8, <1>11, <1>16, <1>18, DirectPrimed

LEMMA StartImageDirect ==
  ASSUME IInv, BookInv, ~broken, NEW n \in Lengths, StartImage(n)
  PROVE  DirectInv'
<1>1. /\ state = "permanent" /\ dev.erased = {} /\ total' = n /\ current' = 0
      /\ UNCHANGED <<mode, erased, dev>>
  BY DEF StartImage
<1>2. erased' = 0 /\ n \in Nat /\ n > 0
  BY <1>1, ConfigAssumption, Geometry DEF BookInv
<1>3. Assured(erased', total') = 0
  BY <1>1, <1>2 DEF Assured
<1>4. PICK im : im = image'
  OBVIOUS
<1>5. PICK d \in Storage : d = dev
  BY DEF IInv, TypeOK
<1>6. DirectHolds(mode, d, im, 0, 0)
  <2>1. \A u \in Units : ~(u < 0)
    BY UnitsNat
  <2>2. ExternalHolds(d, im, 0, 0)
    <3>1. Start(0) = 0
      BY StartIs
    <3>2. d.offs \in Nat
      BY StorageFields DEF Fields
    <3> QED
      BY <2>1, <3>1, <3>2 DEF ExternalHolds
  <2>3. mode.driver = "internal" => InternalHolds(d, im, 0) /\ OpenAt(d, 0)
    <3>1. mode.driver = "internal" => d.level = 0 /\ d.erased = {}
      BY <1>1, <1>5 DEF BookInv
    <3>2. d.level = 0 => \A u : ~InBuffer(d, u)
      BY DEF InBuffer
    <3>3. d.level = 0 => OpenAt(d, 0)
      BY DEF OpenAt
    <3> QED
      BY <2>1, <3>1, <3>2, <3>3 DEF InternalHolds
  <2> QED
    BY <2>1, <2>2, <2>3 DEF DirectHolds
<1> QED
  BY <1>1, <1>2, <1>3, <1>4, <1>5, <1>6, DirectPrimed

(* Elsewhere operations are posted, or the image is not one that chunks go  *)
(* to, or all is left as it was.                                            *)
LEMMA OtherDirect ==
  ASSUME IInv, BookInv, DirectInv, ~broken,
         \/ CancelImage \/ Select \/ Calls \/ Worker \/ Release \/ Reset
         \/ (\E who \in {"app", "idle"} : Resume(who))
         \/ (\E fault \in Faults : Commit(fault))
         \/ (\E n \in Chunks : Post(n) /\ mode' = mode)
         \/ (\E n \in Windows : HeadRoomPosted(n) /\ mode' = mode)
  PROVE  DirectInv'
<1>0. ASSUME \/ state' # "acquiring" \/ call' # "ready" \/ mode'.queued
             \/ /\ UNCHANGED <<mode, spoiled, state, dev, image, current, erased, total>>
                /\ call' = "ready" => call = "ready"
      PROVE  DirectInv'
  BY <1>0, DirectPrimed, DirectIs
<1>1. CASE CancelImage \/ Select \/ Reset
  <2>1. state' # "acquiring"
    BY <1>1 DEF CancelImage, Cancel, Select, Reset
  <2> QED
    BY <2>1, <1>0
<1>2. CASE Calls
  <2>1. CallEnds => mode'.queued
    BY DEF CallEnds, BookInv
  <2>2. CommitDrained => state' # "acquiring" \/ call' # "ready"
    BY DEF CommitDrained
  <2>3. Notify => state' # "acquiring"
    BY DEF Notify
  <2> QED
    BY <2>1, <2>2, <2>3, <1>0, <1>2 DEF Calls
<1>3. CASE Worker
  <2>1. ops # <<>>
    BY <1>3 DEF Worker, Finish, TreatErased, TreatErase, TreatWrite, TreatFails, Take, IInv, HeadTreated
  <2>2. mode.queued
    BY <2>1, HeadIs
  <2>3. mode' = mode
    BY <1>3 DEF Worker, Finish, TreatErased, TreatErase, TreatWrite, TreatFails, Others
  <2> QED
    BY <2>2, <2>3, <1>0
<1>4. CASE Release
  <2>1. /\ UNCHANGED <<mode, spoiled, state, dev, image, current, erased, total>>
        /\ call' = "ready" => call = "ready"
    BY <1>4 DEF Release, Others, imageVars
  <2> QED
    BY <2>1, <1>0
<1>5. CASE \E who \in {"app", "idle"} : Resume(who)
  <2>1. mode'.queued
    BY <1>5 DEF Resume, Others
  <2> QED
    BY <2>1, <1>0
<1>6. CASE \E fault \in Faults : Commit(fault)
  <2>1. call' = "commit"
    BY <1>6 DEF Commit
  <2> QED
    BY <2>1, <1>0
<1>7. CASE \/ (\E n \in Chunks : Post(n) /\ mode' = mode)
           \/ (\E n \in Windows : HeadRoomPosted(n) /\ mode' = mode)
  <2>1. mode'.queued
    BY <1>7 DEF Post, HeadRoomPosted
  <2> QED
    BY <2>1, <1>0
<1> QED
  BY <1>1, <1>2, <1>3, <1>4, <1>5, <1>6, <1>7
-----------------------------------------------------------------------------
(* An image that is whole.                                                  *)

(* It is left alone, or is no longer one.                                   *)
LEMMA OtherDone ==
  ASSUME IInv, BookInv, DoneInv, ~broken,
         \/ CancelImage \/ Select \/ CallEnds \/ Notify \/ Worker \/ Release \/ Reset
         \/ (\E who \in {"app", "idle"} : Resume(who))
         \/ (\E n \in Lengths : StartImage(n))
         \/ (\E n \in Chunks, fault \in Faults : PushImageChunk(n, fault))
         \/ (\E n \in Windows, fault \in Faults : HeadRoom(n, fault))
  PROVE  DoneInv'
<1>0. ASSUME \/ ~ImageDone'
             \/ /\ UNCHANGED <<spoiled, image, total>> /\ dev'.flash = dev.flash
                /\ ImageDone' => ImageDone
      PROVE  DoneInv'
  BY <1>0 DEF DoneInv, Intact
<1>1. CASE CancelImage \/ Reset
  <2>1. state' = "permanent"
    BY <1>1 DEF CancelImage, Cancel, Reset
  <2> QED
    BY <2>1, <1>0 DEF ImageDone
<1>2. CASE Select
  <2>1. UNCHANGED <<spoiled, image, total, state, call, mode>> /\ dev'.flash = dev.flash
    BY <1>2 DEF Select, NewStorage, callVars
  <2> QED
    BY <2>1, <1>0 DEF ImageDone
<1>3. CASE CallEnds \/ Notify \/ Release \/ (\E who \in {"app", "idle"} : Resume(who))
  <2>1. UNCHANGED <<spoiled, image, total, dev, mode>>
    BY <1>3 DEF CallEnds, Notify, Release, Resume, Others, imageVars
  <2>2. ImageDone' => ImageDone
    <3>1. CASE CallEnds
      BY <3>1 DEF CallEnds, ImageDone
    <3>2. CASE Notify
      BY <3>2 DEF Notify, ImageDone, BookInv
    <3>3. CASE Release \/ (\E who \in {"app", "idle"} : Resume(who))
      <4>1. state' = state /\ mode' = mode /\ (call' = call \/ call' = "end")
        BY <3>3 DEF Release, Resume, Others, imageVars, callVars
      <4> QED
        BY <4>1 DEF ImageDone
    <3> QED
      BY <3>1, <3>2, <3>3, <1>3
  <2> QED
    BY <2>1, <2>2, <1>0
<1>4. CASE Worker
  <2>1. ops # <<>>
    BY <1>4 DEF Worker, Finish, TreatErased, TreatErase, TreatWrite, TreatFails, Take, IInv, HeadTreated
  <2>2. mode.queued /\ state = "acquiring" /\ call # "notify"
    BY <2>1, HeadIs DEF IInv, PostedInv
  <2>3. mode' = mode /\ state' \in {state, "permanent"} /\ call' \in {call, "end"}
    BY <1>4 DEF Worker, Finish, TreatErased, TreatErase, TreatWrite, TreatFails, Others, callVars, imageVars, Cancel
  <2> QED
    BY <2>2, <2>3, <1>0 DEF ImageDone
<1>5. CASE \/ (\E n \in Lengths : StartImage(n))
           \/ (\E n \in Chunks, fault \in Faults : PushImageChunk(n, fault))
           \/ (\E n \in Windows, fault \in Faults : HeadRoom(n, fault))
  <2>1. state' = "acquiring" /\ call' \in {"ready", "resume"}
    <3>1. ASSUME NEW n \in Lengths, StartImage(n)
          PROVE  state' = "acquiring" /\ call' \in {"ready", "resume"}
      BY <3>1 DEF StartImage, callVars
    <3>2. ASSUME NEW n \in Chunks, NEW fault \in Faults, PushImageChunk(n, fault)
          PROVE  state' = "acquiring" /\ call' \in {"ready", "resume"}
      <4>1. call = "ready" /\ state' = "acquiring" /\ (PushNow(n, fault) \/ Post(n))
        BY <3>2 DEF PushImageChunk
      <4>2. PushNow(n, fault) => call' = call
        BY DEF PushNow, callVars
      <4>3. Post(n) => call' = call \/ call' = "resume"
        <5>1. PICK b : b = (Len(Begun \o Chunk(n)) <= Page * Len(Fillable))
          OBVIOUS
        <5>2. Post(n) => IF b /\ ~mode.idle /\ ops' # <<>>
                         THEN call' = "resume" /\ len' = n /\ UNCHANGED current
                         ELSE current' = (IF b THEN current + n ELSE current) /\ UNCHANGED callVars
          BY <5>1, Zenon DEF Post
        <5> QED
          BY <5>2 DEF callVars
      <4> QED
        BY <4>1, <4>2, <4>3
    <3>3. ASSUME NEW n \in Windows, NEW fault \in Faults, HeadRoom(n, fault)
          PROVE  state' = "acquiring" /\ call' \in {"ready", "resume"}
      BY <3>3 DEF HeadRoom, HeadRoomNow, HeadRoomPosted, callVars
    <3> QED
      BY <3>1, <3>2, <3>3, <1>5
  <2> QED
    BY <2>1, <1>0 DEF ImageDone
<1> QED
  BY <1>1, <1>2, <1>3, <1>4, <1>5

(* What was pushed is flushed.                                              *)
LEMMA CommitDone ==
  ASSUME IInv, BookInv, DirectInv, ~broken, NEW fault \in Faults, Commit(fault)
  PROVE  DoneInv'
<1>1. /\ call = "ready" /\ state = "acquiring" /\ current = total /\ call' = "commit"
      /\ UNCHANGED <<mode, state, total, current, image>> /\ spoiled' = (spoiled \/ fault # NoFault)
  BY DEF Commit, imageVars
<1> SUFFICES ASSUME ~mode.queued, ~spoiled, fault = NoFault
             PROVE  Intact(image, total)'
  BY <1>1 DEF DoneInv, ImageDone
<1>2. PICK c : c = current
  OBVIOUS
<1>3. PICK d : d = dev
  OBVIOUS
<1>4. PICK im : im = image
  OBVIOUS
<1>5. PICK e : e = Assured(erased, total)
  OBVIOUS
<1>6. PICK r : r = Flush(d, fault)
  OBVIOUS
<1>7. dev' = r.d
  BY <1>3, <1>6 DEF Commit
<1>8. c \in Nat /\ c <= Size /\ e \in Nat /\ d \in Storage /\ total = c
  <2>1. total \in Nat /\ erased \in Nat /\ total <= Size /\ dev \in Storage
    BY Geometry DEF IInv, TypeOK
  <2> QED
    BY <2>1, <1>1, <1>2, <1>3, <1>5 DEF Assured
<1>9. DirectHolds(mode, d, im, c, e) /\ (mode.driver = "external" => c <= e)
  <2>1. DirectHolds(mode, d, im, c, e) /\ (mode.driver = "external" => c <= e \/ c < total)
    BY <1>1, <1>2, <1>3, <1>4, <1>5, DirectIs
  <2> QED
    BY <2>1, <1>8
<1>10. r.ok /\ d.driver = mode.driver
  BY <1>3, <1>6, <1>8, FlushKeeps DEF BookInv
<1>11. \A u \in Units : u < c => r.d.flash[u] = Unit(im, u)
  <2>1. CASE mode.driver = "external"
    <3>1. r = ExternalFlush(d, fault) /\ ExternalHolds(d, im, c, e)
      BY <2>1, <1>6, <1>9, <1>10 DEF Flush, DirectHolds
    <3> QED
      BY <3>1, <2>1, <1>8, <1>9, <1>10, ExternalFlushHolds
  <2>2. CASE mode.driver = "internal"
    <3>1. r = InternalFlush(d, fault) /\ InternalHolds(d, im, c)
      BY <2>2, <1>6, <1>9, <1>10 DEF Flush, DirectHolds
    <3>2. Flashed(r.d, im, c)
      BY <3>1, <1>8, <1>10, InternalFlushHolds
    <3> QED
      BY <3>2 DEF Flashed
  <2> QED
    BY <2>1, <2>2, <1>8, <1>10, StorageFields DEF Fields
<1>12. ASSUME NEW u \in 0 .. total' - 1
       PROVE  dev'.flash[u] = Unit(image', u)
  <2>1. u \in Units /\ u < c
    BY <1>1, <1>8, <1>12, Geometry DEF Units
  <2> QED
    BY <2>1, <1>1, <1>4, <1>7, <1>11
<1> QED
  BY <1>12 DEF Intact

(* The queue has been worked off.                                           *)
LEMMA DrainedDone ==
  ASSUME IInv, OrderInv, BookInv, DoneInv, QueueFlash, ~broken, CommitDrained
  PROVE  DoneInv'
<1>1. /\ call = "commit" /\ (mode.queued => ops = <<>>)
      /\ UNCHANGED <<mode, total, dev, image, spoiled>>
      /\ state' = "acquiring" => state = "acquiring"
      /\ state' # "ready"
  BY DEF CommitDrained, IInv, TypeOK
<1> SUFFICES ASSUME state = "acquiring", ~spoiled
             PROVE  Intact(image, total)'
  BY <1>1 DEF DoneInv, ImageDone
<1>2. CASE ~mode.queued
  BY <1>1, <1>2 DEF DoneInv, ImageDone, Intact
<1>3. CASE mode.queued
  <2>1. PICK to \in Nat : Ordered(WritesOf(ops, mem, phase), AddressOf(ops, mem), written, to) /\ total <= to
    BY <1>1, <1>3 DEF OrderInv
  <2>2. WritesOf(ops, mem, phase) = {}
    BY <1>1, <1>3 DEF WritesOf
  <2>3. written = to
    BY <2>1, <2>2 DEF Ordered
  <2>4. Pushed = total /\ total \in Nat /\ total <= Size
    <3>1. len = 0 /\ current = total /\ total \in Nat /\ total <= Size
      BY <1>1, Geometry DEF IInv, TypeOK, LengthInv, BookInv
    <3> QED
      BY <3>1 DEF Pushed
  <2>5. WrittenHolds(dev, image, written, Pushed)
    BY <1>1, <1>3 DEF QueueFlash, Queueing
  <2>6. ASSUME NEW u \in 0 .. total - 1
        PROVE  dev.flash[u] = Unit(image, u)
    <3>1. u \in Units /\ u < written /\ u < Pushed
      BY <2>1, <2>3, <2>4, <2>6, Geometry DEF Units
    <3> QED
      BY <3>1, <2>5 DEF WrittenHolds
  <2> QED
    BY <2>6, <1>1 DEF Intact
<1> QED
  BY <1>2, <1>3
-----------------------------------------------------------------------------
(* Operations posted.                                                       *)

LEMMA QueueGone == ASSUME ~Queueing' PROVE QueueText' /\ QueueFlash'
BY DEF QueueText, QueueFlash

LEMMA QueueSame ==
  ASSUME QueueText, QueueFlash, Queueing' => Queueing,
         UNCHANGED <<dev, mem, ops, cur, image, total, written, erased>>, Pushed' = Pushed,
         WritesOf(ops', mem', phase') = WritesOf(ops, mem, phase),
         call = "commit" /\ Queueing' => call' = "commit"
  PROVE  QueueText' /\ QueueFlash'
BY DEF QueueText, QueueFlash

(* Where there is no queue, or it is left alone.                            *)
LEMMA OtherQueue ==
  ASSUME IInv, BookInv, QueueText, QueueFlash, ~broken,
         \/ CancelImage \/ Select \/ Calls \/ Release \/ Reset \/ TreatErased
         \/ (\E fault \in Faults : TreatFails(fault))
         \/ (\E who \in {"app", "idle"} : Resume(who))
         \/ (\E n \in Chunks, fault \in Faults : PushNow(n, fault) /\ mode' = mode)
         \/ (\E n \in Windows, fault \in Faults : HeadRoomNow(n, fault) /\ mode' = mode)
  PROVE  QueueText' /\ QueueFlash'
<1>1. CASE CancelImage \/ Select \/ Reset
  <2>1. state' # "acquiring"
    BY <1>1 DEF CancelImage, Cancel, Select, Reset
  <2> QED
    BY <2>1, QueueGone DEF Queueing
<1>2. CASE CommitDrained \/ Notify
  <2>1. state' # "acquiring" \/ call' = "notify"
    BY <1>2 DEF CommitDrained, Notify
  <2> QED
    BY <2>1, QueueGone DEF Queueing
<1>3. CASE \/ (\E n \in Chunks, fault \in Faults : PushNow(n, fault) /\ mode' = mode)
           \/ (\E n \in Windows, fault \in Faults : HeadRoomNow(n, fault) /\ mode' = mode)
  <2>1. ~mode'.queued
    BY <1>3 DEF PushNow, HeadRoomNow
  <2> QED
    BY <2>1, QueueGone DEF Queueing
<1>4. CASE CallEnds
  <2>1. /\ UNCHANGED <<mode, spoiled, state, dev, mem, ops, cur, image, total, written, erased, phase>>
        /\ call = "end" /\ Pushed' = Pushed
    <3>1. /\ current' = current + len /\ len' = 0 /\ call = "end"
          /\ UNCHANGED <<mode, spoiled, state, dev, mem, ops, cur, image, total, written, erased, phase>>
      BY <1>4 DEF CallEnds, queueVars, workVars
    <3>2. current \in Nat /\ len \in Nat
      BY Geometry DEF IInv, TypeOK
    <3> QED
      BY <3>1, <3>2 DEF Pushed
  <2> QED
    BY <2>1, QueueSame DEF Queueing
<1>5. CASE Release \/ (\E who \in {"app", "idle"} : Resume(who))
  <2>1. /\ UNCHANGED <<mode, spoiled, state, dev, mem, ops, cur, image, total, written, erased, phase>>
        /\ Pushed' = Pushed /\ (call' = call \/ (call = "resume" /\ call' = "end"))
    BY <1>5 DEF Release, Resume, Others, imageVars, queueVars, callVars, Pushed
  <2> QED
    BY <2>1, QueueSame DEF Queueing
<1>6. CASE TreatErased
  <2>0. ops # <<>> /\ op.kind = "erased" /\ phase = "take" /\ phase' = "finish" /\ state # "permanent"
    BY <1>6, HeadIs DEF TreatErased, Take
  <2>1. CASE UNCHANGED <<imageVars, queueVars>>
    <3>1. /\ UNCHANGED <<mode, spoiled, state, dev, mem, ops, cur, image, total, written, erased, call>>
          /\ Pushed' = Pushed
      BY <2>1, <1>6 DEF TreatErased, Others, imageVars, queueVars, callVars, Pushed
    <3>2. mem[ops[1]].kind = "erased"
      <4>1. ops \in Seq(Node)
        BY DEF IInv, TypeOK
      <4> QED
        BY <4>1, <2>0, TailIs DEF op
    <3>3. WritesOf(ops', mem', phase') = WritesOf(ops, mem, phase)
      BY <2>0, <3>1, <3>2 DEF WritesOf
    <3> QED
      BY <3>1, <3>3, QueueSame DEF Queueing
  <2>2. CASE Cancel("permanent")
    <3>1. state' # "acquiring"
      BY <2>2 DEF Cancel
    <3> QED
      BY <3>1, QueueGone DEF Queueing
  <2> QED
    BY <2>1, <2>2, <1>6 DEF TreatErased
<1>7. CASE \E fault \in Faults : TreatFails(fault)
  <2>1. state' # "acquiring"
    BY <1>7 DEF TreatFails, Cancel
  <2> QED
    BY <2>1, QueueGone DEF Queueing
<1> QED
  BY <1>1, <1>2, <1>3, <1>4, <1>5, <1>6, <1>7 DEF Calls

(* Nothing is posted for an image that begins.                              *)
LEMMA StartImageQueue ==
  ASSUME IInv, BookInv, ~broken, NEW n \in Lengths, StartImage(n)
  PROVE  QueueText' /\ QueueFlash'
<1>1. /\ state = "permanent" /\ call = "ready" /\ dev.erased = {} /\ current' = 0 /\ written' = 0
      /\ UNCHANGED <<mode, erased, dev, ops, cur, mem, phase, call, len>> /\ total' = n
  BY DEF StartImage, queueVars, workVars, callVars
<1>2. ops' = <<>> /\ cur' = NoNode /\ Pushed' = 0 /\ erased' = 0 /\ n \in Nat
  <2>1. ops = <<>> /\ cur = NoNode /\ len = 0 /\ erased = 0 /\ n \in Nat
    BY <1>1, ConfigAssumption, Geometry DEF IInv, PostedInv, LengthInv, BookInv
  <2> QED
    BY <2>1, <1>1 DEF Pushed
<1>3. QueueText'
  BY <1>2 DEF QueueText, WritesOf
<1>4. \A u \in Units : ~(u < 0)
  BY UnitsNat
<1>5. Assured(erased', total') = 0
  BY <1>1, <1>2 DEF Assured
<1>6. PICK im : im = image'
  OBVIOUS
<1>7. PICK d : d = dev'
  OBVIOUS
<1>8. WrittenHolds(d, im, 0, 0) /\ ErasedHolds(d, im, 0, 0)
  <2>1. d.erased = {}
    BY <1>1, <1>7
  <2> QED
    BY <2>1, <1>4 DEF WrittenHolds, ErasedHolds
<1>9. QueueFlash'
  BY <1>1, <1>2, <1>5, <1>6, <1>7, <1>8 DEF QueueFlash
<1> QED
  BY <1>3, <1>9

(* The page at the head of the queue.                                       *)
LEMMA HeadPage ==
  ASSUME IInv, OrderInv, ~broken, ~spoiled, phase = "take", ops # <<>>, op.kind = "write"
  PROVE  /\ op.addr = written /\ 1 \in WritesOf(ops, mem, phase) /\ ops[1] = Head(ops)
<1>1. mode.queued
  BY HeadIs
<1>2. PICK to \in Nat : Ordered(WritesOf(ops, mem, phase), AddressOf(ops, mem), written, to)
  BY <1>1 DEF OrderInv
<1>3. PICK o : o = ops
  OBVIOUS
<1>4. o \in Seq(Node) /\ o # <<>>
  BY <1>3 DEF IInv, TypeOK
<1>5. Len(o) \in Nat \ {0} /\ Head(o) = o[1] /\ DOMAIN o = 1 .. Len(o)
  BY <1>4, TailIs, LenProperties
<1>6. PICK W : W = WritesOf(o, mem, phase)
  OBVIOUS
<1>7. 1 \in W /\ \A k \in W : 1 <= k
  BY <1>3, <1>5, <1>6 DEF WritesOf, op
<1>8. AddressOf(o, mem)[1] = written
  BY <1>2, <1>3, <1>6, <1>7 DEF Ordered
<1> QED
  BY <1>3, <1>5, <1>6, <1>7, <1>8 DEF AddressOf, op

LEMMA TreatWriteQueue ==
  ASSUME IInv, OrderInv, BookInv, QueueText, QueueFlash, ~broken, TreatWrite
  PROVE  QueueText' /\ QueueFlash'
<1>1. /\ ops # <<>> /\ phase = "take" /\ op.kind = "write"
      /\ written' = written + Page /\ phase' = "finish"
      /\ UNCHANGED <<mode, image, state, total, current, erased, ops, cur, mem, len, call, spoiled>>
  BY DEF TreatWrite, Take, Others, queueVars, callVars
<1> SUFFICES ASSUME Queueing
             PROVE  QueueText' /\ QueueFlash'
  BY <1>1, QueueGone DEF Queueing
<1>2. PICK W : W = WritesOf(ops, mem, phase)
  OBVIOUS
<1>3. op.addr = written /\ 1 \in W /\ ops[1] = Head(ops)
  BY <1>1, <1>2, HeadPage DEF Queueing
<1>4. WritesOf(ops', mem', phase') \in SUBSET W
  BY <1>1, <1>2 DEF WritesOf
<1>5. Pushed' = Pushed
  BY <1>1 DEF Pushed
<1>6. QueueText'
  BY <1>1, <1>2, <1>4, <1>5 DEF QueueText, Queueing
<1>7. PICK a : a = written
  OBVIOUS
<1>8. PICK data : data = Padded(op.data)
  OBVIOUS
<1>9. PICK d : d = dev
  OBVIOUS
<1>10. PICK r : r = Write(d, a, data, NoFault)
  OBVIOUS
<1>11. dev' = r.d /\ r.ok /\ \A j \in 1 .. Page : Read(r.d, a + j - 1) = data[j]
  BY <1>3, <1>7, <1>8, <1>9, <1>10 DEF TreatWrite
<1>12. PICK im : im = image
  OBVIOUS
<1>13. PICK n : n = total
  OBVIOUS
<1>14. PICK p : p = Pushed
  OBVIOUS
<1>15. a \in Nat /\ n \in Nat /\ p \in Nat /\ p <= n /\ d \in Storage /\ d.level = 0
  <2>1. total \in Nat /\ current \in Nat /\ len \in Nat /\ written \in Nat /\ dev \in Storage
    BY Geometry DEF IInv, TypeOK
  <2>2. Pushed <= total /\ dev.level = 0
    BY DEF IInv, LengthInv, Queueing, BookInv
  <2> QED
    BY <2>1, <2>2, <1>7, <1>9, <1>13, <1>14 DEF Pushed
<1>16. PageDone(d, r, im, a, data, n)
  <2>1. data \in Seq(Cell) /\ Len(data) = Page
    BY <1>1, <1>8, HeadIs, PaddedTyped DEF Op
  <2>2. \A k \in 1 .. Page : a + k - 1 < n => data[k] = Unit(im, a + k - 1)
    BY <1>2, <1>3, <1>7, <1>8, <1>12, <1>13 DEF QueueText, PageText, op
  <2> QED
    BY <2>1, <2>2, <1>11, <1>15 DEF PageDone
<1>17. WrittenHolds(d, im, a, p) /\ (d.driver = "external" => p <= erased)
  BY <1>7, <1>9, <1>12, <1>14 DEF QueueFlash
<1>18. WrittenHolds(r.d, im, a + Page, p)
  BY <1>10, <1>15, <1>16, <1>17, WrittenAfterPage
<1>19. r.d.driver = d.driver
  <2>1. Len(data) > 0
    BY <1>16, Geometry DEF PageDone
  <2> QED
    BY <2>1, <1>10, <1>15, <1>16, WriteKeeps DEF PageDone
<1>20. PICK e : e = Assured(erased, total)
  OBVIOUS
<1>21. call # "commit" => ErasedHolds(r.d, im, p, e)
  <2> SUFFICES ASSUME call # "commit"
               PROVE  ErasedHolds(r.d, im, p, e)
    OBVIOUS
  <2>1. a + Page <= p
    BY <1>2, <1>3, <1>7, <1>14 DEF QueueText, op
  <2>2. ErasedHolds(d, im, p, e)
    BY <1>9, <1>12, <1>14, <1>20 DEF QueueFlash
  <2> QED
    BY <2>1, <2>2, <1>10, <1>15, <1>16, ErasedAfterPage
<1>22. QueueFlash'
  BY <1>1, <1>5, <1>7, <1>11, <1>12, <1>14, <1>17, <1>18, <1>19, <1>20, <1>21 DEF QueueFlash
<1> QED
  BY <1>6, <1>22

LEMMA TreatEraseQueue ==
  ASSUME WindowsInside, IInv, BookInv, QueueText, QueueFlash, ~broken, TreatErase
  PROVE  QueueText' /\ QueueFlash'
<1>1. /\ ops # <<>> /\ phase = "take" /\ op.kind = "erase"
      /\ mem' = [mem EXCEPT ![Head(ops)].kind = "erased"]
      /\ UNCHANGED <<mode, image, state, total, current, written, ops, cur, phase, len, call, spoiled>>
  BY DEF TreatErase, Take, Others, callVars
<1> SUFFICES ASSUME Queueing
             PROVE  QueueText' /\ QueueFlash'
  BY <1>1, QueueGone DEF Queueing
<1>2. PICK h : h = Head(ops)
  OBVIOUS
<1>3. h \in Node /\ ops[1] = h /\ 1 \in DOMAIN ops
  <2>1. PICK o : o = ops
    OBVIOUS
  <2>2. o \in Seq(Node) /\ o # <<>>
    BY <2>1, <1>1 DEF IInv, TypeOK
  <2>3. Len(o) \in Nat \ {0} /\ Head(o) = o[1] /\ DOMAIN o = 1 .. Len(o) /\ Head(o) \in Node
    BY <2>2, TailIs, LenProperties
  <2> QED
    BY <2>1, <2>3, <1>2
<1>4. mem[h].kind = "erase" /\ NextErase(mem[h], erased, total)
  BY <1>1, <1>2, <1>3 DEF QueueText, op
<1>5. cur # h
  BY <1>3, <1>4, NodeFacts DEF IInv, PostedInv
<1>6. /\ \A x \in Node : x # h => mem'[x] = mem[x]
      /\ mem'[h].kind = "erased"
  BY <1>1, <1>2, <1>3 DEF IInv, TypeOK, Op
<1>7. \A j \in DOMAIN ops : ops[j] \in Node
  BY WritesTyped
<1>8. WritesOf(ops', mem', phase') = WritesOf(ops, mem, phase)
  BY <1>1, <1>4, <1>6, <1>7 DEF WritesOf
<1>9. \A j \in DOMAIN ops : mem'[ops[j]].kind # "erase"
  <2>1. ASSUME NEW j \in DOMAIN ops, mem'[ops[j]].kind = "erase"
        PROVE  FALSE
    <3>1. ops[j] # h /\ mem[ops[j]].kind = "erase"
      BY <2>1, <1>6, <1>7
    <3>2. j = 1
      BY <2>1, <3>1, <1>3, <1>4 DEF QueueText
    <3> QED
      BY <3>1, <3>2, <1>3
  <2> QED
    BY <2>1
<1>10. Pushed' = Pushed
  BY <1>1 DEF Pushed
<1>11. QueueText'
  <2>1. \A j \in WritesOf(ops, mem, phase) : mem'[ops[j]] = mem[ops[j]]
    BY <1>4, <1>6, <1>7 DEF WritesOf
  <2>2. cur # NoNode => mem'[cur] = mem[cur]
    BY <1>5, <1>6 DEF IInv, TypeOK
  <2> QED
    BY <2>1, <2>2, <1>1, <1>8, <1>9, <1>10 DEF QueueText, Queueing
<1>12. PICK d : d = dev
  OBVIOUS
<1>13. PICK e : e = erased
  OBVIOUS
<1>14. PICK s : s = mem[h].size
  OBVIOUS
<1>15. PICK r : r = EraseArea(d, e, s, NoFault)
  OBVIOUS
<1>16. PICK n : n = total
  OBVIOUS
<1>17. PICK im : im = image
  OBVIOUS
<1>18. PICK p : p = Pushed
  OBVIOUS
<1>19. PICK w : w = written
  OBVIOUS
<1>20. mem[h].addr = e
  BY <1>4, <1>13 DEF NextErase
<1>21. dev' = r.d /\ erased' = r.next /\ r.ok
  <2>1. r = EraseArea(dev, op.addr, op.size, NoFault)
    BY <1>2, <1>12, <1>14, <1>15, <1>20 DEF op
  <2> QED
    BY <2>1 DEF TreatErase
<1>22. n \in Lengths /\ e \in Nat /\ w \in Nat /\ p \in Nat /\ d \in Storage /\ e < n /\ s \in Nat \ {0}
       /\ (s = n - e \/ s \in Windows)
  <2>1. n \in Lengths
    BY <1>16 DEF Queueing, BookInv
  <2>2. e \in Nat /\ w \in Nat /\ d \in Storage
    BY <1>12, <1>13, <1>19 DEF IInv, TypeOK
  <2>3. p \in Nat
    BY <1>18, Geometry DEF IInv, TypeOK, Pushed
  <2>4. e < n /\ s \in Nat \ {0} /\ (s = n - e \/ s \in Windows)
    BY <1>4, <1>13, <1>14, <1>16 DEF NextErase
  <2> QED
    BY <2>1, <2>2, <2>3, <2>4
<1>23. r.next = EndOf(e, s) /\ e % Sector = 0 /\ r.d.driver = d.driver
  BY <1>15, <1>21, <1>22, EraseIs, EraseKeeps
<1>24. PICK f : f = Assured(EndOf(e, s), n)
  OBVIOUS
<1>25. Reaches(e, s, e, f) /\ f \in Nat /\ Assured(e, n) = e
  BY <1>22, <1>23, <1>24, AssuredNext
<1>26. WrittenHolds(d, im, w, p) /\ (d.driver = "external" => p <= e)
  BY <1>12, <1>13, <1>17, <1>18, <1>19 DEF QueueFlash
<1>27. WrittenHolds(r.d, im, w, p)
  BY <1>15, <1>22, <1>26, WrittenAfterErase
<1>28. call # "commit" => ErasedHolds(r.d, im, p, f)
  <2> SUFFICES ASSUME call # "commit"
               PROVE  ErasedHolds(r.d, im, p, f)
    OBVIOUS
  <2>1. ErasedHolds(d, im, p, e)
    BY <1>12, <1>13, <1>16, <1>17, <1>18, <1>25 DEF QueueFlash
  <2> QED
    BY <2>1, <1>15, <1>21, <1>22, <1>25, ErasedAfterErase
<1>29. EndOf(e, s) \in Nat /\ e < EndOf(e, s)
  <2>1. EndOf(e, s) \in Nat /\ e + s < EndOf(e, s)
    BY <1>22, EndOfNat
  <2> QED
    BY <2>1, <1>22
<1>30. QueueFlash'
  <2>1. WrittenHolds(dev', image', written', Pushed')
    BY <1>1, <1>10, <1>17, <1>18, <1>19, <1>21, <1>27
  <2>2. dev'.driver = "external" => Pushed' <= erased'
    <3>1. PICK y : y = EndOf(e, s)
      OBVIOUS
    <3>2. y \in Nat /\ e < y
      BY <3>1, <1>29
    <3>3. r.d.driver = "external" => p <= y
      BY <3>2, <1>22, <1>23, <1>26
    <3> QED
      BY <3>1, <3>3, <1>10, <1>18, <1>21, <1>23
  <2>3. call' # "commit" => ErasedHolds(dev', image', Pushed', Assured(erased', total'))
    BY <1>1, <1>10, <1>16, <1>17, <1>18, <1>21, <1>23, <1>24, <1>28
  <2> QED
    BY <2>1, <2>2, <2>3 DEF QueueFlash
<1> QED
  BY <1>11, <1>30

LEMMA FinishQueue ==
  ASSUME IInv, QueueText, QueueFlash, ~broken, Finish
  PROVE  QueueText' /\ QueueFlash'
<1>1. /\ phase = "finish" /\ ops' = Tail(ops) /\ mem' = [mem EXCEPT ![doing] = NoOp] /\ phase' = "take"
      /\ ops # <<>> /\ doing = Head(ops)
      /\ UNCHANGED <<mode, image, state, total, current, written, erased, dev, cur, len, call, spoiled>>
  BY DEF Finish, IInv, HeadTreated, Others, imageVars, callVars
<1> SUFFICES ASSUME Queueing
             PROVE  QueueText' /\ QueueFlash'
  BY <1>1, QueueGone DEF Queueing
<1>2. Pushed' = Pushed
  BY <1>1 DEF Pushed
<1>3. PICK o : o = ops
  OBVIOUS
<1>4. PICK g : g = Tail(o)
  OBVIOUS
<1>5. PICK h : h = Head(o)
  OBVIOUS
<1>6. PICK m : m = mem'
  OBVIOUS
<1>7. o \in Seq(Node) /\ o # <<>> /\ Places(free, o, cur)
  BY <1>1, <1>3 DEF IInv, TypeOK, PoolInv
<1>8. /\ Len(o) \in Nat \ {0} /\ h = o[1] /\ h \in Node /\ g \in Seq(Node)
      /\ Len(g) = Len(o) - 1 /\ \A i \in 1 .. Len(g) : g[i] = o[i + 1]
  BY <1>4, <1>5, <1>7, TailIs
<1>9. DOMAIN g = 1 .. Len(g) /\ DOMAIN o = 1 .. Len(o) /\ \A j \in DOMAIN o : o[j] \in Node
  BY <1>7, <1>8, LenProperties, ElementOfSeq
<1>10. \A x \in Node : x # h => m[x] = mem[x]
  BY <1>1, <1>3, <1>5, <1>6, <1>8 DEF IInv, TypeOK
<1>11. \A j \in DOMAIN o : j # 1 => o[j] # h
  BY <1>7, <1>8, <1>9 DEF Places
<1>12. \A j \in DOMAIN g : j \in Nat \ {0} /\ j + 1 \in DOMAIN o /\ g[j] = o[j + 1] /\ m[g[j]] = mem[o[j + 1]]
  BY <1>8, <1>9, <1>10, <1>11
<1>13. \A j \in WritesOf(g, m, "take") : j + 1 \in WritesOf(o, mem, "finish") /\ m[g[j]] = mem[o[j + 1]]
  <2>1. ASSUME NEW j \in WritesOf(g, m, "take")
        PROVE  j + 1 \in WritesOf(o, mem, "finish") /\ m[g[j]] = mem[o[j + 1]]
    <3>1. j \in DOMAIN g /\ m[g[j]].kind = "write"
      BY <2>1 DEF WritesOf
    <3>2. j + 1 # 1
      BY <3>1, <1>12
    <3> QED
      BY <3>1, <3>2, <1>12 DEF WritesOf
  <2> QED
    BY <2>1
<1>14. cur # NoNode => mem'[cur] = mem[cur]
  <2>1. cur # h /\ (cur # NoNode => cur \in Node)
    <3>1. 1 \in DOMAIN o
      BY <1>8, <1>9
    <3> QED
      BY <3>1, <1>7, <1>8 DEF Places, IInv, TypeOK
  <2> QED
    BY <2>1, <1>6, <1>10
<1>15. QueueText'
  <2>1. ops' = g /\ mem' = m /\ phase' = "take" /\ phase = "finish"
    BY <1>1, <1>3, <1>4, <1>6
  <2>2. \A j \in WritesOf(g, m, "take") :
          PageText(m[g[j]], image, total) /\ (call # "commit" => m[g[j]].addr + Page <= Pushed)
    BY <2>1, <1>3, <1>13 DEF QueueText
  <2>3. \A j \in DOMAIN g : m[g[j]].kind = "erase" => NextErase(m[g[j]], erased, total)
    BY <1>3, <1>12 DEF QueueText
  <2>4. ASSUME NEW i \in DOMAIN g, NEW j \in DOMAIN g, m[g[i]].kind = "erase", m[g[j]].kind = "erase"
        PROVE  i = j
    <3>1. i + 1 = j + 1
      BY <2>4, <1>3, <1>12 DEF QueueText
    <3> QED
      BY <3>1, <1>12
  <2>5. cur # NoNode => \A k \in 1 .. Len(mem'[cur].data) : mem'[cur].data[k] = Unit(image, mem'[cur].addr + k - 1)
    BY <1>14 DEF QueueText
  <2> QED
    BY <2>1, <2>2, <2>3, <2>4, <2>5, <1>1, <1>2 DEF QueueText
<1>16. QueueFlash'
  BY <1>1, <1>2 DEF QueueFlash
<1> QED
  BY <1>15, <1>16

LEMMA HeadRoomQueue ==
  ASSUME IInv, BookInv, QueueText, QueueFlash, ~broken, NEW n \in Windows, NEW fault \in Faults,
         HeadRoom(n, fault), HeadRoomPosted(n)
  PROVE  QueueText' /\ QueueFlash'
<1>1. /\ call = "ready" /\ state = "acquiring" /\ erased < total
      /\ \A j \in DOMAIN ops : mem[ops[j]].kind = "write"
      /\ UNCHANGED <<mode, image, state, total, current, written, erased, dev, cur, phase, len, spoiled>>
      /\ call' # "commit" /\ call' # "notify"
  BY DEF HeadRoom, HeadRoomPosted, queueVars, workVars, callVars
<1> SUFFICES ASSUME Queueing
             PROVE  QueueText' /\ QueueFlash'
  BY <1>1, QueueGone DEF Queueing
<1>2. Pushed' = Pushed
  BY <1>1 DEF Pushed
<1>3. CASE free = <<>>
  <2>1. UNCHANGED <<ops, mem, call>>
    BY <1>3 DEF HeadRoomPosted, queueVars, callVars
  <2> QED
    BY <2>1, <1>1, <1>2, QueueSame
<1>4. CASE free # <<>>
  <2>1. PICK e : e = [NoOp EXCEPT !.kind = "erase", !.addr = erased, !.size = ToErase(n)]
    OBVIOUS
  <2>2. mem' = [mem EXCEPT ![Head(free)] = e] /\ ops' = Append(ops, Head(free))
    BY <1>4, <2>1 DEF HeadRoomPosted
  <2>3. e.kind = "erase" /\ NextErase(e, erased, total)
    <3>1. e.kind = "erase" /\ e.addr = erased /\ e.size = ToErase(n)
      BY <2>1 DEF NoOp
    <3>2. total \in Nat /\ erased \in Nat
      BY Geometry DEF IInv, TypeOK
    <3> QED
      BY <3>1, <3>2, <1>1, ToEraseIs DEF NextErase
  <2>4. PICK f : f = free
    OBVIOUS
  <2>5. PICK o : o = ops
    OBVIOUS
  <2>6. PICK h : h = Head(f)
    OBVIOUS
  <2>7. PICK p : p = Append(o, h)
    OBVIOUS
  <2>8. o \in Seq(Node) /\ f \in Seq(Node) /\ Places(f, o, cur) /\ f # <<>>
    BY <1>4, <2>4, <2>5 DEF IInv, TypeOK, PoolInv
  <2>9. Len(f) \in Nat \ {0} /\ h = f[1] /\ h \in Node /\ 1 \in DOMAIN f
    BY <2>6, <2>8, TailIs, LenProperties
  <2>10. /\ p \in Seq(Node) /\ Len(o) \in Nat /\ Len(p) = Len(o) + 1
         /\ \A i \in 1 .. Len(p) : p[i] = IF i <= Len(o) THEN o[i] ELSE h
    BY <2>7, <2>8, <2>9, AppendIs
  <2>11. DOMAIN p = 1 .. Len(p) /\ DOMAIN o = 1 .. Len(o) /\ \A j \in DOMAIN o : o[j] \in Node
    BY <2>8, <2>10, LenProperties, ElementOfSeq
  <2>12. h # cur /\ \A j \in DOMAIN o : o[j] # h
    BY <2>8, <2>9 DEF Places
  <2>13. PICK m : m = mem'
    OBVIOUS
  <2>14. m[h] = e /\ \A x \in Node : x # h => m[x] = mem[x]
    BY <2>2, <2>4, <2>6, <2>9, <2>13 DEF IInv, TypeOK
  <2>15. \A j \in DOMAIN o : p[j] = o[j] /\ m[p[j]] = mem[o[j]]
    BY <2>10, <2>11, <2>12, <2>14
  <2>16. \A j \in DOMAIN p : j \in DOMAIN o \/ (j = Len(o) + 1 /\ m[p[j]] = e)
    BY <2>10, <2>11, <2>14
  <2>17. \A j \in WritesOf(p, m, phase) : j \in WritesOf(o, mem, phase) /\ m[p[j]] = mem[o[j]]
    <3>1. ASSUME NEW j \in WritesOf(p, m, phase)
          PROVE  j \in DOMAIN o
      <4>1. j \in DOMAIN p /\ m[p[j]].kind = "write"
        BY <3>1 DEF WritesOf
      <4> QED
        BY <4>1, <2>3, <2>16
    <3> QED
      BY <3>1, <2>15 DEF WritesOf
  <2>18. ASSUME NEW j \in DOMAIN p, m[p[j]].kind = "erase"
         PROVE  j = Len(o) + 1 /\ m[p[j]] = e
    <3>1. j \in DOMAIN o => m[p[j]].kind = "write"
      BY <1>1, <2>5, <2>15
    <3> QED
      BY <3>1, <2>16, <2>18
  <2>19. cur # NoNode => m[cur] = mem[cur]
    BY <2>12, <2>14 DEF IInv, TypeOK
  <2>20. ops' = p /\ mem' = m /\ phase' = phase
    BY <1>1, <2>2, <2>4, <2>5, <2>6, <2>7, <2>13
  <2>21. \A j \in WritesOf(p, m, phase) :
           PageText(m[p[j]], image, total) /\ m[p[j]].addr + Page <= Pushed
    BY <1>1, <2>5, <2>17 DEF QueueText
  <2>22. cur # NoNode => \A k \in 1 .. Len(m[cur].data) : m[cur].data[k] = Unit(image, m[cur].addr + k - 1)
    BY <2>19 DEF QueueText
  <2>23. QueueText'
    BY <1>1, <1>2, <2>3, <2>18, <2>20, <2>21, <2>22 DEF QueueText
  <2>24. QueueFlash'
    BY <1>1, <1>2 DEF QueueFlash
  <2> QED
    BY <2>23, <2>24
<1> QED
  BY <1>3, <1>4

(* The page being filled is posted, and padded when it is written.          *)
LEMMA CommitQueue ==
  ASSUME IInv, OrderInv, BookInv, QueueText, QueueFlash, ~broken, NEW fault \in Faults, Commit(fault)
  PROVE  QueueText' /\ QueueFlash'
<1>1. /\ call = "ready" /\ state = "acquiring" /\ current = total /\ call' = "commit"
      /\ spoiled' = (spoiled \/ fault # NoFault)
      /\ UNCHANGED <<mode, image, state, total, current, written, erased, mem, phase, len>>
  BY DEF Commit, imageVars, workVars
<1> SUFFICES ASSUME Queueing'
             PROVE  QueueText' /\ QueueFlash'
  BY QueueGone
<1>2. Queueing /\ mode.queued /\ ~spoiled
  BY <1>1 DEF Queueing
<1>3. Pushed' = Pushed /\ Pushed = total /\ total \in Nat
  <2>1. len = 0 /\ current \in Nat /\ total \in Nat
    BY <1>1, Geometry DEF IInv, LengthInv, TypeOK
  <2> QED
    BY <2>1, <1>1 DEF Pushed
<1>4. dev' = dev /\ cur' = NoNode /\ ops' = IF cur # NoNode THEN Append(ops, cur) ELSE ops
  BY <1>2 DEF Commit
<1>5. QueueFlash'
  BY <1>1, <1>2, <1>3, <1>4 DEF QueueFlash
<1>6. CASE cur = NoNode
  <2>1. ops' = ops
    BY <1>4, <1>6
  <2> QED
    BY <2>1, <1>1, <1>2, <1>4, <1>5, <1>6 DEF QueueText
<1>7. CASE cur # NoNode
  <2>1. PICK c : c = cur
    OBVIOUS
  <2>2. PICK o : o = ops
    OBVIOUS
  <2>3. PICK p : p = Append(o, c)
    OBVIOUS
  <2>4. o \in Seq(Node) /\ c \in Node
    BY <1>7, <2>1, <2>2 DEF IInv, TypeOK
  <2>5. /\ p \in Seq(Node) /\ Len(o) \in Nat /\ Len(p) = Len(o) + 1
        /\ \A i \in 1 .. Len(p) : p[i] = IF i <= Len(o) THEN o[i] ELSE c
    BY <2>3, <2>4, AppendIs
  <2>6. DOMAIN p = 1 .. Len(p) /\ DOMAIN o = 1 .. Len(o)
    BY <2>4, <2>5, LenProperties
  <2>7. \A j \in DOMAIN p : (j \in DOMAIN o /\ p[j] = o[j]) \/ p[j] = c
    BY <2>5, <2>6
  <2>8. mem[c].kind = "write" /\ Len(mem[c].data) \in 1 .. Page - 1 /\ mem[c].addr \in Nat
        /\ mem[c].addr + Len(mem[c].data) = total
    <3>1. mem[c].kind = "write" /\ Len(mem[c].data) \in 1 .. Page - 1
      BY <1>7, <2>1 DEF IInv, PostedInv
    <3>2. mem[c] \in Op
      BY <2>4 DEF IInv, TypeOK
    <3>3. mem[c].addr + Len(mem[c].data) = Pushed
      BY <1>2, <1>7, <2>1 DEF OrderInv
    <3> QED
      BY <3>1, <3>2, <3>3, <1>3 DEF Op
  <2>9. PageText(mem[c], image, total)
    <3>1. ASSUME NEW k \in 1 .. Page, mem[c].addr + k - 1 < total
          PROVE  Padded(mem[c].data)[k] = Unit(image, mem[c].addr + k - 1)
      <4>1. k \in 1 .. Len(mem[c].data)
        BY <3>1, <2>8, <1>3, Geometry
      <4>2. mem[c].data[k] = Unit(image, mem[c].addr + k - 1)
        BY <4>1, <1>2, <1>7, <2>1 DEF QueueText
      <4>3. Padded(mem[c].data)[k] = mem[c].data[k]
        BY <4>1, <3>1 DEF Padded
      <4> QED
        BY <4>2, <4>3
    <3> QED
      BY <3>1 DEF PageText
  <2>10. ops' = p /\ mem' = mem /\ phase' = phase
    BY <1>1, <1>4, <1>7, <2>1, <2>2, <2>3
  <2>11. \A j \in WritesOf(p, mem, phase) : PageText(mem[p[j]], image, total)
    <3>1. ASSUME NEW j \in WritesOf(p, mem, phase)
          PROVE  PageText(mem[p[j]], image, total)
      <4>1. j \in DOMAIN p
        BY <3>1 DEF WritesOf
      <4>2. j \in DOMAIN o /\ p[j] = o[j] => j \in WritesOf(o, mem, phase)
        BY <3>1 DEF WritesOf
      <4> QED
        BY <4>1, <4>2, <1>2, <2>2, <2>7, <2>9 DEF QueueText
    <3> QED
      BY <3>1
  <2>12. \A j \in DOMAIN p : mem[p[j]].kind = "erase" => j \in DOMAIN o /\ p[j] = o[j]
    BY <2>7, <2>8
  <2>13. \A j \in DOMAIN p : mem[p[j]].kind = "erase" => NextErase(mem[p[j]], erased, total)
    BY <2>2, <2>12, <1>2 DEF QueueText
  <2>14. \A i, j \in DOMAIN p : mem[p[i]].kind = "erase" /\ mem[p[j]].kind = "erase" => i = j
    BY <2>2, <2>12, <1>2 DEF QueueText
  <2>15. QueueText'
    BY <1>1, <1>4, <2>10, <2>11, <2>13, <2>14 DEF QueueText
  <2> QED
    BY <2>15, <1>5
<1> QED
  BY <1>6, <1>7

(* Full pages of what was begun and of the chunk are posted.                *)
LEMMA PostQueueText ==
  ASSUME IInv, OrderInv, BookInv, QueueText, QueueFlash, ~broken, NEW n \in Chunks, NEW fault \in Faults,
         PushImageChunk(n, fault), Post(n)
  PROVE  QueueText' /\ QueueFlash'
<1>1. /\ call = "ready" /\ state = "acquiring" /\ mode.queued
      /\ mode.driver = "internal" \/ current + n <= erased
      /\ UNCHANGED <<mode, image, state, total, erased, written, dev, phase>>
      /\ written <= current /\ (spoiled => spoiled')
  <2>1. PICK ok : spoiled' = (spoiled \/ ~ok)
    <3>1. PICK b : b = (Len(Begun \o Chunk(n)) <= Page * Len(Fillable))
      OBVIOUS
    <3> QED
      BY <3>1, Zenon DEF Post
  <2>2. /\ call = "ready" /\ state = "acquiring"
        /\ mode.driver = "internal" \/ current + n <= erased
        /\ UNCHANGED <<mode, image, state, total, erased, phase>>
    BY DEF PushImageChunk, workVars
  <2>3. mode.queued /\ written <= current /\ UNCHANGED <<written, dev>>
    BY DEF Post
  <2> QED
    BY <2>1, <2>2, <2>3 DEF IInv, TypeOK
<1> SUFFICES ASSUME Queueing'
             PROVE  QueueText' /\ QueueFlash'
  BY QueueGone
<1>2. ~spoiled' /\ ~spoiled /\ Queueing
  BY <1>1 DEF Queueing
<1>3. PICK text, full, to : Posted(n, text, full, to)
  BY <1>2, PostPages
<1>4. /\ n \in Nat \ {0} /\ current \in Nat /\ to \in Nat /\ full \in Nat /\ written \in Nat /\ erased \in Nat
      /\ Pushed = current /\ Pushed' = current + n /\ Len(Begun) \in Nat /\ to + Len(Begun) = current
      /\ Len(text) = Len(Begun) + n /\ image \in Nat /\ full * Page <= Len(text)
  <2>1. n \in Nat \ {0} /\ current \in Nat /\ written \in Nat /\ erased \in Nat /\ image \in Nat
    BY ConfigAssumption, Geometry DEF IInv, TypeOK
  <2>2. Len(Begun) \in Nat
    BY BegunFacts, Geometry
  <2> QED
    BY <2>1, <2>2, <1>3 DEF Posted, TextOf
<1>5. ASSUME NEW i \in 1 .. Len(text)
      PROVE  text[i] = Unit(image, to + i - 1)
  <2>1. text[i] = IF i <= Len(Begun) THEN Begun[i] ELSE Unit(image, current + i - Len(Begun) - 1)
    BY <1>3 DEF Posted, TextOf
  <2>2. CASE i <= Len(Begun)
    <3>1. i \in 1 .. Len(Begun)
      BY <2>2, <1>4, <1>5
    <3>2. cur # NoNode /\ Begun = mem[cur].data /\ to = mem[cur].addr
      <4>1. cur # NoNode /\ Begun = mem[cur].data
        BY <3>1, BegunFacts
      <4> QED
        BY <4>1, <1>3 DEF Posted, NextPage
    <3>3. Begun[i] = Unit(image, to + i - 1)
      BY <3>1, <3>2, <1>2 DEF QueueText
    <3> QED
      BY <2>1, <2>2, <3>3
  <2>3. CASE ~(i <= Len(Begun))
    <3>1. current + i - Len(Begun) - 1 = to + i - 1
      BY <1>4, <1>5
    <3> QED
      BY <2>1, <2>3, <3>1
  <2> QED
    BY <2>2, <2>3
<1>6. ASSUME NEW x, NEW a \in Nat, NEW l \in Nat, Holds(x, to + a, text, a, l), a + l <= Len(text)
      PROVE  \A i \in 1 .. l : x.data[i] = Unit(image, x.addr + i - 1)
  <2>1. ASSUME NEW i \in 1 .. l
        PROVE  x.data[i] = Unit(image, x.addr + i - 1)
    <3>1. x.addr = to + a /\ x.data[i] = text[a + i]
      BY <1>6 DEF Holds
    <3>2. a + i \in 1 .. Len(text) /\ to + (a + i) - 1 = (to + a) + i - 1
      BY <1>4, <1>6
    <3>3. text[a + i] = Unit(image, to + (a + i) - 1)
      BY <3>2, <1>5
    <3> QED
      BY <3>1, <3>2, <3>3
  <2> QED
    BY <2>1
<1>7. PICK o : o = ops
  OBVIOUS
<1>8. PICK p : p = ops'
  OBVIOUS
<1>9. PICK m : m = mem'
  OBVIOUS
<1>10. PICK L : L = Len(o)
  OBVIOUS
<1>11. /\ p \in Seq(Node) /\ Len(p) = L + full
       /\ \A j \in 1 .. L : p[j] = o[j] /\ m[o[j]] = mem[o[j]]
       /\ \A j \in 1 .. full : Holds(m[p[L + j]], to + (j - 1) * Page, text, (j - 1) * Page, Page)
       /\ cur' # NoNode => Holds(m[cur'], to + full * Page, text, full * Page, Len(text) - full * Page)
  BY <1>3, <1>7, <1>8, <1>9, <1>10 DEF Posted
<1>12. o \in Seq(Node) /\ L \in Nat /\ DOMAIN o = 1 .. L /\ DOMAIN p = 1 .. L + full
  <2>1. o \in Seq(Node)
    BY <1>7 DEF IInv, TypeOK
  <2> QED
    BY <2>1, <1>10, <1>11, LenProperties
<1>13. ASSUME NEW j \in 1 .. full
       PROVE  /\ PageText(m[p[L + j]], image, total) /\ m[p[L + j]].addr + Page <= Pushed'
              /\ m[p[L + j]].kind = "write"
  <2>1. PICK a : a = (j - 1) * Page
    OBVIOUS
  <2>2. PICK x : x = m[p[L + j]]
    OBVIOUS
  <2>3. Holds(x, to + a, text, a, Page)
    BY <1>11, <2>1, <2>2
  <2>4. a \in Nat /\ a + Page <= Len(text)
    <3>1. j * Page <= full * Page
      BY <1>4, Geometry
    <3>2. a + Page = j * Page
      BY <2>1, Geometry
    <3>3. a \in Nat
      BY <2>1, Geometry
    <3>4. j * Page \in Nat /\ full * Page \in Nat
      BY <1>4, Geometry
    <3> QED
      BY <3>1, <3>2, <3>3, <3>4, <1>4
  <2>5. \A i \in 1 .. Page : x.data[i] = Unit(image, x.addr + i - 1)
    BY <2>3, <2>4, <1>6, Geometry
  <2>6. Len(x.data) = Page /\ x.addr = to + a /\ x.kind = "write"
    BY <2>3 DEF Holds
  <2>7. PageText(x, image, total)
    BY <2>5, <2>6 DEF PageText, Padded
  <2>8. x.addr + Page <= Pushed'
    BY <2>4, <2>6, <1>4, Geometry
  <2> QED
    BY <2>2, <2>6, <2>7, <2>8
<1>14. \A j \in DOMAIN p : j \in 1 .. L \/ \E i \in 1 .. full : j = L + i
  <2>1. ASSUME NEW j \in DOMAIN p, ~(j \in 1 .. L)
        PROVE  j - L \in 1 .. full /\ j = L + (j - L)
    BY <2>1, <1>4, <1>12
  <2> QED
    BY <2>1
<1>15. ASSUME NEW j \in WritesOf(p, m, phase)
       PROVE  PageText(m[p[j]], image, total) /\ m[p[j]].addr + Page <= Pushed'
  <2>1. j \in DOMAIN p
    BY <1>15 DEF WritesOf
  <2>2. CASE j \in 1 .. L
    <3>1. m[p[j]] = mem[o[j]] /\ j \in DOMAIN o
      BY <2>2, <1>11, <1>12
    <3>2. j \in WritesOf(o, mem, phase)
      BY <3>1, <1>15 DEF WritesOf
    <3>3. PageText(mem[o[j]], image, total) /\ mem[o[j]].addr + Page <= Pushed
      BY <3>2, <1>1, <1>2, <1>7 DEF QueueText
    <3>4. mem[o[j]].addr \in Nat
      <4>1. o[j] \in Node
        BY <3>1, <1>12, ElementOfSeq
      <4> QED
        BY <4>1 DEF IInv, TypeOK, Op
    <3> QED
      BY <3>1, <3>3, <3>4, <1>4, Geometry, SMTT(30)
  <2>3. CASE \E i \in 1 .. full : j = L + i
    BY <2>3, <1>13
  <2> QED
    BY <2>1, <2>2, <2>3, <1>14
<1>16. ASSUME NEW j \in DOMAIN p, m[p[j]].kind = "erase"
       PROVE  j \in DOMAIN o /\ m[p[j]] = mem[o[j]]
  BY <1>11, <1>12, <1>13, <1>14, <1>16
<1>17. \A j \in DOMAIN p : m[p[j]].kind = "erase" => NextErase(m[p[j]], erased, total)
  BY <1>2, <1>7, <1>16 DEF QueueText
<1>18. \A i, j \in DOMAIN p : m[p[i]].kind = "erase" /\ m[p[j]].kind = "erase" => i = j
  BY <1>2, <1>7, <1>16 DEF QueueText
<1>19. cur' # NoNode => \A k \in 1 .. Len(m[cur'].data) : m[cur'].data[k] = Unit(image, m[cur'].addr + k - 1)
  <2> SUFFICES ASSUME cur' # NoNode
               PROVE  \A k \in 1 .. Len(m[cur'].data) : m[cur'].data[k] = Unit(image, m[cur'].addr + k - 1)
    OBVIOUS
  <2>1. PICK x : x = m[cur']
    OBVIOUS
  <2>2. PICK a : a = full * Page
    OBVIOUS
  <2>3. PICK l : l = Len(text) - a
    OBVIOUS
  <2>4. Holds(x, to + a, text, a, l)
    BY <1>11, <2>1, <2>2, <2>3
  <2>5. a \in Nat /\ l \in Nat /\ a + l <= Len(text)
    <3>1. a \in Nat /\ a <= Len(text) /\ Len(text) \in Nat
      BY <1>4, <2>2, Geometry
    <3> QED
      BY <3>1, <2>3
  <2>6. Len(x.data) = l
    BY <2>4 DEF Holds
  <2> QED
    BY <2>1, <2>4, <2>5, <2>6, <1>6
<1>20. QueueText'
  <2>1. ops' = p /\ mem' = m /\ phase' = phase
    BY <1>1, <1>8, <1>9
  <2> QED
    BY <2>1, <1>1, <1>15, <1>17, <1>18, <1>19 DEF QueueText
<1>21. PICK d : d = dev
  OBVIOUS
<1>22. PICK q : q = Pushed'
  OBVIOUS
<1>23. WrittenHolds(d, image, written, q)
  <2>1. WrittenHolds(d, image, written, Pushed)
    BY <1>2, <1>21 DEF QueueFlash
  <2>2. \A u \in Units : u < written => u < Pushed
    <3>1. \A u \in Units : u < written => u < current
      BY <1>1, <1>4, UnitsNat
    <3> QED
      BY <3>1, <1>4
  <2> QED
    BY <2>1, <2>2 DEF WrittenHolds
<1>24. d.driver = "external" => q <= erased
  BY <1>1, <1>4, <1>21, <1>22 DEF BookInv
<1>25. PICK e : e = Assured(erased, total)
  OBVIOUS
<1>26. ErasedHolds(d, image, q, e)
  <2>1. ErasedHolds(d, image, current, e)
    BY <1>1, <1>2, <1>4, <1>21, <1>25 DEF QueueFlash
  <2>2. \A u \in Units : q <= u => current <= u
    BY <1>4, <1>22, UnitsNat
  <2> QED
    BY <2>1, <2>2 DEF ErasedHolds
<1>27. QueueFlash'
  BY <1>1, <1>21, <1>22, <1>23, <1>24, <1>25, <1>26 DEF QueueFlash
<1> QED
  BY <1>20, <1>27
-----------------------------------------------------------------------------
(* The invariant.                                                           *)

LEMMA ImageInit == Init => ImageInv
<1> SUFFICES ASSUME Init
             PROVE  ImageInv
  OBVIOUS
<1>1. /\ mode \in Modes /\ state = "permanent" /\ erased = 0 /\ call = "ready" /\ broken = FALSE
      /\ dev = NewStorage(mode.driver, [u \in Units |-> Junk])
  BY DEF Init
<1>2. DriverInv(mode, dev)
  BY <1>1, NewDriver
<1> QED
  BY <1>1, <1>2 DEF ImageInv, BookInv, DriverInv, DoneInv, ImageDone, DirectInv, QueueText, QueueFlash, Queueing

LEMMA ApplicationImage ==
  ASSUME WindowsInside, ChunksBuffered, IInv, OrderInv, ImageInv, ~broken, Application
  PROVE  ImageInv'
<1>0. BookInv /\ DoneInv /\ DirectInv /\ QueueText /\ QueueFlash
  BY DEF ImageInv
<1>1. CASE CancelImage
  BY <1>0, <1>1, QuietBook, OtherDone, OtherDirect, OtherQueue DEF ImageInv
<1>2. CASE Select
  BY <1>0, <1>2, SelectBook, OtherDone, OtherDirect, OtherQueue DEF ImageInv
<1>3. CASE \E n \in Lengths : StartImage(n)
  BY <1>0, <1>3, QuietBook, OtherDone, StartImageDirect, StartImageQueue DEF ImageInv
<1>4. CASE \E n \in Chunks, fault \in Faults : PushImageChunk(n, fault)
  <2>1. PICK n \in Chunks, fault \in Faults : PushImageChunk(n, fault)
    BY <1>4
  <2>2. BookInv' /\ DoneInv'
    BY <1>0, <1>4, <2>1, PushBook, OtherDone
  <2>3. mode' = mode
    BY <2>1 DEF PushImageChunk
  <2>4. CASE PushNow(n, fault)
    BY <1>0, <2>1, <2>2, <2>3, <2>4, PushDirect, OtherQueue DEF ImageInv
  <2>5. CASE Post(n)
    BY <1>0, <2>1, <2>2, <2>3, <2>5, PostQueueText, OtherDirect DEF ImageInv
  <2> QED
    BY <2>1, <2>4, <2>5 DEF PushImageChunk
<1>5. CASE \E n \in Windows, fault \in Faults : HeadRoom(n, fault)
  <2>1. PICK n \in Windows, fault \in Faults : HeadRoom(n, fault)
    BY <1>5
  <2>2. BookInv' /\ DoneInv'
    BY <1>0, <1>5, <2>1, HeadRoomBook, OtherDone
  <2>3. mode' = mode
    BY <2>1 DEF HeadRoom
  <2>4. CASE HeadRoomNow(n, fault)
    BY <1>0, <2>1, <2>2, <2>3, <2>4, HeadRoomDirect, OtherQueue DEF ImageInv
  <2>5. CASE HeadRoomPosted(n)
    BY <1>0, <2>1, <2>2, <2>3, <2>5, HeadRoomQueue, OtherDirect DEF ImageInv
  <2> QED
    BY <2>1, <2>4, <2>5 DEF HeadRoom
<1>6. CASE \E fault \in Faults : Commit(fault)
  BY <1>0, <1>6, CommitBook, CommitDone, CommitQueue, OtherDirect DEF ImageInv
<1> QED
  BY <1>1, <1>2, <1>3, <1>4, <1>5, <1>6 DEF Application

LEMMA ImageStep ==
  ASSUME WindowsInside, ChunksBuffered
  PROVE  IInv /\ OrderInv /\ ImageInv /\ [Next]_vars => ImageInv'
<1> SUFFICES ASSUME IInv, OrderInv, ImageInv, [Next]_vars
             PROVE  ImageInv'
  OBVIOUS
<1>0. BookInv /\ DoneInv /\ DirectInv /\ QueueText /\ QueueFlash
  BY DEF ImageInv
<1>1. CASE ~broken /\ Application
  BY <1>1, ApplicationImage
<1>2. CASE ~broken /\ Calls
  <2>1. DirectInv' /\ QueueText' /\ QueueFlash'
    BY <1>0, <1>2, OtherDirect, OtherQueue
  <2>2. BookInv'
    BY <1>0, <1>2, QuietBook DEF Calls
  <2>3. DoneInv'
    BY <1>0, <1>2, OtherDone, DrainedDone DEF Calls
  <2> QED
    BY <2>1, <2>2, <2>3 DEF ImageInv
<1>3. CASE ~broken /\ Worker
  <2>1. DirectInv' /\ DoneInv'
    BY <1>0, <1>3, OtherDirect, OtherDone
  <2>2. BookInv'
    BY <1>0, <1>3, QuietBook, TreatBook DEF Worker
  <2>3. QueueText' /\ QueueFlash'
    BY <1>0, <1>3, FinishQueue, OtherQueue, TreatEraseQueue, TreatWriteQueue DEF Worker
  <2> QED
    BY <2>1, <2>2, <2>3 DEF ImageInv
<1>4. CASE ~broken /\ (Release \/ \E who \in {"app", "idle"} : Resume(who))
  BY <1>0, <1>4, QuietBook, OtherDone, OtherDirect, OtherQueue DEF ImageInv
<1>5. CASE ~broken /\ Reset
  BY <1>0, <1>5, ResetBook, OtherDone, OtherDirect, OtherQueue DEF ImageInv
<1>6. CASE UNCHANGED vars
  <2>1. /\ UNCHANGED <<mode, state, total, current, written, erased, dev, mem, ops, cur, phase, call, len>>
        /\ UNCHANGED <<image, spoiled, broken>>
    BY <1>6 DEF vars, imageVars, queueVars, workVars, callVars
  <2>2. BookInv'
    BY <1>0, <2>1 DEF BookInv
  <2>3. DoneInv'
    BY <1>0, <2>1 DEF DoneInv, ImageDone, Intact
  <2>4. DirectInv'
    BY <1>0, <2>1, DirectPrimed, DirectIs
  <2>5. QueueText' /\ QueueFlash'
    <3>1. Pushed' = Pushed /\ (Queueing' => Queueing) /\ WritesOf(ops', mem', phase') = WritesOf(ops, mem, phase)
      BY <2>1 DEF Pushed, Queueing
    <3> QED
      BY <1>0, <2>1, <3>1, QueueSame
  <2> QED
    BY <2>2, <2>3, <2>4, <2>5 DEF ImageInv
<1> QED
  BY <1>1, <1>2, <1>3, <1>4, <1>5, <1>6 DEF Next

LEMMA ImageHolds ==
  ASSUME WindowsInside, ChunksBuffered
  PROVE  Spec => [](IInv /\ ImageInv)
<1>1. Init => IInv /\ OrderInv /\ ImageInv
  BY InitHolds, OrderInit, ImageInit
<1>2. IInv /\ OrderInv /\ ImageInv /\ [Next]_vars => (IInv /\ OrderInv /\ ImageInv)'
  BY StepKeeps, OrderStep, ImageStep
<1> QED
  BY <1>1, <1>2, PTL DEF Spec

(* An image offered to the boot loader is in the storage as it was pushed,  *)
(* whatever was posted, cancelled or failed before, if no window of headroom*)
(* ends on the boundary of a sector and no chunk is a page of the external  *)
(* driver (OTA_CommitImage, OTA_TreatFlashOpWrite).                         *)
THEOREM CandidateKept ==
  ASSUME WindowsInside, ChunksBuffered
  PROVE  Spec => []CandidateIntact
<1>1. ImageInv => CandidateIntact
  BY DEF ImageInv, DoneInv, ImageDone, CandidateIntact
<1>2. Spec => [](IInv /\ ImageInv)
  BY ImageHolds
<1> QED
  BY <1>1, <1>2, PTL

(* Headroom, as far as it is vouched for.                                   *)
LEMMA HeadRoomIs ==
  ASSUME IInv, ImageInv, state = "acquiring", call = "ready", ~spoiled,
         NEW u \in Units, current <= u, u < Assured(erased, total)
  PROVE  dev.flash[u] \in {Blank, Unit(image, u)}
<1>1. BookInv /\ DirectInv /\ QueueFlash
  BY DEF ImageInv
<1>2. dev.driver = mode.driver /\ dev.driver \in {"external", "internal"}
  BY <1>1, StorageFields DEF BookInv, IInv, TypeOK, Fields
<1>3. PICK e : e = Assured(erased, total)
  OBVIOUS
<1>4. CASE mode.queued
  <2>1. Pushed = current
    <3>1. len = 0 /\ current \in Nat
      BY Geometry DEF IInv, TypeOK, LengthInv
    <3> QED
      BY <3>1 DEF Pushed
  <2>2. ErasedHolds(dev, image, current, e)
    BY <1>1, <1>3, <1>4, <2>1 DEF QueueFlash, Queueing
  <2> QED
    BY <1>2, <1>3, <2>2 DEF ErasedHolds
<1>5. CASE ~mode.queued
  <2>1. DirectHolds(mode, dev, image, current, e)
    BY <1>1, <1>3, <1>5, DirectIs
  <2>2. CASE mode.driver = "external"
    <3>1. ExternalHolds(dev, image, current, e)
      BY <2>1, <2>2 DEF DirectHolds
    <3>2. Start(current) <= u
      <4>1. current \in Nat /\ u \in Nat
        BY UnitsNat, Geometry DEF IInv, TypeOK
      <4>2. Start(current) \in Nat /\ Start(current) <= current
        BY <4>1, StartIs
      <4> QED
        BY <4>1, <4>2
    <3> QED
      BY <1>3, <3>1, <3>2 DEF ExternalHolds
  <2>3. CASE mode.driver = "internal"
    BY <1>3, <2>1, <2>3 DEF DirectHolds, InternalHolds
  <2> QED
    BY <1>2, <2>2, <2>3
<1> QED
  BY <1>4, <1>5

(* ErasedAhead, as far as the image goes.                                   *)
HeadRoomInImage == state = "acquiring" /\ call = "ready" /\ ~spoiled =>
  \A u \in Units : current <= u /\ u < erased /\ u < total => dev.flash[u] \in {Blank, Unit(image, u)}

(* Between what was pushed and ErasedUntilOffset the storage is erased, or  *)
(* holds already what is to be there, as far as the image goes, wherever it *)
(* ends (OTA_MakeHeadRoomForNextBlock, EraseArea of the drivers).           *)
THEOREM HeadRoomErased ==
  ASSUME WindowsInside, ChunksBuffered
  PROVE  Spec => []HeadRoomInImage
<1>1. ASSUME IInv, ImageInv
      PROVE  HeadRoomInImage
  <2> SUFFICES ASSUME state = "acquiring", call = "ready", ~spoiled,
                      NEW u \in Units, current <= u, u < erased, u < total
               PROVE  dev.flash[u] \in {Blank, Unit(image, u)}
    BY DEF HeadRoomInImage
  <2>1. u < Assured(erased, total)
    BY DEF Assured
  <2> QED
    BY <1>1, <2>1, HeadRoomIs
<1>2. Spec => [](IInv /\ ImageInv)
  BY ImageHolds
<1> QED
  BY <1>1, <1>2, PTL

(* ErasedAhead: also what is erased behind the image, if images do not end  *)
(* on the boundary of a sector either.                                      *)
THEOREM AheadErased ==
  ASSUME WindowsInside, LengthsInside, ChunksBuffered
  PROVE  Spec => []ErasedAhead
<1>1. ASSUME IInv, ImageInv
      PROVE  ErasedAhead
  <2> SUFFICES ASSUME state = "acquiring", call = "ready", ~spoiled,
                      NEW u \in Units, current <= u, u < erased
               PROVE  dev.flash[u] \in {Blank, Unit(image, u)}
    BY DEF ErasedAhead
  <2>1. u < Assured(erased, total)
    BY DEF Assured
  <2> QED
    BY <1>1, <2>1, HeadRoomIs
<1>2. Spec => [](IInv /\ ImageInv)
  BY ImageHolds
<1> QED
  BY <1>1, <1>2, PTL
=============================================================================
