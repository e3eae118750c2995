--------------------------- MODULE NvFlash_proofs ---------------------------
(***************************************************************************)
(* Proofs, for any data sets, page size, queue size and calls, of the      *)
(* safety properties of NvFlash.                                           *)
(***************************************************************************)
EXTENDS NvFlash, WellFoundedInduction, FiniteSetTheorems, TLAPS

(* The invariant, in parts.                                                *)

(* A page is in use.                                                       *)
Live == pc \notin {"off", "format", "formatTop", "formatBottom"}

Copying == pc \in {"blank", "scan", "copyData", "copyMeta", "top", "bottom"}

Mirror == flash[Other(active)]

(* The record of tag m is in place below the bottom counter of page f.     *)
RecordAt(f, m) == /\ m.off + Size(m) <= Bottom
                  /\ \A k \in 0 .. Size(m) - 1 : f[m.off + k] \in Val

(* The inside of a page whose last tag is at `last`: no blank cell before  *)
(* it and no tag after it, the records above a blank cell at least.        *)
PageSound(f, last) ==
  /\ last \in -1 .. Bottom - 1
  /\ (last = EmptyMeta) <=> (f[FirstMeta] = Blank)
  /\ \A a \in FirstMeta .. Bottom - 1 : IF a <= last THEN f[a] # Blank ELSE ~IsMeta(f[a])
  /\ last >= FirstMeta => IsMeta(f[last]) /\ f[last].off > last + 1
  /\ \A a \in FirstMeta .. last :
       IsMeta(f[a]) => f[a].off >= f[last].off /\ RecordAt(f, f[a])

(* Whatever page a restart chooses is sound.                               *)
ValidSound == \A p \in Page : ValidPage(flash[p]) => \E last \in Addr \cup {EmptyMeta} :
                                                       PageSound(flash[p], last)

ActiveSound ==
  Live => /\ active \in Page
          /\ BootPage(flash) = active
          /\ PageSound(flash[active], lastMeta[active])
          /\ pageCounter = flash[active][Top] + IF pc \in {"top", "bottom"} THEN 1 ELSE 0

(* A record is being written: its place is blank from the cell on that is  *)
(* programmed next.                                                        *)
RecordWritten ==
  pc \in {"data", "meta"} =>
    LET f == flash[active]
        n == Size(op.req)
    IN  /\ op.k \in 0 .. n /\ (op.k = n <=> pc = "meta")
        /\ lastMeta[active] < op.mt /\ FirstMeta <= op.mt /\ op.mt + 1 < op.rec
        /\ op.rec + n <= Bottom
        /\ lastMeta[active] >= FirstMeta => op.rec + n <= f[lastMeta[active]].off
        /\ \A a \in FirstMeta .. op.mt - 1 : f[a] # Blank
        /\ f[op.mt] = Blank
        /\ \A j \in 0 .. n - 1 : IF j < op.k THEN f[op.rec + j] \in Val ELSE f[op.rec + j] = Blank

(* The inside of a mirror f with tags up to mt - 1 and records from rec on.*)
CopiedPart(f, mt, rec) ==
  /\ FirstMeta <= mt /\ mt < rec /\ rec <= Bottom
  /\ \A a \in FirstMeta .. mt - 1 : IsMeta(f[a]) /\ f[a].off >= rec /\ RecordAt(f, f[a])
  /\ mt > FirstMeta => f[mt - 1].off = rec
  /\ \A a \in rec .. Bottom - 1 : f[a] \in Val

(* The elements that its tags cover.                                       *)
Covered(f, mt) == {x \in Elem : \E a \in FirstMeta .. mt - 1 : Covers(f[a], x)}

(* A record per covered element at most, and a cell for each.              *)
RoomUsed(f, mt, rec) == /\ mt - FirstMeta <= Cardinality(Covered(f, mt))
                        /\ Bottom - rec = Cardinality(Covered(f, mt))

(* A single element is on the mirror only if no full save is to come.      *)
SinglesLast(f, mt) == \A a \in FirstMeta .. mt - 1 : f[a].all \/ FullSaves(f[a].e, op.src) = {}

MirrorScanned ==
  /\ pc \in {"blank", "scan"} => op.src <= lastMeta[active]
  /\ pc = "blank" => op.mt = FirstMeta /\ op.rec = Bottom
  /\ pc = "scan" =>
       /\ CopiedPart(Mirror, op.mt, op.rec)
       /\ RoomUsed(Mirror, op.mt, op.rec)
       /\ SinglesLast(Mirror, op.mt)
       /\ \A a \in {Top, Bottom} \cup (op.mt .. op.rec - 1) : Mirror[a] = Blank

MirrorWritten ==
  pc \in {"copyData", "copyMeta"} =>
    LET r == CopiedReq(op.src)
        n == Size(r)
    IN  /\ op.src \in FirstMeta .. lastMeta[active] /\ IsMeta(flash[active][op.src])
        /\ r \in Req
        /\ op.k \in 0 .. n /\ (op.k = n <=> pc = "copyMeta")
        /\ CopiedPart(Mirror, op.mt, op.rec + n)
        /\ RoomUsed(Mirror, op.mt, op.rec + n)
        /\ SinglesLast(Mirror, op.mt)
        /\ ~IsRecordCopied(flash[active][op.src])
        /\ op.mt < op.rec
        /\ \A a \in {Top, Bottom} \cup (op.mt .. op.rec - 1) \cup (op.rec + op.k .. op.rec + n - 1) :
             Mirror[a] = Blank
        /\ \A a \in op.rec .. op.rec + op.k - 1 : Mirror[a] \in Val

MirrorComplete ==
  pc \in {"top", "bottom"} =>
    /\ PageSound(Mirror, lastMeta[Other(active)])
    /\ Mirror[Bottom] = Blank
    /\ Mirror[Top] = IF pc = "top" THEN Blank ELSE pageCounter

(* An erase is requested of the page that is not in use.                   *)
EraseBehind == /\ ~Live => ~erase.pending
               /\ Live /\ erase.pending => erase.page = Other(active)
               /\ pc \in {"sector", "wipe"} => erase.pending

Formatting == /\ pc \in {"formatTop", "formatBottom"} =>
                   /\ active = 0
                   /\ IsBlank(flash[1])
                   /\ \A a \in Addr \ {Top} : flash[0][a] = Blank
              /\ pc = "formatTop" => flash[0][Top] = Blank
              /\ pc = "formatBottom" => flash[0][Top] = pageCounter

(* Who holds the mutex, and what it is to do next.                         *)
Holder == /\ pc = "off" => by = "boot"
          /\ Copying => by \in {"idle", "sync", "full", "boot"}
          /\ pc \in {"data", "meta"} => by \in {"idle", "sync", "syncAgain", "full", "fullAgain"}
          /\ pc = "again" => by \in {"full", "syncAgain", "fullAgain"}
          /\ pc = "wipe" => by = "syncAgain"
          /\ pc \in {"again", "add", "data", "meta", "wipe"} => op.req \in Req
          /\ Copying /\ by \in {"sync", "full"} => op.req \in Req
          /\ pc \in {"again", "data", "meta"} \/ Copying =>
               (by \in {"full", "fullAgain"} => op.hold \in Req /\ Len(queue) < QueueSize)
          /\ pc \in {"data", "meta"} /\ by = "idle" => queue # <<>>

IInv == /\ TypeOK /\ ValidSound /\ ActiveSound /\ RecordWritten
        /\ MirrorScanned /\ MirrorWritten /\ MirrorComplete
        /\ EraseBehind /\ Formatting /\ Holder
-----------------------------------------------------------------------------
(* Sets of natural numbers have a least element, bounded ones a greatest.  *)

LEMMA LeastNatural ==
  ASSUME NEW T \in SUBSET Nat, T # {}
  PROVE  \E n \in T : \A m \in T : n <= m
<1>1. PICK n \in T : \A m \in T : ~ (<<m, n>> \in OpToRel(<, Nat))
  BY NatLessThanWellFounded, WFMin
<1>2. \A m \in T : ~ (m < n)
  BY <1>1 DEF OpToRel
<1> QED
  BY <1>2

LEMMA LeastElement ==
  ASSUME NEW T \in SUBSET Nat, T # {}
  PROVE  Min(T) \in T /\ \A m \in T : Min(T) <= m
  BY LeastNatural DEF Min

LEMMA GreatestElement ==
  ASSUME NEW T \in SUBSET Nat, T # {}, NEW b \in Nat, \A n \in T : n <= b
  PROVE  Max(T) \in T /\ \A m \in T : m <= Max(T)
<1> DEFINE U == {b - n : n \in T}
<1>1. \A n \in T : b - n \in Nat
  OBVIOUS
<1>2. U \in SUBSET Nat /\ U # {}
  BY <1>1
<1>3. PICK u \in U : \A v \in U : u <= v
  BY <1>2, LeastNatural
<1>4. PICK n \in T : u = b - n
  BY <1>3
<1>5. \A m \in T : m <= n
  <2> TAKE m \in T
  <2>1. u <= b - m
    BY <1>3
  <2> QED
    BY <1>4, <2>1
<1> HIDE DEF U
<1> QED
  BY <1>5 DEF Max
-----------------------------------------------------------------------------
(* Elements, requests and tags.                                            *)

LEMMA Elements ==
  /\ \A x \in Elem : /\ x = <<x[1], x[2]>> /\ x[1] \in Entry
                     /\ ElementsCount[x[1]] \in Nat /\ x[2] \in 1 .. ElementsCount[x[1]]
  /\ \A e \in Entry : ElementsCount[e] \in Nat \ {0}
  /\ \A e \in Entry, i \in Nat \ {0} : i <= ElementsCount[e] => <<e, i>> \in Elem
<1>1. \A e \in Entry : ElementsCount[e] \in Nat \ {0}
  BY ElementsAssumption
<1>2. ASSUME NEW x \in Elem
      PROVE  /\ x = <<x[1], x[2]>> /\ x[1] \in Entry
             /\ x[2] \in 1 .. ElementsCount[x[1]]
  <2>1. PICK e \in Entry : x \in {e} \X (1 .. ElementsCount[e])
    BY DEF Elem
  <2> QED
    BY <2>1
<1>3. ASSUME NEW e \in Entry, NEW i \in Nat \ {0}, i <= ElementsCount[e]
      PROVE  <<e, i>> \in Elem
  <2>1. <<e, i>> \in {e} \X (1 .. ElementsCount[e])
    BY <1>1, <1>3
  <2> QED
    BY <2>1 DEF Elem
<1> QED
  BY <1>1, <1>2, <1>3

LEMMA FiniteElements == IsFiniteSet(Elem)
<1> DEFINE part == [e \in Entry |-> {e} \X (1 .. ElementsCount[e])]
           Parts == {{e} \X (1 .. ElementsCount[e]) : e \in Entry}
<1>1. part \in Surjection(Entry, Parts)
  BY DEF Surjection
<1>2. IsFiniteSet(Parts)
  BY <1>1, FS_Surjection, ElementsAssumption
<1>3. ASSUME NEW T \in Parts
      PROVE  IsFiniteSet(T)
  <2>1. PICK e \in Entry : T = {e} \X (1 .. ElementsCount[e])
    OBVIOUS
  <2>2. ElementsCount[e] \in Nat
    BY ElementsAssumption
  <2>3. IsFiniteSet({e}) /\ IsFiniteSet(1 .. ElementsCount[e])
    <3>1. 1 \in Int /\ ElementsCount[e] \in Int
      BY <2>2
    <3>2. IsFiniteSet(1 .. ElementsCount[e])
      BY <3>1, FS_Interval
    <3> QED
      BY <3>2, FS_Singleton
  <2> QED
    BY <2>1, <2>3, FS_Product
<1> HIDE DEF Parts
<1>4. IsFiniteSet(UNION Parts)
  BY <1>2, <1>3, FS_UNION
<1> QED
  BY <1>4 DEF Elem, Parts

(* A page has room for its counters and a record.                          *)
LEMMA Sizes1 ==
  /\ PageSize \in Nat /\ PageSize >= 3 /\ Bottom = PageSize - 1 /\ Addr = 0 .. PageSize - 1
  /\ Cardinality(Elem) \in Nat
  /\ 2 * Cardinality(Elem) + 1 <= PageSize - 2
  /\ QueueSize \in Nat \ {0}
<1>1. Cardinality(Elem) \in Nat
  BY FiniteElements, FS_CardinalityType
<1> QED
  BY <1>1, PageAssumption DEF Bottom, Addr

LEMMA Requests ==
  ASSUME NEW r \in Req
  PROVE  /\ r = [e |-> r.e, i |-> r.i, all |-> r.all]
         /\ r.e \in Entry /\ r.i \in 1 .. ElementsCount[r.e] /\ r.all \in BOOLEAN
         /\ r.all => r.i = 1
         /\ Size(r) \in Nat /\ Size(r) >= 1
         /\ \A k \in 0 .. Size(r) - 1 : Saved(r, k) \in Elem
         /\ ElemsOf(r) = {x \in Elem : x[1] = r.e /\ (r.all \/ x[2] = r.i)}
<1>1. /\ r = [e |-> r.e, i |-> r.i, all |-> r.all]
      /\ r.e \in Entry /\ r.i \in 1 .. ElementsCount[r.e] /\ r.all \in BOOLEAN
      /\ r.all => r.i = 1
  <2>1. CASE r \in {[e |-> x[1], i |-> x[2], all |-> FALSE] : x \in Elem}
    <3>1. PICK x \in Elem : r = [e |-> x[1], i |-> x[2], all |-> FALSE]
      BY <2>1
    <3> QED
      BY <3>1, Elements
  <2>2. CASE r \in {[e |-> e, i |-> 1, all |-> TRUE] : e \in Entry}
    <3>1. PICK e \in Entry : r = [e |-> e, i |-> 1, all |-> TRUE]
      BY <2>2
    <3> QED
      BY <3>1, Elements
  <2> QED
    BY <2>1, <2>2 DEF Req
<1>2. ElementsCount[r.e] \in Nat \ {0}
  BY <1>1, Elements
<1>3. Size(r) \in Nat /\ Size(r) >= 1
  BY <1>1, <1>2 DEF Size
<1>4. ASSUME NEW k \in 0 .. Size(r) - 1
      PROVE  Saved(r, k) \in Elem
  BY <1>1, <1>2, Elements DEF Size, Saved
<1>5. ASSUME NEW x \in Elem, x[1] = r.e, r.all \/ x[2] = r.i
      PROVE  x \in ElemsOf(r)
  <2>1. CASE r.all
    <3>1. x[2] - 1 \in 0 .. Size(r) - 1 /\ x = Saved(r, x[2] - 1)
      BY <1>1, <1>2, <1>5, <2>1, Elements DEF Size, Saved
    <3> QED
      BY <3>1 DEF ElemsOf
  <2>2. CASE ~r.all
    <3>1. 0 \in 0 .. Size(r) - 1 /\ x = Saved(r, 0)
      BY <1>1, <1>2, <1>5, <2>2, Elements DEF Size, Saved
    <3> QED
      BY <3>1 DEF ElemsOf
  <2> QED
    BY <1>1, <2>1, <2>2
<1>6. ASSUME NEW k \in 0 .. Size(r) - 1
      PROVE  Saved(r, k)[1] = r.e /\ (r.all \/ Saved(r, k)[2] = r.i)
  BY <1>1 DEF Saved
<1>7. ElemsOf(r) = {x \in Elem : x[1] = r.e /\ (r.all \/ x[2] = r.i)}
  BY <1>4, <1>5, <1>6 DEF ElemsOf
<1> QED
  BY <1>1, <1>3, <1>4, <1>7

LEMMA RequestsOf ==
  /\ \A e \in Entry : [e |-> e, i |-> 1, all |-> TRUE] \in Req
  /\ \A e \in Entry, i \in Nat \ {0} : i <= ElementsCount[e] => [e |-> e, i |-> i, all |-> FALSE] \in Req
<1>1. ASSUME NEW e \in Entry, NEW i \in Nat \ {0}, i <= ElementsCount[e]
      PROVE  [e |-> e, i |-> i, all |-> FALSE] \in Req
  <2>1. <<e, i>> \in Elem
    BY <1>1, Elements
  <2> DEFINE x == <<e, i>>
  <2>2. x \in Elem /\ [e |-> e, i |-> i, all |-> FALSE] = [e |-> x[1], i |-> x[2], all |-> FALSE]
    BY <2>1
  <2> QED
    BY <2>2 DEF Req
<1> QED
  BY <1>1 DEF Req

(* A request has as many elements as its record has cells.                 *)
LEMMA RequestCells ==
  ASSUME NEW r \in Req
  PROVE  IsFiniteSet(ElemsOf(r)) /\ Cardinality(ElemsOf(r)) = Size(r)
<1> DEFINE cell == [k \in 0 .. Size(r) - 1 |-> Saved(r, k)]
<1>1. Size(r) \in Nat /\ Size(r) >= 1 /\ r.all \in BOOLEAN
  BY Requests
<1>2. cell \in Surjection(0 .. Size(r) - 1, ElemsOf(r))
  BY DEF Surjection, ElemsOf
<1>3. \A j, k \in 0 .. Size(r) - 1 : Saved(r, j) = Saved(r, k) => j = k
  BY <1>1 DEF Saved, Size
<1>4. cell \in Injection(0 .. Size(r) - 1, ElemsOf(r))
  BY <1>2, <1>3 DEF Injection, IsInjective, Surjection
<1>5. IsFiniteSet(0 .. Size(r) - 1) /\ Cardinality(0 .. Size(r) - 1) = Size(r)
  BY <1>1, FS_Interval
<1> QED
  BY <1>2, <1>4, <1>5, FS_Surjection

LEMMA Tags ==
  /\ \A r \in Req, off \in Addr :
       LET m == TagOf(r, off)
       IN  m \in Meta /\ m.e = r.e /\ m.i = r.i /\ m.all = r.all /\ m.off = off /\ Size(m) = Size(r)
  /\ \A m \in Meta :
       /\ m.e \in Entry /\ m.i \in 1 .. ElementsCount[m.e] /\ m.all \in BOOLEAN /\ m.off \in Addr
       /\ ElementsCount[m.e] \in Nat \ {0}
       /\ Size(m) \in Nat /\ Size(m) >= 1
       /\ IsMeta(m)
  /\ \A c \in {Blank, Torn} \cup Val \cup Meta : IsMeta(c) => c \in Meta
<1>1. ASSUME NEW m \in Meta
      PROVE  /\ m.e \in Entry /\ m.i \in 1 .. ElementsCount[m.e] /\ m.all \in BOOLEAN /\ m.off \in Addr
             /\ Size(m) \in Nat /\ Size(m) >= 1
  <2>1. PICK r \in Req, off \in Addr : m = TagOf(r, off)
    BY DEF Meta
  <2> QED
    BY <2>1, Requests DEF TagOf, Size
<1>2. \A m \in Meta : IsMeta(m)
  BY CellAssumption DEF IsMeta
<1>3. \A m \in Meta : ElementsCount[m.e] \in Nat \ {0}
  BY <1>1, Elements
<1> QED
  BY <1>1, <1>2, <1>3 DEF Meta, TagOf, Size, IsMeta
-----------------------------------------------------------------------------
(* Reading a page.                                                         *)

PageTyped(f) == /\ DOMAIN f = Addr
                /\ \A a \in {Top, Bottom} : f[a] \in {Blank, Torn} \cup Nat
                /\ \A a \in Addr \ {Top, Bottom} : f[a] \in {Blank, Torn} \cup Val \cup Meta

(* The start-up scan of a sound page finds its last tag.                   *)
LEMMA LastMetaFound ==
  ASSUME NEW f, NEW last, PageSound(f, last)
  PROVE  LastMetaOf(f) = last
<1> DEFINE Found(a) == IsMeta(f[a]) /\ \A b \in FirstMeta .. a : f[b] # Blank
           Last(a) == (a = 0 \/ Found(a)) /\ \A b \in a + 1 .. Bottom - 1 : ~Found(b)
<1>1. /\ last \in -1 .. Bottom - 1 /\ Bottom \in Nat
      /\ (last = -1) <=> (f[1] = Blank)
      /\ \A a \in 1 .. Bottom - 1 : IF a <= last THEN f[a] # Blank ELSE ~IsMeta(f[a])
      /\ last >= 1 => IsMeta(f[last])
  BY Sizes1 DEF PageSound, EmptyMeta, FirstMeta
<1>2. CASE last = -1
  BY <1>1, <1>2 DEF LastMetaOf, EmptyMeta, FirstMeta
<1>3. CASE last # -1
  <2>1. last \in 0 .. Bottom - 1 /\ f[1] # Blank
    BY <1>1, <1>3
  <2>2. Last(last)
    BY <1>1, <2>1 DEF FirstMeta
  <2>3. ASSUME NEW a \in 0 .. Bottom - 1, Last(a)
        PROVE  a = last
    BY <2>1, <2>2, <2>3, Z3
  <2>4. (CHOOSE a \in 0 .. Bottom - 1 : Last(a)) = last
    <3> HIDE DEF Last
    <3> QED
      BY <2>1, <2>2, <2>3
  <2> QED
    BY <2>1, <2>4 DEF LastMetaOf, FirstMeta
<1> QED
  BY <1>2, <1>3

(* Where a record that fits is placed.                                     *)
LEMMA PlaceFits ==
  ASSUME NEW f, NEW last, NEW r \in Req, PageTyped(f), PageSound(f, last), Place(f, last, r).fits
  PROVE  LET rec == Place(f, last, r).rec
             mt  == Place(f, last, r).mt
             n   == Size(r)
         IN  /\ rec \in Addr /\ mt \in Addr
             /\ last < mt /\ FirstMeta <= mt /\ mt + 1 < rec
             /\ rec + n <= Bottom
             /\ last >= FirstMeta => rec + n <= f[last].off
             /\ \A a \in FirstMeta .. mt - 1 : f[a] # Blank
             /\ f[mt] = Blank
             /\ \A j \in 0 .. n - 1 : f[rec + j] = Blank
<1> DEFINE n    == Size(r)
           end  == IF last = EmptyMeta THEN Bottom ELSE f[last].off
           mt0  == IF last = EmptyMeta THEN FirstMeta ELSE last + 1
           D    == {i \in Addr : Available(f, end - n - i * n, n)}
           M    == {i \in Addr : Available(f, mt0 + i, 1)}
           d    == Min({PageSize} \cup D)
           m    == Min({PageSize} \cup M)
           rec  == end - n - d * n
           mt   == mt0 + m
<1>1. n \in Nat /\ n >= 1
  BY Requests
<1>2. PageSize \in Nat /\ PageSize >= 3 /\ Bottom = PageSize - 1 /\ Addr = 0 .. PageSize - 1
  BY Sizes1
<1>3. /\ last \in -1 .. Bottom - 1
      /\ last # -1 => f[1] # Blank
      /\ \A a \in 1 .. Bottom - 1 : a <= last => f[a] # Blank
      /\ last >= 1 => f[last].off > last + 1 /\ f[last] \in Meta /\ f[last].off + Size(f[last]) <= Bottom
  BY <1>2, Tags DEF PageSound, EmptyMeta, FirstMeta, RecordAt, PageTyped, Top
<1>4. d \in {PageSize} \cup D /\ m \in {PageSize} \cup M /\ \A i \in M : m <= i
  <2>1. {PageSize} \cup D \in SUBSET Nat /\ {PageSize} \cup M \in SUBSET Nat
    BY <1>2
  <2> HIDE DEF D, M
  <2> QED
    BY <2>1, LeastElement
<1>5. /\ n + 2 < FreeSpace(f, last) - d * n - m
      /\ Place(f, last, r).rec = (IF last = EmptyMeta THEN Bottom - n ELSE f[last].off - n) - d * n
      /\ Place(f, last, r).mt = mt
  <2>1. (IF last = EmptyMeta THEN Bottom - n ELSE f[last].off - n) = end - n
    OBVIOUS
  <2> QED
    BY <2>1 DEF Place
<1>6. d \in Nat /\ m \in Nat /\ d * n \in Nat /\ d <= d * n
  <2>1. d \in Nat /\ m \in Nat
    BY <1>2, <1>4
  <2> HIDE DEF d, m, n
  <2> QED
    BY <1>1, <2>1
<1>7. /\ end \in Nat /\ end <= Bottom /\ mt0 \in Nat /\ mt0 >= 1 /\ last < mt0
      /\ FreeSpace(f, last) = end - mt0
      /\ last >= 1 => end = f[last].off
      /\ \A a \in 1 .. mt0 - 1 : f[a] # Blank
      /\ Place(f, last, r).rec = rec
  <2> HIDE DEF d, m, n
  <2>1. CASE last = -1
    <3>1. last = EmptyMeta
      BY <2>1 DEF EmptyMeta
    <3>2. end = Bottom /\ mt0 = 1
      <4>1. end = Bottom
        BY <3>1
      <4>2. mt0 = FirstMeta
        BY <3>1
      <4> QED
        BY <4>1, <4>2 DEF FirstMeta
    <3>3. FreeSpace(f, last) = PageSize - 2
      BY <2>1 DEF FreeSpace, EmptyMeta
    <3>4. Place(f, last, r).rec = rec
      <4>1. Place(f, last, r).rec = Bottom - n - d * n
        BY <1>5, <3>1
      <4>2. rec = Bottom - n - d * n
        BY <3>2
      <4> QED
        BY <4>1, <4>2
    <3> HIDE DEF end, mt0, rec
    <3> QED
      BY <1>2, <2>1, <3>2, <3>3, <3>4
  <2>2. CASE last = 0
    BY <1>1, <1>2, <1>5, <1>6, <2>2, SMTT(30) DEF FreeSpace, EmptyMeta, FirstMeta
  <2>3. CASE last >= 1
    <3>1. f[last].off \in Addr /\ Size(f[last]) >= 1 /\ Size(f[last]) \in Nat
      BY <1>3, <2>3, Tags
    <3>2. end = f[last].off /\ mt0 = last + 1 /\ last \in Nat /\ last <= Bottom - 1
      BY <1>2, <1>3, <2>3 DEF EmptyMeta
    <3>3. FreeSpace(f, last) = f[last].off - (last + 1)
      BY <2>3 DEF FreeSpace, EmptyMeta
    <3>4. Place(f, last, r).rec = rec
      <4>1. last # EmptyMeta
        BY <2>3 DEF EmptyMeta
      <4> QED
        BY <1>5, <3>2, <4>1
    <3>5. \A a \in 1 .. mt0 - 1 : f[a] # Blank
      <4> HIDE DEF mt0
      <4> QED
        BY <1>2, <1>3, <3>2
    <3> HIDE DEF end, mt0, rec
    <3> QED
      BY <1>2, <1>3, <2>3, <3>1, <3>2, <3>3, <3>4, <3>5
  <2> QED
    BY <1>2, <1>3, <2>1, <2>2, <2>3
<1>8. n + 2 < end - mt0 - d * n - m
  BY <1>1, <1>5, <1>6, <1>7
<1>9. /\ d < PageSize /\ m < PageSize
      /\ last < mt /\ 1 <= mt /\ mt + 2 < rec
      /\ rec + n <= end
      /\ rec \in Addr /\ mt \in Addr /\ rec + n <= Bottom
  <2> DEFINE dn == d * n
  <2>1. dn \in Nat /\ d <= dn /\ rec = end - n - dn /\ n + 2 < end - mt0 - dn - m
    BY <1>6, <1>8
  <2>2. d \in Nat /\ m \in Nat /\ end \in Nat /\ end <= Bottom /\ mt0 \in Nat /\ mt0 >= 1 /\ last < mt0
    BY <1>6, <1>7
  <2>3. mt = mt0 + m
    OBVIOUS
  <2> HIDE DEF d, m, n, end, mt0, dn, rec, mt
  <2> QED
    <3>1. n \in Nat /\ n >= 1 /\ PageSize \in Nat /\ Bottom = PageSize - 1 /\ Addr = 0 .. PageSize - 1
      BY <1>1, <1>2
    <3>2. rec \in Int /\ mt \in Int /\ rec + n = end - dn
      BY <2>1, <2>2, <2>3, <3>1
    <3>3. mt + n + 2 < rec + n
      BY <2>1, <2>2, <2>3, <3>1, <3>2
    <3>4. mt + 2 < rec
      BY <3>1, <3>2, <3>3
    <3>5. rec + n <= end /\ last < mt /\ 1 <= mt
      BY <1>3, <2>1, <2>2, <2>3, <3>1, <3>2
    <3>6. rec + n <= Bottom /\ rec < PageSize /\ mt < PageSize
      BY <2>2, <3>1, <3>2, <3>4, <3>5
    <3>7. d < PageSize /\ m < PageSize
      BY <2>1, <2>2, <2>3, <3>1, <3>2, <3>4, <3>5, <3>6
    <3> QED
      BY <3>1, <3>2, <3>4, <3>5, <3>6, <3>7
<1>10. Available(f, rec, n) /\ Available(f, mt, 1)
  <2>1. d \in D /\ m \in M
    <3> HIDE DEF d, m, D, M
    <3> QED
      BY <1>2, <1>4, <1>9
  <2> QED
    BY <2>1
<1>11. f[mt] = Blank /\ \A j \in 0 .. n - 1 : f[rec + j] = Blank
  <2> HIDE DEF d, m, n, end, mt0, rec, mt
  <2> QED
    BY <1>1, <1>2, <1>9, <1>10 DEF Available
<1>12. ASSUME NEW a \in 1 .. mt - 1, a >= mt0
       PROVE  f[a] # Blank
  <2> DEFINE i == a - mt0
  <2>1. i \in Addr /\ i < m /\ mt0 + i = a
    <3>1. mt = mt0 + m
      OBVIOUS
    <3> HIDE DEF d, m, n, end, mt0, rec, mt
    <3> QED
      BY <1>2, <1>6, <1>7, <1>9, <1>12, <3>1
  <2>2. i \notin M
    <3>1. i \in Nat
      BY <1>2, <2>1
    <3> HIDE DEF M, m, mt0, i
    <3> QED
      BY <1>4, <1>6, <2>1, <3>1
  <2>3. ~Available(f, a, 1)
    <3> HIDE DEF m, mt0, i
    <3> QED
      BY <2>1, <2>2
  <2>4. a \in 1 .. PageSize - 1
    <3> HIDE DEF d, m, n, end, mt0, rec, mt
    <3> QED
      BY <1>2, <1>9, <1>12
  <2> QED
    BY <1>2, <2>3, <2>4 DEF Available
<1>13. \A a \in 1 .. mt - 1 : f[a] # Blank
  <2> HIDE DEF d, m, n, end, rec, mt0, mt
  <2> QED
    BY <1>7, <1>9, <1>12
<1>14. Place(f, last, r).rec = rec /\ Place(f, last, r).mt = mt
  BY <1>5, <1>7
<1>15. Size(r) = n
  OBVIOUS
<1>16. mt + 1 < rec
  <2> HIDE DEF rec, mt
  <2> QED
    BY <1>2, <1>9
<1>17. last >= 1 => rec + n <= f[last].off
  BY <1>7, <1>9
<1> HIDE DEF rec, mt, n, end, mt0, d, m
<1> QED
  BY <1>9, <1>11, <1>13, <1>14, <1>15, <1>16, <1>17 DEF FirstMeta

(* The page a restart chooses is valid, and stays chosen as long as its    *)
(* counters stay and the other page does not become valid.                 *)
LEMMA ChosenValid ==
  ASSUME NEW fl, NEW p \in Page, BootPage(fl) = p
  PROVE  ValidPage(fl[p])
  BY DEF BootPage, Page, NoPage

LEMMA ChosenKept ==
  ASSUME NEW f1, NEW f2, NEW p \in Page, BootPage(f1) = p,
         f2[p][Top] = f1[p][Top], f2[p][Bottom] = f1[p][Bottom],
         ValidPage(f2[Other(p)]) => /\ ValidPage(f1[Other(p)])
                                    /\ f2[Other(p)][Top] = f1[Other(p)][Top]
  PROVE  BootPage(f2) = p
<1>1. ValidPage(f2[p])
  BY ChosenValid DEF ValidPage
<1> QED
  BY <1>1 DEF BootPage, Page, NoPage, Other, ValidPage

LEMMA ChosenAnew ==
  ASSUME NEW fl, NEW p \in Page, ValidPage(fl[p]),
         fl[p][Top] \in Nat, fl[Other(p)][Top] \in Nat \cup {Blank, Torn},
         ValidPage(fl[Other(p)]) => fl[Other(p)][Top] < fl[p][Top]
  PROVE  BootPage(fl) = p
<1>1. ValidPage(fl[Other(p)]) => fl[Other(p)][Top] \in Nat
  BY DEF ValidPage
<1> QED
  BY <1>1 DEF BootPage, Page, NoPage, Other

(* The newest tag that covers x up to tag src, and its value.              *)
LEMMA RestoredValue ==
  ASSUME NEW f, NEW last, PageTyped(f), PageSound(f, last),
         NEW src \in FirstMeta .. last, NEW x \in Elem,
         \E a \in FirstMeta .. src : Covers(f[a], x)
  PROVE  RestoredFrom(f, src, x) \in Val
<1> DEFINE T    == {a \in FirstMeta .. src : Covers(f[a], x)}
           Newest(a) == Covers(f[a], x) /\ \A b \in a + 1 .. src : ~Covers(f[b], x)
           new  == CHOOSE a \in FirstMeta .. src : Newest(a)
           m    == f[new]
<1>1. /\ Bottom \in Nat /\ last \in Int /\ last <= Bottom - 1
      /\ Addr = 0 .. PageSize - 1 /\ Bottom = PageSize - 1 /\ PageSize \in Nat
  BY Sizes1 DEF PageSound
<1>2. T \in SUBSET Nat /\ T # {} /\ \A a \in T : a <= Bottom
  BY <1>1 DEF FirstMeta
<1>3. PICK a \in T : \A b \in T : b <= a
  BY <1>1, <1>2, GreatestElement
<1>4. a \in FirstMeta .. src /\ Newest(a)
  BY <1>1, <1>3 DEF FirstMeta
<1>5. new \in FirstMeta .. src /\ Newest(new)
  <2> HIDE DEF Newest
  <2> QED
    BY <1>4
<1>6. IsMeta(m) /\ m.e = x[1] /\ (m.all \/ m.i = x[2])
  BY <1>5 DEF Covers
<1>7. new \in FirstMeta .. last /\ new \in Addr \ {Top, Bottom}
  <2> HIDE DEF new
  <2> QED
    BY <1>1, <1>5 DEF FirstMeta, Top
<1>8. m \in Meta /\ RecordAt(f, m)
  <2> HIDE DEF new
  <2> QED
    BY <1>6, <1>7, Tags DEF PageTyped, PageSound
<1>9. f[m.off + IF m.all THEN x[2] - 1 ELSE 0] \in Val
  <2> DEFINE k == IF m.all THEN x[2] - 1 ELSE 0
  <2>1. k \in 0 .. Size(m) - 1
    <3> HIDE DEF m
    <3> QED
      BY <1>6, <1>8, Tags, Elements DEF Size
  <2> HIDE DEF m, k
  <2>2. f[m.off + k] \in Val
    BY <1>8, <2>1 DEF RecordAt
  <2> QED
    BY <2>2 DEF k
<1>10. RestoredFrom(f, src, x) = f[m.off + IF m.all THEN x[2] - 1 ELSE 0]
  <2>1. ~(\A b \in FirstMeta .. src : ~Covers(f[b], x))
    OBVIOUS
  <2> QED
    BY <2>1 DEF RestoredFrom
<1> QED
  BY <1>9, <1>10

(* A restored value is one the RAM can hold, or there is none.             *)
LEMMA RestoredType ==
  ASSUME NEW f, NEW last, PageTyped(f), PageSound(f, last), NEW x \in Elem
  PROVE  RestoredFrom(f, last, x) \in Val \cup {NoVal}
<1>1. CASE \E a \in FirstMeta .. last : Covers(f[a], x)
  <2>1. last \in FirstMeta .. last
    BY <1>1 DEF PageSound, FirstMeta
  <2> QED
    BY <1>1, <2>1, RestoredValue
<1>2. CASE ~ \E a \in FirstMeta .. last : Covers(f[a], x)
  BY <1>2 DEF RestoredFrom
<1> QED
  BY <1>1, <1>2

(* A page has two sectors, one with each counter.                          *)
LEMMA Sectors ==
  /\ \A a \in Addr : SectorOf(a) \in {0, 1}
  /\ SectorOf(Top) = 0 /\ SectorOf(Bottom) = 1
<1>1. PageSize \in Nat /\ PageSize >= 3
  BY Sizes1
<1>2. ASSUME NEW n \in Nat, n < 2 * PageSize
      PROVE  n \div PageSize = IF n < PageSize THEN 0 ELSE 1
  BY <1>1, <1>2
<1>3. ASSUME NEW a \in Addr
      PROVE  2 * a \in Nat /\ 2 * a < 2 * PageSize
  BY <1>1 DEF Addr
<1>4. Bottom \in Addr /\ Top \in Addr /\ 2 * Top < PageSize /\ ~(2 * Bottom < PageSize)
  BY <1>1 DEF Bottom, Top, Addr
<1> QED
  BY <1>2, <1>3, <1>4 DEF SectorOf

LEMMA DirtySectorsFinite ==
  ASSUME NEW f
  PROVE  /\ IsFiniteSet(DirtySectors(f)) /\ DirtySectors(f) \subseteq {0, 1}
         /\ \A a \in Addr : f[a] # Blank => SectorOf(a) \in DirtySectors(f)
<1>1. DirtySectors(f) \subseteq {0, 1}
  BY Sectors DEF DirtySectors
<1>2. IsFiniteSet({0, 1})
  <2>1. IsFiniteSet({0}) /\ {0, 1} = {0} \cup {1}
    BY FS_Singleton
  <2>2. IsFiniteSet({0} \cup {1})
    BY <2>1, FS_AddElement
  <2> QED
    BY <2>1, <2>2
<1>3. IsFiniteSet(DirtySectors(f))
  BY <1>1, <1>2, FS_Subset
<1> QED
  BY <1>1, <1>3 DEF DirtySectors
-----------------------------------------------------------------------------
(* Writing the flash.                                                      *)

FlashTyped == DOMAIN flash = Page /\ \A p \in Page : PageTyped(flash[p])

(* Cell a of page p is programmed with v, or left torn.                    *)
CellSet(p, a, v) == flash' = [flash EXCEPT ![p][a] = v]

LEMMA ProgramCell ==
  ASSUME FlashTyped, NEW p \in Page, NEW a \in Addr, NEW v, CellSet(p, a, v)
  PROVE  /\ DOMAIN flash' = Page /\ \A q \in Page : DOMAIN flash'[q] = Addr
         /\ flash'[p][a] = v
         /\ \A b \in Addr \ {a} : flash'[p][b] = flash[p][b]
         /\ \A q \in Page \ {p} : flash'[q] = flash[q]
  BY DEF FlashTyped, PageTyped, CellSet

(* Sector s of page p is erased, or left torn.                             *)
SectorSet(p, s, v) ==
  flash' = [flash EXCEPT ![p] = [a \in Addr |-> IF SectorOf(a) = s THEN v ELSE @[a]]]

LEMMA EraseCells ==
  ASSUME FlashTyped, NEW p \in Page, NEW s, NEW v \in {Blank, Torn}, SectorSet(p, s, v)
  PROVE  /\ FlashTyped'
         /\ \A a \in Addr : flash'[p][a] = IF SectorOf(a) = s THEN v ELSE flash[p][a]
         /\ \A q \in Page \ {p} : flash'[q] = flash[q]
         /\ ValidPage(flash'[p]) => \A a \in Addr : flash'[p][a] = flash[p][a]
         /\ IsBlank(flash[p]) /\ v = Blank => IsBlank(flash'[p])
         /\ v = Blank /\ DirtySectors(flash[p]) = {s} => IsBlank(flash'[p])
<1>1. /\ DOMAIN flash' = Page
      /\ flash'[p] = [a \in Addr |-> IF SectorOf(a) = s THEN v ELSE flash[p][a]]
      /\ \A q \in Page \ {p} : flash'[q] = flash[q]
  BY DEF FlashTyped, SectorSet
<1>3. Top \in Addr /\ Bottom \in Addr
  BY Sizes1 DEF Top
<1>2. PageTyped(flash'[p])
  <2>1. DOMAIN flash'[p] = Addr /\ PageTyped(flash[p])
    BY <1>1 DEF FlashTyped
  <2>2. ASSUME NEW a \in Addr
        PROVE  flash'[p][a] \in {Blank, Torn} \/ flash'[p][a] = flash[p][a]
    BY <1>1
  <2> QED
    BY <1>3, <2>1, <2>2 DEF PageTyped
<1>4. ASSUME ValidPage(flash'[p])
      PROVE  \A a \in Addr : flash'[p][a] = flash[p][a]
  <2>1. flash'[p][Top] # v /\ flash'[p][Bottom] # v
    BY <1>4 DEF ValidPage
  <2>2. s # 0 /\ s # 1
    BY <1>1, <1>3, <2>1, Sectors
  <2> QED
    BY <1>1, <2>2, Sectors
<1> QED
  BY <1>1, <1>2, <1>4, DirtySectorsFinite DEF FlashTyped, IsBlank

(* What a sound page says only depends on its cells.                       *)
LEMMA SameSound ==
  ASSUME NEW f, NEW g, NEW last, PageTyped(f), PageSound(f, last), \A a \in Addr : g[a] = f[a]
  PROVE  PageSound(g, last)
<1>1. /\ PageSize \in Nat /\ PageSize >= 3 /\ Bottom = PageSize - 1 /\ Addr = 0 .. PageSize - 1
  BY Sizes1
<1>2. ASSUME NEW a \in FirstMeta .. last, IsMeta(f[a])
      PROVE  RecordAt(g, f[a])
  <2>1. f[a] \in Meta /\ RecordAt(f, f[a])
    BY <1>1, <1>2, Tags DEF PageSound, PageTyped, FirstMeta, Top
  <2>2. f[a].off \in Addr /\ Size(f[a]) \in Nat
    BY <2>1, Tags
  <2>3. \A k \in 0 .. Size(f[a]) - 1 : f[a].off + k \in Addr
    BY <1>1, <2>1, <2>2 DEF RecordAt
  <2> QED
    BY <2>1, <2>3 DEF RecordAt
<1>3. FirstMeta \in Addr /\ (1 .. Bottom - 1) \subseteq Addr /\ last \in -1 .. Bottom - 1
  BY <1>1 DEF PageSound, FirstMeta
<1> QED
  BY <1>1, <1>2, <1>3 DEF PageSound, FirstMeta

(* A page stays sound when a blank cell behind its tags is programmed with *)
(* anything but a tag, and when its counters are.                          *)
LEMMA SoundKept ==
  ASSUME NEW f, NEW g, NEW last, PageTyped(f), PageSound(f, last),
         NEW c \in Addr, f[c] = Blank, c \in {Top, Bottom} \/ g[c] \in Val \cup {Torn},
         last = EmptyMeta => c # FirstMeta,
         \A a \in Addr \ {c} : g[a] = f[a]
  PROVE  PageSound(g, last)
<1>1. /\ PageSize \in Nat /\ PageSize >= 3 /\ Bottom = PageSize - 1 /\ Addr = 0 .. PageSize - 1
  BY Sizes1
<1>2. ASSUME NEW a \in FirstMeta .. last, IsMeta(f[a])
      PROVE  RecordAt(g, f[a])
  <2>1. f[a] \in Meta /\ RecordAt(f, f[a])
    BY <1>1, <1>2, Tags DEF PageSound, PageTyped, FirstMeta, Top
  <2>2. f[a].off \in Addr /\ Size(f[a]) \in Nat
    BY <2>1, Tags
  <2>3. \A k \in 0 .. Size(f[a]) - 1 : f[a].off + k \in Addr \ {c}
    BY <1>1, <2>1, <2>2, CellAssumption, SMTT(30) DEF RecordAt
  <2> QED
    BY <2>1, <2>3 DEF RecordAt
<1>3. /\ FirstMeta \in Addr /\ (1 .. Bottom - 1) \subseteq Addr /\ last \in -1 .. Bottom - 1
      /\ \A a \in 1 .. last : a # c
      /\ last # EmptyMeta => c # FirstMeta
  BY <1>1 DEF PageSound, FirstMeta, EmptyMeta
<1>4. c \in 1 .. Bottom - 1 => ~IsMeta(g[c])
  BY <1>1 DEF IsMeta, Top
<1>5. \A a \in FirstMeta .. Bottom - 1 : IF a <= last THEN g[a] # Blank ELSE ~IsMeta(g[a])
  BY <1>1, <1>3, <1>4 DEF PageSound, FirstMeta
<1>6. (last = EmptyMeta) <=> (g[FirstMeta] = Blank)
  BY <1>1, <1>3 DEF PageSound
<1>7. \A a \in FirstMeta .. last : g[a] = f[a]
  BY <1>1, <1>3 DEF FirstMeta
<1>8. last >= FirstMeta => IsMeta(g[last]) /\ g[last].off > last + 1
  BY <1>3, <1>7 DEF PageSound, FirstMeta
<1> QED
  BY <1>2, <1>3, <1>5, <1>6, <1>7, <1>8 DEF PageSound, FirstMeta

(* The tag that completes a record, programmed or torn.                    *)
LEMMA SoundTag ==
  ASSUME NEW f, NEW g, NEW last, PageTyped(f), PageSound(f, last),
         NEW r \in Req, NEW rec \in Addr, NEW mt \in Addr,
         last < mt, FirstMeta <= mt, mt + 1 < rec, rec + Size(r) <= Bottom,
         last >= FirstMeta => rec + Size(r) <= f[last].off,
         \A a \in FirstMeta .. mt - 1 : f[a] # Blank,
         \A j \in 0 .. Size(r) - 1 : f[rec + j] \in Val,
         f[mt] = Blank,
         \A a \in Addr \ {mt} : g[a] = f[a]
  PROVE  /\ g[mt] = TagOf(r, rec) => PageSound(g, mt)
         /\ g[mt] = Torn => \E l \in Addr \cup {EmptyMeta} : PageSound(g, l)
<1>1. /\ PageSize \in Nat /\ PageSize >= 3 /\ Bottom = PageSize - 1 /\ Addr = 0 .. PageSize - 1
  BY Sizes1
<1>2. Size(r) \in Nat /\ Size(r) >= 1
  BY Requests
<1>3. /\ FirstMeta \in Addr /\ (1 .. Bottom - 1) \subseteq Addr /\ last \in -1 .. Bottom - 1
      /\ mt \in 1 .. Bottom - 1 /\ mt < rec
  BY <1>1, <1>2 DEF PageSound, FirstMeta
<1>4. ASSUME NEW m \in Meta, RecordAt(f, m), m.off > mt
      PROVE  RecordAt(g, m)
  <2>1. m.off \in Addr /\ Size(m) \in Nat
    BY Tags
  <2>2. \A k \in 0 .. Size(m) - 1 : m.off + k \in Addr \ {mt}
    <3>1. m.off + Size(m) <= Bottom /\ m.off > mt
      BY <1>4 DEF RecordAt
    <3>2. PICK o \in Nat : o = m.off
      BY <1>1, <2>1
    <3>3. PICK s \in Nat : s = Size(m)
      BY <2>1
    <3>4. \A k \in 0 .. s - 1 : o + k \in Addr \ {mt}
      <4>1. o + s <= Bottom /\ o > mt
        BY <3>1, <3>2, <3>3
      <4> QED
        BY <1>1, <1>3, <4>1
    <3> QED
      BY <3>2, <3>3, <3>4
  <2> QED
    BY <1>4, <2>2 DEF RecordAt
<1>5. ASSUME NEW a \in FirstMeta .. last, IsMeta(f[a])
      PROVE  f[a] \in Meta /\ RecordAt(f, f[a]) /\ f[a].off >= rec + Size(r)
  <2>1. f[a] \in Meta /\ RecordAt(f, f[a]) /\ f[a].off >= f[last].off
    BY <1>1, <1>3, <1>5, Tags DEF PageSound, PageTyped, FirstMeta, Top
  <2>2. last >= FirstMeta /\ f[last] \in Meta
    BY <1>1, <1>3, <1>5, Tags DEF PageSound, PageTyped, FirstMeta, Top
  <2>3. f[a].off \in Addr /\ f[last].off \in Addr
    BY <2>1, <2>2, Tags
  <2> QED
    BY <1>1, <1>2, <2>1, <2>2, <2>3
<1>6. ASSUME g[mt] = TagOf(r, rec)
      PROVE  PageSound(g, mt)
  <2>1. g[mt] \in Meta /\ g[mt].off = rec /\ Size(g[mt]) = Size(r) /\ IsMeta(g[mt])
    BY <1>6, Tags
  <2>2. RecordAt(g, g[mt])
    <3>1. \A k \in 0 .. Size(r) - 1 : rec + k \in Addr \ {mt}
      BY <1>1, <1>2, <1>3
    <3> QED
      BY <2>1, <3>1 DEF RecordAt
  <2>3. ASSUME NEW a \in FirstMeta .. mt, IsMeta(g[a])
        PROVE  g[a].off >= rec /\ RecordAt(g, g[a])
    <3>1. CASE a = mt
      BY <1>1, <2>1, <2>2, <3>1
    <3>2. CASE a # mt
      <4>1. g[a] = f[a] /\ a \in FirstMeta .. last
        BY <1>1, <1>3, <2>3, <3>2 DEF PageSound, FirstMeta
      <4>2. f[a] \in Meta /\ RecordAt(f, f[a]) /\ f[a].off >= rec + Size(r) /\ f[a].off \in Addr
        BY <1>5, <2>3, <4>1, Tags
      <4>3. f[a].off >= rec /\ f[a].off > mt
        BY <1>1, <1>2, <1>3, <4>2
      <4> QED
        BY <1>4, <4>1, <4>2, <4>3
    <3> QED
      BY <3>1, <3>2
  <2>4. \A a \in FirstMeta .. Bottom - 1 : IF a <= mt THEN g[a] # Blank ELSE ~IsMeta(g[a])
    BY <1>1, <1>3, <2>1 DEF PageSound, FirstMeta, IsMeta
  <2>5. (mt = EmptyMeta) <=> (g[FirstMeta] = Blank)
    BY <1>3, <2>4 DEF EmptyMeta, FirstMeta
  <2> QED
    BY <1>1, <1>3, <2>1, <2>3, <2>4, <2>5 DEF PageSound, FirstMeta
<1>7. ASSUME g[mt] = Torn
      PROVE  \E l \in Addr \cup {EmptyMeta} : PageSound(g, l)
  <2>1. CASE last = EmptyMeta
    <3>1. mt = FirstMeta
      BY <1>1, <1>3, <2>1 DEF PageSound, FirstMeta
    <3>2. g[1] # Blank /\ ~IsMeta(g[1])
      BY <1>7, <3>1, CellAssumption DEF IsMeta, FirstMeta
    <3>3. \A a \in 2 .. Bottom - 1 : ~IsMeta(g[a])
      BY <1>1, <1>3, <2>1, <3>1 DEF PageSound, FirstMeta, EmptyMeta
    <3>4. PageSound(g, 0)
      BY <1>1, <3>2, <3>3 DEF PageSound, FirstMeta, EmptyMeta
    <3> QED
      BY <1>1, <3>4
  <2>2. CASE last # EmptyMeta
    <3>1. PageSound(g, last)
      BY <1>7, <2>2, SoundKept
    <3> QED
      BY <1>1, <1>3, <2>2, <3>1 DEF EmptyMeta
  <2> QED
    BY <2>1, <2>2
<1> QED
  BY <1>6, <1>7

(* A copy begins on a blank page.                                          *)
LEMMA CopyOnBlank ==
  ASSUME NEW f, IsBlank(f)
  PROVE  /\ CopiedPart(f, FirstMeta, Bottom) /\ RoomUsed(f, FirstMeta, Bottom)
         /\ SinglesLast(f, FirstMeta)
         /\ \A a \in {Top, Bottom} \cup (FirstMeta .. Bottom - 1) : f[a] = Blank
<1>1. /\ PageSize \in Nat /\ PageSize >= 3 /\ Bottom = PageSize - 1 /\ Addr = 0 .. PageSize - 1
  BY Sizes1
<1>2. Covered(f, FirstMeta) = {}
  BY DEF Covered, FirstMeta
<1>3. RoomUsed(f, FirstMeta, Bottom)
  BY <1>1, <1>2, FS_EmptySet DEF RoomUsed, FirstMeta
<1> QED
  BY <1>1, <1>3 DEF CopiedPart, SinglesLast, FirstMeta, IsBlank, Top
-----------------------------------------------------------------------------
(* The steps that only move the operation on.                              *)

OpType == [req : Req \cup {NoReq}, hold : Req \cup {NoReq}, rec : Addr, mt : Addr,
           k : Nat, src : Addr \cup {EmptyMeta}]

LEMMA TypeFacts ==
  ASSUME TypeOK
  PROVE  FlashTyped /\ op \in OpType /\ Idle \in OpType
<1>1. 0 \in Addr
  BY Sizes1
<1> QED
  BY <1>1 DEF TypeOK, FlashTyped, PageTyped, OpType, Idle

LEMMA BeginCopyStep ==
  ASSUME IInv, Live, pc \notin {"top", "bottom"},
         NEW f \in {"idle", "sync", "full"}, NEW o \in OpType, BeginCopy(f, o),
         f \in {"sync", "full"} => o.req \in Req,
         f = "full" => o.hold \in Req /\ Len(queue) < QueueSize,
         copyPending' \in BOOLEAN,
         UNCHANGED <<flash, ram, active, lastMeta, pageCounter, erase, queue>>
  PROVE  IInv'
<1>1. TypeOK'
  <2>1. op' \in OpType
    <3>1. 1 \in Addr /\ Bottom \in Addr
      BY Sizes1
    <3>2. lastMeta[active] \in Addr \cup {EmptyMeta}
      BY DEF IInv, ActiveSound, TypeOK
    <3> QED
      BY <3>1, <3>2 DEF BeginCopy, OpType, FirstMeta
  <2> QED
    BY <2>1 DEF IInv, TypeOK, BeginCopy, OpType, FirstMeta
<1>2. pc' \in {"scan", "blank"}
  BY DEF BeginCopy
<1>3. ValidSound'
  BY DEF IInv, ValidSound
<1>4. ActiveSound'
  BY <1>2 DEF IInv, ActiveSound, Live
<1>5. MirrorScanned'
  <2>1. pc' = "scan" => IsBlank(Mirror)
    BY DEF BeginCopy, Mirror
  <2>2. op'.src = lastMeta[active] /\ op'.mt = FirstMeta /\ op'.rec = Bottom
    BY DEF BeginCopy, OpType
  <2>3. op'.src <= lastMeta[active]
    BY <2>2 DEF IInv, ActiveSound, PageSound
  <2>4. SinglesLast(Mirror, FirstMeta)'
    BY DEF SinglesLast, FirstMeta
  <2>5. Mirror' = Mirror
    BY DEF Mirror
  <2> QED
    BY <1>2, <2>1, <2>2, <2>3, <2>4, <2>5, CopyOnBlank DEF MirrorScanned
<1>6. RecordWritten' /\ MirrorWritten' /\ MirrorComplete' /\ Formatting'
  BY <1>2 DEF RecordWritten, MirrorWritten, MirrorComplete, Formatting
<1>7. EraseBehind'
  BY <1>2 DEF IInv, EraseBehind, Live
<1>8. Holder'
  BY <1>2 DEF Holder, Copying, BeginCopy, OpType
<1> QED
  BY <1>1, <1>3, <1>4, <1>5, <1>6, <1>7, <1>8 DEF IInv

LEMMA WriteRecordStep ==
  ASSUME IInv, pc \in {"ready", "again", "drain"},
         NEW f \in {"idle", "sync", "syncAgain", "full", "fullAgain"},
         NEW r \in Req, NEW hold \in Req \cup {NoReq}, WriteRecord(f, r, hold),
         f \in {"full", "fullAgain"} => hold \in Req /\ Len(queue) < QueueSize,
         f = "idle" => queue # <<>>,
         UNCHANGED <<flash, ram, active, lastMeta, pageCounter, erase>>
  PROVE  IInv'
<1> DEFINE o == [Idle EXCEPT !.req = r, !.hold = hold]
<1>1. o \in OpType /\ o.req = r /\ o.hold = hold /\ o.k = 0
  BY TypeFacts DEF IInv, OpType, Idle
<1>2. Live /\ active \in Page /\ PageTyped(flash[active]) /\ PageSound(flash[active], lastMeta[active])
  BY TypeFacts DEF IInv, Live, ActiveSound, FlashTyped
<1>3. CASE Fits(r)
  <2> DEFINE place == Place(flash[active], lastMeta[active], r)
  <2>1. /\ pc' = "data" /\ by' = f /\ op' = [o EXCEPT !.rec = place.rec, !.mt = place.mt]
        /\ UNCHANGED <<copyPending, queue>>
    BY <1>3 DEF WriteRecord
  <2>2. place.fits
    BY <1>3 DEF Fits
  <2>3. /\ place.rec \in Addr /\ place.mt \in Addr
        /\ lastMeta[active] < place.mt /\ FirstMeta <= place.mt /\ place.mt + 1 < place.rec
        /\ place.rec + Size(r) <= Bottom
        /\ lastMeta[active] >= FirstMeta => place.rec + Size(r) <= flash[active][lastMeta[active]].off
        /\ \A a \in FirstMeta .. place.mt - 1 : flash[active][a] # Blank
        /\ flash[active][place.mt] = Blank
        /\ \A j \in 0 .. Size(r) - 1 : flash[active][place.rec + j] = Blank
    BY <1>2, <2>2, PlaceFits
  <2> HIDE DEF o, place
  <2>4. op' \in OpType /\ op'.req = r /\ op'.hold = hold /\ op'.k = 0 /\ op'.rec = place.rec /\ op'.mt = place.mt
    BY <1>1, <2>1, <2>3 DEF OpType
  <2>5. TypeOK'
    BY <2>1, <2>4 DEF IInv, TypeOK, OpType, Programming
  <2>6. ValidSound' /\ ActiveSound'
    BY <1>2, <2>1 DEF IInv, ValidSound, ActiveSound, Live
  <2>7. RecordWritten'
    <3>1. Size(r) \in Nat /\ Size(r) >= 1
      BY Requests
    <3> QED
      BY <2>1, <2>3, <2>4, <3>1 DEF RecordWritten
  <2>8. MirrorScanned' /\ MirrorWritten' /\ MirrorComplete' /\ Formatting'
    BY <2>1 DEF MirrorScanned, MirrorWritten, MirrorComplete, Formatting
  <2>9. EraseBehind' /\ Holder'
    BY <1>2, <2>1, <2>4 DEF IInv, EraseBehind, Holder, Live, Copying
  <2> QED
    BY <2>5, <2>6, <2>7, <2>8, <2>9 DEF IInv
<1>4. CASE ~Fits(r)
  <2>1. CASE f \in {"sync", "full"}
    <3>1. BeginCopy(f, o) /\ copyPending' = TRUE /\ UNCHANGED queue
      BY <1>4, <2>1 DEF WriteRecord
    <3> HIDE DEF o
    <3> QED
      BY <1>1, <1>2, <2>1, <3>1, BeginCopyStep
  <2>2. CASE f \in {"idle", "syncAgain"}
    <3>1. pc' = "ready" /\ by' = "none" /\ op' = Idle /\ copyPending' = TRUE /\ UNCHANGED queue
      BY <1>4, <2>2 DEF WriteRecord
    <3>2. TypeOK'
      BY <3>1, TypeFacts DEF IInv, TypeOK, OpType
    <3>3. ValidSound' /\ ActiveSound' /\ EraseBehind'
      BY <1>2, <3>1 DEF IInv, ValidSound, ActiveSound, EraseBehind, Live
    <3>4. RecordWritten' /\ MirrorScanned' /\ MirrorWritten' /\ MirrorComplete' /\ Formatting' /\ Holder'
      BY <3>1 DEF RecordWritten, MirrorScanned, MirrorWritten, MirrorComplete, Formatting, Holder, Copying
    <3> QED
      BY <3>2, <3>3, <3>4 DEF IInv
  <2>3. CASE f = "fullAgain"
    <3>1. pc' = "add" /\ by' = "full" /\ op' = o /\ queue' = Append(queue, hold) /\ copyPending' = TRUE
      BY <1>4, <2>3 DEF WriteRecord
    <3> HIDE DEF o
    <3>2. TypeOK'
      <4>1. queue' \in Seq(Req) /\ Len(queue') <= QueueSize
        BY <2>3, <3>1, Sizes1 DEF IInv, TypeOK
      <4> QED
        BY <1>1, <3>1, <4>1 DEF IInv, TypeOK, OpType
    <3>3. ValidSound' /\ ActiveSound' /\ EraseBehind'
      BY <1>2, <3>1 DEF IInv, ValidSound, ActiveSound, EraseBehind, Live
    <3>4. RecordWritten' /\ MirrorScanned' /\ MirrorWritten' /\ MirrorComplete' /\ Formatting' /\ Holder'
      BY <1>1, <3>1 DEF RecordWritten, MirrorScanned, MirrorWritten, MirrorComplete, Formatting, Holder, Copying
    <3> QED
      BY <3>2, <3>3, <3>4 DEF IInv
  <2> QED
    BY <2>1, <2>2, <2>3
<1> QED
  BY <1>3, <1>4

LEMMA AddRequestStep ==
  ASSUME IInv, pc \in {"ready", "add"}, NEW r \in Req, AddRequest(r),
         UNCHANGED <<flash, ram, active, lastMeta, pageCounter, copyPending, erase>>
  PROVE  IInv'
<1>1. Live /\ queue \in Seq(Req) /\ Len(queue) \in Nat /\ Len(queue) <= QueueSize /\ QueueSize \in Nat \ {0}
  BY Sizes1 DEF IInv, TypeOK, Live
<1>2. /\ queue' \in Seq(Req) /\ Len(queue') <= QueueSize
      /\ \/ UNCHANGED <<pc, by, op>>
         \/ /\ pc' = "again" /\ by' = "full" /\ op' \in OpType /\ op'.req \in Req /\ op'.hold \in Req
            /\ Len(queue') < QueueSize
  <2>1. CASE Absorbing(queue, r) # {}
    <3>1. UNCHANGED <<pc, by, op>> /\ queue' = Absorb(queue, r)
      BY <2>1 DEF AddRequest
    <3>2. Min(Absorbing(queue, r)) \in DOMAIN queue
      <4>1. Absorbing(queue, r) \in SUBSET Nat
        BY <1>1 DEF Absorbing
      <4>2. Min(Absorbing(queue, r)) \in Absorbing(queue, r)
        BY <2>1, <4>1, LeastElement
      <4> QED
        BY <4>2 DEF Absorbing
    <3>3. queue' = queue \/ queue' = [queue EXCEPT ![Min(Absorbing(queue, r))] = r]
      BY <3>1 DEF Absorb
    <3> DEFINE j == Min(Absorbing(queue, r))
    <3> HIDE DEF j
    <3>4. queue' = queue \/ queue' = [queue EXCEPT ![j] = r]
      BY <3>3 DEF j
    <3>5. j \in DOMAIN queue
      BY <3>2 DEF j
    <3> QED
      BY <1>1, <3>1, <3>4, <3>5
  <2>2. CASE Absorbing(queue, r) = {} /\ Len(queue) < QueueSize
    BY <1>1, <2>2 DEF AddRequest
  <2>3. CASE Absorbing(queue, r) = {} /\ Len(queue) = QueueSize
    <3>1. queue' = Tail(queue) /\ pc' = "again" /\ by' = "full" /\ op' = [Idle EXCEPT !.req = Head(queue), !.hold = r]
      BY <1>1, <2>3 DEF AddRequest
    <3>2. queue # <<>> /\ Head(queue) \in Req /\ Tail(queue) \in Seq(Req) /\ Len(Tail(queue)) = Len(queue) - 1
      BY <1>1, <2>3
    <3>3. op' \in OpType /\ op'.req \in Req /\ op'.hold \in Req
      BY <3>1, <3>2, TypeFacts DEF IInv, OpType, Idle
    <3> QED
      BY <1>1, <2>3, <3>1, <3>2, <3>3
  <2> QED
    BY <1>1, <2>1, <2>2, <2>3
<1>3. TypeOK'
  BY <1>2 DEF IInv, TypeOK, OpType
<1>4. pc' \in {"ready", "add", "again"}
  BY <1>2
<1>5. ValidSound' /\ ActiveSound' /\ EraseBehind'
  BY <1>1, <1>4 DEF IInv, ValidSound, ActiveSound, EraseBehind, Live
<1>6. RecordWritten' /\ MirrorScanned' /\ MirrorWritten' /\ MirrorComplete' /\ Formatting'
  BY <1>4 DEF RecordWritten, MirrorScanned, MirrorWritten, MirrorComplete, Formatting
<1>7. Holder'
  BY <1>2 DEF IInv, Holder, Copying
<1> QED
  BY <1>3, <1>5, <1>6, <1>7 DEF IInv

LEMMA CallStep ==
  ASSUME IInv, Add \/ Again \/ Drain \/ IdleTask \/ \E r \in Req : SaveOnIdle(r) \/ SyncSave(r)
  PROVE  IInv'
<1>1. /\ queue \in Seq(Req) /\ op \in OpType /\ Idle \in OpType
      /\ NoReq \in Req \cup {NoReq}
  BY TypeFacts DEF IInv, TypeOK
<1>2. CASE Add
  <2>1. pc = "add" /\ op.req \in Req
    BY <1>2 DEF Add, IInv, Holder
  <2> QED
    BY <1>2, <2>1, AddRequestStep DEF Add
<1>3. CASE Again
  <2>1. /\ pc = "again" /\ op.req \in Req /\ by \in {"full", "syncAgain", "fullAgain"}
        /\ by \in {"full", "fullAgain"} => op.hold \in Req /\ Len(queue) < QueueSize
    BY <1>3 DEF Again, IInv, Holder
  <2>2. op.hold \in Req \cup {NoReq}
    BY <1>1 DEF OpType
  <2> QED
    BY <1>3, <2>1, <2>2, WriteRecordStep DEF Again
<1>4. CASE Drain
  <2>1. CASE queue = <<>>
    <3>1. \/ pc' = "ready" /\ by' = "none" /\ UNCHANGED <<op, copyPending, queue>>
          \/ queue # <<>> /\ WriteRecord("idle", Head(queue), NoReq)
      BY <1>4 DEF Drain
    <3>2. /\ pc = "drain" /\ pc' = "ready" /\ by' = "none"
          /\ UNCHANGED <<flash, ram, active, lastMeta, pageCounter, erase, op, copyPending, queue>>
      BY <1>4, <2>1, <3>1 DEF Drain
    <3>3. TypeOK'
      BY <3>2 DEF IInv, TypeOK
    <3>4. ValidSound' /\ ActiveSound' /\ EraseBehind'
      BY <3>2 DEF IInv, ValidSound, ActiveSound, EraseBehind, Live
    <3>5. RecordWritten' /\ MirrorScanned' /\ MirrorWritten' /\ MirrorComplete' /\ Formatting' /\ Holder'
      BY <3>2 DEF RecordWritten, MirrorScanned, MirrorWritten, MirrorComplete, Formatting, Holder, Copying
    <3> QED
      BY <3>3, <3>4, <3>5 DEF IInv
  <2>2. CASE queue # <<>>
    <3>1. Head(queue) \in Req
      BY <1>1, <2>2
    <3>2. /\ pc = "drain" /\ WriteRecord("idle", Head(queue), NoReq)
          /\ UNCHANGED <<flash, ram, active, lastMeta, pageCounter, erase>>
      BY <1>4, <2>2 DEF Drain
    <3> QED
      BY <1>1, <2>2, <3>1, <3>2, WriteRecordStep
  <2> QED
    BY <2>1, <2>2
<1>5. CASE IdleTask
  <2>1. pc = "ready" /\ UNCHANGED <<flash, ram, ramVars, bounds>> /\ Live
    BY <1>5 DEF IdleTask, Live
  <2>2. CASE copyPending /\ BeginCopy("idle", Idle)
    <3>1. copyPending' \in BOOLEAN
      BY <2>1 DEF ramVars, IInv, TypeOK
    <3> QED
      BY <1>1, <2>1, <2>2, <3>1, BeginCopyStep DEF ramVars
  <2>3. CASE /\ (pc' = "sector" /\ erase.pending) \/ pc' = "drain"
             /\ by' = "idle" /\ op' = Idle
    <3>1. TypeOK'
      BY <1>1, <2>1, <2>3 DEF IInv, TypeOK, ramVars, OpType, Programming
    <3>2. ValidSound' /\ ActiveSound' /\ EraseBehind'
      BY <2>1, <2>3 DEF IInv, ValidSound, ActiveSound, EraseBehind, Live, ramVars
    <3>3. RecordWritten' /\ MirrorScanned' /\ MirrorWritten' /\ MirrorComplete' /\ Formatting' /\ Holder'
      BY <2>3 DEF RecordWritten, MirrorScanned, MirrorWritten, MirrorComplete, Formatting, Holder, Copying
    <3> QED
      BY <3>1, <3>2, <3>3 DEF IInv
  <2> QED
    BY <1>5, <2>2, <2>3 DEF IdleTask
<1>6. ASSUME NEW r \in Req, SaveOnIdle(r)
      PROVE  IInv'
  BY <1>6, AddRequestStep DEF SaveOnIdle, Call
<1>7. ASSUME NEW r \in Req, SyncSave(r)
      PROVE  IInv'
  <2>1. /\ pc = "ready" /\ WriteRecord("sync", r, NoReq)
        /\ UNCHANGED <<flash, ram, active, lastMeta, pageCounter, erase>>
    BY <1>7 DEF SyncSave, Call
  <2> QED
    BY <1>1, <2>1, WriteRecordStep
<1> QED
  BY <1>2, <1>3, <1>4, <1>5, <1>6, <1>7

(* The parts that speak of pages and of the mirror alone.                  *)
LEMMA QuietStep ==
  ASSUME IInv, UNCHANGED <<flash, ramVars, pc, by, op>>, ram' \in [Elem -> Val]
  PROVE  IInv'
<1>1. TypeOK'
  BY DEF IInv, TypeOK, ramVars
<1>2. ValidSound' /\ ActiveSound' /\ EraseBehind' /\ Formatting' /\ Holder'
  BY DEF IInv, ValidSound, ActiveSound, EraseBehind, Formatting, Holder, Live, Copying, ramVars
<1>3. RecordWritten' /\ MirrorComplete'
  BY DEF IInv, RecordWritten, MirrorComplete, Mirror, ramVars
<1>4. MirrorScanned'
  BY DEF IInv, MirrorScanned, Mirror, SinglesLast, FullSaves, ramVars
<1>5. MirrorWritten'
  BY ZenonT(60) DEF IInv, MirrorWritten, Mirror, SinglesLast, FullSaves, CopiedReq, IsRecordCopied, ramVars
<1> QED
  BY <1>1, <1>2, <1>3, <1>4, <1>5 DEF IInv

(* The record, cell by cell, and its tag.                                  *)
LEMMA WriteDataStep ==
  ASSUME IInv, WriteData
  PROVE  IInv'
<1> DEFINE n == Size(op.req)
           c == op.rec + op.k
<1>1. /\ PageSize \in Nat /\ PageSize >= 3 /\ Bottom = PageSize - 1 /\ Addr = 0 .. PageSize - 1
  BY Sizes1
<1>2. /\ FlashTyped /\ op \in OpType /\ pc = "data" /\ Live /\ op.req \in Req
      /\ active \in Page /\ BootPage(flash) = active /\ PageSound(flash[active], lastMeta[active])
      /\ lastMeta[active] \in Int
  BY TypeFacts DEF IInv, WriteData, Live, ActiveSound, Holder, PageSound
<1>3. /\ op.k \in 0 .. n - 1 /\ n \in Nat
      /\ lastMeta[active] < op.mt /\ FirstMeta <= op.mt /\ op.mt + 1 < op.rec
      /\ op.rec + n <= Bottom
      /\ lastMeta[active] >= FirstMeta => op.rec + n <= flash[active][lastMeta[active]].off
      /\ \A a \in FirstMeta .. op.mt - 1 : flash[active][a] # Blank
      /\ flash[active][op.mt] = Blank
      /\ \A j \in 0 .. n - 1 : IF j < op.k THEN flash[active][op.rec + j] \in Val
                                           ELSE flash[active][op.rec + j] = Blank
  BY <1>2, Requests DEF IInv, RecordWritten
<1>4. /\ c \in Addr /\ c \notin {Top, Bottom, FirstMeta, op.mt} /\ flash[active][c] = Blank
      /\ op.mt \in Nat /\ op.rec \in Nat
      /\ \A a \in FirstMeta .. op.mt : a \in Addr /\ a # c
      /\ \A j \in 0 .. n - 1 : op.rec + j \in Addr /\ (op.rec + j = c <=> j = op.k)
  <2>1. PICK x \in Nat : x = op.rec
    BY <1>1, <1>2 DEF OpType
  <2>2. PICK y \in Nat : y = op.mt
    BY <1>1, <1>2 DEF OpType
  <2>3. PICK k \in 0 .. n - 1 : k = op.k
    BY <1>3
  <2>4. n \in Nat /\ 1 <= y /\ y + 1 < x /\ x + n <= Bottom
    BY <1>3, <2>1, <2>2 DEF FirstMeta
  <2>5. x + k \in Addr /\ x + k \notin {0, Bottom, 1, y}
        /\ \A a \in 1 .. y : a \in Addr /\ a # x + k
    <3> HIDE DEF n
    <3> QED
      BY <1>1, <2>4
  <2>6. \A j \in 0 .. n - 1 : x + j \in Addr /\ (x + j = x + k <=> j = k)
    <3> HIDE DEF n
    <3> QED
      BY <1>1, <2>4
  <2>7. flash[active][x + k] = Blank
    <3>1. ~(k < k)
      OBVIOUS
    <3> QED
      BY <1>3, <2>1, <2>3, <3>1
  <2> HIDE DEF n
  <2> QED
    BY <2>1, <2>2, <2>3, <2>5, <2>6, <2>7 DEF FirstMeta, Top
<1>5. ram[Saved(op.req, op.k)] \in Val
  BY <1>2, <1>3, Requests DEF IInv, TypeOK
<1>6. /\ DOMAIN flash' = Page /\ \A q \in Page : DOMAIN flash'[q] = Addr
      /\ flash'[active][c] = ram[Saved(op.req, op.k)]
      /\ \A b \in Addr \ {c} : flash'[active][b] = flash[active][b]
      /\ \A q \in Page \ {active} : flash'[q] = flash[q]
      /\ UNCHANGED <<ram, ramVars, by>>
  <2>1. CellSet(active, c, ram[Saved(op.req, op.k)])
    BY DEF WriteData, CellSet
  <2>2. UNCHANGED <<ram, ramVars, by>>
    BY DEF WriteData
  <2>3. FlashTyped /\ active \in Page /\ c \in Addr
    BY <1>2, <1>4
  <2> HIDE DEF c
  <2> QED
    BY <2>1, <2>2, <2>3, ProgramCell
<1>7. op' \in OpType /\ op' = [op EXCEPT !.k = @ + 1]
      /\ pc' \in {"data", "meta"} /\ (pc' = "meta" <=> op.k + 1 = n)
  BY <1>2 DEF OpType, WriteData
<1>8. PageSound(flash'[active], lastMeta[active])
  <2> HIDE DEF c
  <2> QED
    BY <1>2, <1>4, <1>5, <1>6, SoundKept DEF FlashTyped
<1>9. BootPage(flash') = active
  <2>1. Top \in Addr \ {c} /\ Bottom \in Addr \ {c} /\ Other(active) \in Page \ {active}
    BY <1>1, <1>2, <1>4 DEF Top, Other, Page
  <2> HIDE DEF c
  <2> QED
    BY <1>2, <1>6, <2>1, ChosenKept
<1> HIDE DEF c
<1>10. FlashTyped'
  <2>1. PageTyped(flash'[active])
    <3>1. PageTyped(flash[active]) /\ DOMAIN flash'[active] = Addr /\ Top \in Addr /\ Bottom \in Addr
      BY <1>1, <1>2, <1>6 DEF FlashTyped, Top
    <3> QED
      BY <1>4, <1>5, <1>6, <3>1 DEF PageTyped
  <2> QED
    BY <1>2, <1>6, <2>1 DEF FlashTyped
<1>11. TypeOK'
  BY <1>6, <1>7, <1>10 DEF IInv, TypeOK, FlashTyped, PageTyped, OpType, Programming, ramVars
<1>12. ValidSound'
  <2>1. lastMeta[active] \in Addr \cup {EmptyMeta}
    BY <1>2 DEF IInv, TypeOK
  <2> QED
    BY <1>2, <1>6, <1>8, <2>1 DEF IInv, ValidSound
<1>13. ActiveSound'
  <2>1. flash'[active][Top] = flash[active][Top]
    BY <1>1, <1>4, <1>6 DEF Top
  <2> QED
    BY <1>2, <1>6, <1>7, <1>8, <1>9, <2>1 DEF IInv, ActiveSound, ramVars
<1>14. RecordWritten'
  <2>1. /\ op'.k = op.k + 1 /\ op'.req = op.req /\ op'.rec = op.rec /\ op'.mt = op.mt
    BY <1>2, <1>7 DEF OpType
  <2>2. lastMeta[active] >= FirstMeta => flash'[active][lastMeta[active]] = flash[active][lastMeta[active]]
    BY <1>2, <1>3, <1>4, <1>6 DEF FirstMeta
  <2>3. \A a \in FirstMeta .. op.mt - 1 : flash'[active][a] # Blank
    BY <1>3, <1>4, <1>6 DEF FirstMeta
  <2>4. flash'[active][op.mt] = Blank
    BY <1>1, <1>3, <1>4, <1>6, SMTT(30) DEF FirstMeta
  <2>5. \A j \in 0 .. n - 1 : IF j < op.k + 1 THEN flash'[active][op.rec + j] \in Val
                                              ELSE flash'[active][op.rec + j] = Blank
    <3> TAKE j \in 0 .. n - 1
    <3>1. CASE j = op.k
      BY <1>3, <1>4, <1>5, <1>6, <3>1
    <3>2. CASE j # op.k
      <4>1. flash'[active][op.rec + j] = flash[active][op.rec + j]
        BY <1>4, <1>6, <3>2
      <4> QED
        BY <1>3, <3>2, <4>1
    <3> QED
      BY <3>1, <3>2
  <2>6. op.k + 1 \in 0 .. n
    BY <1>3
  <2> QED
    BY <1>3, <1>6, <1>7, <2>1, <2>2, <2>3, <2>4, <2>5, <2>6 DEF RecordWritten, ramVars
<1>15. MirrorScanned' /\ MirrorWritten' /\ MirrorComplete' /\ Formatting'
  BY <1>7 DEF MirrorScanned, MirrorWritten, MirrorComplete, Formatting
<1>16. EraseBehind'
  BY <1>2, <1>6, <1>7 DEF IInv, EraseBehind, Live, ramVars
<1>17. Holder'
  BY <1>2, <1>6, <1>7 DEF IInv, Holder, Copying, OpType, ramVars
<1> QED
  BY <1>11, <1>12, <1>13, <1>14, <1>15, <1>16, <1>17 DEF IInv

LEMMA WriteMetaStep ==
  ASSUME IInv, WriteMeta
  PROVE  IInv'
<1> DEFINE n == Size(op.req)
           c == op.mt
           tag == TagOf(op.req, op.rec)
<1>1. /\ PageSize \in Nat /\ PageSize >= 3 /\ Bottom = PageSize - 1 /\ Addr = 0 .. PageSize - 1
  BY Sizes1
<1>2. /\ FlashTyped /\ op \in OpType /\ Idle \in OpType /\ pc = "meta" /\ Live /\ op.req \in Req
      /\ active \in Page /\ BootPage(flash) = active /\ PageSound(flash[active], lastMeta[active])
      /\ lastMeta[active] \in Int /\ lastMeta \in [Page -> Addr \cup {EmptyMeta}]
  BY TypeFacts DEF IInv, WriteMeta, Live, ActiveSound, Holder, PageSound, TypeOK
<1>3. /\ op.k = n /\ n \in Nat /\ n >= 1
      /\ lastMeta[active] < op.mt /\ FirstMeta <= op.mt /\ op.mt + 1 < op.rec
      /\ op.rec + n <= Bottom
      /\ lastMeta[active] >= FirstMeta => op.rec + n <= flash[active][lastMeta[active]].off
      /\ \A a \in FirstMeta .. op.mt - 1 : flash[active][a] # Blank
      /\ flash[active][op.mt] = Blank
      /\ \A j \in 0 .. n - 1 : flash[active][op.rec + j] \in Val
  BY <1>2, Requests DEF IInv, RecordWritten
<1>4. c \in Addr /\ op.rec \in Addr /\ c \notin {Top, Bottom}
  BY <1>1, <1>2, <1>3 DEF OpType, FirstMeta, Top
<1>5. tag \in Meta
  BY <1>2, <1>4, Tags
<1>6. /\ DOMAIN flash' = Page /\ \A q \in Page : DOMAIN flash'[q] = Addr
      /\ flash'[active][c] = tag
      /\ \A b \in Addr \ {c} : flash'[active][b] = flash[active][b]
      /\ \A q \in Page \ {active} : flash'[q] = flash[q]
      /\ UNCHANGED <<ram, active, pageCounter, copyPending, erase>>
  <2>1. CellSet(active, c, tag)
    BY DEF WriteMeta, CellSet
  <2>2. UNCHANGED <<ram, active, pageCounter, copyPending, erase>>
    BY DEF WriteMeta
  <2> HIDE DEF c, tag
  <2> QED
    BY <1>2, <1>4, <2>1, <2>2, ProgramCell
<1>7. /\ op' = Idle
      /\ pc' \in {"drain", "ready"} /\ by' \in {"idle", "none"}
      /\ lastMeta' = [lastMeta EXCEPT ![active] = c]
  BY DEF WriteMeta
<1>8. PageSound(flash'[active], c)
  <2>1. /\ op.rec \in Addr /\ op.mt \in Addr /\ PageTyped(flash[active])
        /\ flash'[active][op.mt] = TagOf(op.req, op.rec)
        /\ \A a \in Addr \ {op.mt} : flash'[active][a] = flash[active][a]
    BY <1>2, <1>4, <1>6 DEF FlashTyped
  <2> DEFINE g == flash'[active]
             last == lastMeta[active]
  <2>2. /\ g[op.mt] = TagOf(op.req, op.rec)
        /\ \A a \in Addr \ {op.mt} : g[a] = flash[active][a]
        /\ PageSound(flash[active], last) /\ last < op.mt
        /\ last >= FirstMeta => op.rec + Size(op.req) <= flash[active][last].off
    BY <1>2, <1>3, <2>1
  <2> HIDE DEF g, last
  <2>3. PageSound(g, op.mt)
    BY <1>2, <1>3, <2>1, <2>2, SoundTag, SMTT(30)
  <2> QED
    BY <2>3 DEF g
<1>9. BootPage(flash') = active
  <2>1. Top \in Addr \ {c} /\ Bottom \in Addr \ {c} /\ Other(active) \in Page \ {active}
    BY <1>1, <1>2, <1>4 DEF Top, Other, Page
  <2> HIDE DEF c
  <2> QED
    BY <1>2, <1>6, <2>1, ChosenKept
<1>10. FlashTyped'
  <2>1. PageTyped(flash'[active])
    <3>1. PageTyped(flash[active]) /\ DOMAIN flash'[active] = Addr /\ Top \in Addr /\ Bottom \in Addr
      BY <1>1, <1>2, <1>6 DEF FlashTyped, Top
    <3> HIDE DEF c, tag
    <3> QED
      BY <1>4, <1>5, <1>6, <3>1 DEF PageTyped
  <2> QED
    BY <1>2, <1>6, <2>1 DEF FlashTyped
<1>11. queue' \in Seq(Req) /\ Len(queue') <= QueueSize
  <2>1. queue \in Seq(Req) /\ Len(queue) <= QueueSize /\ QueueSize \in Nat
    BY Sizes1 DEF IInv, TypeOK
  <2>2. /\ by = "idle" => queue # <<>>
        /\ by \in {"full", "fullAgain"} => op.hold \in Req /\ Len(queue) < QueueSize
    BY <1>2 DEF IInv, Holder
  <2>3. /\ by = "idle" => queue' = Tail(queue)
        /\ by \in {"full", "fullAgain"} => queue' = Append(queue, op.hold)
        /\ by \notin {"idle", "full", "fullAgain"} => queue' = queue
    BY DEF WriteMeta
  <2> QED
    BY <2>1, <2>2, <2>3
<1> HIDE DEF c, tag
<1>12. TypeOK'
  <2>1. lastMeta' \in [Page -> Addr \cup {EmptyMeta}]
    BY <1>2, <1>4, <1>7
  <2> QED
    BY <1>2, <1>6, <1>7, <1>10, <1>11, <2>1
    DEF IInv, TypeOK, FlashTyped, PageTyped, OpType, Programming
<1>13. ValidSound'
  BY <1>2, <1>4, <1>6, <1>8 DEF IInv, ValidSound
<1>14. ActiveSound'
  <2>1. flash'[active][Top] = flash[active][Top]
    BY <1>1, <1>4, <1>6 DEF Top
  <2> QED
    BY <1>2, <1>6, <1>7, <1>8, <1>9, <2>1 DEF IInv, ActiveSound
<1>15. RecordWritten' /\ MirrorScanned' /\ MirrorWritten' /\ MirrorComplete' /\ Formatting' /\ Holder'
  BY <1>7 DEF RecordWritten, MirrorScanned, MirrorWritten, MirrorComplete, Formatting, Holder, Copying
<1>16. EraseBehind'
  BY <1>2, <1>6, <1>7 DEF IInv, EraseBehind, Live
<1> QED
  BY <1>12, <1>13, <1>14, <1>15, <1>16 DEF IInv

(* An erase, complete or not, validates no page.                           *)
LEMMA AnyErased ==
  ASSUME FlashTyped, ValidSound, NEW p \in Page, NEW s, NEW v \in {Blank, Torn}, SectorSet(p, s, v)
  PROVE  FlashTyped' /\ ValidSound' /\ (ValidPage(flash'[p]) => ValidPage(flash[p]))
<1>1. /\ FlashTyped'
      /\ \A q \in Page \ {p} : flash'[q] = flash[q]
      /\ ValidPage(flash'[p]) => \A a \in Addr : flash'[p][a] = flash[p][a]
  BY EraseCells
<1>2. Top \in Addr /\ Bottom \in Addr
  BY Sizes1 DEF Top
<1>3. ValidPage(flash'[p]) => ValidPage(flash[p])
  BY <1>1, <1>2 DEF ValidPage
<1>4. ASSUME NEW q \in Page, ValidPage(flash'[q])
      PROVE  \E last \in Addr \cup {EmptyMeta} : PageSound(flash'[q], last)
  <2>1. CASE q = p
    <3>1. PICK last \in Addr \cup {EmptyMeta} : PageSound(flash[p], last)
      BY <1>3, <1>4, <2>1 DEF ValidSound
    <3>2. PageTyped(flash[p])
      BY DEF FlashTyped
    <3>3. PageSound(flash'[p], last)
      BY <1>1, <1>4, <2>1, <3>1, <3>2, SameSound
    <3> QED
      BY <2>1, <3>3
  <2>2. CASE q # p
    BY <1>1, <1>4, <2>2 DEF ValidSound
  <2> QED
    BY <2>1, <2>2
<1> QED
  BY <1>1, <1>3, <1>4 DEF ValidSound

(* An erase of cells of the page that is not in use.                       *)
LEMMA UnusedErased ==
  ASSUME IInv, Live, NEW p \in Page, p # active, NEW s, NEW v \in {Blank, Torn}, SectorSet(p, s, v)
  PROVE  /\ FlashTyped' /\ ValidSound' /\ BootPage(flash') = active
         /\ flash'[active] = flash[active]
<1>1. /\ FlashTyped /\ active \in Page /\ BootPage(flash) = active
  BY TypeFacts DEF IInv, Live, ActiveSound
<1>2. /\ FlashTyped'
      /\ \A q \in Page \ {p} : flash'[q] = flash[q]
      /\ ValidPage(flash'[p]) => \A a \in Addr : flash'[p][a] = flash[p][a]
  BY <1>1, EraseCells
<1>3. p = Other(active) /\ Top \in Addr /\ Bottom \in Addr
  BY <1>1, Sizes1 DEF Page, Other, Top
<1>4. ValidSound' /\ (ValidPage(flash'[p]) => ValidPage(flash[p]))
  BY <1>1, AnyErased DEF IInv
<1>6. BootPage(flash') = active
  BY <1>1, <1>2, <1>3, <1>4, ChosenKept
<1> QED
  BY <1>1, <1>2, <1>4, <1>6

(* The last dirty sector of a page is erased.                              *)
LEMMA LastDirtySector ==
  ASSUME NEW f, Cardinality(DirtySectors(f)) = 1
  PROVE  DirtySectors(f) = {Min(DirtySectors(f))}
<1>1. PICK s : DirtySectors(f) = {s}
  BY DirtySectorsFinite, FS_Singleton
<1>2. s \in Nat
  BY <1>1, DirtySectorsFinite
<1>3. Min({s}) \in {s}
  BY <1>2, LeastElement
<1> QED
  BY <1>1, <1>3

LEMMA EraseMirrorStep ==
  ASSUME IInv, EraseMirror
  PROVE  IInv'
<1> DEFINE s == Min(DirtySectors(Mirror))
<1>1. /\ pc = "blank" /\ Live /\ FlashTyped /\ active \in Page
      /\ Other(active) \in Page /\ Other(active) # active
  BY TypeFacts DEF IInv, EraseMirror, Live, ActiveSound, Page, Other
<1>2. /\ SectorSet(Other(active), s, Blank)
      /\ pc' \in {"scan", "blank"}
      /\ pc' = "scan" => Cardinality(DirtySectors(Mirror)) = 1
      /\ UNCHANGED <<ram, ramVars, by, op, bounds>>
  BY DEF EraseMirror, EraseDirty, Mirror, SectorSet
<1> HIDE DEF s
<1>3. FlashTyped' /\ ValidSound' /\ BootPage(flash') = active /\ flash'[active] = flash[active]
  BY <1>1, <1>2, UnusedErased
<1>4. TypeOK'
  BY <1>2, <1>3 DEF IInv, TypeOK, FlashTyped, PageTyped, ramVars
<1>5. ActiveSound'
  BY <1>1, <1>2, <1>3 DEF IInv, ActiveSound, Live, ramVars
<1>6. MirrorScanned'
  <2>1. op'.src <= lastMeta'[active'] /\ op'.mt = FirstMeta /\ op'.rec = Bottom
    BY <1>1, <1>2 DEF IInv, MirrorScanned, ramVars
  <2>2. ASSUME pc' = "scan"
        PROVE  IsBlank(Mirror')
    <3>1. DirtySectors(Mirror) = {s}
      BY <1>2, <2>2, LastDirtySector DEF s
    <3>2. IsBlank(flash'[Other(active)])
      BY <1>1, <1>2, <3>1, EraseCells DEF Mirror
    <3> QED
      BY <1>2, <3>2 DEF Mirror, ramVars
  <2>3. SinglesLast(Mirror, FirstMeta)'
    BY DEF SinglesLast, FirstMeta
  <2> QED
    BY <2>1, <2>2, <2>3, CopyOnBlank DEF MirrorScanned
<1>7. RecordWritten' /\ MirrorWritten' /\ MirrorComplete' /\ Formatting'
  BY <1>2 DEF RecordWritten, MirrorWritten, MirrorComplete, Formatting
<1>8. EraseBehind' /\ Holder'
  BY <1>1, <1>2 DEF IInv, EraseBehind, Holder, Live, Copying, ramVars
<1> QED
  BY <1>3, <1>4, <1>5, <1>6, <1>7, <1>8 DEF IInv

LEMMA ErasePageStep ==
  ASSUME IInv, EraseOldPage \/ EraseSector
  PROVE  IInv'
<1>1. /\ pc \in {"wipe", "sector"} /\ Live /\ FlashTyped /\ Idle \in OpType /\ op \in OpType
      /\ active \in Page /\ erase.pending /\ erase.page = Other(active)
      /\ erase.page \in Page /\ erase.page # active
      /\ lastMeta \in [Page -> Addr \cup {EmptyMeta}]
      /\ erase \in [pending : BOOLEAN, page : Page, sector : 0 .. 2]
      /\ pc = "wipe" => by = "syncAgain" /\ op.req \in Req
  BY TypeFacts DEF IInv, TypeOK, EraseOldPage, EraseSector, Live, ActiveSound, EraseBehind, Holder, Page, Other
<1>2. /\ UNCHANGED flash \/ \E s : SectorSet(erase.page, s, Blank)
      /\ UNCHANGED lastMeta \/ lastMeta' = [lastMeta EXCEPT ![erase.page] = EmptyMeta]
      /\ erase' \in [pending : BOOLEAN, page : Page, sector : 0 .. 2] /\ erase'.page = erase.page
      /\ \/ pc' = "wipe" /\ erase'.pending /\ UNCHANGED <<by, op>>
         \/ pc' = "again" /\ UNCHANGED <<by, op>>
         \/ pc' = "ready" /\ by' = "none" /\ op' = Idle
      /\ pc = "sector" => pc' = "ready"
      /\ UNCHANGED <<ram, active, pageCounter, copyPending, queue>>
  <2>1. CASE EraseOldPage
    <3>1. pc = "wipe" /\ EraseDirty(erase.page) /\ UNCHANGED <<ram, active, pageCounter, copyPending, queue, by, op>>
      BY <2>1 DEF EraseOldPage
    <3>2. \E s : SectorSet(erase.page, s, Blank)
      BY <3>1 DEF EraseDirty, SectorSet
    <3>3. \/ /\ lastMeta' = [lastMeta EXCEPT ![erase.page] = EmptyMeta]
             /\ erase' = [erase EXCEPT !.pending = FALSE] /\ pc' = "again"
          \/ UNCHANGED <<lastMeta, erase, pc>>
      BY <2>1 DEF EraseOldPage
    <3> QED
      BY <1>1, <3>1, <3>2, <3>3
  <2>2. CASE EraseSector
    <3>1. /\ pc = "sector" /\ pc' = "ready" /\ by' = "none" /\ op' = Idle
          /\ UNCHANGED <<ram, active, pageCounter, copyPending, queue>>
      BY <2>2 DEF EraseSector
    <3>2. \/ /\ erase.sector < 2
             /\ SectorSet(erase.page, erase.sector, Blank)
             /\ erase' = [erase EXCEPT !.sector = erase.sector + 1]
             /\ UNCHANGED lastMeta
          \/ /\ lastMeta' = [lastMeta EXCEPT ![erase.page] = EmptyMeta]
             /\ erase' = [erase EXCEPT !.pending = FALSE]
             /\ UNCHANGED flash
      BY <2>2 DEF EraseSector, SectorSet
    <3>3. /\ erase' \in [pending : BOOLEAN, page : Page, sector : 0 .. 2] /\ erase'.page = erase.page
      <4>1. erase.sector \in 0 .. 2 /\ (erase.sector < 2 => erase.sector + 1 \in 0 .. 2)
        BY <1>1
      <4>2. CASE erase.sector < 2 /\ erase' = [erase EXCEPT !.sector = erase.sector + 1]
        BY <1>1, <4>1, <4>2
      <4>3. CASE erase' = [erase EXCEPT !.pending = FALSE]
        BY <1>1, <4>3
      <4> QED
        BY <3>2, <4>2, <4>3
    <3>4. UNCHANGED flash \/ \E s : SectorSet(erase.page, s, Blank)
      BY <3>2
    <3>5. UNCHANGED lastMeta \/ lastMeta' = [lastMeta EXCEPT ![erase.page] = EmptyMeta]
      BY <3>2
    <3> QED
      BY <3>1, <3>3, <3>4, <3>5
  <2> QED
    BY <2>1, <2>2
<1>3. FlashTyped' /\ ValidSound' /\ BootPage(flash') = active /\ flash'[active] = flash[active]
  <2>1. CASE UNCHANGED flash
    BY <1>1, <2>1 DEF IInv, ValidSound, ActiveSound, FlashTyped, PageTyped
  <2>2. ASSUME NEW s, SectorSet(erase.page, s, Blank)
        PROVE  FlashTyped' /\ ValidSound' /\ BootPage(flash') = active /\ flash'[active] = flash[active]
    BY <1>1, <2>2, UnusedErased
  <2> QED
    BY <1>2, <2>1, <2>2
<1>4. lastMeta' \in [Page -> Addr \cup {EmptyMeta}] /\ lastMeta'[active] = lastMeta[active]
  BY <1>1, <1>2
<1>5. TypeOK'
  BY <1>1, <1>2, <1>3, <1>4 DEF IInv, TypeOK, FlashTyped, PageTyped, OpType
<1>6. pc' \in {"wipe", "again", "ready"}
  BY <1>2
<1>7. ActiveSound'
  BY <1>1, <1>2, <1>3, <1>4, <1>6 DEF IInv, ActiveSound, Live
<1>8. RecordWritten' /\ MirrorScanned' /\ MirrorWritten' /\ MirrorComplete' /\ Formatting'
  BY <1>6 DEF RecordWritten, MirrorScanned, MirrorWritten, MirrorComplete, Formatting
<1>9. EraseBehind'
  BY <1>1, <1>2, <1>6 DEF EraseBehind, Live
<1>10. Holder'
  BY <1>1, <1>2, <1>6 DEF Holder, Copying
<1> QED
  BY <1>3, <1>5, <1>7, <1>8, <1>9, <1>10 DEF IInv
-----------------------------------------------------------------------------
(* The page copy.                                                          *)

(* The elements of a request that are not in a set add its cells to it.    *)
LEMMA RoomLeft ==
  ASSUME NEW r \in Req, NEW C \in SUBSET Elem, ElemsOf(r) \cap C = {}
  PROVE  /\ Cardinality(C) \in Nat
         /\ Cardinality(C \cup ElemsOf(r)) = Cardinality(C) + Size(r)
         /\ Cardinality(C) + Size(r) <= Cardinality(Elem)
<1>1. IsFiniteSet(ElemsOf(r)) /\ Cardinality(ElemsOf(r)) = Size(r) /\ Size(r) \in Nat
  BY RequestCells, Requests
<1>2. IsFiniteSet(C) /\ Cardinality(C) \in Nat
  BY FiniteElements, FS_Subset, FS_CardinalityType
<1>3. Cardinality(C \cup ElemsOf(r)) = Cardinality(C) + Size(r)
  <2>1. C \cap ElemsOf(r) = {}
    OBVIOUS
  <2>2. Cardinality(C \cup ElemsOf(r)) = Cardinality(C) + Cardinality(ElemsOf(r)) - Cardinality(C \cap ElemsOf(r))
    BY <1>1, <1>2, FS_Union
  <2>3. Cardinality(C \cap ElemsOf(r)) = 0
    BY <2>1, FS_EmptySet
  <2> QED
    BY <1>1, <1>2, <2>2, <2>3
<1>4. Cardinality(C \cup ElemsOf(r)) <= Cardinality(Elem)
  <2>1. C \cup ElemsOf(r) \subseteq Elem
    BY Requests
  <2> QED
    BY <2>1, FiniteElements, FS_Subset
<1> QED
  BY <1>2, <1>3, <1>4

(* The request a tag is copied as.                                         *)
LEMMA CopiedRequest ==
  ASSUME PageTyped(flash[active]), NEW a \in FirstMeta .. Bottom - 1, IsMeta(flash[active][a])
  PROVE  LET m == flash[active][a]
             r == CopiedReq(a)
         IN  /\ m \in Meta
             /\ r \in Req /\ r.e = m.e /\ (~r.all => r.i = m.i)
             /\ r.all <=> (m.all \/ FullSaves(m.e, a) # {})
<1> DEFINE m == flash[active][a]
<1>1. m \in Meta
  BY Tags, Sizes1 DEF PageTyped, FirstMeta, Top
<1>2. m.e \in Entry /\ m.i \in Nat \ {0} /\ m.i <= ElementsCount[m.e] /\ m.all \in BOOLEAN
  BY <1>1, Tags
<1>3. [e |-> m.e, i |-> 1, all |-> TRUE] \in Req /\ [e |-> m.e, i |-> m.i, all |-> FALSE] \in Req
  BY <1>2, RequestsOf
<1> QED
  BY <1>1, <1>3 DEF CopiedReq

(* The elements about to be copied are not on the mirror.                  *)
LEMMA NotYetCopied ==
  ASSUME PageTyped(flash[active]), NEW a \in FirstMeta .. Bottom - 1, IsMeta(flash[active][a]),
         ~IsRecordCopied(flash[active][a]), op.src \in Int, a <= op.src,
         op.mt \in Nat, SinglesLast(Mirror, op.mt), PageTyped(Mirror), op.mt <= Bottom
  PROVE  ElemsOf(CopiedReq(a)) \cap Covered(Mirror, op.mt) = {}
<1> DEFINE m == flash[active][a]
           r == CopiedReq(a)
<1>1. /\ m \in Meta /\ r \in Req /\ r.e = m.e /\ (~r.all => r.i = m.i)
      /\ r.all <=> (m.all \/ FullSaves(m.e, a) # {})
  BY CopiedRequest
<1>2. ElemsOf(r) = {x \in Elem : x[1] = r.e /\ (r.all \/ x[2] = r.i)} /\ r.all \in BOOLEAN /\ m.all \in BOOLEAN
  BY <1>1, Requests, Tags
<1> HIDE DEF m, r
<1>3. ASSUME NEW x \in Elem, x[1] = r.e, r.all \/ x[2] = r.i,
             NEW b \in FirstMeta .. op.mt - 1, Covers(Mirror[b], x)
      PROVE  FALSE
  <2> DEFINE d == Mirror[b]
  <2>1. IsMeta(d) /\ d.e = m.e /\ (d.all \/ d.i = x[2])
    BY <1>1, <1>3 DEF Covers
  <2>2. ~d.all /\ (m.all \/ d.i # m.i)
    BY <2>1 DEF IsRecordCopied, Mirror, m
  <2>3. FullSaves(m.e, op.src) = {}
    BY <2>1, <2>2 DEF SinglesLast
  <2>4. FullSaves(m.e, a) = {}
    BY <2>3, Sizes1 DEF FullSaves, FirstMeta
  <2>5. ~m.all
    <3>1. ~(m.all /\ a \in FullSaves(m.e, a))
      BY <2>4
    <3> QED
      BY <3>1, Sizes1 DEF FullSaves, m, FirstMeta
  <2> QED
    BY <1>1, <1>3, <2>1, <2>2, <2>4, <2>5
<1> QED
  BY <1>2, <1>3 DEF Covered, r

(* A blank page with the copies on it is a sound page.                     *)
LEMMA CopiedSound ==
  ASSUME NEW f, NEW mt \in Nat, NEW rec \in Nat, CopiedPart(f, mt, rec),
         \A a \in mt .. rec - 1 : f[a] = Blank
  PROVE  PageSound(f, IF mt = FirstMeta THEN EmptyMeta ELSE mt - 1)
<1> DEFINE last == IF mt = FirstMeta THEN EmptyMeta ELSE mt - 1
<1>1. /\ PageSize \in Nat /\ PageSize >= 3 /\ Bottom = PageSize - 1
  BY Sizes1
<1>2. /\ 1 <= mt /\ mt < rec /\ rec <= Bottom
      /\ \A a \in 1 .. mt - 1 : IsMeta(f[a]) /\ f[a].off >= rec /\ RecordAt(f, f[a])
      /\ mt > 1 => f[mt - 1].off = rec
      /\ \A a \in rec .. Bottom - 1 : f[a] \in Val
  BY DEF CopiedPart, FirstMeta
<1>3. /\ last = (IF mt = 1 THEN -1 ELSE mt - 1) /\ last \in -1 .. Bottom - 1
  BY <1>1, <1>2 DEF EmptyMeta, FirstMeta
<1> HIDE DEF last
<1>4. ASSUME NEW a \in 1 .. Bottom - 1
      PROVE  IF a <= last THEN f[a] # Blank ELSE ~IsMeta(f[a])
  <2>1. CASE a <= mt - 1
    BY <1>2, <1>3, <2>1 DEF IsMeta
  <2>2. CASE a \in mt .. rec - 1
    BY <1>2, <1>3, <2>2 DEF IsMeta
  <2>3. CASE a >= rec
    BY <1>1, <1>2, <1>3, <2>3 DEF IsMeta
  <2> QED
    BY <2>1, <2>2, <2>3
<1>5. (last = -1) <=> (f[1] = Blank)
  BY <1>1, <1>2, <1>3 DEF IsMeta
<1>6. last >= 1 => IsMeta(f[last]) /\ f[last].off > last + 1
  BY <1>1, <1>2, <1>3
<1>7. \A a \in 1 .. last : a \in 1 .. mt - 1 /\ last >= 1 /\ f[last].off = rec
  BY <1>1, <1>2, <1>3
<1>8. PageSound(f, last)
  BY <1>2, <1>3, <1>4, <1>5, <1>6, <1>7 DEF PageSound, FirstMeta, EmptyMeta
<1> QED
  BY <1>8 DEF last

LEMMA CopyFacts ==
  ASSUME IInv, Copying
  PROVE  /\ FlashTyped /\ op \in OpType /\ Live
         /\ active \in Page /\ Other(active) \in Page /\ Other(active) # active
         /\ BootPage(flash) = active /\ PageSound(flash[active], lastMeta[active])
         /\ lastMeta \in [Page -> Addr \cup {EmptyMeta}] /\ pageCounter \in Nat
         /\ pageCounter = flash[active][Top] + IF pc \in {"top", "bottom"} THEN 1 ELSE 0
         /\ PageTyped(flash[active]) /\ PageTyped(Mirror)
         /\ by \in {"idle", "sync", "full", "boot"}
<1>1. TypeOK /\ Live /\ FlashTyped /\ op \in OpType
  BY TypeFacts DEF IInv, Copying, Live
<1>2. active \in Page /\ Other(active) \in Page /\ Other(active) # active
  BY <1>1 DEF IInv, ActiveSound, Other, Page
<1> QED
  BY <1>1, <1>2 DEF IInv, ActiveSound, TypeOK, FlashTyped, Mirror, Holder

LEMMA ScanStep ==
  ASSUME IInv, Scan
  PROVE  IInv'
<1> DEFINE todo == {a \in FirstMeta .. op.src : Copyable(a)}
<1>1. /\ PageSize \in Nat /\ PageSize >= 3 /\ Bottom = PageSize - 1 /\ Addr = 0 .. PageSize - 1
  BY Sizes1
<1>2. /\ FlashTyped /\ op \in OpType /\ pc = "scan" /\ Live
      /\ active \in Page /\ Other(active) \in Page /\ Other(active) # active
      /\ BootPage(flash) = active /\ PageSound(flash[active], lastMeta[active])
      /\ lastMeta \in [Page -> Addr \cup {EmptyMeta}] /\ pageCounter \in Nat
      /\ pageCounter = flash[active][Top]
      /\ PageTyped(flash[active]) /\ PageTyped(Mirror)
      /\ UNCHANGED <<flash, ram, active, copyPending, erase, queue, by, bounds>>
  <2>1. pc = "scan" /\ Copying /\ UNCHANGED <<flash, ram, active, copyPending, erase, queue, by, bounds>>
    BY DEF Scan, Copying
  <2>2. flash[active][Top] \in Nat
    <3>1. ValidPage(flash[active]) /\ PageTyped(flash[active])
      BY <2>1, CopyFacts, ChosenValid
    <3> QED
      BY <3>1 DEF ValidPage, PageTyped
  <2> QED
    BY <2>1, <2>2, CopyFacts
<1>3. /\ CopiedPart(Mirror, op.mt, op.rec) /\ RoomUsed(Mirror, op.mt, op.rec) /\ SinglesLast(Mirror, op.mt)
      /\ \A a \in {Top, Bottom} \cup (op.mt .. op.rec - 1) : Mirror[a] = Blank
      /\ op.src <= lastMeta[active]
  BY <1>2 DEF IInv, MirrorScanned
<1>4. /\ op.mt \in Nat /\ op.rec \in Nat /\ op.src \in Int /\ op.src <= Bottom - 1
      /\ 1 <= op.mt /\ op.mt < op.rec /\ op.rec <= Bottom
  BY <1>1, <1>2, <1>3 DEF OpType, CopiedPart, FirstMeta, EmptyMeta, PageSound
<1>5. CASE todo # {}
  <2>1. PICK src \in Nat : src = Max(todo) /\ src \in FirstMeta .. op.src /\ Copyable(src)
    <3>1. todo \in SUBSET Nat /\ \A a \in todo : a <= Bottom
      BY <1>1, <1>4 DEF FirstMeta
    <3>2. Max(todo) \in todo
      <4> HIDE DEF todo
      <4>1. Bottom \in Nat
        BY <1>1
      <4> QED
        BY <1>5, <3>1, <4>1, GreatestElement
    <3> QED
      BY <3>1, <3>2
  <2> DEFINE r0 == CopiedReq(src)
  <2>2. /\ op' = [op EXCEPT !.src = src, !.rec = @ - Size(r0), !.k = 0]
        /\ pc' = "copyData" /\ UNCHANGED <<lastMeta, pageCounter>>
    BY <1>5, <2>1 DEF Scan
  <2> HIDE DEF todo
  <2>3. src \in FirstMeta .. Bottom - 1 /\ IsMeta(flash[active][src]) /\ ~IsRecordCopied(flash[active][src])
    BY <1>1, <1>4, <2>1 DEF Copyable, FirstMeta
  <2>4. PICK r \in Req : r = CopiedReq(src)
    BY <1>2, <2>3, CopiedRequest
  <2> DEFINE n == Size(r)
  <2>14. n \in Nat /\ n >= 1
    BY <2>4, Requests
  <2>15. op' = [op EXCEPT !.src = src, !.rec = @ - n, !.k = 0]
    BY <2>2, <2>4
  <2>5. ElemsOf(r) \cap Covered(Mirror, op.mt) = {}
    BY <1>1, <1>2, <1>3, <1>4, <2>1, <2>3, <2>4, NotYetCopied
  <2> DEFINE C == Cardinality(Covered(Mirror, op.mt))
  <2>6. C \in Nat /\ C + n <= Cardinality(Elem)
    <3>1. Covered(Mirror, op.mt) \in SUBSET Elem
      BY DEF Covered
    <3> QED
      BY <2>4, <2>5, <3>1, RoomLeft
  <2>7. op.rec - n \in Addr /\ op.mt < op.rec - n /\ op.rec - n <= op.rec
    <3> DEFINE E == Cardinality(Elem)
    <3>1. op.mt - 1 <= C /\ Bottom - op.rec = C
      BY <1>3 DEF RoomUsed, FirstMeta
    <3>2. E \in Nat /\ 2 * E + 1 <= PageSize - 2 /\ C + n <= E
      BY <2>6, Sizes1
    <3> HIDE DEF C, n, E
    <3>3. op.rec - n = Bottom - C - n
      BY <1>1, <1>4, <2>6, <2>14, <3>1, SMTT(30)
    <3> QED
      BY <1>1, <1>4, <2>14, <2>6, <3>1, <3>2, <3>3, SMTT(30)
  <2> HIDE DEF C, n
  <2>8. op' \in OpType /\ op'.src = src /\ op'.rec = op.rec - n /\ op'.k = 0 /\ op'.mt = op.mt
        /\ op'.req = op.req /\ op'.hold = op.hold
    <3>1. src \in Addr
      BY <1>1, <2>3 DEF FirstMeta
    <3> QED
      BY <1>2, <2>15, <3>1, <2>7 DEF OpType
  <2>9. TypeOK'
    BY <1>2, <2>2, <2>8 DEF IInv, TypeOK, OpType, Programming
  <2>10. ValidSound' /\ ActiveSound' /\ EraseBehind'
    BY <1>2, <2>2 DEF IInv, ValidSound, ActiveSound, EraseBehind, Live
  <2>11. MirrorWritten'
    <3>1. CopiedReq(src)' = r /\ Size(r) = n
      BY <1>2, <2>4 DEF CopiedReq, FullSaves, n
    <3>2. SinglesLast(Mirror, op.mt)'
      <4>2. \A e : FullSaves(e, src) \subseteq FullSaves(e, op.src)
        BY <1>4, <2>1 DEF FullSaves, FirstMeta
      <4>3. \A e : FullSaves(e, src)' = FullSaves(e, src)
        BY <1>2 DEF FullSaves
      <4> QED
        BY <1>2, <1>3, <2>8, <4>2, <4>3 DEF SinglesLast, Mirror
    <3>3. ~IsRecordCopied(flash[active][src])'
      BY <1>2, <2>3, <2>8 DEF IsRecordCopied
    <3>4. op'.src \in FirstMeta .. lastMeta[active]
      <4>1. lastMeta[active] \in Int
        BY <1>2 DEF PageSound
      <4> QED
        BY <1>3, <1>4, <2>1, <2>8, <4>1 DEF FirstMeta
    <3>5. op'.rec + n = op.rec
      BY <1>4, <2>14, <2>8
    <3>6. \A a \in {Top, Bottom} \cup (op.mt .. op'.rec - 1) \cup (op'.rec + 0 .. op'.rec + n - 1) :
             Mirror[a] = Blank
      <4>1. \A a \in (op.mt .. op'.rec - 1) \cup (op'.rec + 0 .. op'.rec + n - 1) : a \in op.mt .. op.rec - 1
        BY <1>4, <2>14, <2>7, <2>8
      <4> QED
        BY <1>3, <4>1
    <3>7. 0 \in 0 .. n /\ (0 = n <=> FALSE) /\ \A a \in op'.rec .. op'.rec + 0 - 1 : Mirror[a] \in Val
      BY <1>4, <2>14, <2>7, <2>8
    <3>8. Mirror' = Mirror
      BY <1>2 DEF Mirror
    <3> QED
      BY <1>2, <1>3, <2>2, <2>3, <2>4, <2>14, <2>7, <2>8, <3>1, <3>2, <3>3, <3>4, <3>5, <3>6, <3>7, <3>8 DEF MirrorWritten
  <2>12. RecordWritten' /\ MirrorScanned' /\ MirrorComplete' /\ Formatting'
    BY <2>2 DEF RecordWritten, MirrorScanned, MirrorComplete, Formatting
  <2>13. Holder'
    BY <1>2, <2>2, <2>8 DEF IInv, Holder, Copying
  <2> QED
    BY <2>9, <2>10, <2>11, <2>12, <2>13 DEF IInv
<1>6. CASE todo = {}
  <2> DEFINE last == IF op.mt = FirstMeta THEN EmptyMeta ELSE op.mt - 1
  <2>1. /\ lastMeta' = [lastMeta EXCEPT ![Other(active)] = last]
        /\ pageCounter' = pageCounter + 1 /\ pc' = "top" /\ UNCHANGED op
    BY <1>6 DEF Scan
  <2>2. PageSound(Mirror, last)
    BY <1>3, <1>4, CopiedSound
  <2>3. last \in Addr \cup {EmptyMeta}
    BY <1>1, <1>4 DEF FirstMeta
  <2> HIDE DEF last
  <2>4. /\ lastMeta' \in [Page -> Addr \cup {EmptyMeta}] /\ lastMeta'[Other(active)] = last
        /\ lastMeta'[active] = lastMeta[active]
    BY <1>2, <2>1, <2>3
  <2>5. TypeOK'
    BY <1>2, <2>1, <2>4 DEF IInv, TypeOK, Programming
  <2>6. ValidSound' /\ ActiveSound' /\ EraseBehind'
    BY <1>2, <2>1, <2>4 DEF IInv, ValidSound, ActiveSound, EraseBehind, Live
  <2>7. MirrorComplete'
    BY <1>2, <1>3, <2>1, <2>2, <2>4 DEF MirrorComplete, Mirror
  <2>8. RecordWritten' /\ MirrorScanned' /\ MirrorWritten' /\ Formatting'
    BY <2>1 DEF RecordWritten, MirrorScanned, MirrorWritten, Formatting
  <2>9. Holder'
    BY <1>2, <2>1 DEF IInv, Holder, Copying
  <2> QED
    BY <2>5, <2>6, <2>7, <2>8, <2>9 DEF IInv
<1> QED
  BY <1>5, <1>6

(* A cell of the mirror is programmed while its bottom counter is blank.   *)
LEMMA MirrorCell ==
  ASSUME IInv, Copying, NEW c \in Addr \ {Bottom}, NEW v, Mirror[Bottom] = Blank,
         v = Torn \/ (IF c = Top THEN v \in Nat ELSE v \in Val \cup Meta),
         CellSet(Other(active), c, v)
  PROVE  /\ FlashTyped' /\ ValidSound' /\ BootPage(flash') = active
         /\ flash'[active] = flash[active]
         /\ flash'[Other(active)][c] = v
         /\ \A b \in Addr \ {c} : flash'[Other(active)][b] = Mirror[b]
<1> DEFINE o == Other(active)
<1>1. /\ FlashTyped /\ active \in Page /\ o \in Page /\ o # active
      /\ BootPage(flash) = active /\ PageTyped(flash[o])
  BY CopyFacts DEF Mirror
<1>2. Top \in Addr /\ Bottom \in Addr
  BY Sizes1 DEF Top
<1> HIDE DEF o
<1>3. /\ DOMAIN flash' = Page /\ \A q \in Page : DOMAIN flash'[q] = Addr
      /\ flash'[o][c] = v
      /\ \A b \in Addr \ {c} : flash'[o][b] = flash[o][b]
      /\ \A q \in Page \ {o} : flash'[q] = flash[q]
  BY <1>1, ProgramCell DEF o
<1>4. PageTyped(flash'[o])
  BY <1>1, <1>2, <1>3 DEF PageTyped
<1>5. FlashTyped'
  BY <1>1, <1>3, <1>4 DEF FlashTyped
<1>6. flash'[o][Bottom] = Blank
  BY <1>2, <1>3 DEF Mirror, o
<1>7. ~ValidPage(flash'[o])
  BY <1>6 DEF ValidPage
<1>8. ValidSound'
  BY <1>3, <1>7 DEF IInv, ValidSound
<1>9. BootPage(flash') = active
  BY <1>1, <1>3, <1>7, ChosenKept DEF o
<1> QED
  BY <1>1, <1>3, <1>5, <1>8, <1>9 DEF o, Mirror

(* Page g is page f but for cell c, which is not one of a tag up to mt - 1 *)
(* or of a record from rec on.                                             *)
SameBut(f, g, c, mt, rec) == /\ c \in Addr /\ c \in {Top, Bottom} \cup (mt .. rec - 1)
                             /\ \A a \in Addr \ {c} : g[a] = f[a]

(* What was copied stays as it is.                                         *)
LEMMA CopiedKept ==
  ASSUME NEW f, NEW g, NEW mt \in Nat, NEW rec \in Nat, PageTyped(f), CopiedPart(f, mt, rec),
         NEW c, SameBut(f, g, c, mt, rec)
  PROVE  /\ CopiedPart(g, mt, rec) /\ Covered(g, mt) = Covered(f, mt)
         /\ \A a \in FirstMeta .. mt - 1 : g[a] = f[a]
<1>1. /\ PageSize \in Nat /\ PageSize >= 3 /\ Bottom = PageSize - 1 /\ Addr = 0 .. PageSize - 1
  BY Sizes1
<1>2. /\ 1 <= mt /\ mt < rec /\ rec <= Bottom
      /\ \A a \in 1 .. mt - 1 : IsMeta(f[a]) /\ f[a].off >= rec /\ RecordAt(f, f[a])
      /\ mt > 1 => f[mt - 1].off = rec
      /\ \A a \in rec .. Bottom - 1 : f[a] \in Val
  BY DEF CopiedPart, FirstMeta
<1>3. /\ \A a \in 1 .. mt - 1 : g[a] = f[a]
      /\ \A a \in rec .. Bottom - 1 : g[a] = f[a]
  BY <1>1, <1>2 DEF Top, SameBut
<1>4. ASSUME NEW a \in 1 .. mt - 1
      PROVE  RecordAt(g, g[a])
  <2>1. f[a] \in Meta /\ RecordAt(f, f[a]) /\ f[a].off >= rec /\ g[a] = f[a]
    BY <1>1, <1>2, <1>3, Tags DEF PageTyped, Top
  <2>2. f[a].off \in Addr /\ Size(f[a]) \in Nat
    BY <2>1, Tags
  <2>3. \A k \in 0 .. Size(f[a]) - 1 : g[f[a].off + k] = f[f[a].off + k]
    BY <1>1, <1>2, <1>3, <2>1, <2>2, SMTT(30) DEF RecordAt
  <2> QED
    BY <2>1, <2>3 DEF RecordAt
<1>5. CopiedPart(g, mt, rec)
  BY <1>1, <1>2, <1>3, <1>4 DEF CopiedPart, FirstMeta
<1> QED
  BY <1>3, <1>5 DEF Covered, FirstMeta

LEMMA CopyDataStep ==
  ASSUME IInv, CopyData
  PROVE  IInv'
<1> DEFINE c == op.rec + op.k
<1>1. /\ PageSize \in Nat /\ PageSize >= 3 /\ Bottom = PageSize - 1 /\ Addr = 0 .. PageSize - 1
  BY Sizes1
<1>2. /\ FlashTyped /\ op \in OpType /\ pc = "copyData" /\ Copying /\ Live
      /\ active \in Page /\ Other(active) \in Page /\ Other(active) # active
      /\ BootPage(flash) = active /\ PageSound(flash[active], lastMeta[active])
      /\ pageCounter = flash[active][Top]
      /\ PageTyped(flash[active]) /\ PageTyped(Mirror)
      /\ UNCHANGED <<ram, ramVars, by, bounds>>
  <2>1. pc = "copyData" /\ Copying /\ UNCHANGED <<ram, ramVars, by, bounds>>
    BY DEF CopyData, Copying
  <2>2. flash[active][Top] \in Nat
    <3>1. ValidPage(flash[active]) /\ PageTyped(flash[active])
      BY <2>1, CopyFacts, ChosenValid
    <3> QED
      BY <3>1 DEF ValidPage, PageTyped
  <2> QED
    BY <2>1, <2>2, CopyFacts
<1>3. PICK r \in Req : r = CopiedReq(op.src)
  BY <1>2 DEF IInv, MirrorWritten
<1> DEFINE n == Size(r)
<1>4. /\ op.src \in FirstMeta .. lastMeta[active] /\ IsMeta(flash[active][op.src])
      /\ op.k \in 0 .. n /\ op.k # n /\ n \in Nat
      /\ CopiedPart(Mirror, op.mt, op.rec + n)
      /\ RoomUsed(Mirror, op.mt, op.rec + n)
      /\ SinglesLast(Mirror, op.mt)
      /\ ~IsRecordCopied(flash[active][op.src])
      /\ op.mt < op.rec
      /\ \A a \in {Top, Bottom} \cup (op.mt .. op.rec - 1) \cup (op.rec + op.k .. op.rec + n - 1) :
           Mirror[a] = Blank
      /\ \A a \in op.rec .. op.rec + op.k - 1 : Mirror[a] \in Val
  BY <1>2, <1>3, Requests DEF IInv, MirrorWritten
<1>5. /\ op.mt \in Nat /\ op.rec \in Nat /\ lastMeta[active] \in -1 .. Bottom - 1
      /\ 1 <= op.mt /\ op.rec + n <= Bottom /\ op.k \in 0 .. n - 1
      /\ op.src \in 1 .. Bottom - 1 /\ op.src \in Nat
  BY <1>1, <1>2, <1>4 DEF OpType, CopiedPart, FirstMeta, PageSound
<1>6. /\ c \in Addr \ {Bottom, Top} /\ c \in op.mt .. op.rec + n - 1
      /\ op.rec + n \in Nat
  <2>1. PICK x \in Nat : x = op.rec
    BY <1>5
  <2>2. PICK y \in Nat : y = op.mt
    BY <1>5
  <2>3. PICK k \in 0 .. n - 1 : k = op.k
    BY <1>5
  <2>4. n \in Nat /\ 1 <= y /\ y < x /\ x + n <= Bottom
    BY <1>4, <1>5, <2>1, <2>2
  <2> HIDE DEF n
  <2>5. x + k \in Addr \ {Bottom, 0} /\ x + k \in y .. x + n - 1 /\ x + n \in Nat
    BY <1>1, <2>4
  <2> QED
    BY <2>1, <2>2, <2>3, <2>5 DEF Top
<1>7. PICK v \in Val : v = RestoredFrom(flash[active], op.src, Saved(r, op.k))
  <2> DEFINE x == Saved(r, op.k)
             m == flash[active][op.src]
  <2>1. /\ m \in Meta /\ r.e = m.e /\ (~r.all => r.i = m.i)
        /\ r.all <=> (m.all \/ FullSaves(m.e, op.src) # {})
    BY <1>2, <1>3, <1>4, <1>5, CopiedRequest DEF FirstMeta
  <2>2. x \in Elem /\ x[1] = r.e /\ (~r.all => x[2] = r.i)
    <3>1. x \in Elem
      BY <1>5, Requests
    <3> QED
      BY <3>1 DEF Saved
  <2>3. \E a \in FirstMeta .. op.src : Covers(flash[active][a], x)
    <3>1. CASE m.all \/ ~r.all
      <4>1. Covers(flash[active][op.src], x)
        BY <1>4, <2>1, <2>2, <3>1 DEF Covers
      <4> QED
        BY <1>5, <4>1 DEF FirstMeta
    <3>2. CASE r.all /\ ~m.all
      <4>1. PICK b \in FullSaves(m.e, op.src) : TRUE
        BY <2>1, <3>2
      <4> QED
        BY <2>1, <2>2, <4>1 DEF FullSaves, Covers
    <3> QED
      BY <3>1, <3>2, <1>3, Requests
  <2> HIDE DEF x
  <2>4. RestoredFrom(flash[active], op.src, x) \in Val
    BY <1>2, <1>4, <2>2, <2>3, RestoredValue
  <2> QED
    BY <2>4 DEF x
<1>8. /\ CellSet(Other(active), c, v)
      /\ op' = [op EXCEPT !.k = @ + 1]
      /\ pc' = IF op.k + 1 = n THEN "copyMeta" ELSE "copyData"
  BY <1>3, <1>7 DEF CopyData, CellSet
<1> HIDE DEF c
<1>9. /\ FlashTyped' /\ ValidSound' /\ BootPage(flash') = active
      /\ flash'[active] = flash[active]
      /\ flash'[Other(active)][c] = v
      /\ \A b \in Addr \ {c} : flash'[Other(active)][b] = Mirror[b]
  BY <1>2, <1>4, <1>6, <1>7, <1>8, MirrorCell
<1>10. op' \in OpType /\ op'.k = op.k + 1 /\ op'.src = op.src /\ op'.mt = op.mt /\ op'.rec = op.rec
       /\ op'.req = op.req /\ op'.hold = op.hold
  BY <1>2, <1>8 DEF OpType
<1>11. pc' \in {"copyData", "copyMeta"}
  BY <1>8
<1>12. TypeOK'
  BY <1>2, <1>9, <1>10, <1>11 DEF IInv, TypeOK, FlashTyped, PageTyped, OpType, Programming, ramVars
<1>13. ActiveSound' /\ EraseBehind'
  BY <1>2, <1>9, <1>11 DEF IInv, ActiveSound, EraseBehind, Live, ramVars
<1>14. MirrorWritten'
  <2>1. Mirror' = flash'[Other(active)]
    BY <1>2 DEF Mirror, ramVars
  <2> HIDE DEF n
  <2>11. \A b \in Addr \ {c} : Mirror'[b] = Mirror[b]
    BY <1>9, <2>1
  <2>12. n \in Nat /\ op.k \in Nat /\ op.k < n /\ op.mt < op.rec /\ op.rec + n <= Bottom
    BY <1>4, <1>5
  <2>2. /\ CopiedPart(Mirror', op.mt, op.rec + n) /\ Covered(Mirror', op.mt) = Covered(Mirror, op.mt)
        /\ \A a \in FirstMeta .. op.mt - 1 : Mirror'[a] = Mirror[a]
    <3>1. CopiedPart(Mirror, op.mt, op.rec + n) /\ PageTyped(Mirror) /\ op.mt \in Nat /\ op.rec + n \in Nat
      BY <1>2, <1>4, <1>5, <1>6
    <3> DEFINE e == op.rec + n
    <3>2. c \in Addr /\ c \in op.mt .. e - 1
      BY <1>5, <1>6, <2>12
    <3>3. CopiedPart(Mirror, op.mt, e) /\ e \in Nat
      BY <3>1
    <3> DEFINE g == Mirror'
    <3>5. \A b \in Addr \ {c} : g[b] = Mirror[b]
      BY <2>11
    <3> HIDE DEF e, g
    <3>6. SameBut(Mirror, g, c, op.mt, e)
      BY <3>2, <3>5 DEF SameBut
    <3>7. CopiedPart(g, op.mt, e) /\ Covered(g, op.mt) = Covered(Mirror, op.mt)
          /\ \A a \in FirstMeta .. op.mt - 1 : g[a] = Mirror[a]
      BY <3>1, <3>3, <3>6, CopiedKept
    <3>4. CopiedPart(Mirror', op.mt, e) /\ Covered(Mirror', op.mt) = Covered(Mirror, op.mt)
          /\ \A a \in FirstMeta .. op.mt - 1 : Mirror'[a] = Mirror[a]
      BY <3>7 DEF g
    <3> QED
      BY <3>4 DEF e
  <2>3. RoomUsed(Mirror', op.mt, op.rec + n)
    BY <1>4, <2>2 DEF RoomUsed
  <2>4. CopiedReq(op.src)' = r
    BY <1>2, <1>3, <1>9, <1>10 DEF CopiedReq, FullSaves, ramVars
  <2>5. SinglesLast(Mirror, op.mt)'
    <3>1. \A e : FullSaves(e, op.src)' = FullSaves(e, op.src)
      BY <1>2, <1>9, <1>10 DEF FullSaves, ramVars
    <3> QED
      BY <1>4, <1>10, <2>2, <3>1, ZenonT(60) DEF SinglesLast
  <2>6. ~IsRecordCopied(flash[active][op.src])'
    <3>1. flash'[active'][op'.src] = flash[active][op.src]
      BY <1>2, <1>9, <1>10 DEF ramVars
    <3>2. \A a \in FirstMeta .. op'.mt - 1 : flash'[Other(active')][a] = flash[Other(active)][a]
      BY <1>2, <1>10, <2>1, <2>2 DEF Mirror, ramVars
    <3> QED
      BY <1>4, <1>10, <3>1, <3>2 DEF IsRecordCopied
  <2>7. \A a \in {Top, Bottom} \cup (op.mt .. op.rec - 1) \cup (op.rec + (op.k + 1) .. op.rec + n - 1) :
           Mirror'[a] = Blank
    <3>1. \A a \in {Top, Bottom} \cup (op.mt .. op.rec - 1) \cup (op.rec + (op.k + 1) .. op.rec + n - 1) :
            /\ a \in Addr \ {c}
            /\ a \in {Top, Bottom} \cup (op.mt .. op.rec - 1) \cup (op.rec + op.k .. op.rec + n - 1)
      <4>1. \A a \in op.rec + (op.k + 1) .. op.rec + n - 1 : a \in Addr \ {c} /\ a \in op.rec + op.k .. op.rec + n - 1
        <5> SUFFICES ASSUME NEW a \in op.rec + (op.k + 1) .. op.rec + n - 1
                     PROVE  a \in Addr \ {c} /\ a \in op.rec + op.k .. op.rec + n - 1
          OBVIOUS
        <5>1. PICK x \in Nat : x = op.rec
          BY <1>5
        <5>2. PICK k \in Nat : k = op.k
          BY <1>5
        <5>3. a \in x + (k + 1) .. x + n - 1 /\ x + n <= Bottom /\ n \in Nat
          BY <1>4, <1>5, <5>1, <5>2
        <5>4. a \in Addr \ {x + k} /\ a \in x + k .. x + n - 1
          BY <1>1, <5>3
        <5> QED
          BY <5>1, <5>2, <5>4 DEF c
      <4>2. \A a \in op.mt .. op.rec - 1 : a \in Addr \ {c}
        BY <1>1, <1>5, <2>12, SMTT(30) DEF c
      <4>3. Top \in Addr \ {c} /\ Bottom \in Addr \ {c}
        BY <1>1, <1>6 DEF Top
      <4> QED
        BY <4>1, <4>2, <4>3
    <3> QED
      BY <1>4, <1>9, <2>1, <3>1
  <2>8. \A a \in op.rec .. op.rec + (op.k + 1) - 1 : Mirror'[a] \in Val
    <3>1. \A a \in op.rec .. op.rec + (op.k + 1) - 1 : a \in Addr /\ (a = c \/ a \in op.rec .. op.rec + op.k - 1)
      <4> SUFFICES ASSUME NEW a \in op.rec .. op.rec + (op.k + 1) - 1
                   PROVE  a \in Addr /\ (a = c \/ a \in op.rec .. op.rec + op.k - 1)
        OBVIOUS
      <4>1. op.rec \in Nat /\ a \in Int /\ op.rec <= a /\ a <= op.rec + op.k /\ PageSize \in Nat
            /\ op.k \in Nat /\ op.k < n /\ n \in Nat /\ op.rec + n <= PageSize - 1
        BY <1>1, <1>5, <2>12
      <4>2. a \in 0 .. PageSize - 1
        BY <4>1
      <4>3. a = op.rec + op.k \/ a \in op.rec .. op.rec + op.k - 1
        BY <4>1
      <4> QED
        BY <4>2, <4>3 DEF c, Addr
    <3> QED
      BY <1>4, <1>7, <1>9, <2>1, <3>1
  <2>9. IsMeta(flash[active][op.src])'
    BY <1>2, <1>4, <1>9, <1>10 DEF ramVars
  <2>10. op.k + 1 \in 0 .. n /\ (op.k + 1 = n <=> pc' = "copyMeta")
    <3>1. pc' = "copyMeta" <=> op.k + 1 = n
      BY <1>8
    <3> QED
      BY <2>12, <3>1
  <2> QED
    BY <1>2, <1>3, <1>4, <1>10, <2>2, <2>3, <2>4, <2>5, <2>6, <2>7, <2>8, <2>9, <2>10 DEF MirrorWritten, ramVars, n
<1>15. RecordWritten' /\ MirrorScanned' /\ MirrorComplete' /\ Formatting'
  BY <1>11 DEF RecordWritten, MirrorScanned, MirrorComplete, Formatting
<1>16. Holder'
  BY <1>2, <1>10, <1>11 DEF IInv, Holder, Copying, ramVars
<1> QED
  BY <1>9, <1>12, <1>13, <1>14, <1>15, <1>16 DEF IInv

(* The tag of a copied record joins the copied part.                       *)
LEMMA CopiedMore ==
  ASSUME NEW f, NEW g, NEW mt \in Nat, NEW rec \in Nat, NEW r \in Req, PageTyped(f),
         CopiedPart(f, mt, rec + Size(r)), RoomUsed(f, mt, rec + Size(r)),
         mt < rec, ElemsOf(r) \cap Covered(f, mt) = {},
         \A a \in rec .. rec + Size(r) - 1 : f[a] \in Val,
         g[mt] = TagOf(r, rec), \A a \in Addr \ {mt} : g[a] = f[a]
  PROVE  CopiedPart(g, mt + 1, rec) /\ RoomUsed(g, mt + 1, rec) /\ mt + 1 \in Addr
<1> DEFINE n == Size(r)
           end == rec + n
           C == Cardinality(Covered(f, mt))
           E == Cardinality(Elem)
<1>1. /\ PageSize \in Nat /\ PageSize >= 3 /\ Bottom = PageSize - 1 /\ Addr = 0 .. PageSize - 1
      /\ E \in Nat /\ 2 * E + 1 <= PageSize - 2
  BY Sizes1
<1>2. n \in Nat /\ n >= 1
  BY Requests
<1>3. /\ 1 <= mt /\ end <= Bottom /\ end \in Nat /\ mt < end
      /\ mt - 1 <= C /\ Bottom - end = C
  BY <1>2 DEF CopiedPart, RoomUsed, FirstMeta
<1>4. Covered(f, mt) \in SUBSET Elem
  BY DEF Covered
<1>5. /\ C \in Nat /\ C + n <= E
      /\ Cardinality(Covered(f, mt) \cup ElemsOf(r)) = C + n
  BY <1>4, RoomLeft
<1>6. rec \in Addr /\ mt \in Addr /\ mt + 1 < rec /\ mt + 1 \in Addr
  <2> HIDE DEF C, E, n
  <2>1. rec + n = end
    OBVIOUS
  <2> HIDE DEF end
  <2> QED
    BY <1>1, <1>2, <1>3, <1>5, <2>1
<1>7. /\ CopiedPart(g, mt, end) /\ Covered(g, mt) = Covered(f, mt)
      /\ \A a \in FirstMeta .. mt - 1 : g[a] = f[a]
  <2>1. SameBut(f, g, mt, mt, end)
    BY <1>3, <1>6 DEF SameBut
  <2>2. CopiedPart(f, mt, end)
    OBVIOUS
  <2> HIDE DEF end
  <2> QED
    BY <1>3, <2>1, <2>2, CopiedKept
<1>8. /\ g[mt] \in Meta /\ IsMeta(g[mt]) /\ g[mt].off = rec /\ Size(g[mt]) = n
      /\ g[mt].e = r.e /\ g[mt].i = r.i /\ g[mt].all = r.all
  BY <1>6, Tags
<1>9. \A a \in rec .. Bottom - 1 : g[a] \in Val
  <2>1. ASSUME NEW a \in rec .. end - 1
        PROVE  g[a] \in Val
    <3>1. a \in Addr \ {mt} /\ a \in rec .. rec + Size(r) - 1
      <4> HIDE DEF n
      <4> QED
          <5>1. a \in Int /\ rec <= a /\ a <= rec + n - 1
            BY <1>2, <2>1
          <5>5. mt < rec /\ rec + n <= Bottom /\ Bottom \in Int /\ n \in Int
            BY <1>1, <1>2, <1>3, <1>6
          <5>2. mt < a /\ a <= Bottom - 1
            BY <5>1, <5>5
          <5>3. a \in Addr \ {mt}
            BY <1>1, <1>6, <5>1, <5>2
          <5>4. a \in rec .. rec + n - 1
            BY <1>2, <5>1
          <5> QED
            BY <5>3, <5>4 DEF n
    <3> QED
      BY <3>1
  <2>2. \A a \in end .. Bottom - 1 : g[a] \in Val
    BY <1>7 DEF CopiedPart
  <2> HIDE DEF end
  <2> QED
    BY <1>1, <1>3, <1>6, <2>1, <2>2
<1>10. RecordAt(g, g[mt])
  <2>1. \A k \in 0 .. n - 1 : rec + k \in rec .. Bottom - 1
    <3> HIDE DEF n
    <3> QED
      BY <1>1, <1>2, <1>3, <1>6
  <2>2. rec + n <= Bottom
    BY <1>3
  <2> QED
    BY <1>8, <1>9, <2>1, <2>2 DEF RecordAt
<1>11. CopiedPart(g, mt + 1, rec)
  <2>1. ASSUME NEW a \in FirstMeta .. mt
        PROVE  IsMeta(g[a]) /\ g[a].off >= rec /\ RecordAt(g, g[a])
    <3>1. CASE a = mt
      BY <1>8, <1>10, <3>1
    <3>2. CASE a # mt
      <4>1. a \in FirstMeta .. mt - 1
        BY <2>1, <3>2 DEF FirstMeta
      <4>2. IsMeta(g[a]) /\ g[a].off >= end /\ RecordAt(g, g[a]) /\ g[a] = f[a]
        BY <1>7, <4>1 DEF CopiedPart
      <4>3. g[a].off \in Nat
        <5>1. a \in Addr \ {Top, Bottom}
          BY <1>1, <1>6, <4>1 DEF FirstMeta, Top
        <5>2. f[a] \in Meta
          BY <4>2, <5>1, Tags DEF PageTyped
        <5> QED
          BY <1>1, <4>2, <5>2, Tags
      <4> HIDE DEF n
      <4> QED
        BY <1>2, <4>2, <4>3
    <3> QED
      BY <3>1, <3>2
  <2>2. mt + 1 - 1 = mt /\ FirstMeta <= mt + 1 /\ rec <= Bottom
    BY <1>1, <1>3, <1>6 DEF FirstMeta
  <2> QED
    BY <1>6, <1>8, <1>9, <2>1, <2>2 DEF CopiedPart
<1>12. RoomUsed(g, mt + 1, rec)
  <2>1. Covered(g, mt + 1) = Covered(f, mt) \cup ElemsOf(r)
    <3>1. \A x \in Elem : Covers(g[mt], x) <=> x[1] = r.e /\ (r.all \/ x[2] = r.i)
      BY <1>8 DEF Covers
    <3>2. ElemsOf(r) = {x \in Elem : Covers(g[mt], x)}
      BY <3>1, Requests
    <3>3. FirstMeta .. mt + 1 - 1 = (FirstMeta .. mt - 1) \cup {mt}
      BY <1>3 DEF FirstMeta
    <3>4. Covered(g, mt + 1) = Covered(g, mt) \cup {x \in Elem : Covers(g[mt], x)}
      BY <3>3 DEF Covered
    <3> QED
      BY <1>7, <3>2, <3>4
  <2>2. Cardinality(Covered(g, mt + 1)) = C + n
    BY <1>5, <2>1
  <2>3. PICK w \in Nat : w = mt + 1
    OBVIOUS
  <2> DEFINE D == Cardinality(Covered(g, w))
  <2>4. D = C + n
    BY <2>2, <2>3
  <2> HIDE DEF C, D, n
  <2>7. w - FirstMeta <= C + n /\ Bottom - rec = C + n
    BY <1>1, <1>2, <1>3, <1>5, <2>3 DEF FirstMeta
  <2>5. w - FirstMeta <= D /\ Bottom - rec = D
    BY <2>4, <2>7
  <2>6. RoomUsed(g, w, rec)
    BY <2>5 DEF RoomUsed, D
  <2> QED
    BY <2>3, <2>6
<1> QED
  BY <1>6, <1>11, <1>12

LEMMA CopyMetaStep ==
  ASSUME IInv, CopyMeta
  PROVE  IInv'
<1>1. /\ PageSize \in Nat /\ PageSize >= 3 /\ Bottom = PageSize - 1 /\ Addr = 0 .. PageSize - 1
  BY Sizes1
<1>2. /\ FlashTyped /\ op \in OpType /\ pc = "copyMeta" /\ Copying /\ Live
      /\ active \in Page /\ Other(active) \in Page /\ Other(active) # active
      /\ BootPage(flash) = active /\ PageSound(flash[active], lastMeta[active])
      /\ pageCounter = flash[active][Top]
      /\ PageTyped(flash[active]) /\ PageTyped(Mirror)
      /\ UNCHANGED <<ram, ramVars, by, bounds>>
  <2>1. pc = "copyMeta" /\ Copying /\ UNCHANGED <<ram, ramVars, by, bounds>>
    BY DEF CopyMeta, Copying
  <2>2. flash[active][Top] \in Nat
    <3>1. ValidPage(flash[active]) /\ PageTyped(flash[active])
      BY <2>1, CopyFacts, ChosenValid
    <3> QED
      BY <3>1 DEF ValidPage, PageTyped
  <2> QED
    BY <2>1, <2>2, CopyFacts
<1>3. PICK r \in Req : r = CopiedReq(op.src)
  BY <1>2 DEF IInv, MirrorWritten
<1> DEFINE n == Size(r)
<1>4. /\ op.src \in FirstMeta .. lastMeta[active] /\ IsMeta(flash[active][op.src])
      /\ op.k = n /\ n \in Nat
      /\ CopiedPart(Mirror, op.mt, op.rec + n)
      /\ RoomUsed(Mirror, op.mt, op.rec + n)
      /\ SinglesLast(Mirror, op.mt)
      /\ ~IsRecordCopied(flash[active][op.src])
      /\ op.mt < op.rec
      /\ \A a \in {Top, Bottom} \cup (op.mt .. op.rec - 1) : Mirror[a] = Blank
      /\ \A a \in op.rec .. op.rec + op.k - 1 : Mirror[a] \in Val
  BY <1>2, <1>3, Requests DEF IInv, MirrorWritten
<1>5. /\ op.mt \in Nat /\ op.rec \in Nat /\ lastMeta[active] \in -1 .. Bottom - 1
      /\ 1 <= op.mt /\ op.rec + n <= Bottom
      /\ op.src \in 1 .. Bottom - 1 /\ op.src \in Nat
      /\ op.mt \in Addr /\ op.mt \notin {Top, Bottom} /\ op.rec \in Addr
  BY <1>1, <1>2, <1>4 DEF OpType, CopiedPart, FirstMeta, PageSound, Top
<1>6. /\ CellSet(Other(active), op.mt, TagOf(r, op.rec))
      /\ op' = [op EXCEPT !.mt = @ + 1, !.src = @ - 1, !.k = 0]
      /\ pc' = "scan"
  BY <1>3 DEF CopyMeta, CellSet
<1>7. TagOf(r, op.rec) \in Meta
  BY <1>5, Tags
<1>8. /\ FlashTyped' /\ ValidSound' /\ BootPage(flash') = active
      /\ flash'[active] = flash[active]
      /\ flash'[Other(active)][op.mt] = TagOf(r, op.rec)
      /\ \A b \in Addr \ {op.mt} : flash'[Other(active)][b] = Mirror[b]
  <2>1. op.mt \in Addr \ {Bottom} /\ op.mt # Top /\ Mirror[Bottom] = Blank
    BY <1>4, <1>5
  <2>2. CellSet(Other(active), op.mt, TagOf(r, op.rec))
    BY <1>6
  <2> DEFINE c == op.mt
             v == TagOf(r, op.rec)
  <2>3. c \in Addr \ {Bottom} /\ c # Top /\ v \in Meta /\ CellSet(Other(active), c, v)
    BY <1>7, <2>1, <2>2
  <2> HIDE DEF c, v
  <2>4. /\ FlashTyped' /\ ValidSound' /\ BootPage(flash') = active
        /\ flash'[active] = flash[active]
        /\ flash'[Other(active)][c] = v
        /\ \A b \in Addr \ {c} : flash'[Other(active)][b] = Mirror[b]
    BY <1>2, <2>1, <2>3, MirrorCell
  <2> QED
    BY <2>4 DEF c, v
<1>9. Mirror' = flash'[Other(active)]
  BY <1>2 DEF Mirror, ramVars
<1>10. CopiedPart(Mirror', op.mt + 1, op.rec) /\ RoomUsed(Mirror', op.mt + 1, op.rec) /\ op.mt + 1 \in Addr
  <2>1. ElemsOf(r) \cap Covered(Mirror, op.mt) = {}
    BY <1>1, <1>2, <1>3, <1>4, <1>5, NotYetCopied, SMTT(30) DEF FirstMeta
  <2>2. \A a \in op.rec .. op.rec + Size(r) - 1 : Mirror[a] \in Val
    BY <1>4
  <2> DEFINE g == Mirror'
  <2>3. g[op.mt] = TagOf(r, op.rec) /\ \A a \in Addr \ {op.mt} : g[a] = Mirror[a]
    BY <1>8, <1>9
  <2>4. /\ CopiedPart(Mirror, op.mt, op.rec + Size(r)) /\ RoomUsed(Mirror, op.mt, op.rec + Size(r))
        /\ op.mt < op.rec /\ op.mt \in Nat /\ op.rec \in Nat /\ PageTyped(Mirror)
    BY <1>2, <1>4, <1>5
  <2> HIDE DEF g
  <2>5. CopiedPart(g, op.mt + 1, op.rec) /\ RoomUsed(g, op.mt + 1, op.rec) /\ op.mt + 1 \in Addr
    BY <2>1, <2>2, <2>3, <2>4, CopiedMore
  <2> QED
    BY <2>5 DEF g
<1>11. op' \in OpType /\ op'.mt = op.mt + 1 /\ op'.src = op.src - 1 /\ op'.rec = op.rec
       /\ op'.req = op.req /\ op'.hold = op.hold
  <2>1. op.src - 1 \in Addr
    BY <1>1, <1>5
  <2> QED
    BY <1>2, <1>6, <1>10, <2>1 DEF OpType
<1>12. TypeOK'
  BY <1>2, <1>6, <1>8, <1>11 DEF IInv, TypeOK, FlashTyped, PageTyped, OpType, ramVars
<1>13. ActiveSound' /\ EraseBehind'
  BY <1>2, <1>6, <1>8 DEF IInv, ActiveSound, EraseBehind, Live, ramVars
<1>14. MirrorScanned'
  <2>1. SinglesLast(Mirror, op.mt)'
    <3> SUFFICES ASSUME NEW a \in FirstMeta .. op.mt
                 PROVE  Mirror'[a].all \/ FullSaves(Mirror[a].e, op.src)' = {}
      BY <1>5, <1>11 DEF SinglesLast
    <3>1. \A e : FullSaves(e, op.src)' \subseteq FullSaves(e, op.src)
      BY <1>2, <1>5, <1>8, <1>11 DEF FullSaves, ramVars, FirstMeta
    <3>2. CASE a = op.mt
      <4>1. /\ Mirror'[a].all = r.all /\ Mirror'[a].e = r.e
        BY <1>5, <1>8, <1>9, <3>2, Tags
      <4>2. r.all \/ FullSaves(r.e, op.src) = {}
        BY <1>2, <1>3, <1>4, <1>5, CopiedRequest DEF FirstMeta
      <4> QED
        BY <3>1, <4>1, <4>2
    <3>3. CASE a # op.mt
      <4>1. a \in FirstMeta .. op.mt - 1 /\ a \in Addr \ {op.mt}
        BY <1>1, <1>5, <3>3 DEF FirstMeta
      <4>2. Mirror'[a] = Mirror[a]
        BY <1>8, <1>9, <4>1
      <4>3. Mirror[a].all \/ FullSaves(Mirror[a].e, op.src) = {}
        BY <1>4, <4>1 DEF SinglesLast
      <4> QED
        BY <3>1, <4>2, <4>3
    <3> QED
      BY <3>2, <3>3
  <2>2. \A a \in {Top, Bottom} \cup (op.mt + 1 .. op.rec - 1) : Mirror'[a] = Blank
    <3>1. \A a \in {Top, Bottom} \cup (op.mt + 1 .. op.rec - 1) :
            a \in Addr \ {op.mt} /\ a \in {Top, Bottom} \cup (op.mt .. op.rec - 1)
      BY <1>1, <1>5 DEF Top
    <3> QED
      BY <1>4, <1>8, <1>9, <3>1
  <2>3. op'.src <= lastMeta'[active']
    <3>1. lastMeta'[active'] = lastMeta[active]
      BY <1>2 DEF ramVars
    <3> QED
      BY <1>4, <1>5, <1>11, <3>1 DEF FirstMeta
  <2> QED
    BY <1>6, <1>10, <1>11, <2>1, <2>2, <2>3 DEF MirrorScanned
<1>15. RecordWritten' /\ MirrorWritten' /\ MirrorComplete' /\ Formatting'
  BY <1>6 DEF RecordWritten, MirrorWritten, MirrorComplete, Formatting
<1>16. Holder'
  BY <1>2, <1>6, <1>11 DEF IInv, Holder, Copying, ramVars
<1> QED
  BY <1>8, <1>12, <1>13, <1>14, <1>15, <1>16 DEF IInv

LEMMA WriteTopStep ==
  ASSUME IInv, WriteTop
  PROVE  IInv'
<1>1. /\ pc = "top" /\ Copying /\ pc' = "bottom" /\ UNCHANGED <<ram, ramVars, by, op, bounds>>
      /\ CellSet(Other(active), Top, pageCounter)
  BY DEF WriteTop, Copying, CellSet
<1>2. /\ FlashTyped /\ op \in OpType /\ Live /\ active \in Page /\ Other(active) \in Page
      /\ PageSound(flash[active], lastMeta[active]) /\ PageTyped(Mirror) /\ pageCounter \in Nat
  BY <1>1, CopyFacts
<1>3. /\ PageSound(Mirror, lastMeta[Other(active)]) /\ Mirror[Bottom] = Blank /\ Mirror[Top] = Blank
  BY <1>1 DEF IInv, MirrorComplete
<1>4. Top \in Addr \ {Bottom} /\ Bottom \in Addr \ {Top} /\ Top # FirstMeta
  BY Sizes1 DEF Top, FirstMeta
<1>5. /\ FlashTyped' /\ ValidSound' /\ BootPage(flash') = active
      /\ flash'[active] = flash[active]
      /\ flash'[Other(active)][Top] = pageCounter
      /\ \A b \in Addr \ {Top} : flash'[Other(active)][b] = Mirror[b]
  BY <1>1, <1>2, <1>3, <1>4, MirrorCell
<1>6. Mirror' = flash'[Other(active)]
  BY <1>1 DEF Mirror, ramVars
<1>7. TypeOK'
  BY <1>1, <1>5 DEF IInv, TypeOK, FlashTyped, PageTyped, Programming, ramVars
<1>8. ActiveSound' /\ EraseBehind'
  BY <1>1, <1>2, <1>5 DEF IInv, ActiveSound, EraseBehind, Live, ramVars
<1>9. MirrorComplete'
  <2>1. PageSound(Mirror', lastMeta[Other(active)])
    BY <1>2, <1>3, <1>4, <1>5, <1>6, SoundKept
  <2>2. Mirror'[Bottom] = Blank /\ Mirror'[Top] = pageCounter
    BY <1>3, <1>4, <1>5, <1>6
  <2> QED
    BY <1>1, <2>1, <2>2 DEF MirrorComplete, ramVars
<1>10. RecordWritten' /\ MirrorScanned' /\ MirrorWritten' /\ Formatting'
  BY <1>1 DEF RecordWritten, MirrorScanned, MirrorWritten, Formatting
<1>11. Holder'
  BY <1>1 DEF IInv, Holder, Copying, ramVars
<1> QED
  BY <1>5, <1>7, <1>8, <1>9, <1>10, <1>11 DEF IInv

LEMMA WriteBottomStep ==
  ASSUME IInv, WriteBottom
  PROVE  IInv'
<1> DEFINE o == Other(active)
<1>1. /\ pc = "bottom" /\ Copying /\ UNCHANGED <<ram, lastMeta, pageCounter, queue, bounds>>
      /\ CellSet(o, Bottom, pageCounter)
      /\ erase' = [pending |-> TRUE, page |-> active, sector |-> 0]
      /\ active' = o /\ copyPending' = FALSE
      /\ op' = [op EXCEPT !.rec = 0, !.mt = 0, !.k = 0, !.src = 0]
  BY DEF WriteBottom, Copying, EraseOf, CellSet
<1>2. /\ FlashTyped /\ op \in OpType /\ Live /\ active \in Page /\ o \in Page /\ o # active
      /\ PageTyped(flash[active]) /\ pageCounter \in Nat
      /\ BootPage(flash) = active /\ PageSound(flash[active], lastMeta[active])
      /\ lastMeta \in [Page -> Addr \cup {EmptyMeta}]
      /\ pageCounter = flash[active][Top] + 1
      /\ by \in {"idle", "sync", "full", "boot"}
  BY <1>1, CopyFacts
<1>3. /\ PageSound(flash[o], lastMeta[o]) /\ flash[o][Bottom] = Blank /\ flash[o][Top] = pageCounter
  BY <1>1 DEF IInv, MirrorComplete, Mirror
<1>4. /\ Top \in Addr /\ Top # Bottom /\ Bottom \in Addr /\ Bottom # FirstMeta /\ 0 \in Addr
  BY Sizes1 DEF Top, FirstMeta
<1>5. /\ pc' \in {"sector", "wipe", "again", "restore"}
      /\ by = "idle" => pc' = "sector" /\ by' = "idle"
      /\ by = "sync" => pc' = "wipe" /\ by' = "syncAgain"
      /\ by = "full" => pc' = "again" /\ by' = "fullAgain"
      /\ by = "boot" => pc' = "restore" /\ by' = "boot"
  BY <1>2 DEF WriteBottom
<1>6. o = Other(active) /\ Other(o) = active
  BY <1>2 DEF Other, Page
<1> HIDE DEF o
<1>7. /\ DOMAIN flash' = Page /\ \A q \in Page : DOMAIN flash'[q] = Addr
      /\ flash'[o][Bottom] = pageCounter
      /\ \A b \in Addr \ {Bottom} : flash'[o][b] = flash[o][b]
      /\ \A q \in Page \ {o} : flash'[q] = flash[q]
  BY <1>1, <1>2, <1>4, ProgramCell
<1>8. flash'[active] = flash[active] /\ PageTyped(flash[o])
  BY <1>2, <1>7 DEF FlashTyped
<1>9. FlashTyped'
  <2>1. PageTyped(flash'[o])
    BY <1>2, <1>4, <1>7, <1>8 DEF PageTyped
  <2> QED
    BY <1>2, <1>7, <2>1 DEF FlashTyped
<1>10. PageSound(flash'[o], lastMeta[o])
  BY <1>2, <1>3, <1>4, <1>7, <1>8, SoundKept
<1>11. ValidSound'
  <2>1. lastMeta[o] \in Addr \cup {EmptyMeta}
    BY <1>2
  <2> QED
    BY <1>2, <1>7, <1>10, <2>1 DEF IInv, ValidSound
<1>12. BootPage(flash') = o
  <2>1. flash'[o][Top] = pageCounter /\ ValidPage(flash'[o])
    <3>1. flash'[o][Top] = pageCounter /\ flash'[o][Bottom] = pageCounter
      BY <1>3, <1>4, <1>7
    <3>2. pageCounter \notin {Blank, Torn}
      BY <1>2, CellAssumption
    <3> QED
      BY <3>1, <3>2 DEF ValidPage
  <2>2. flash'[active][Top] \in Nat /\ flash'[active][Top] < pageCounter
    <3>1. flash[active][Top] \in Nat
      BY <1>2, ChosenValid DEF ValidPage, PageTyped
    <3> QED
      BY <1>2, <1>8, <3>1
  <2> QED
    BY <1>2, <1>6, <2>1, <2>2, ChosenAnew
<1>13. /\ op' \in OpType /\ op'.req = op.req /\ op'.hold = op.hold
  BY <1>1, <1>2, <1>4 DEF OpType
<1>14. TypeOK'
  <2>1. erase' \in [pending : BOOLEAN, page : Page, sector : 0 .. 2]
    BY <1>1, <1>2
  <2>2. by' \in {"idle", "syncAgain", "fullAgain", "boot"}
    BY <1>2, <1>5
  <2> QED
    BY <1>1, <1>2, <1>5, <1>9, <1>13, <2>1, <2>2 DEF IInv, TypeOK, FlashTyped, PageTyped, OpType
<1>15. ActiveSound'
  <2>1. flash'[o][Top] = pageCounter
    BY <1>3, <1>4, <1>7
  <2>2. pageCounter = flash'[o][Top] + 0
    BY <1>2, <2>1
  <2> QED
    BY <1>1, <1>2, <1>5, <1>10, <1>12, <2>2 DEF ActiveSound
<1>16. EraseBehind'
  <2>1. erase'.pending /\ erase'.page = active /\ Live'
    BY <1>1, <1>5 DEF Live
  <2> QED
    BY <1>1, <1>6, <2>1 DEF EraseBehind
<1>17. RecordWritten' /\ MirrorScanned' /\ MirrorWritten' /\ MirrorComplete' /\ Formatting'
  BY <1>5 DEF RecordWritten, MirrorScanned, MirrorWritten, MirrorComplete, Formatting
<1>18. Holder'
  BY <1>1, <1>2, <1>5, <1>13 DEF IInv, Holder, Copying
<1> QED
  BY <1>11, <1>14, <1>15, <1>16, <1>17, <1>18 DEF IInv
-----------------------------------------------------------------------------
(* The format and the start-up.                                            *)

(* No page is in use: what is left of the invariant.                       *)
LEMMA IdleParts ==
  ASSUME pc' \in {"off", "format", "formatTop", "formatBottom"},
         TypeOK', ValidSound', ~erase'.pending, Formatting', pc' = "off" => by' = "boot"
  PROVE  IInv'
<1>1. ActiveSound' /\ EraseBehind'
  BY DEF ActiveSound, EraseBehind, Live
<1>2. RecordWritten' /\ MirrorScanned' /\ MirrorWritten' /\ MirrorComplete'
  BY DEF RecordWritten, MirrorScanned, MirrorWritten, MirrorComplete
<1>3. Holder'
  BY DEF Holder, Copying
<1> QED
  BY <1>1, <1>2, <1>3 DEF IInv

LEMMA FormatStep ==
  ASSUME IInv, Format \/ BootFormat, FormatWithoutErase
  PROVE  IInv'
<1>1. pc \in {"ready", "off"} /\ pc' = "format" /\ ~erase'.pending
  BY DEF Format, BootFormat, FormatWithoutErase
<1>2. /\ UNCHANGED <<flash, ram, active, lastMeta, copyPending, queue>>
      /\ pageCounter' \in Nat /\ op' \in OpType /\ by' \in {by, "format"}
      /\ erase' \in [pending : BOOLEAN, page : Page, sector : 0 .. 2]
  <2>1. TypeOK /\ op \in OpType /\ Idle \in OpType /\ FlashTyped
    BY TypeFacts DEF IInv
  <2>2. CASE Format
    <3>1. /\ pc = "ready" /\ UNCHANGED <<flash, ram, active, lastMeta, copyPending, erase, queue>>
          /\ pageCounter' = (IF flash[active][Top] = Blank THEN 0 ELSE flash[active][Top] + 1)
          /\ op' = Idle /\ by' = "format"
      BY <2>2 DEF Format
    <3>2. flash[active][Top] \in Nat
      <4>1. active \in Page /\ BootPage(flash) = active
        BY <3>1 DEF IInv, ActiveSound, Live
      <4>2. ValidPage(flash[active]) /\ PageTyped(flash[active])
        BY <2>1, <4>1, ChosenValid DEF FlashTyped
      <4> QED
        BY <4>2 DEF ValidPage, PageTyped
    <3> QED
      BY <2>1, <3>1, <3>2 DEF TypeOK
  <2>3. CASE BootFormat
    <3>1. /\ UNCHANGED <<flash, ram, active, lastMeta, copyPending, queue, by, op>> /\ pageCounter' = 1
          /\ erase' = IF BootPage(flash) = NoPage THEN erase ELSE EraseRequest(BootPage(flash))
      BY <2>3 DEF BootFormat
    <3>2. BootPage(flash) \in Page \cup {NoPage}
      BY DEF BootPage, Page, NoPage
    <3>3. erase' \in [pending : BOOLEAN, page : Page, sector : 0 .. 2]
      BY <2>1, <3>1, <3>2 DEF TypeOK, EraseRequest, EraseOf, Page, Other
    <3> QED
      BY <2>1, <3>1, <3>3
  <2> QED
    BY <2>2, <2>3
<1>3. TypeOK'
  BY <1>1, <1>2 DEF IInv, TypeOK, OpType
<1>4. ValidSound' /\ Formatting'
  BY <1>1, <1>2 DEF IInv, ValidSound, Formatting
<1> QED
  BY <1>1, <1>3, <1>4, IdleParts

LEMMA FormatEraseStep ==
  ASSUME IInv, FormatErase
  PROVE  IInv'
<1> DEFINE dirty == {p \in Page : ~IsBlank(flash[p])}
<1>1. /\ pc = "format" /\ ~erase.pending /\ FlashTyped /\ op \in OpType
      /\ UNCHANGED <<ram, lastMeta, pageCounter, copyPending, erase, queue, by, op, bounds>>
  BY TypeFacts DEF IInv, FormatErase, EraseBehind, Live
<1>2. CASE dirty # {}
  <2>1. EraseDirty(Min(dirty)) /\ UNCHANGED <<active, pc>>
    BY <1>2 DEF FormatErase
  <2>2. Min(dirty) \in Page
    <3>1. dirty \in SUBSET Nat
      BY DEF Page
    <3> HIDE DEF dirty
    <3>2. Min(dirty) \in dirty
      BY <1>2, <3>1, LeastElement
    <3> QED
      BY <3>2 DEF dirty
  <2> DEFINE p == Min(dirty)
             s == Min(DirtySectors(flash[p]))
  <2>3. SectorSet(p, s, Blank)
    BY <2>1 DEF EraseDirty, SectorSet
  <2>4. p \in Page
    BY <2>2
  <2> HIDE DEF p, s
  <2>5. FlashTyped' /\ ValidSound'
    BY <1>1, <2>3, <2>4, AnyErased DEF IInv
  <2>6. TypeOK'
    BY <1>1, <2>1, <2>5 DEF IInv, TypeOK, FlashTyped, PageTyped
  <2> QED
    BY <1>1, <2>1, <2>5, <2>6, IdleParts DEF Formatting
<1>3. CASE dirty = {}
  <2>1. active' = 0 /\ pc' = "formatTop" /\ UNCHANGED flash
    BY <1>3 DEF FormatErase
  <2>2. \A p \in Page : IsBlank(flash'[p])
    BY <1>3, <2>1
  <2>3. Top \in Addr /\ 0 \in Page /\ 1 \in Page
    BY Sizes1 DEF Top, Page
  <2>4. TypeOK'
    BY <1>1, <2>1, <2>3 DEF IInv, TypeOK, Programming
  <2>5. ValidSound' /\ Formatting'
    BY <2>1, <2>2, <2>3 DEF IInv, ValidSound, Formatting, IsBlank
  <2> QED
    BY <1>1, <2>1, <2>4, <2>5, IdleParts
<1> QED
  BY <1>2, <1>3

(* A page is not valid while one of its counters is blank or torn.         *)
LEMMA NotValid ==
  ASSUME NEW f, f[Top] \in {Blank, Torn} \/ f[Bottom] \in {Blank, Torn}
  PROVE  ~ValidPage(f)
  BY DEF ValidPage

LEMMA FormatTopStep ==
  ASSUME IInv, FormatTop
  PROVE  IInv'
<1>1. /\ pc = "formatTop" /\ ~erase.pending /\ FlashTyped /\ op \in OpType /\ pageCounter \in Nat
      /\ active = 0 /\ IsBlank(flash[1]) /\ \A a \in Addr \ {Top} : flash[0][a] = Blank
      /\ CellSet(0, Top, pageCounter) /\ pc' = "formatBottom"
      /\ UNCHANGED <<ram, ramVars, by, op, bounds>>
  BY TypeFacts DEF IInv, FormatTop, EraseBehind, Live, TypeOK, Formatting, CellSet
<1>2. Top \in Addr /\ Bottom \in Addr \ {Top} /\ 0 \in Page /\ 1 \in Page \ {0} /\ Page = {0, 1}
  BY Sizes1 DEF Top, Page
<1>3. /\ DOMAIN flash' = Page /\ \A q \in Page : DOMAIN flash'[q] = Addr
      /\ flash'[0][Top] = pageCounter
      /\ \A b \in Addr \ {Top} : flash'[0][b] = flash[0][b]
      /\ \A q \in Page \ {0} : flash'[q] = flash[q]
  BY <1>1, <1>2, ProgramCell
<1>4. FlashTyped'
  <2>1. PageTyped(flash'[0])
    BY <1>1, <1>2, <1>3 DEF FlashTyped, PageTyped
  <2> QED
    BY <1>1, <1>2, <1>3, <2>1 DEF FlashTyped
<1>5. TypeOK'
  BY <1>1, <1>4 DEF IInv, TypeOK, FlashTyped, PageTyped, Programming, ramVars
<1>6. Formatting'
  BY <1>1, <1>2, <1>3 DEF Formatting, ramVars
<1>7. ValidSound'
  <2>1. flash'[0][Bottom] = Blank /\ flash'[1][Bottom] = Blank
    BY <1>1, <1>2, <1>3 DEF IsBlank
  <2> QED
    BY <1>2, <2>1, NotValid DEF ValidSound
<1> QED
  BY <1>1, <1>5, <1>6, <1>7, IdleParts DEF ramVars

LEMMA FormatBottomStep ==
  ASSUME IInv, FormatBottom
  PROVE  IInv'
<1>1. /\ pc = "formatBottom" /\ ~erase.pending /\ FlashTyped /\ op \in OpType /\ pageCounter \in Nat
      /\ active = 0 /\ IsBlank(flash[1]) /\ \A a \in Addr \ {Top} : flash[0][a] = Blank
      /\ flash[0][Top] = pageCounter
      /\ CellSet(0, Bottom, pageCounter) /\ pc' \in {"restore", "ready"}
      /\ lastMeta' = [lastMeta EXCEPT ![0] = EmptyMeta] /\ lastMeta \in [Page -> Addr \cup {EmptyMeta}]
      /\ queue' = <<>> /\ by' \in {"boot", "none"}
      /\ UNCHANGED <<ram, active, pageCounter, copyPending, erase, op, bounds>>
  BY TypeFacts DEF IInv, FormatBottom, EraseBehind, Live, TypeOK, Formatting, CellSet
<1>2. /\ Top \in Addr /\ Bottom \in Addr \ {Top} /\ 0 \in Page /\ 1 \in Page \ {0} /\ Page = {0, 1}
      /\ PageSize \in Nat /\ PageSize >= 3 /\ Bottom = PageSize - 1 /\ Addr = 0 .. PageSize - 1
  BY Sizes1 DEF Top, Page
<1>3. /\ DOMAIN flash' = Page /\ \A q \in Page : DOMAIN flash'[q] = Addr
      /\ flash'[0][Bottom] = pageCounter
      /\ \A b \in Addr \ {Bottom} : flash'[0][b] = flash[0][b]
      /\ \A q \in Page \ {0} : flash'[q] = flash[q]
  BY <1>1, <1>2, ProgramCell
<1>4. FlashTyped'
  <2>1. PageTyped(flash'[0])
    BY <1>1, <1>2, <1>3 DEF FlashTyped, PageTyped
  <2> QED
    BY <1>1, <1>2, <1>3, <2>1 DEF FlashTyped
<1>5. lastMeta' \in [Page -> Addr \cup {EmptyMeta}] /\ lastMeta'[0] = EmptyMeta
  BY <1>1, <1>2
<1>6. TypeOK'
  <2>1. queue' \in Seq(Req) /\ Len(queue') <= QueueSize
    BY <1>1, Sizes1
  <2> QED
    BY <1>1, <1>4, <1>5, <2>1 DEF IInv, TypeOK, FlashTyped, PageTyped
<1>7. PageSound(flash'[0], EmptyMeta)
  <2>1. \A a \in 1 .. Bottom - 1 : flash'[0][a] = Blank
    BY <1>1, <1>2, <1>3 DEF Top
  <2> QED
    BY <1>2, <2>1 DEF PageSound, FirstMeta, EmptyMeta, IsMeta
<1>8. flash'[0][Top] = pageCounter /\ ~ValidPage(flash'[1]) /\ ValidPage(flash'[0])
  <2>1. flash'[0][Top] = pageCounter /\ flash'[1][Top] = Blank
    BY <1>1, <1>2, <1>3 DEF IsBlank
  <2>2. pageCounter \notin {Blank, Torn}
    BY <1>1, CellAssumption
  <2> QED
    BY <1>3, <2>1, <2>2 DEF ValidPage
<1>9. BootPage(flash') = 0
  BY <1>8 DEF BootPage
<1>10. ValidSound'
  BY <1>2, <1>7, <1>8 DEF ValidSound
<1>11. ActiveSound'
  <2>1. pageCounter = flash'[0][Top] + 0
    BY <1>1, <1>8
  <2> QED
    BY <1>1, <1>2, <1>5, <1>7, <1>9, <2>1 DEF ActiveSound
<1>12. RecordWritten' /\ MirrorScanned' /\ MirrorWritten' /\ MirrorComplete' /\ Formatting' /\ Holder'
  BY <1>1 DEF RecordWritten, MirrorScanned, MirrorWritten, MirrorComplete, Formatting, Holder, Copying
<1>13. EraseBehind'
  BY <1>1 DEF EraseBehind
<1> QED
  BY <1>6, <1>10, <1>11, <1>12, <1>13 DEF IInv

LEMMA MaintainStep ==
  ASSUME IInv, Maintain
  PROVE  IInv'
<1>1. /\ pc = "off" /\ by = "boot" /\ ~erase.pending /\ FlashTyped /\ op \in OpType
      /\ Leftover # {} /\ EraseDirty(Min(Leftover))
      /\ UNCHANGED <<ram, ramVars, pc, by, op, bounds>>
  BY TypeFacts DEF IInv, Maintain, EraseBehind, Live, Holder
<1>2. Min(Leftover) \in Page
  <2>1. Leftover \in SUBSET Nat
    BY DEF Leftover, Page
  <2>2. Min(Leftover) \in Leftover
    BY <1>1, <2>1, LeastElement
  <2> QED
    BY <2>2 DEF Leftover
<1> DEFINE p == Min(Leftover)
           s == Min(DirtySectors(flash[p]))
<1>3. SectorSet(p, s, Blank) /\ p \in Page
  BY <1>1, <1>2 DEF EraseDirty, SectorSet
<1> HIDE DEF p, s
<1>4. FlashTyped' /\ ValidSound'
  BY <1>1, <1>3, AnyErased DEF IInv
<1>5. TypeOK'
  BY <1>1, <1>4 DEF IInv, TypeOK, FlashTyped, PageTyped, ramVars
<1> QED
  BY <1>1, <1>4, <1>5, IdleParts DEF Formatting, ramVars

LEMMA RestoreStep ==
  ASSUME IInv, Restore
  PROVE  IInv'
<1> DEFINE found(x) == RestoredFrom(flash[active], lastMeta[active], x)
<1>1. /\ pc = "restore" /\ Live /\ pc' = "ready" /\ by' = "none" /\ op' = Idle
      /\ FlashTyped /\ Idle \in OpType /\ UNCHANGED <<flash, ramVars, bounds>>
      /\ active \in Page /\ PageSound(flash[active], lastMeta[active]) /\ PageTyped(flash[active])
      /\ ram \in [Elem -> Val]
      /\ ram' = [x \in Elem |-> IF found(x) = NoVal THEN ram[x] ELSE found(x)]
  BY TypeFacts DEF IInv, Restore, Live, ActiveSound, FlashTyped, TypeOK
<1>2. \A x \in Elem : found(x) \in Val \cup {NoVal}
  BY <1>1, RestoredType
<1> HIDE DEF found
<1>3. ram' \in [Elem -> Val]
  BY <1>1, <1>2
<1>4. TypeOK'
  BY <1>1, <1>3 DEF IInv, TypeOK, OpType, ramVars
<1>5. ValidSound' /\ ActiveSound' /\ EraseBehind'
  BY <1>1 DEF IInv, ValidSound, ActiveSound, EraseBehind, Live, ramVars
<1>6. RecordWritten' /\ MirrorScanned' /\ MirrorWritten' /\ MirrorComplete' /\ Formatting' /\ Holder'
  BY <1>1 DEF RecordWritten, MirrorScanned, MirrorWritten, MirrorComplete, Formatting, Holder, Copying
<1> QED
  BY <1>4, <1>5, <1>6 DEF IInv

LEMMA BootStep ==
  ASSUME IInv, Boot
  PROVE  IInv'
<1>1. /\ pc = "off" /\ by = "boot" /\ ~erase.pending /\ FlashTyped /\ op \in OpType /\ Idle \in OpType
      /\ UNCHANGED <<flash, ram, copyPending, queue, by, bounds>>
      /\ lastMeta \in [Page -> Addr \cup {EmptyMeta}]
      /\ erase \in [pending : BOOLEAN, page : Page, sector : 0 .. 2]
  BY TypeFacts DEF IInv, Boot, EraseBehind, Live, Holder, TypeOK
<1>2. PICK p \in Page : p = BootPage(flash)
  <2>1. BootPage(flash) # NoPage
    BY DEF Boot, Unusable
  <2> QED
    BY <2>1 DEF BootPage, Page
<1>3. ValidPage(flash[p]) /\ PageTyped(flash[p]) /\ flash[p][Top] \in Nat
  <2>1. ValidPage(flash[p]) /\ PageTyped(flash[p])
    BY <1>1, <1>2, ChosenValid DEF FlashTyped
  <2> QED
    BY <2>1 DEF ValidPage, PageTyped
<1>4. PICK last \in Addr \cup {EmptyMeta} : PageSound(flash[p], last)
  BY <1>3 DEF IInv, ValidSound
<1>5. LastMetaOf(flash[p]) = last
  BY <1>4, LastMetaFound
<1>6. /\ active' = p /\ pageCounter' = flash[p][Top]
      /\ lastMeta' = [lastMeta EXCEPT ![p] = last]
      /\ erase' = EraseRequest(p)
      /\ \/ /\ op' = [Idle EXCEPT !.src = last, !.mt = FirstMeta, !.rec = Bottom]
            /\ pc' = IF IsBlank(flash[Other(p)]) THEN "scan" ELSE "blank"
         \/ pc' = "restore" /\ UNCHANGED op
  BY <1>2, <1>5 DEF Boot
<1>7. /\ Other(p) \in Page /\ Other(p) # p
      /\ lastMeta' \in [Page -> Addr \cup {EmptyMeta}] /\ lastMeta'[p] = last
  BY <1>1, <1>6 DEF Other, Page
<1>8. /\ erase' \in [pending : BOOLEAN, page : Page, sector : 0 .. 2]
      /\ erase'.pending => erase'.page = Other(p)
  BY <1>1, <1>6, <1>7 DEF EraseRequest, EraseOf
<1>9. pc' \in {"scan", "blank", "restore"} /\ (pc' = "scan" => IsBlank(flash[Other(p)]))
  BY <1>6
<1>10. /\ op' \in OpType
       /\ pc' \in {"scan", "blank"} => op'.src = last /\ op'.mt = FirstMeta /\ op'.rec = Bottom
  <2>1. FirstMeta \in Addr /\ Bottom \in Addr
    BY Sizes1 DEF FirstMeta
  <2> QED
    BY <1>1, <1>6, <2>1, ZenonT(60) DEF OpType
<1>11. TypeOK'
  BY <1>1, <1>3, <1>6, <1>7, <1>8, <1>9, <1>10 DEF IInv, TypeOK, OpType
<1>12. ValidSound' /\ EraseBehind'
  BY <1>1, <1>6, <1>8, <1>9 DEF IInv, ValidSound, EraseBehind, Live
<1>13. ActiveSound'
  BY <1>1, <1>2, <1>3, <1>4, <1>6, <1>7, <1>9 DEF ActiveSound
<1>14. MirrorScanned'
  <2>1. SinglesLast(Mirror, FirstMeta)'
    BY DEF SinglesLast, FirstMeta
  <2>2. Mirror' = flash[Other(p)]
    BY <1>1, <1>6 DEF Mirror
  <2>3. last <= last
    BY <1>4 DEF PageSound
  <2> QED
    BY <1>6, <1>7, <1>9, <1>10, <2>1, <2>2, <2>3, CopyOnBlank DEF MirrorScanned
<1>15. RecordWritten' /\ MirrorWritten' /\ MirrorComplete' /\ Formatting'
  BY <1>9 DEF RecordWritten, MirrorWritten, MirrorComplete, Formatting
<1>16. Holder'
  BY <1>1, <1>9 DEF Holder, Copying
<1> QED
  BY <1>11, <1>12, <1>13, <1>14, <1>15, <1>16 DEF IInv
-----------------------------------------------------------------------------
(* Power losses.                                                           *)

(* The cell that was programmed is torn: a page that is valid all the same *)
(* is sound.                                                               *)
LEMMA CellTorn ==
  ASSUME IInv, pc \in Programming, CellSet(ProgramAt[1], ProgramAt[2], Torn)
  PROVE  FlashTyped' /\ ValidSound'
<1> DEFINE p == ProgramAt[1]
           c == ProgramAt[2]
<1>1. /\ PageSize \in Nat /\ PageSize >= 3 /\ Bottom = PageSize - 1 /\ Addr = 0 .. PageSize - 1
      /\ Top \in Addr /\ Bottom \in Addr
  BY Sizes1 DEF Top
<1>2. FlashTyped /\ op \in OpType /\ TypeOK
  BY TypeFacts DEF IInv
<1>3. CASE pc \in {"data", "meta"}
  <2>1. /\ Live /\ active \in Page /\ PageSound(flash[active], lastMeta[active]) /\ PageTyped(flash[active])
        /\ op.req \in Req /\ lastMeta[active] \in Addr \cup {EmptyMeta} /\ lastMeta[active] \in Int
    BY <1>2, <1>3 DEF IInv, Live, ActiveSound, FlashTyped, Holder, TypeOK, PageSound
  <2> DEFINE n == Size(op.req)
  <2>2. /\ op.k \in 0 .. n /\ (op.k = n <=> pc = "meta") /\ n \in Nat /\ n >= 1
        /\ lastMeta[active] < op.mt /\ FirstMeta <= op.mt /\ op.mt + 1 < op.rec
        /\ op.rec + n <= Bottom
        /\ lastMeta[active] >= FirstMeta => op.rec + n <= flash[active][lastMeta[active]].off
        /\ \A a \in FirstMeta .. op.mt - 1 : flash[active][a] # Blank
        /\ flash[active][op.mt] = Blank
        /\ \A j \in 0 .. n - 1 : IF j < op.k THEN flash[active][op.rec + j] \in Val
                                             ELSE flash[active][op.rec + j] = Blank
    BY <1>3, <2>1, Requests DEF IInv, RecordWritten
  <2>3. op.mt \in Addr /\ op.rec \in Addr /\ op.mt \notin {Top, Bottom} /\ op.k \in Nat
    BY <1>1, <1>2, <2>2 DEF OpType, FirstMeta, Top
  <2>4. PICK q \in Page, a \in Addr : /\ CellSet(q, a, Torn) /\ q = active
                                      /\ a = IF pc = "data" THEN op.rec + op.k ELSE op.mt
    <3>1. CASE pc = "data"
      <4>1. ProgramAt[1] = active /\ ProgramAt[2] = op.rec + op.k
        BY <3>1 DEF ProgramAt
      <4>2. op.rec + op.k \in Addr
        <5>1. op.k < n
          BY <2>2, <3>1
        <5> HIDE DEF n
        <5> QED
          BY <1>1, <2>2, <2>3, <5>1, SMTT(30)
      <4> QED
        BY <2>1, <3>1, <4>1, <4>2
    <3>2. CASE pc = "meta"
      <4>1. ProgramAt[1] = active /\ ProgramAt[2] = op.mt
        BY <3>2 DEF ProgramAt
      <4> QED
        BY <2>1, <2>3, <3>2, <4>1
    <3> QED
      BY <1>3, <3>1, <3>2
  <2>5. /\ DOMAIN flash' = Page /\ \A s \in Page : DOMAIN flash'[s] = Addr
        /\ flash'[active][a] = Torn
        /\ \A b \in Addr \ {a} : flash'[active][b] = flash[active][b]
        /\ \A s \in Page \ {active} : flash'[s] = flash[s]
    BY <1>2, <2>4, ProgramCell
  <2>6. FlashTyped'
    <3>1. PageTyped(flash'[active])
      BY <1>1, <2>1, <2>5 DEF PageTyped
    <3> QED
      BY <1>2, <2>1, <2>5, <3>1 DEF FlashTyped
  <2>7. \E last \in Addr \cup {EmptyMeta} : PageSound(flash'[active], last)
    <3> DEFINE f == flash[active]
               g == flash'[active]
               l == lastMeta[active]
    <3>1. CASE pc = "data"
      <4>1. f[a] = Blank /\ a # FirstMeta
        <5>1. op.k < n /\ op.k \in 0 .. n - 1
          BY <2>2, <3>1
        <5>2. f[op.rec + op.k] = Blank /\ a = op.rec + op.k
          BY <2>2, <2>4, <3>1, <5>1
        <5>3. op.rec + op.k > 1
          BY <1>1, <2>2, <2>3 DEF FirstMeta
        <5> QED
          BY <5>2, <5>3 DEF FirstMeta
      <4>2. PageSound(f, l) /\ PageTyped(f) /\ g[a] = Torn /\ \A b \in Addr \ {a} : g[b] = f[b]
        BY <2>1, <2>5
      <4> HIDE DEF f, g, l
      <4>3. PageSound(g, l)
        BY <4>1, <4>2, SoundKept
      <4> QED
        BY <2>1, <4>3 DEF g, l
    <3>2. CASE pc = "meta"
      <4>1. a = op.mt
        BY <2>4, <3>2
      <4>2. PageSound(f, l) /\ PageTyped(f) /\ g[op.mt] = Torn /\ \A b \in Addr \ {op.mt} : g[b] = f[b]
        BY <2>1, <2>5, <4>1
      <4>3. /\ l < op.mt /\ FirstMeta <= op.mt /\ op.mt + 1 < op.rec /\ op.rec + Size(op.req) <= Bottom
            /\ l >= FirstMeta => op.rec + Size(op.req) <= f[l].off
            /\ \A b \in FirstMeta .. op.mt - 1 : f[b] # Blank
            /\ f[op.mt] = Blank
        BY <2>2
      <4>4. \A j \in 0 .. Size(op.req) - 1 : f[op.rec + j] \in Val
        BY <2>2, <3>2
      <4> HIDE DEF f, g, l
      <4>5. \E last \in Addr \cup {EmptyMeta} : PageSound(g, last)
        BY <2>1, <2>3, <4>2, <4>3, <4>4, SoundTag
      <4> QED
        BY <4>5 DEF g
    <3> QED
      BY <1>3, <3>1, <3>2
  <2>8. ValidSound'
    BY <2>1, <2>5, <2>7 DEF IInv, ValidSound
  <2> QED
    BY <2>6, <2>8
<1>4. CASE pc \in {"copyData", "copyMeta", "top"}
  <2>1. Copying /\ Other(active) \in Page /\ PageTyped(Mirror)
    BY <1>4, CopyFacts DEF Copying
  <2>2. Mirror[Bottom] = Blank
    BY <1>4 DEF IInv, MirrorWritten, MirrorComplete
  <2>3. PICK a \in Addr \ {Bottom} : CellSet(Other(active), a, Torn)
    <3>1. CASE pc = "copyData"
      <4>1. ProgramAt[1] = Other(active) /\ ProgramAt[2] = op.rec + op.k
        BY <3>1 DEF ProgramAt
      <4>2. op.rec + op.k \in Addr \ {Bottom}
        <5>1. PICK r \in Req : r = CopiedReq(op.src)
          BY <3>1 DEF IInv, MirrorWritten
        <5> DEFINE n == Size(r)
        <5>2. op.k \in 0 .. n /\ op.k # n /\ op.rec + n <= Bottom /\ n \in Nat
          BY <3>1, <5>1, Requests DEF IInv, MirrorWritten, CopiedPart
        <5>3. op.rec \in Nat /\ op.k \in Nat
          BY <1>1, <1>2 DEF OpType
        <5> HIDE DEF n
        <5> QED
          BY <1>1, <5>2, <5>3
      <4> QED
        BY <4>1, <4>2
    <3>2. CASE pc = "copyMeta"
      <4>1. ProgramAt[1] = Other(active) /\ ProgramAt[2] = op.mt
        BY <3>2 DEF ProgramAt
      <4>2. op.mt \in Addr \ {Bottom}
        <5>1. op.mt < op.rec /\ op.mt \in Addr /\ op.rec \in Addr
          BY <1>2, <3>2 DEF IInv, MirrorWritten, OpType
        <5> QED
          BY <1>1, <5>1
      <4> QED
        BY <4>1, <4>2
    <3>3. CASE pc = "top"
      <4>1. ProgramAt[1] = Other(active) /\ ProgramAt[2] = Top
        BY <3>3 DEF ProgramAt
      <4>2. Top \in Addr \ {Bottom}
        BY <1>1 DEF Top
      <4> QED
        BY <4>1, <4>2
    <3> QED
      BY <1>4, <3>1, <3>2, <3>3
  <2> QED
    BY <2>1, <2>2, <2>3, MirrorCell
<1>5. CASE pc \in {"bottom", "formatTop", "formatBottom"}
  <2>1. PICK q \in Page, a \in {Top, Bottom} : CellSet(q, a, Torn)
    <3>1. CASE pc = "bottom"
      <4>1. ProgramAt[1] = Other(active) /\ ProgramAt[2] = Bottom
        BY <3>1 DEF ProgramAt
      <4>2. Other(active) \in Page
        BY <3>1, CopyFacts DEF Copying
      <4> QED
        BY <4>1, <4>2
    <3>2. CASE pc = "formatTop"
      <4>1. ProgramAt[1] = active /\ ProgramAt[2] = Top
        BY <3>2 DEF ProgramAt
      <4>2. active \in Page
        BY <3>2 DEF IInv, Formatting, Page
      <4> QED
        BY <4>1, <4>2
    <3>3. CASE pc = "formatBottom"
      <4>1. ProgramAt[1] = active /\ ProgramAt[2] = Bottom
        BY <3>3 DEF ProgramAt
      <4>2. active \in Page
        BY <3>3 DEF IInv, Formatting, Page
      <4> QED
        BY <4>1, <4>2
    <3> QED
      BY <1>5, <3>1, <3>2, <3>3
  <2>2. a \in Addr
    BY <1>1, <2>1
  <2>3. /\ DOMAIN flash' = Page /\ \A s \in Page : DOMAIN flash'[s] = Addr
        /\ flash'[q][a] = Torn
        /\ \A b \in Addr \ {a} : flash'[q][b] = flash[q][b]
        /\ \A s \in Page \ {q} : flash'[s] = flash[s]
    BY <1>2, <2>1, <2>2, ProgramCell
  <2>4. FlashTyped'
    <3>1. PageTyped(flash'[q])
      BY <1>1, <1>2, <2>1, <2>3 DEF FlashTyped, PageTyped
    <3> QED
      BY <1>2, <2>3, <3>1 DEF FlashTyped
  <2>5. ~ValidPage(flash'[q])
    BY <2>1, <2>3, NotValid
  <2>6. ValidSound'
    BY <2>3, <2>5 DEF IInv, ValidSound
  <2> QED
    BY <2>4, <2>6
<1> QED
  BY <1>3, <1>4, <1>5 DEF Programming

(* The erase that a power loss interrupts is chosen among those in hand.   *)
LEMMA LeastErase ==
  ASSUME IInv, EraseAt # {}
  PROVE  /\ \A e \in EraseAt : e[1] \in Page
         /\ (CHOOSE e \in EraseAt : \A f \in EraseAt : e[1] <= f[1]) \in EraseAt
<1> DEFINE Least(e) == \A f \in EraseAt : e[1] <= f[1]
<1>1. \A e \in EraseAt : e[1] \in Page
  <2>1. CASE pc = "blank"
    <3>1. Other(active) \in Page
      BY <2>1, CopyFacts DEF Copying
    <3> QED
      BY <2>1, <3>1 DEF EraseAt, Dirty
  <2>2. CASE pc \in {"wipe", "sector"}
    BY <2>2 DEF EraseAt, Dirty, IInv, TypeOK
  <2>3. CASE pc \in {"format", "off"}
    BY <2>3 DEF EraseAt, Dirty, Leftover
  <2>4. CASE pc \notin {"blank", "wipe", "sector", "format", "off"}
    BY <2>4 DEF EraseAt
  <2> QED
    BY <2>1, <2>2, <2>3, <2>4
<1>2. \E e \in EraseAt : Least(e)
  <2>1. CASE \E e \in EraseAt : e[1] = 0
    BY <1>1, <2>1 DEF Page
  <2>2. CASE \A e \in EraseAt : e[1] # 0
    BY <1>1, <2>2 DEF Page
  <2> QED
    BY <2>1, <2>2
<1> HIDE DEF Least
<1>3. (CHOOSE e \in EraseAt : Least(e)) \in EraseAt
  BY <1>2
<1> QED
  BY <1>1, <1>3 DEF Least

LEMMA PowerLossStep ==
  ASSUME IInv, PowerLoss
  PROVE  IInv'
<1>1. /\ lastMeta' = [p \in Page |-> 0] /\ active' = NoPage /\ pageCounter' = 0 /\ copyPending' = FALSE
      /\ erase' = [pending |-> FALSE, page |-> 0, sector |-> 0] /\ queue' = <<>>
      /\ pc' = "off" /\ by' = "boot" /\ op' = Idle /\ UNCHANGED <<ram, saves>>
  BY DEF PowerLoss
<1>2. FlashTyped /\ Idle \in OpType /\ TypeOK /\ ValidSound
  BY TypeFacts DEF IInv
<1>4. FlashTyped' /\ ValidSound'
  <2>1. CASE UNCHANGED flash
    BY <1>2, <2>1 DEF FlashTyped, PageTyped, ValidSound
  <2>2. CASE pc \in Programming /\ flash' = [flash EXCEPT ![ProgramAt[1]][ProgramAt[2]] = Torn]
    <3>1. CellSet(ProgramAt[1], ProgramAt[2], Torn)
      BY <2>2 DEF CellSet
    <3> QED
      BY <2>2, <3>1, CellTorn
  <2>3. CASE /\ EraseAt # {}
             /\ LET e == CHOOSE e \in EraseAt : \A f \in EraseAt : e[1] <= f[1]
                IN  flash' = [flash EXCEPT ![e[1]] = [a \in Addr |-> IF SectorOf(a) = e[2] THEN Torn ELSE @[a]]]
    <3>1. PICK e \in EraseAt : SectorSet(e[1], e[2], Torn)
      BY <2>3, LeastErase DEF SectorSet
    <3>2. PICK p, s : p = e[1] /\ s = e[2]
      OBVIOUS
    <3>3. SectorSet(p, s, Torn) /\ p \in Page
      BY <3>1, <3>2, LeastErase
    <3> QED
      BY <1>2, <3>3, AnyErased
  <2> QED
    BY <2>1, <2>2, <2>3 DEF PowerLoss
<1>5. TypeOK'
  <2>1. /\ queue' \in Seq(Req) /\ Len(queue') <= QueueSize
    BY <1>1, Sizes1
  <2>2. lastMeta' \in [Page -> Addr \cup {EmptyMeta}]
    BY <1>1, Sizes1
  <2>3. erase' \in [pending : BOOLEAN, page : Page, sector : 0 .. 2]
    BY <1>1 DEF Page
  <2> QED
    BY <1>1, <1>2, <1>4, <2>1, <2>2, <2>3 DEF TypeOK, FlashTyped, PageTyped, OpType
<1> QED
  BY <1>1, <1>4, <1>5, IdleParts DEF Formatting
-----------------------------------------------------------------------------
LEMMA InitHolds ==
  ASSUME Init
  PROVE  IInv
<1>1. /\ flash = [p \in Page |-> [a \in Addr |-> Blank]]
      /\ lastMeta = [p \in Page |-> 0] /\ active = NoPage /\ pageCounter = 0 /\ copyPending = FALSE
      /\ erase = [pending |-> FALSE, page |-> 0, sector |-> 0] /\ queue = <<>>
      /\ pc = "off" /\ by = "boot" /\ op = Idle /\ ram \in [Elem -> Val]
  BY DEF Init
<1>2. Top \in Addr /\ Bottom \in Addr /\ 0 \in Addr /\ QueueSize \in Nat
  BY Sizes1 DEF Top
<1>3. DOMAIN flash = Page /\ \A p \in Page : DOMAIN flash[p] = Addr /\ \A a \in Addr : flash[p][a] = Blank
  BY <1>1
<1>4. TypeOK
  <2>1. queue \in Seq(Req) /\ Len(queue) <= QueueSize /\ lastMeta \in [Page -> Addr \cup {EmptyMeta}]
    BY <1>1, <1>2
  <2>2. op \in [req : Req \cup {NoReq}, hold : Req \cup {NoReq}, rec : Addr, mt : Addr,
                k : Nat, src : Addr \cup {EmptyMeta}]
    BY <1>1, <1>2 DEF Idle
  <2>3. erase \in [pending : BOOLEAN, page : Page, sector : 0 .. 2]
    BY <1>1 DEF Page
  <2> QED
    BY <1>1, <1>2, <1>3, <2>1, <2>2, <2>3 DEF TypeOK
<1>5. ValidSound
  <2>1. \A p \in Page : ~ValidPage(flash[p])
    BY <1>2, <1>3, NotValid
  <2> QED
    BY <2>1 DEF ValidSound
<1>6. ActiveSound /\ RecordWritten /\ MirrorScanned /\ MirrorWritten /\ MirrorComplete
  BY <1>1 DEF ActiveSound, Live, RecordWritten, MirrorScanned, MirrorWritten, MirrorComplete
<1>7. EraseBehind /\ Formatting /\ Holder
  BY <1>1 DEF EraseBehind, Formatting, Holder, Live, Copying
<1> QED
  BY <1>4, <1>5, <1>6, <1>7 DEF IInv

LEMMA StepKeeps ==
  ASSUME IInv, [Next /\ FormatWithoutErase]_vars
  PROVE  IInv'
<1>1. CASE Running /\ FormatWithoutErase
  BY <1>1, CallStep, WriteDataStep, WriteMetaStep, EraseMirrorStep, ScanStep, CopyDataStep, CopyMetaStep,
     WriteTopStep, WriteBottomStep, ErasePageStep, FormatEraseStep, FormatTopStep, FormatBottomStep,
     MaintainStep, FormatStep, BootStep, RestoreStep DEF Running
<1>2. CASE IdleTask
  BY <1>2, CallStep
<1>3. ASSUME NEW x \in Elem, NEW v \in Val, ChangeRam(x, v)
      PROVE  IInv'
  <2>1. UNCHANGED <<flash, ramVars, pc, by, op>> /\ ram' = [ram EXCEPT ![x] = v] /\ ram \in [Elem -> Val]
    BY <1>3 DEF ChangeRam, IInv, TypeOK
  <2>2. ram' \in [Elem -> Val]
    BY <2>1
  <2> QED
    BY <2>1, <2>2, QuietStep
<1>4. ASSUME NEW r \in Req, SaveOnIdle(r) \/ SyncSave(r)
      PROVE  IInv'
  BY <1>4, CallStep
<1>5. CASE Format /\ FormatWithoutErase
  BY <1>5, FormatStep
<1>6. CASE PowerLoss
  BY <1>6, PowerLossStep
<1>7. CASE UNCHANGED vars
  <2>1. UNCHANGED <<flash, ramVars, pc, by, op>> /\ ram' = ram /\ ram \in [Elem -> Val]
    BY <1>7 DEF vars, IInv, TypeOK
  <2> QED
    BY <2>1, QuietStep
<1> QED
  BY <1>1, <1>2, <1>3, <1>4, <1>5, <1>6, <1>7 DEF Next

(* The invariant holds in every state of an execution in which a format    *)
(* begins with no page erase requested (NvInternalFormat leaves the erase  *)
(* request of NvSetErasePgCmdStatus standing).                             *)
THEOREM InvariantHolds == QuietSpec => []IInv
<1>1. Init => IInv
  BY InitHolds
<1>2. IInv /\ [Next /\ FormatWithoutErase]_vars => IInv'
  BY StepKeeps
<1> QED
  BY <1>1, <1>2, PTL DEF QuietSpec

(* Every cell of the flash holds what its place is for: the counters of    *)
(* NvSaveRamTable at both ends, tags and elements between; and the queue,  *)
(* the addresses and the operation in hand are in their ranges.            *)
THEOREM TypeCorrect == QuietSpec => []TypeOK
<1>1. IInv => TypeOK
  BY DEF IInv
<1> QED
  BY <1>1, InvariantHolds, PTL

(* Between operations mNvActivePageId is the page that                     *)
(* NvInitStorageSystem would choose after a power loss.                    *)
THEOREM ActivePageIsChosen == QuietSpec => []ActivePageValid
<1>1. IInv => ActivePageValid
  BY DEF IInv, ActiveSound, Live, ActivePageValid
<1> QED
  BY <1>1, InvariantHolds, PTL

(* Between operations NvUpdateLastMetaInfoAddress would find the last tag  *)
(* that NvLastMetaInfoAddress holds, and the records of the page in use    *)
(* lie above its tags and a blank cell.                                    *)
THEOREM TagsAreFound == QuietSpec => []TagsFound
<1>1. IInv => TagsFound
  <2> SUFFICES ASSUME IInv, pc = "ready"
               PROVE  /\ LastMetaOf(flash[active]) = lastMeta[active]
                      /\ \A a \in FirstMeta .. lastMeta[active] :
                           IsMeta(flash[active][a]) => flash[active][a].off > lastMeta[active] + 1
    BY DEF TagsFound
  <2> DEFINE f == flash[active]
             last == lastMeta[active]
  <2>1. PageSound(f, last) /\ active \in Page /\ PageTyped(f)
    BY TypeFacts DEF IInv, ActiveSound, Live, FlashTyped
  <2> HIDE DEF f, last
  <2>2. LastMetaOf(f) = last
    BY <2>1, LastMetaFound
  <2>3. ASSUME NEW a \in FirstMeta .. last, IsMeta(f[a])
        PROVE  f[a].off > last + 1
    <3>1. last \in -1 .. Bottom - 1 /\ a \in 1 .. Bottom - 1 /\ last >= 1
      <4>1. last \in -1 .. Bottom - 1 /\ Bottom \in Nat /\ FirstMeta = 1
        BY <2>1, Sizes1 DEF PageSound, FirstMeta
      <4> QED
        BY <2>3, <4>1
    <3>2. f[last].off > last + 1 /\ f[a].off >= f[last].off /\ IsMeta(f[last])
      BY <2>1, <2>3, <3>1 DEF PageSound, FirstMeta
    <3>3. a \in Addr \ {Top, Bottom} /\ last \in Addr \ {Top, Bottom}
      BY <3>1, Sizes1 DEF Top
    <3>4. f[a] \in Meta /\ f[last] \in Meta
      BY <2>1, <2>3, <3>2, <3>3, Tags DEF PageTyped
    <3>5. f[a].off \in Nat /\ f[last].off \in Nat
      BY <3>4, Tags, Sizes1
    <3> QED
      BY <3>1, <3>2, <3>5
  <2> QED
    BY <2>2, <2>3 DEF f, last
<1> QED
  BY <1>1, InvariantHolds, PTL
-----------------------------------------------------------------------------
(* Cells are programmed once.                                              *)

LEMMA ChangedCell ==
  ASSUME FlashTyped, NEW q, NEW c, NEW v, CellSet(q, c, v),
         NEW p \in Page, NEW a \in Addr, flash'[p][a] # flash[p][a]
  PROVE  p = q /\ a = c /\ flash'[p][a] = v
  BY DEF FlashTyped, PageTyped, CellSet

LEMMA ErasedCell ==
  ASSUME FlashTyped, NEW q, NEW s, NEW v \in {Blank, Torn}, SectorSet(q, s, v),
         NEW p \in Page, NEW a \in Addr, flash'[p][a] # flash[p][a]
  PROVE  flash'[p][a] \in {Blank, Torn}
  BY DEF FlashTyped, PageTyped, SectorSet

LEMMA ProgramsBlank ==
  ASSUME IInv, [Next]_vars, NEW p \in Page, NEW a \in Addr,
         flash'[p][a] # flash[p][a], flash'[p][a] \notin {Blank, Torn}
  PROVE  flash[p][a] = Blank
<1>1. FlashTyped /\ op \in OpType
  BY TypeFacts DEF IInv
<1>2. CASE WriteData
  <2>1. pc = "data" /\ CellSet(active, op.rec + op.k, ram[Saved(op.req, op.k)])
    BY <1>2 DEF WriteData, CellSet
  <2>2. op.k \in 0 .. Size(op.req) - 1
    <3>1. op.req \in Req /\ op.k \in 0 .. Size(op.req) /\ op.k # Size(op.req)
      BY <2>1 DEF IInv, Holder, RecordWritten
    <3> QED
      BY <3>1, Requests
  <2>3. flash[active][op.rec + op.k] = Blank
    BY <2>1, <2>2 DEF IInv, RecordWritten
  <2> QED
    BY <1>1, <2>1, <2>3, ChangedCell
<1>3. CASE WriteMeta
  <2>1. CellSet(active, op.mt, TagOf(op.req, op.rec)) /\ flash[active][op.mt] = Blank
    BY <1>3 DEF WriteMeta, CellSet, IInv, RecordWritten
  <2> QED
    BY <1>1, <2>1, ChangedCell
<1>4. CASE CopyData
  <2>1. pc = "copyData" /\ \E v : CellSet(Other(active), op.rec + op.k, v)
    BY <1>4 DEF CopyData, CellSet
  <2>2. Mirror[op.rec + op.k] = Blank
    <3> DEFINE n == Size(CopiedReq(op.src))
    <3>1. /\ op.k \in 0 .. n /\ op.k # n /\ n \in Nat
          /\ \A b \in op.rec + op.k .. op.rec + n - 1 : Mirror[b] = Blank
      BY <2>1, Requests DEF IInv, MirrorWritten
    <3>2. op.rec \in Nat /\ op.k \in Nat
      BY <1>1, Sizes1 DEF OpType
    <3> HIDE DEF n
    <3>3. op.rec + op.k \in op.rec + op.k .. op.rec + n - 1
      BY <3>1, <3>2
    <3> QED
      BY <3>1, <3>3
  <2> QED
    BY <1>1, <2>1, <2>2, ChangedCell DEF Mirror
<1>5. CASE CopyMeta
  <2>1. pc = "copyMeta" /\ \E v : CellSet(Other(active), op.mt, v)
    BY <1>5 DEF CopyMeta, CellSet
  <2>2. Mirror[op.mt] = Blank
    <3>1. op.mt < op.rec /\ \A b \in op.mt .. op.rec - 1 : Mirror[b] = Blank
      BY <2>1 DEF IInv, MirrorWritten
    <3>2. op.rec \in Nat /\ op.mt \in Nat
      BY <1>1, Sizes1 DEF OpType
    <3> QED
      BY <3>1, <3>2
  <2> QED
    BY <1>1, <2>1, <2>2, ChangedCell DEF Mirror
<1>6. CASE WriteTop \/ WriteBottom
  <2>1. PICK c : Mirror[c] = Blank /\ CellSet(Other(active), c, pageCounter)
    BY <1>6 DEF WriteTop, WriteBottom, CellSet, IInv, MirrorComplete
  <2> QED
    BY <1>1, <2>1, ChangedCell DEF Mirror
<1>7. CASE FormatTop \/ FormatBottom
  <2>1. Bottom \in Addr \ {Top}
    BY Sizes1 DEF Top
  <2>2. PICK c : flash[active][c] = Blank /\ CellSet(active, c, pageCounter)
    BY <1>7, <2>1 DEF FormatTop, FormatBottom, CellSet, IInv, Formatting
  <2> QED
    BY <1>1, <2>2, ChangedCell
<1>8. CASE EraseMirror \/ EraseOldPage \/ FormatErase \/ Maintain \/ EraseSector
  <2>1. ASSUME NEW q, EraseDirty(q) PROVE \E s : SectorSet(q, s, Blank)
    BY <2>1 DEF EraseDirty, SectorSet
  <2>2. CASE EraseMirror
    BY <1>1, <2>1, <2>2, ErasedCell DEF EraseMirror
  <2>3. CASE EraseOldPage
    BY <1>1, <2>1, <2>3, ErasedCell DEF EraseOldPage
  <2>4. CASE FormatErase
    <3>1. EraseDirty(Min({q \in Page : ~IsBlank(flash[q])})) \/ UNCHANGED flash
      BY <2>4 DEF FormatErase
    <3> QED
      BY <1>1, <2>1, <3>1, ErasedCell
  <2>5. CASE Maintain
    BY <1>1, <2>1, <2>5, ErasedCell DEF Maintain
  <2>6. CASE EraseSector
    <3>1. SectorSet(erase.page, erase.sector, Blank) \/ UNCHANGED flash
      BY <2>6 DEF EraseSector, SectorSet
    <3> QED
      BY <1>1, <3>1, ErasedCell
  <2> QED
    BY <1>8, <2>2, <2>3, <2>4, <2>5, <2>6
<1>9. CASE PowerLoss
  <2> DEFINE w == CHOOSE e \in EraseAt : \A f \in EraseAt : e[1] <= f[1]
  <2>1. \/ UNCHANGED flash
        \/ CellSet(ProgramAt[1], ProgramAt[2], Torn)
        \/ flash' = [flash EXCEPT ![w[1]] = [b \in Addr |-> IF SectorOf(b) = w[2] THEN Torn ELSE @[b]]]
    BY <1>9 DEF PowerLoss, CellSet
  <2>2. UNCHANGED flash \/ CellSet(ProgramAt[1], ProgramAt[2], Torn) \/ SectorSet(w[1], w[2], Torn)
    <3> HIDE DEF w
    <3> QED
      BY <2>1 DEF SectorSet
  <2> HIDE DEF w
  <2> QED
    BY <1>1, <2>2, ChangedCell, ErasedCell
<1>10. CASE UNCHANGED flash
  BY <1>10
<1>11. UNCHANGED flash \/ WriteData \/ WriteMeta \/ CopyData \/ CopyMeta \/ WriteTop \/ WriteBottom
       \/ FormatTop \/ FormatBottom \/ EraseMirror \/ EraseOldPage \/ FormatErase \/ Maintain
       \/ EraseSector \/ PowerLoss
  BY DEF Next, Running, vars, Add, Again, Scan, Drain, BootFormat, Boot, Restore, IdleTask, ChangeRam,
         SaveOnIdle, SyncSave, Format
<1> QED
  BY <1>2, <1>3, <1>4, <1>5, <1>6, <1>7, <1>8, <1>9, <1>10, <1>11

(* No function programs a cell that is not blank: neither a record, a tag, *)
(* a page copy nor a counter, whatever power losses left on the pages.     *)
THEOREM CellsProgrammedOnce == QuietSpec => OnlyBlankProgrammed
<1>1. IInv /\ [Next /\ FormatWithoutErase]_vars =>
        [\A p \in Page, a \in Addr :
           flash'[p][a] # flash[p][a] /\ flash'[p][a] \notin {Blank, Torn} => flash[p][a] = Blank]_vars
  <2> SUFFICES ASSUME IInv, [Next]_vars, NEW p \in Page, NEW a \in Addr,
                      flash'[p][a] # flash[p][a], flash'[p][a] \notin {Blank, Torn}
               PROVE  flash[p][a] = Blank
    OBVIOUS
  <2> QED
    BY ProgramsBlank
<1> QED
  BY <1>1, InvariantHolds, PTL DEF QuietSpec, OnlyBlankProgrammed
-----------------------------------------------------------------------------
(***************************************************************************)
(* The page copy, which leaves room for a record and loses nothing that no *)
(* queued save is about to write again, and what NvStore promises: only a  *)
(* completed save changes what is restored.                                *)
(***************************************************************************)
(* What a restart would find of element x in the page in use.              *)
Value(x) == RestoredFrom(flash[active], lastMeta[active], x)

(* The copy sees no queued save that is about to write x: none in a full   *)
(* queue (see PendingSave).                                                *)
Settled(x) == Len(queue) < QueueSize => \A j \in DOMAIN queue : x \notin ElemsOf(queue[j])

(* Every tag behind the one the copy has come to is superseded by a tag of *)
(* the mirror, or is of an element about to be saved.                      *)
TagsDone ==
  /\ pc = "blank" => op.src = lastMeta[active]
  /\ pc \in {"scan", "copyData", "copyMeta"} =>
    \A b \in op.src + 1 .. lastMeta[active] :
      LET m == flash[active][b]
      IN  IsMeta(m) => IsRecordCopied(m) \/ (~m.all /\ PendingSave(m.e, m.i))

(* The cell of element x in the record of tag m.                           *)
CellOf(m, x) == m.off + IF m.all THEN x[2] - 1 ELSE 0

(* The copied records hold the newest values.                              *)
ValuesDone ==
  pc \in {"scan", "copyData", "copyMeta"} =>
    \A a \in FirstMeta .. op.mt - 1, x \in Elem :
      Covers(Mirror[a], x) /\ Settled(x) => Mirror[CellOf(Mirror[a], x)] = Value(x)

RecordDone ==
  pc \in {"copyData", "copyMeta"} =>
    \A k \in 0 .. op.k - 1 :
      Mirror[op.rec + k] = RestoredFrom(flash[active], op.src, Saved(CopiedReq(op.src), k))

CopyDone ==
  pc \in {"top", "bottom"} =>
    \A x \in Elem : Settled(x) => RestoredFrom(Mirror, lastMeta[Other(active)], x) = Value(x)

(* The room left on a complete mirror.                                     *)
RoomDone ==
  pc \in {"top", "bottom"} =>
    /\ lastMeta[Other(active)] = IF op.mt = FirstMeta THEN EmptyMeta ELSE op.mt - 1
    /\ FirstMeta <= op.mt /\ op.mt - FirstMeta <= Cardinality(Elem)
    /\ Bottom - op.rec <= Cardinality(Elem)
    /\ op.mt = FirstMeta => op.rec = Bottom
    /\ op.mt > FirstMeta => Mirror[op.mt - 1].off = op.rec
    /\ \A a \in op.mt .. op.rec - 1 : Mirror[a] = Blank

CInv == TagsDone /\ ValuesDone /\ RecordDone /\ CopyDone /\ RoomDone
-----------------------------------------------------------------------------
(* What the newest tag of an element restores.                             *)

LEMMA NewestTag ==
  ASSUME NEW f, NEW last \in Int, NEW x, \E a \in FirstMeta .. last : Covers(f[a], x)
  PROVE  \E a \in FirstMeta .. last : Covers(f[a], x) /\ \A b \in a + 1 .. last : ~Covers(f[b], x)
<1> DEFINE T == {a \in FirstMeta .. last : Covers(f[a], x)}
<1>1. T \in SUBSET Nat /\ T # {} /\ last \in Nat /\ \A a \in T : a <= last
  BY DEF FirstMeta
<1>2. PICK a \in T : \A b \in T : b <= a
  BY <1>1, GreatestElement
<1>3. a \in FirstMeta .. last /\ Covers(f[a], x) /\ \A b \in FirstMeta .. last : Covers(f[b], x) => b <= a
  BY <1>2
<1>4. \A b \in a + 1 .. last : b \in FirstMeta .. last /\ ~(b <= a)
  BY <1>3 DEF FirstMeta
<1> QED
  BY <1>3, <1>4

LEMMA RestoredNewest ==
  ASSUME NEW f, NEW last \in Int, NEW x, NEW a \in FirstMeta .. last,
         Covers(f[a], x), \A b \in a + 1 .. last : ~Covers(f[b], x)
  PROVE  RestoredFrom(f, last, x) = f[CellOf(f[a], x)]
<1> DEFINE Newest(b) == Covers(f[b], x) /\ \A c \in b + 1 .. last : ~Covers(f[c], x)
<1>1. \A b \in FirstMeta .. last : Newest(b) => b = a
  BY DEF FirstMeta
<1>2. (CHOOSE b \in FirstMeta .. last : Newest(b)) = a
  <2>1. Newest(a)
    OBVIOUS
  <2> HIDE DEF Newest
  <2> QED
    BY <1>1, <2>1
<1> QED
  BY <1>2 DEF RestoredFrom, CellOf

(* Tags that do not cover an element do not matter to it.                  *)
LEMMA RestoredDown ==
  ASSUME NEW f, NEW last \in Int, NEW src \in Int, src <= last, NEW x,
         \A b \in src + 1 .. last : b >= FirstMeta => ~Covers(f[b], x)
  PROVE  RestoredFrom(f, src, x) = RestoredFrom(f, last, x)
<1>1. \A b \in FirstMeta .. src : b \in FirstMeta .. last
  BY DEF FirstMeta
<1>2. \A b \in FirstMeta .. last : b \in FirstMeta .. src \/ b \in src + 1 .. last
  BY DEF FirstMeta
<1>3. CASE \E a \in FirstMeta .. src : Covers(f[a], x)
  <2>1. PICK a \in FirstMeta .. src : Covers(f[a], x) /\ \A b \in a + 1 .. src : ~Covers(f[b], x)
    BY <1>3, NewestTag
  <2>2. \A b \in a + 1 .. last : b \in a + 1 .. src \/ (b \in src + 1 .. last /\ b >= FirstMeta)
    BY <2>1 DEF FirstMeta
  <2>3. RestoredFrom(f, src, x) = f[CellOf(f[a], x)]
    BY <2>1, RestoredNewest
  <2>4. RestoredFrom(f, last, x) = f[CellOf(f[a], x)]
    BY <1>1, <2>1, <2>2, RestoredNewest
  <2> QED
    BY <2>3, <2>4
<1>4. CASE ~ \E a \in FirstMeta .. src : Covers(f[a], x)
  <2>1. ~ \E a \in FirstMeta .. last : Covers(f[a], x)
    BY <1>2, <1>4
  <2> QED
    BY <1>4, <2>1 DEF RestoredFrom
<1> QED
  BY <1>3, <1>4

(* The place of the cell that a covering tag names.                        *)
LEMMA CellPlace ==
  ASSUME NEW f, NEW m \in Meta, RecordAt(f, m), NEW x \in Elem, Covers(m, x)
  PROVE  /\ CellOf(m, x) \in m.off .. m.off + Size(m) - 1
         /\ CellOf(m, x) \in Addr /\ CellOf(m, x) < Bottom
<1>1. m.e = x[1] /\ m.off \in Addr /\ m.all \in BOOLEAN /\ Size(m) \in Nat /\ Size(m) >= 1
  BY Tags DEF Covers
<1>2. x[2] \in 1 .. ElementsCount[m.e] /\ ElementsCount[m.e] \in Nat
  BY <1>1, Elements
<1>3. (m.all => Size(m) = ElementsCount[m.e]) /\ (~m.all => Size(m) = 1)
  BY DEF Size
<1>4. /\ PageSize \in Nat /\ PageSize >= 3 /\ Bottom = PageSize - 1 /\ Addr = 0 .. PageSize - 1
      /\ m.off + Size(m) <= Bottom
  BY Sizes1 DEF RecordAt
<1>5. CellOf(m, x) \in m.off .. m.off + Size(m) - 1
  <2>1. CASE m.all
    BY <1>1, <1>2, <1>3, <1>4, <2>1 DEF CellOf
  <2>2. CASE ~m.all
    BY <1>1, <1>3, <1>4, <2>2 DEF CellOf
  <2> QED
    BY <1>1, <2>1, <2>2
<1> QED
  BY <1>1, <1>4, <1>5

(* What a page restores depends on what is between its counters.           *)
LEMMA RestoredSame ==
  ASSUME NEW f, NEW g, NEW last, PageTyped(f), PageSound(f, last), NEW x \in Elem,
         \A a \in Addr \ {Top, Bottom} : g[a] = f[a]
  PROVE  RestoredFrom(g, last, x) = RestoredFrom(f, last, x)
<1>1. /\ PageSize \in Nat /\ PageSize >= 3 /\ Bottom = PageSize - 1 /\ Addr = 0 .. PageSize - 1
      /\ last \in -1 .. Bottom - 1 /\ last \in Int
  BY Sizes1 DEF PageSound
<1>2. \A a \in FirstMeta .. last : a \in Addr \ {Top, Bottom} /\ g[a] = f[a]
  BY <1>1 DEF FirstMeta, Top
<1>3. CASE \E a \in FirstMeta .. last : Covers(f[a], x)
  <2>1. PICK a \in FirstMeta .. last : Covers(f[a], x) /\ \A b \in a + 1 .. last : ~Covers(f[b], x)
    BY <1>1, <1>3, NewestTag
  <2>2. \A b \in a + 1 .. last : b \in FirstMeta .. last
    BY <1>1, <2>1 DEF FirstMeta
  <2>7. RestoredFrom(f, last, x) = f[CellOf(f[a], x)]
    BY <1>1, <2>1, RestoredNewest
  <2>8. Covers(g[a], x) /\ \A b \in a + 1 .. last : ~Covers(g[b], x)
    BY <1>2, <2>1, <2>2
  <2>9. RestoredFrom(g, last, x) = g[CellOf(g[a], x)]
    BY <1>1, <2>1, <2>8, RestoredNewest
  <2>3. RestoredFrom(f, last, x) = f[CellOf(f[a], x)] /\ RestoredFrom(g, last, x) = g[CellOf(f[a], x)]
    BY <1>2, <2>1, <2>7, <2>9
  <2>4. f[a] \in Meta /\ RecordAt(f, f[a]) /\ f[a].off >= f[last].off
    BY <1>2, <2>1, Tags DEF PageTyped, PageSound, Covers
  <2>5. f[a].off > 0
    <3>1. last >= 1 /\ last \in FirstMeta .. last
      BY <1>1, <2>1 DEF FirstMeta
    <3>2. f[last].off > last + 1 /\ f[last] \in Meta
      BY <1>2, <3>1, Tags DEF PageSound, PageTyped, FirstMeta
    <3>3. f[last].off \in Nat /\ f[a].off \in Nat
      BY <1>1, <2>4, <3>2, Tags
    <3> QED
      BY <1>1, <2>4, <3>1, <3>2, <3>3
  <2>6. CellOf(f[a], x) \in Addr \ {Top, Bottom}
    <3>1. /\ CellOf(f[a], x) \in f[a].off .. f[a].off + Size(f[a]) - 1
          /\ CellOf(f[a], x) \in Addr /\ CellOf(f[a], x) < Bottom
      BY <2>1, <2>4, CellPlace
    <3>2. f[a].off \in Nat
      BY <1>1, <2>4, Tags
    <3> QED
      BY <1>1, <2>5, <3>1, <3>2 DEF Top
  <2> QED
    BY <1>2, <2>1, <2>3, <2>6
<1>4. CASE ~ \E a \in FirstMeta .. last : Covers(f[a], x)
  <2>1. ~ \E a \in FirstMeta .. last : Covers(g[a], x)
    BY <1>2, <1>4
  <2> QED
    BY <1>4, <2>1 DEF RestoredFrom
<1> QED
  BY <1>3, <1>4
-----------------------------------------------------------------------------
(* The steps that do not change what the copy has done.                    *)

LEMMA NoCopy ==
  ASSUME ~Copying'
  PROVE  CInv'
  BY DEF Copying, CInv, TagsDone, ValuesDone, RecordDone, CopyDone, RoomDone

LEMMA CopyBegun ==
  ASSUME pc' \in {"scan", "blank"}, op'.src = lastMeta'[active'], op'.mt = FirstMeta, op'.src \in Int
  PROVE  CInv'
<1>1. \A b \in op'.src + 1 .. lastMeta'[active'] : FALSE
  OBVIOUS
<1>2. \A a \in FirstMeta .. op'.mt - 1 : FALSE
  BY DEF FirstMeta
<1> QED
  BY <1>1, <1>2 DEF CInv, TagsDone, ValuesDone, RecordDone, CopyDone, RoomDone

LEMMA CopyQuiet ==
  ASSUME CInv, UNCHANGED <<flash, ramVars, pc, op>>
  PROVE  CInv'
  BY ZenonT(60)
     DEF CInv, TagsDone, ValuesDone, RecordDone, CopyDone, RoomDone, Mirror, Value, Settled,
         IsRecordCopied, PendingSave, CopiedReq, FullSaves, ramVars

LEMMA BeginCopyBegins ==
  ASSUME NEW f, NEW o, BeginCopy(f, o), o \in OpType, lastMeta[active] \in Int,
         UNCHANGED <<active, lastMeta>>
  PROVE  CInv'
<1>1. pc' \in {"scan", "blank"} /\ op' = [o EXCEPT !.src = lastMeta[active], !.mt = FirstMeta, !.rec = Bottom, !.k = 0]
  BY DEF BeginCopy
<1>2. op'.src = lastMeta[active] /\ op'.mt = FirstMeta
  BY <1>1 DEF OpType
<1> QED
  BY <1>1, <1>2, CopyBegun

LEMMA CallCopy ==
  ASSUME IInv, CInv,
         Add \/ Again \/ Drain \/ IdleTask \/ \E r \in Req : SaveOnIdle(r) \/ SyncSave(r)
  PROVE  CInv'
<1>1. TypeOK /\ op \in OpType /\ Idle \in OpType /\ NoReq \in Req \cup {NoReq}
  BY TypeFacts DEF IInv
<1>2. UNCHANGED <<active, lastMeta>>
  BY DEF Add, Again, Drain, IdleTask, SaveOnIdle, SyncSave, ramVars
<1>3. ASSUME pc \in {"ready", "again", "drain"}
      PROVE  lastMeta[active] \in Int
  BY <1>3 DEF IInv, ActiveSound, PageSound, Live
<1>4. ASSUME NEW f, NEW r \in Req, NEW hold \in Req \cup {NoReq}, WriteRecord(f, r, hold),
             pc \in {"ready", "again", "drain"}
      PROVE  CInv'
  <2> DEFINE o == [Idle EXCEPT !.req = r, !.hold = hold]
  <2>1. o \in OpType
    BY <1>1 DEF OpType
  <2>2. BeginCopy(f, o) \/ pc' \in {"data", "ready", "add"}
    BY <1>4 DEF WriteRecord
  <2> HIDE DEF o
  <2>3. CASE BeginCopy(f, o)
    BY <1>2, <1>3, <1>4, <2>1, <2>3, BeginCopyBegins
  <2>4. CASE pc' \in {"data", "ready", "add"}
    BY <2>4, NoCopy DEF Copying
  <2> QED
    BY <2>2, <2>3, <2>4
<1>5. CASE Add
  <2>1. pc = "add" /\ pc' \in {"add", "again"}
    BY <1>5 DEF Add, AddRequest
  <2> QED
    BY <2>1, NoCopy DEF Copying
<1>6. CASE Again
  <2>1. pc = "again" /\ WriteRecord(by, op.req, op.hold) /\ op.req \in Req
    BY <1>6 DEF Again, IInv, Holder
  <2>2. op.hold \in Req \cup {NoReq}
    BY <1>1 DEF OpType
  <2> QED
    BY <1>4, <2>1, <2>2
<1>7. CASE Drain
  <2>1. pc = "drain" /\ (pc' = "ready" \/ (queue # <<>> /\ WriteRecord("idle", Head(queue), NoReq)))
    BY <1>7 DEF Drain
  <2>2. CASE pc' = "ready"
    BY <2>2, NoCopy DEF Copying
  <2>3. CASE queue # <<>> /\ WriteRecord("idle", Head(queue), NoReq)
    <3>1. queue \in Seq(Req)
      BY <1>1 DEF TypeOK
    <3>2. Head(queue) \in Req
      BY <2>3, <3>1
    <3> QED
      BY <1>1, <1>4, <2>1, <2>3, <3>2
  <2> QED
    BY <2>1, <2>2, <2>3
<1>8. CASE IdleTask
  <2>1. pc = "ready" /\ (BeginCopy("idle", Idle) \/ pc' \in {"sector", "drain"})
    BY <1>8 DEF IdleTask
  <2>2. CASE BeginCopy("idle", Idle)
    BY <1>1, <1>2, <1>3, <2>1, <2>2, BeginCopyBegins
  <2>3. CASE pc' \in {"sector", "drain"}
    BY <2>3, NoCopy DEF Copying
  <2> QED
    BY <2>1, <2>2, <2>3
<1>9. ASSUME NEW r \in Req, SaveOnIdle(r)
      PROVE  CInv'
  <2>1. pc = "ready" /\ pc' \in {"ready", "again"}
    BY <1>9 DEF SaveOnIdle, Call, AddRequest
  <2> QED
    BY <2>1, NoCopy DEF Copying
<1>10. ASSUME NEW r \in Req, SyncSave(r)
       PROVE  CInv'
  <2>1. pc = "ready" /\ WriteRecord("sync", r, NoReq)
    BY <1>10 DEF SyncSave, Call
  <2> QED
    BY <1>1, <1>4, <2>1
<1> QED
  BY <1>5, <1>6, <1>7, <1>8, <1>9, <1>10

LEMMA BootCopy ==
  ASSUME IInv, Boot
  PROVE  CInv'
<1> DEFINE p    == BootPage(flash)
           last == LastMetaOf(flash[p])
<1>1. /\ pc = "off" /\ p \in Page
      /\ active' = p /\ lastMeta' = [lastMeta EXCEPT ![p] = last]
      /\ \/ /\ op' = [Idle EXCEPT !.src = last, !.mt = FirstMeta, !.rec = Bottom]
            /\ pc' \in {"scan", "blank"}
         \/ pc' = "restore"
  BY DEF Boot, Unusable, BootPage, Page, NoPage
<1>2. DOMAIN lastMeta = Page
  BY DEF IInv, TypeOK
<1>3. last \in Int
  <2>1. ValidPage(flash[p])
    BY <1>1, ChosenValid
  <2>2. PICK l \in Addr \cup {EmptyMeta} : PageSound(flash[p], l)
    BY <1>1, <2>1 DEF IInv, ValidSound
  <2>3. last = l
    BY <2>2, LastMetaFound
  <2> QED
    BY <2>2, <2>3 DEF PageSound
<1> HIDE DEF p, last
<1>4. CASE pc' = "restore"
  BY <1>4, NoCopy DEF Copying
<1>5. CASE /\ op' = [Idle EXCEPT !.src = last, !.mt = FirstMeta, !.rec = Bottom]
           /\ pc' \in {"scan", "blank"}
  <2>1. op'.src = last /\ op'.mt = FirstMeta /\ lastMeta'[active'] = last
    BY <1>1, <1>2, <1>5 DEF Idle
  <2> QED
    BY <1>3, <1>5, <2>1, CopyBegun
<1> QED
  BY <1>1, <1>4, <1>5

LEMMA EraseCopy ==
  ASSUME IInv, CInv, EraseMirror
  PROVE  CInv'
<1>1. /\ pc = "blank" /\ Copying /\ pc' \in {"scan", "blank"} /\ UNCHANGED <<ramVars, op>>
  BY DEF EraseMirror, Copying
<1>2. op.src = lastMeta[active] /\ op.mt = FirstMeta /\ op.src \in Int
  BY <1>1, CopyFacts DEF CInv, TagsDone, IInv, MirrorScanned, PageSound
<1> QED
  BY <1>1, <1>2, CopyBegun DEF ramVars
-----------------------------------------------------------------------------
(* The steps of the copy.                                                  *)

LEMMA SamePage ==
  ASSUME flash'[active] = flash[active], UNCHANGED <<active, queue>>, lastMeta'[active] = lastMeta[active]
  PROVE  /\ \A x : Value(x)' = Value(x) /\ (Settled(x)' <=> Settled(x))
         /\ \A e, i : PendingSave(e, i)' <=> PendingSave(e, i)
         /\ \A a : CopiedReq(a)' = CopiedReq(a)
  BY DEF Value, Settled, PendingSave, CopiedReq, FullSaves

(* A superseded tag covers an element only if a tag of the mirror does.    *)
LEMMA CopiedCovered ==
  ASSUME NEW m \in Meta, NEW x, Covers(m, x), IsRecordCopied(m)
  PROVE  \E a \in FirstMeta .. op.mt - 1 : Covers(Mirror[a], x)
<1>1. m.all \in BOOLEAN
  BY Tags
<1> QED
  BY <1>1 DEF IsRecordCopied, Covers, Mirror

(* A tag about an element that is about to be saved.                       *)
LEMMA PendingUnsettled ==
  ASSUME queue \in Seq(Req), NEW m \in Meta, ~m.all, PendingSave(m.e, m.i),
         NEW x \in Elem, Covers(m, x)
  PROVE  ~Settled(x)
<1>1. PICK j \in DOMAIN queue : queue[j].e = m.e /\ (queue[j].all \/ queue[j].i = m.i)
  BY DEF PendingSave
<1>2. queue[j] \in Req /\ x[1] = m.e /\ x[2] = m.i
  BY <1>1 DEF Covers
<1>3. x \in ElemsOf(queue[j])
  BY <1>1, <1>2, Requests
<1> QED
  BY <1>3 DEF Settled, PendingSave

LEMMA ScanCopies ==
  ASSUME IInv, CInv, Scan
  PROVE  CInv'
<1> DEFINE todo == {a \in FirstMeta .. op.src : Copyable(a)}
           last == lastMeta[active]
           f    == flash[active]
<1>1. /\ PageSize \in Nat /\ PageSize >= 3 /\ Bottom = PageSize - 1 /\ Addr = 0 .. PageSize - 1
  BY Sizes1
<1>2. /\ op \in OpType /\ pc = "scan" /\ active \in Page /\ Other(active) \in Page /\ Other(active) # active
      /\ PageSound(f, last) /\ PageTyped(f) /\ PageTyped(Mirror)
      /\ lastMeta \in [Page -> Addr \cup {EmptyMeta}]
      /\ UNCHANGED <<flash, active, queue>> /\ queue \in Seq(Req)
  <2>1. pc = "scan" /\ Copying /\ UNCHANGED <<flash, active, queue>>
    BY DEF Scan, Copying
  <2> QED
    BY <2>1, CopyFacts DEF IInv, TypeOK
<1>3. /\ CopiedPart(Mirror, op.mt, op.rec) /\ RoomUsed(Mirror, op.mt, op.rec)
      /\ \A a \in op.mt .. op.rec - 1 : Mirror[a] = Blank
      /\ op.src <= last
  BY <1>2 DEF IInv, MirrorScanned
<1>4. /\ op.mt \in Nat /\ op.rec \in Nat /\ op.src \in Int
      /\ 1 <= op.mt /\ op.mt < op.rec /\ op.rec <= Bottom
      /\ last \in -1 .. Bottom - 1
  BY <1>1, <1>2, <1>3 DEF OpType, CopiedPart, FirstMeta, EmptyMeta, PageSound
<1>5. \A b \in op.src + 1 .. last :
        IsMeta(f[b]) => IsRecordCopied(f[b]) \/ (~f[b].all /\ PendingSave(f[b].e, f[b].i))
  BY <1>2 DEF CInv, TagsDone
<1>6. \A a \in FirstMeta .. op.mt - 1, x \in Elem :
        Covers(Mirror[a], x) /\ Settled(x) => Mirror[CellOf(Mirror[a], x)] = Value(x)
  BY <1>2 DEF CInv, ValuesDone
<1>7. lastMeta'[active] = last /\ op'.mt = op.mt /\ Mirror' = Mirror
  <2>1. \/ UNCHANGED lastMeta
        \/ \E l : lastMeta' = [lastMeta EXCEPT ![Other(active)] = l]
    BY DEF Scan
  <2>2. op'.mt = op.mt
    BY <1>2 DEF Scan, OpType
  <2> QED
    BY <1>2, <2>1, <2>2 DEF Mirror
<1>8. /\ \A x : Value(x)' = Value(x) /\ (Settled(x)' <=> Settled(x))
      /\ \A e, i : PendingSave(e, i)' <=> PendingSave(e, i)
  BY <1>2, <1>7, SamePage
<1>9. \A m : IsRecordCopied(m)' <=> IsRecordCopied(m)
  BY <1>2, <1>7 DEF IsRecordCopied
<1>10. CASE todo # {}
  <2>1. PICK src \in Nat : src = Max(todo) /\ src \in FirstMeta .. op.src /\ \A b \in todo : b <= src
    <3>1. todo \in SUBSET Nat /\ \A a \in todo : a <= Bottom
      BY <1>1, <1>3, <1>4 DEF FirstMeta
    <3>2. Max(todo) \in todo /\ \A b \in todo : b <= Max(todo)
      <4> HIDE DEF todo
      <4>1. Bottom \in Nat
        BY <1>1
      <4> QED
        BY <1>10, <3>1, <4>1, GreatestElement
    <3> QED
      BY <3>1, <3>2
  <2>2. op' = [op EXCEPT !.src = src, !.rec = @ - Size(CopiedReq(src)), !.k = 0] /\ pc' = "copyData"
    BY <1>10, <2>1 DEF Scan
  <2>3. op'.src = src /\ op'.k = 0
    BY <1>2, <2>2 DEF OpType
  <2>4. ASSUME NEW b \in src + 1 .. last, IsMeta(f[b])
        PROVE  IsRecordCopied(f[b]) \/ (~f[b].all /\ PendingSave(f[b].e, f[b].i))
    <3>1. CASE b > op.src
      BY <1>4, <1>5, <2>4, <3>1
    <3>2. CASE b <= op.src
      <4>1. b \in FirstMeta .. op.src /\ ~(b <= src)
        BY <1>4, <2>1, <2>4, <3>2 DEF FirstMeta
      <4>2. ~Copyable(b)
        BY <2>1, <4>1
      <4> QED
        BY <2>4, <4>2 DEF Copyable
    <3> QED
      BY <1>4, <3>1, <3>2
  <2>5. TagsDone'
    BY <1>2, <1>7, <1>8, <1>9, <2>2, <2>3, <2>4 DEF TagsDone
  <2>6. ValuesDone'
    BY <1>6, <1>7, <1>8, <2>2 DEF ValuesDone
  <2>7. RecordDone'
    BY <2>3 DEF RecordDone
  <2> QED
    BY <2>2, <2>5, <2>6, <2>7 DEF CInv, CopyDone, RoomDone
<1>11. CASE todo = {}
  <2> DEFINE new == IF op.mt = FirstMeta THEN EmptyMeta ELSE op.mt - 1
  <2>1. lastMeta' = [lastMeta EXCEPT ![Other(active)] = new] /\ pc' = "top" /\ UNCHANGED op
    BY <1>11 DEF Scan
  <2>2. lastMeta'[Other(active)] = new
    BY <1>2, <2>1
  <2>3. new \in Int /\ FirstMeta .. new = FirstMeta .. op.mt - 1
    BY <1>4 DEF FirstMeta, EmptyMeta
  <2> HIDE DEF new
  <2>4. ASSUME NEW x \in Elem, Settled(x)
        PROVE  RestoredFrom(Mirror, new, x) = Value(x)
    <3>1. CASE \E a \in FirstMeta .. new : Covers(Mirror[a], x)
      <4>1. PICK a \in FirstMeta .. new : Covers(Mirror[a], x) /\ \A b \in a + 1 .. new : ~Covers(Mirror[b], x)
        BY <2>3, <3>1, NewestTag
      <4>2. RestoredFrom(Mirror, new, x) = Mirror[CellOf(Mirror[a], x)]
        BY <2>3, <4>1, RestoredNewest
      <4> QED
        BY <1>6, <2>3, <2>4, <4>1, <4>2
    <3>2. CASE ~ \E a \in FirstMeta .. new : Covers(Mirror[a], x)
      <4>1. ASSUME NEW b \in FirstMeta .. last, Covers(f[b], x)
            PROVE  FALSE
        <5>1. f[b] \in Meta
          <6>1. b \in Addr \ {Top, Bottom} /\ IsMeta(f[b])
            BY <1>1, <1>4, <4>1 DEF Covers, FirstMeta, Top
          <6> QED
            BY <1>2, <6>1, Tags DEF PageTyped
        <5>2. IsRecordCopied(f[b]) \/ (~f[b].all /\ PendingSave(f[b].e, f[b].i))
          <6>1. CASE b > op.src
            BY <1>4, <1>5, <4>1, <6>1 DEF Covers, FirstMeta
          <6>2. CASE b <= op.src
            <7>1. b \in FirstMeta .. op.src
              BY <1>4, <6>2 DEF FirstMeta
            <7> QED
              BY <1>11, <4>1, <7>1 DEF Copyable, Covers
          <6> QED
            BY <1>4, <6>1, <6>2 DEF FirstMeta
        <5> QED
          BY <1>2, <2>3, <2>4, <3>2, <4>1, <5>1, <5>2, CopiedCovered, PendingUnsettled
      <4> QED
        BY <3>2, <4>1 DEF RestoredFrom, Value
    <3> QED
      BY <3>1, <3>2
  <2>5. CopyDone'
    BY <1>2, <1>7, <1>8, <2>2, <2>4 DEF CopyDone
  <2>6. RoomDone'
    <3> DEFINE C == Covered(Mirror, op.mt)
               E == Cardinality(Elem)
    <3>1. op.mt - FirstMeta <= Cardinality(C) /\ Bottom - op.rec = Cardinality(C)
      BY <1>3 DEF RoomUsed
    <3>2. Cardinality(C) \in Nat /\ Cardinality(C) <= E /\ E \in Nat
      BY FiniteElements, FS_Subset, FS_CardinalityType DEF Covered
    <3>3. op.mt = FirstMeta => op.rec = Bottom
      <4> SUFFICES ASSUME op.mt = FirstMeta PROVE op.rec = Bottom
        OBVIOUS
      <4>1. C = {}
        BY DEF Covered, FirstMeta
      <4>2. Cardinality(C) = 0
        BY <4>1, FS_EmptySet
      <4> QED
        BY <1>1, <1>4, <3>1, <4>2
    <3>4. FirstMeta <= op.mt /\ (op.mt > FirstMeta => Mirror[op.mt - 1].off = op.rec)
      BY <1>3 DEF CopiedPart
    <3> HIDE DEF C, E
    <3>5. op.mt - FirstMeta <= E /\ Bottom - op.rec <= E
      BY <1>1, <1>4, <3>1, <3>2 DEF FirstMeta
    <3> QED
      BY <1>2, <1>3, <1>7, <2>1, <2>2, <3>3, <3>4, <3>5 DEF RoomDone, new, E
  <2> QED
    BY <2>1, <2>5, <2>6 DEF CInv, TagsDone, ValuesDone, RecordDone
<1> QED
  BY <1>10, <1>11

LEMMA CopyDataCopies ==
  ASSUME IInv, CInv, CopyData
  PROVE  CInv'
<1> DEFINE c == op.rec + op.k
           f == flash[active]
           v == RestoredFrom(f, op.src, Saved(CopiedReq(op.src), op.k))
<1>1. /\ PageSize \in Nat /\ PageSize >= 3 /\ Bottom = PageSize - 1 /\ Addr = 0 .. PageSize - 1
  BY Sizes1
<1>2. /\ op \in OpType /\ pc = "copyData" /\ active \in Page /\ Other(active) \in Page /\ Other(active) # active
      /\ FlashTyped /\ PageTyped(Mirror) /\ PageSound(f, lastMeta[active])
      /\ UNCHANGED ramVars /\ CellSet(Other(active), c, v)
      /\ op' = [op EXCEPT !.k = @ + 1] /\ pc' \in {"copyData", "copyMeta"}
  <2>1. /\ pc = "copyData" /\ Copying /\ UNCHANGED ramVars /\ CellSet(Other(active), c, v)
        /\ op' = [op EXCEPT !.k = @ + 1] /\ pc' \in {"copyData", "copyMeta"}
    BY DEF CopyData, Copying, CellSet
  <2> QED
    BY <2>1, CopyFacts
<1>3. PICK r \in Req : r = CopiedReq(op.src)
  BY <1>2 DEF IInv, MirrorWritten
<1> DEFINE n == Size(r)
<1>4. /\ op.k \in 0 .. n /\ op.k # n /\ n \in Nat
      /\ CopiedPart(Mirror, op.mt, op.rec + n) /\ op.mt < op.rec
  BY <1>2, <1>3, Requests DEF IInv, MirrorWritten
<1>5. /\ op.mt \in Nat /\ op.rec \in Nat /\ 1 <= op.mt /\ op.rec + n <= Bottom /\ op.k \in 0 .. n - 1
      /\ op.rec + n \in Nat
  BY <1>1, <1>2, <1>4 DEF OpType, CopiedPart, FirstMeta
<1>6. c \in Addr /\ c > op.mt /\ c < op.rec + n
  BY <1>1, <1>4, <1>5, SMTT(30)
<1>7. /\ flash'[active] = f /\ Mirror'[c] = v
      /\ \A b \in Addr \ {c} : Mirror'[b] = Mirror[b]
  BY <1>2, <1>6, ProgramCell DEF Mirror, ramVars
<1>8. op'.k = op.k + 1 /\ op'.src = op.src /\ op'.mt = op.mt /\ op'.rec = op.rec
  BY <1>2 DEF OpType
<1>9. UNCHANGED <<active, queue, lastMeta>>
  BY <1>2 DEF ramVars
<1>10. /\ \A x : Value(x)' = Value(x) /\ (Settled(x)' <=> Settled(x))
       /\ \A e, i : PendingSave(e, i)' <=> PendingSave(e, i)
       /\ \A a : CopiedReq(a)' = CopiedReq(a)
  BY <1>7, <1>9, SamePage
<1>11. \A a \in FirstMeta .. op.mt - 1 : a \in Addr /\ a # c /\ Mirror'[a] = Mirror[a]
  <2>1. \A a \in FirstMeta .. op.mt - 1 : a \in Addr /\ a # c
    BY <1>1, <1>4, <1>5, <1>6 DEF FirstMeta
  <2> QED
    BY <1>7, <2>1
<1>12. TagsDone'
  <2>1. \A m : IsRecordCopied(m)' <=> IsRecordCopied(m)
    BY <1>8, <1>11 DEF IsRecordCopied, Mirror
  <2>2. \A b : flash'[active'][b] = f[b]
    BY <1>7, <1>9
  <2> QED
    BY <1>2, <1>8, <1>9, <1>10, <2>1, <2>2 DEF CInv, TagsDone
<1>13. ValuesDone'
  <2> SUFFICES ASSUME NEW a \in FirstMeta .. op.mt - 1, NEW x \in Elem, Covers(Mirror[a], x), Settled(x)
               PROVE  Mirror'[CellOf(Mirror[a], x)] = Value(x)
    BY <1>8, <1>10, <1>11 DEF ValuesDone
  <2>1. IsMeta(Mirror[a]) /\ Mirror[a].off >= op.rec + n /\ RecordAt(Mirror, Mirror[a])
    BY <1>4 DEF CopiedPart
  <2>2. Mirror[a] \in Meta
    <3>1. a \in Addr \ {Top, Bottom}
      BY <1>1, <1>4, <1>5, SMTT(30) DEF FirstMeta, Top
    <3> QED
      BY <1>2, <2>1, <3>1, Tags DEF PageTyped
  <2>3. CellOf(Mirror[a], x) \in Addr /\ CellOf(Mirror[a], x) >= op.rec + n
    <3>1. /\ CellOf(Mirror[a], x) \in Mirror[a].off .. Mirror[a].off + Size(Mirror[a]) - 1
          /\ CellOf(Mirror[a], x) \in Addr
      BY <2>1, <2>2, CellPlace
    <3>2. Mirror[a].off \in Nat /\ Size(Mirror[a]) \in Nat
      BY <1>1, <2>2, Tags
    <3> QED
      BY <1>1, <1>5, <2>1, <3>1, <3>2
  <2>4. CellOf(Mirror[a], x) # c
    BY <1>1, <1>5, <1>6, <2>3
  <2> QED
    BY <1>2, <1>7, <2>3, <2>4 DEF CInv, ValuesDone
<1>14. RecordDone'
  <2> SUFFICES ASSUME NEW k \in 0 .. op.k
               PROVE  Mirror'[op.rec + k] = RestoredFrom(f, op.src, Saved(CopiedReq(op.src), k))
    BY <1>5, <1>7, <1>8, <1>9, <1>10 DEF RecordDone
  <2>1. CASE k = op.k
    BY <1>7, <2>1
  <2>2. CASE k # op.k
    <3>1. k \in 0 .. op.k - 1 /\ op.rec + k \in Addr /\ op.rec + k # c
      <4>1. /\ op.rec \in Nat /\ op.k \in Nat /\ k \in Nat /\ k < op.k
            /\ op.rec + op.k \in 0 .. PageSize - 1 /\ PageSize \in Nat
        BY <1>1, <1>5, <1>6, <2>2
      <4> QED
        BY <1>1, <4>1
    <3> QED
      BY <1>2, <1>7, <3>1 DEF CInv, RecordDone
  <2> QED
    BY <2>1, <2>2
<1> QED
  BY <1>2, <1>12, <1>13, <1>14 DEF CInv, CopyDone, RoomDone

LEMMA CopyMetaCopies ==
  ASSUME IInv, CInv, CopyMeta
  PROVE  CInv'
<1> DEFINE f    == flash[active]
           last == lastMeta[active]
<1>1. /\ PageSize \in Nat /\ PageSize >= 3 /\ Bottom = PageSize - 1 /\ Addr = 0 .. PageSize - 1
  BY Sizes1
<1>2. /\ op \in OpType /\ pc = "copyMeta" /\ active \in Page /\ Other(active) \in Page /\ Other(active) # active
      /\ FlashTyped /\ PageTyped(Mirror) /\ PageTyped(f) /\ PageSound(f, last)
      /\ UNCHANGED ramVars /\ pc' = "scan" /\ queue \in Seq(Req)
      /\ op' = [op EXCEPT !.mt = @ + 1, !.src = @ - 1, !.k = 0]
      /\ CellSet(Other(active), op.mt, TagOf(CopiedReq(op.src), op.rec))
  <2>1. /\ pc = "copyMeta" /\ Copying /\ UNCHANGED ramVars /\ pc' = "scan"
        /\ op' = [op EXCEPT !.mt = @ + 1, !.src = @ - 1, !.k = 0]
        /\ CellSet(Other(active), op.mt, TagOf(CopiedReq(op.src), op.rec))
    BY DEF CopyMeta, Copying, CellSet
  <2> QED
    BY <2>1, CopyFacts DEF IInv, TypeOK
<1>3. PICK r \in Req : r = CopiedReq(op.src)
  BY <1>2 DEF IInv, MirrorWritten
<1> DEFINE n == Size(r)
           t == TagOf(r, op.rec)
<1>16. PICK m : m = f[op.src]
  OBVIOUS
<1>4. /\ op.src \in FirstMeta .. last /\ IsMeta(m)
      /\ op.k = n /\ n \in Nat
      /\ CopiedPart(Mirror, op.mt, op.rec + n) /\ SinglesLast(Mirror, op.mt)
      /\ ~IsRecordCopied(m) /\ op.mt < op.rec
  BY <1>2, <1>3, <1>16, Requests DEF IInv, MirrorWritten
<1>5. /\ op.mt \in Nat /\ op.rec \in Nat /\ 1 <= op.mt /\ op.rec + n <= Bottom
      /\ last \in -1 .. Bottom - 1 /\ op.src \in 1 .. Bottom - 1 /\ op.src \in Nat
      /\ op.mt \in Addr \ {Top, Bottom} /\ op.rec \in Addr /\ op.rec + n \in Nat
  BY <1>1, <1>2, <1>4, SMTT(30) DEF OpType, CopiedPart, FirstMeta, PageSound, Top
<1>6. /\ m \in Meta /\ r.e = m.e /\ (~r.all => r.i = m.i)
      /\ r.all <=> (m.all \/ FullSaves(m.e, op.src) # {})
  BY <1>2, <1>3, <1>4, <1>5, <1>16, CopiedRequest DEF FirstMeta
<1>7. /\ t \in Meta /\ t.e = r.e /\ t.i = r.i /\ t.all = r.all /\ t.off = op.rec /\ Size(t) = n /\ IsMeta(t)
      /\ r.all \in BOOLEAN /\ m.all \in BOOLEAN
  BY <1>5, <1>6, Tags, Requests
<1>8. /\ flash'[active] = f /\ Mirror'[op.mt] = t
      /\ \A b \in Addr \ {op.mt} : Mirror'[b] = Mirror[b]
  BY <1>2, <1>3, <1>5, ProgramCell DEF Mirror, ramVars
<1>9. op'.mt = op.mt + 1 /\ op'.src = op.src - 1
  BY <1>2 DEF OpType
<1>10. UNCHANGED <<active, queue, lastMeta>>
  BY <1>2 DEF ramVars
<1>11. /\ \A x : Value(x)' = Value(x) /\ (Settled(x)' <=> Settled(x))
       /\ \A e, i : PendingSave(e, i)' <=> PendingSave(e, i)
  BY <1>8, <1>10, SamePage
<1>12. \A a \in FirstMeta .. op.mt - 1 : a \in Addr \ {Top, Bottom} /\ a # op.mt /\ Mirror'[a] = Mirror[a]
  <2>1. \A a \in FirstMeta .. op.mt - 1 : a \in Addr \ {Top, Bottom} /\ a # op.mt
    BY <1>1, <1>5 DEF FirstMeta, Top
  <2> QED
    BY <1>8, <2>1
<1>13. TagsDone'
  <2>1. ASSUME NEW d, IsRecordCopied(d)
        PROVE  IsRecordCopied(d)'
    <3>1. PICK a \in FirstMeta .. op.mt - 1 :
            IsMeta(Mirror[a]) /\ Mirror[a].e = d.e /\ (Mirror[a].all \/ (~d.all /\ Mirror[a].i = d.i))
      BY <2>1 DEF IsRecordCopied, Mirror
    <3>2. a \in FirstMeta .. op'.mt - 1 /\ Mirror'[a] = Mirror[a]
      BY <1>5, <1>9, <1>12 DEF FirstMeta
    <3> QED
      BY <3>1, <3>2 DEF IsRecordCopied, Mirror
  <2>2. IsRecordCopied(m)'
    <3>1. op.mt \in FirstMeta .. op'.mt - 1
      BY <1>5, <1>9 DEF FirstMeta
    <3>2. t.e = m.e /\ (t.all \/ (~m.all /\ t.i = m.i))
      BY <1>6, <1>7
    <3>3. IsMeta(Mirror'[op.mt]) /\ Mirror'[op.mt] = t
      BY <1>7, <1>8
    <3> HIDE DEF t
    <3> QED
      BY <3>1, <3>2, <3>3 DEF IsRecordCopied, Mirror
  <2>3. ASSUME NEW b \in op.src .. last, NEW d, d = f[b], IsMeta(d)
        PROVE  IsRecordCopied(d)' \/ (~d.all /\ PendingSave(d.e, d.i))
    <3>1. CASE b = op.src
      <4>1. d = m
        BY <1>16, <2>3, <3>1
      <4> QED
        BY <2>2, <4>1
    <3>2. CASE b # op.src
      <4>1. b \in op.src + 1 .. last
        BY <1>5, <3>2
      <4>2. IsRecordCopied(d) \/ (~d.all /\ PendingSave(d.e, d.i))
        BY <1>2, <2>3, <4>1 DEF CInv, TagsDone
      <4> QED
        BY <2>1, <4>2
    <3> QED
      BY <3>1, <3>2
  <2>4. op'.src + 1 = op.src
    BY <1>5, <1>9
  <2> QED
    BY <1>2, <1>8, <1>10, <1>11, <2>3, <2>4 DEF TagsDone
<1>14. ASSUME NEW x \in Elem, Covers(t, x), Settled(x)
       PROVE  \A b \in op.src + 1 .. last : ~Covers(f[b], x)
  <2> SUFFICES ASSUME NEW b \in op.src + 1 .. last, Covers(f[b], x)
               PROVE  FALSE
    OBVIOUS
  <2>1. f[b] \in Meta
    <3>1. b \in Addr \ {Top, Bottom} /\ IsMeta(f[b])
      BY <1>1, <1>5 DEF Covers, Top
    <3> QED
      BY <1>2, <3>1, Tags DEF PageTyped
  <2>2. IsRecordCopied(f[b]) \/ (~f[b].all /\ PendingSave(f[b].e, f[b].i))
    BY <1>2 DEF CInv, TagsDone, Covers
  <2>3. IsRecordCopied(f[b])
    BY <1>2, <1>14, <2>1, <2>2, PendingUnsettled
  <2>4. PICK a \in FirstMeta .. op.mt - 1 : Covers(Mirror[a], x)
    BY <2>1, <2>3, CopiedCovered
  <2>5. ElemsOf(r) \cap Covered(Mirror, op.mt) = {}
    <3>1. /\ op.src \in FirstMeta .. Bottom - 1 /\ op.src \in Int /\ op.src <= op.src
          /\ op.mt \in Nat /\ op.mt <= Bottom /\ IsMeta(f[op.src]) /\ ~IsRecordCopied(f[op.src])
      BY <1>1, <1>4, <1>5, <1>16 DEF FirstMeta
    <3> QED
      BY <1>2, <1>3, <1>4, <3>1, NotYetCopied
  <2>6. x \in ElemsOf(r)
    BY <1>7, <1>14, Requests DEF Covers
  <2> QED
    BY <2>4, <2>5, <2>6 DEF Covered
<1>15. ValuesDone'
  <2> SUFFICES ASSUME NEW a \in FirstMeta .. op.mt, NEW x \in Elem, Covers(Mirror'[a], x), Settled(x)
               PROVE  Mirror'[CellOf(Mirror'[a], x)] = Value(x)
    BY <1>5, <1>9, <1>11 DEF ValuesDone
  <2>1. CASE a = op.mt
    <3>1. Mirror'[a] = t /\ Covers(t, x)
      BY <1>8, <2>1
    <3> DEFINE k == IF r.all THEN x[2] - 1 ELSE 0
    <3>2. k \in 0 .. n - 1 /\ CellOf(t, x) = op.rec + k /\ Saved(r, k) = x
      <4>1. x[1] = r.e /\ x = <<x[1], x[2]>> /\ x[2] \in 1 .. ElementsCount[r.e] /\ ElementsCount[r.e] \in Nat
        BY <1>7, <3>1, Elements DEF Covers
      <4>2. CASE r.all
        <5>1. Size(r) = ElementsCount[r.e] /\ k = x[2] - 1 /\ k + 1 = x[2]
          BY <4>1, <4>2 DEF Size
        <5>2. CellOf(t, x) = op.rec + k
          BY <1>7, <4>2 DEF CellOf
        <5>3. Saved(r, k) = x
          BY <4>1, <4>2, <5>1 DEF Saved
        <5> QED
          BY <4>1, <5>1, <5>2, <5>3
      <4>3. CASE ~r.all
        <5>1. Size(r) = 1 /\ k = 0 /\ x[2] = r.i
          BY <1>7, <3>1, <4>3 DEF Size, Covers
        <5>2. CellOf(t, x) = op.rec + k
          BY <1>7, <4>3 DEF CellOf
        <5>3. Saved(r, k) = x
          BY <4>1, <4>3, <5>1 DEF Saved
        <5> QED
          BY <5>1, <5>2, <5>3
      <4> QED
        BY <1>7, <4>2, <4>3
    <3> HIDE DEF k
    <3>3. op.rec + k \in Addr \ {op.mt}
      <4>1. PICK q \in Nat : q = op.rec
        BY <1>5
      <4>2. PICK y \in Nat : y = op.mt
        BY <1>5
      <4>3. n \in Nat /\ k \in 0 .. n - 1 /\ y < q /\ q + n <= Bottom
        BY <1>4, <1>5, <3>2, <4>1, <4>2
      <4> HIDE DEF n
      <4>4. q + k \in Addr /\ q + k # y
        BY <1>1, <4>3
      <4> QED
        BY <4>1, <4>2, <4>4
    <3>4. Mirror[op.rec + k] = RestoredFrom(f, op.src, x)
      BY <1>2, <1>3, <1>4, <3>2 DEF CInv, RecordDone
    <3>5. RestoredFrom(f, op.src, x) = RestoredFrom(f, last, x)
      <4>1. op.src \in Int /\ last \in Int /\ op.src <= last
        BY <1>4, <1>5 DEF FirstMeta
      <4>2. \A b \in op.src + 1 .. last : ~Covers(f[b], x)
        BY <1>14, <3>1
      <4> DEFINE s == op.src
      <4> HIDE DEF f, last, s
      <4>3. RestoredFrom(f, s, x) = RestoredFrom(f, last, x)
        BY <4>1, <4>2, RestoredDown DEF s
      <4> QED
        BY <4>3 DEF s
    <3> QED
      BY <1>8, <3>1, <3>2, <3>3, <3>4, <3>5 DEF Value
  <2>2. CASE a # op.mt
    <3>1. a \in FirstMeta .. op.mt - 1 /\ a \in Addr \ {Top, Bottom} /\ Mirror'[a] = Mirror[a]
      BY <1>5, <1>12, <2>2 DEF FirstMeta
    <3>2. IsMeta(Mirror[a]) /\ Mirror[a].off >= op.rec + n /\ RecordAt(Mirror, Mirror[a])
      BY <1>4, <3>1 DEF CopiedPart
    <3>3. Mirror[a] \in Meta
      BY <1>2, <3>1, <3>2, Tags DEF PageTyped
    <3>4. CellOf(Mirror[a], x) \in Addr /\ CellOf(Mirror[a], x) # op.mt
      <4>1. /\ CellOf(Mirror[a], x) \in Mirror[a].off .. Mirror[a].off + Size(Mirror[a]) - 1
            /\ CellOf(Mirror[a], x) \in Addr
        BY <2>2, <3>1, <3>2, <3>3, CellPlace
      <4>2. Mirror[a].off \in Nat /\ Size(Mirror[a]) \in Nat
        BY <1>1, <3>3, Tags
      <4> QED
        BY <1>1, <1>4, <1>5, <3>2, <4>1, <4>2, SMTT(30)
    <3> QED
      BY <1>2, <1>8, <3>1, <3>4 DEF CInv, ValuesDone
  <2> QED
    BY <2>1, <2>2
<1> QED
  BY <1>2, <1>13, <1>15 DEF CInv, RecordDone, CopyDone, RoomDone

LEMMA WriteTopCopies ==
  ASSUME IInv, CInv, WriteTop
  PROVE  CInv'
<1>1. /\ pc = "top" /\ Copying /\ pc' = "bottom" /\ UNCHANGED <<ramVars, op>>
      /\ CellSet(Other(active), Top, pageCounter)
  BY DEF WriteTop, Copying, CellSet
<1>2. /\ FlashTyped /\ op \in OpType /\ active \in Page /\ Other(active) \in Page /\ Other(active) # active
      /\ PageTyped(Mirror) /\ PageSound(Mirror, lastMeta[Other(active)])
  BY <1>1, CopyFacts DEF IInv, MirrorComplete
<1>3. /\ PageSize \in Nat /\ PageSize >= 3 /\ Bottom = PageSize - 1 /\ Addr = 0 .. PageSize - 1 /\ Top = 0
  BY Sizes1 DEF Top
<1>4. flash'[active] = flash[active] /\ \A b \in Addr \ {Top} : Mirror'[b] = Mirror[b]
  <2>1. Top \in Addr
    BY <1>3
  <2> QED
    BY <1>1, <1>2, <2>1, ProgramCell DEF Mirror, ramVars
<1>5. UNCHANGED <<active, queue, lastMeta>>
  BY <1>1 DEF ramVars
<1>6. \A x : Value(x)' = Value(x) /\ (Settled(x)' <=> Settled(x))
  BY <1>4, <1>5, SamePage
<1>7. CopyDone'
  <2> DEFINE g == Mirror'
  <2>1. \A b \in Addr \ {Top, Bottom} : g[b] = Mirror[b]
    BY <1>4
  <2> HIDE DEF g
  <2>2. \A x \in Elem : RestoredFrom(g, lastMeta[Other(active)], x) = RestoredFrom(Mirror, lastMeta[Other(active)], x)
    BY <1>2, <2>1, RestoredSame
  <2> QED
    BY <1>1, <1>5, <1>6, <2>2 DEF CInv, CopyDone, g
<1>8. RoomDone'
  <2>1. /\ lastMeta[Other(active)] = (IF op.mt = FirstMeta THEN EmptyMeta ELSE op.mt - 1)
        /\ op.mt > FirstMeta => Mirror[op.mt - 1].off = op.rec
        /\ \A a \in op.mt .. op.rec - 1 : Mirror[a] = Blank
    BY <1>1 DEF CInv, RoomDone
  <2>2. op.mt \in Nat /\ op.rec \in Nat /\ op.mt <= PageSize - 1 /\ op.rec <= PageSize - 1
    BY <1>2, <1>3 DEF OpType
  <2>3. op.mt >= 1
    BY <1>1 DEF CInv, RoomDone, FirstMeta
  <2>4. op.mt > FirstMeta => Mirror'[op.mt - 1].off = op.rec
    <3>1. op.mt > FirstMeta => op.mt - 1 \in Addr \ {Top}
      BY <1>3, <2>2 DEF FirstMeta
    <3> QED
      BY <1>4, <2>1, <3>1
  <2>5. \A a \in op.mt .. op.rec - 1 : Mirror'[a] = Blank
    <3>1. \A a \in op.mt .. op.rec - 1 : a \in Addr \ {Top}
      BY <1>3, <2>2, <2>3
    <3> QED
      BY <1>4, <2>1, <3>1
  <2> QED
    BY <1>1, <1>5, <2>4, <2>5 DEF CInv, RoomDone
<1> QED
  BY <1>1, <1>7, <1>8 DEF CInv, TagsDone, ValuesDone, RecordDone

LEMMA CopyKept ==
  ASSUME IInv, CInv, [Next /\ FormatWithoutErase]_vars
  PROVE  CInv'
<1>1. CASE WriteData \/ WriteMeta \/ WriteBottom \/ EraseOldPage \/ EraseSector \/ FormatErase \/ FormatTop
           \/ FormatBottom \/ Maintain \/ BootFormat \/ Restore \/ Format \/ PowerLoss
  <2>1. by \in {"idle", "sync", "full", "boot"} \/ ~WriteBottom
    <3>1. pc # "bottom" \/ by \in {"idle", "sync", "full", "boot"}
      BY CopyFacts DEF Copying
    <3> QED
      BY <3>1 DEF WriteBottom
  <2>2. ~Copying'
    BY <1>1, <2>1 DEF Copying, WriteData, WriteMeta, WriteBottom, EraseOldPage, EraseSector, FormatErase,
       FormatTop, FormatBottom, Maintain, BootFormat, Restore, Format, PowerLoss
  <2> QED
    BY <2>2, NoCopy
<1>2. CASE UNCHANGED vars \/ \E x \in Elem, v \in Val : ChangeRam(x, v)
  <2>1. UNCHANGED <<flash, ramVars, pc, op>>
    BY <1>2 DEF vars, ChangeRam
  <2> QED
    BY <2>1, CopyQuiet
<1> QED
  BY <1>1, <1>2, CallCopy, BootCopy, EraseCopy, ScanCopies, CopyDataCopies, CopyMetaCopies, WriteTopCopies
     DEF Next, Running

(* At every step of NvCopyPage what is copied so far is what a restart     *)
(* would find of the tags passed, queued saves apart.                      *)
THEOREM CopySound == QuietSpec => []CInv
<1>1. Init => CInv
  BY NoCopy DEF Init, CInv, TagsDone, ValuesDone, RecordDone, CopyDone, RoomDone
<1>2. IInv /\ CInv /\ [Next /\ FormatWithoutErase]_vars => CInv'
  BY CopyKept
<1> QED
  BY <1>1, <1>2, InvariantHolds, PTL DEF QuietSpec

(* A page copy preserves what a restart would find of every element that   *)
(* no queued save is about to write again.                                 *)
LEMMA BottomKeepsSettled ==
  ASSUME IInv, CInv, IInv', WriteBottom, NEW x \in Elem, Settled(x)
  PROVE  Recovered(flash')[x] = Recovered(flash)[x]
<1> DEFINE o == Other(active)
<1>1. /\ pc = "bottom" /\ Copying /\ UNCHANGED lastMeta /\ active' = o
      /\ CellSet(o, Bottom, pageCounter)
  BY DEF WriteBottom, Copying, CellSet
<1>2. /\ FlashTyped /\ active \in Page /\ o \in Page
      /\ BootPage(flash) = active /\ PageSound(flash[active], lastMeta[active])
      /\ PageTyped(Mirror) /\ PageSound(Mirror, lastMeta[o])
      /\ by \in {"idle", "sync", "full", "boot"}
  BY <1>1, CopyFacts DEF IInv, MirrorComplete
<1>3. BootPage(flash') = o /\ PageSound(flash'[o], lastMeta[o])
  <2>1. Live'
    BY <1>2 DEF Live, WriteBottom
  <2> QED
    BY <1>1, <2>1 DEF IInv, ActiveSound
<1>4. \A a \in Addr \ {Top, Bottom} : flash'[o][a] = Mirror[a]
  <2>1. Bottom \in Addr
    BY Sizes1
  <2> QED
    BY <1>1, <1>2, <2>1, ProgramCell DEF Mirror
<1>5. Recovered(flash)[x] = Value(x)
  <2>1. LastMetaOf(flash[active]) = lastMeta[active]
    BY <1>2, LastMetaFound
  <2>2. Recovered(flash) = Contents(flash[active])
    BY <1>2 DEF Recovered, Page, NoPage
  <2> QED
    BY <2>1, <2>2 DEF Contents, Value
<1>6. Recovered(flash')[x] = RestoredFrom(flash'[o], lastMeta[o], x)
  <2> DEFINE fl == flash'
  <2>1. BootPage(fl) = o /\ PageSound(fl[o], lastMeta[o])
    BY <1>3
  <2> HIDE DEF fl, o
  <2>2. LastMetaOf(fl[o]) = lastMeta[o]
    BY <2>1, LastMetaFound
  <2>3. Recovered(fl) = Contents(fl[o])
    BY <1>2, <2>1 DEF Recovered, Page, NoPage
  <2>4. Recovered(fl)[x] = RestoredFrom(fl[o], lastMeta[o], x)
    BY <2>2, <2>3 DEF Contents
  <2> QED
    BY <2>4 DEF fl
<1>7. RestoredFrom(flash'[o], lastMeta[o], x) = RestoredFrom(Mirror, lastMeta[o], x)
  <2> DEFINE g == flash'[o]
  <2>1. \A a \in Addr \ {Top, Bottom} : g[a] = Mirror[a]
    BY <1>4
  <2> HIDE DEF g
  <2>2. RestoredFrom(g, lastMeta[o], x) = RestoredFrom(Mirror, lastMeta[o], x)
    BY <1>2, <2>1, RestoredSame
  <2> QED
    BY <2>2 DEF g
<1> QED
  BY <1>1, <1>5, <1>6, <1>7 DEF CInv, CopyDone

(* The bottom counter that ends NvCopyPage makes a restart choose the copy *)
(* and find in it the value of every element that no queued save covers.   *)
THEOREM SettledIsKept == QuietSpec => CopyKeepsSettled
<1>1. IInv /\ CInv /\ IInv' /\ [Next /\ FormatWithoutErase]_vars =>
        [WriteBottom =>
           \A x \in Elem : x \notin UNION {ElemsOf(queue[j]) : j \in DOMAIN queue}
                           => Recovered(flash')[x] = Recovered(flash)[x]]_vars
  BY BottomKeepsSettled DEF Settled
<1> QED
  BY <1>1, InvariantHolds, CopySound, PTL DEF QuietSpec, CopyKeepsSettled
-----------------------------------------------------------------------------
(* The room that a copy leaves.                                            *)

(* No record is larger than the room kept spare, less its own tag.         *)
SpareRoom == \A r \in Req : Size(r) + 2 < MinimumFree

LEMMA CopyFits ==
  ASSUME SpareRoom, NEW f, NEW mt \in Nat, NEW rec \in Nat, NEW r \in Req,
         FirstMeta <= mt, mt - FirstMeta <= Cardinality(Elem),
         Bottom - rec <= Cardinality(Elem), rec <= Bottom,
         mt = FirstMeta => rec = Bottom, mt > FirstMeta => f[mt - 1].off = rec,
         \A a \in mt .. rec - 1 : f[a] = Blank
  PROVE  LET last == IF mt = FirstMeta THEN EmptyMeta ELSE mt - 1
         IN  Size(r) + 2 <= FreeSpace(f, last) /\ Place(f, last, r).fits
<1> DEFINE C    == Cardinality(Elem)
           n    == Size(r)
           last == IF mt = FirstMeta THEN EmptyMeta ELSE mt - 1
           D    == {i \in Addr : Available(f, rec - n - i * n, n)}
           M    == {i \in Addr : Available(f, mt + i, 1)}
<1>1. /\ PageSize \in Nat /\ MinimumFree \in Nat /\ Addr = 0 .. PageSize - 1 /\ Bottom = PageSize - 1
      /\ C \in Nat /\ 2 * C + MinimumFree <= PageSize - 2
      /\ n \in Nat /\ n >= 1 /\ n + 2 < MinimumFree /\ FirstMeta = 1
  BY Sizes1, PageAssumption, Requests DEF SpareRoom, FirstMeta
<1>2. rec - mt >= MinimumFree /\ 1 <= mt
  <2> HIDE DEF C
  <2>1. mt - 1 <= C /\ Bottom - rec <= C
    BY <1>1 DEF C
  <2> QED
    BY <1>1, <2>1
<1>3. FreeSpace(f, last) >= rec - mt /\ FreeSpace(f, last) \in Int
  <2>1. CASE mt = FirstMeta
    <3>1. last = EmptyMeta /\ rec = PageSize - 1 /\ mt = 1
      BY <1>1, <2>1
    <3>2. FreeSpace(f, EmptyMeta) = PageSize - 2
      BY DEF FreeSpace, EmptyMeta
    <3> HIDE DEF last
    <3> QED
      BY <1>1, <3>1, <3>2
  <2>2. CASE mt # FirstMeta
    <3>1. last = mt - 1 /\ last # EmptyMeta /\ last # 0 /\ last + 1 = mt /\ f[last].off = rec
      BY <1>1, <1>2, <2>2 DEF EmptyMeta
    <3> HIDE DEF last
    <3>2. FreeSpace(f, last) = rec - mt
      BY <3>1 DEF FreeSpace
    <3> QED
      BY <3>2
  <2> QED
    BY <2>1, <2>2
<1>4. 0 \in D
  <2>1. rec - n - 0 * n = rec - n
    BY <1>1
  <2>2. rec - n >= 0 /\ rec - n + n <= PageSize /\ \A b \in rec - n .. rec - n + n - 1 : b \in mt .. rec - 1
    BY <1>1, <1>2, SMTT(30)
  <2>3. Available(f, rec - n, n)
    BY <2>2 DEF Available
  <2> QED
    BY <1>1, <1>2, <2>1, <2>3
<1>5. 0 \in M
  <2>1. mt + 0 = mt /\ mt >= 0 /\ mt + 1 <= PageSize /\ \A b \in mt .. mt + 1 - 1 : b \in mt .. rec - 1
    BY <1>1, <1>2
  <2>2. Available(f, mt, 1)
    BY <2>1 DEF Available
  <2> QED
    BY <1>1, <1>2, <2>1, <2>2
<1>6. Min({PageSize} \cup D) = 0 /\ Min({PageSize} \cup M) = 0
  <2>1. {PageSize} \cup D \in SUBSET Nat /\ {PageSize} \cup M \in SUBSET Nat
    BY <1>1
  <2> HIDE DEF D, M
  <2>2. \A T \in SUBSET Nat : 0 \in T => Min(T) = 0
    <3> SUFFICES ASSUME NEW T \in SUBSET Nat, 0 \in T PROVE Min(T) = 0
      OBVIOUS
    <3>1. Min(T) \in T /\ \A m \in T : Min(T) <= m
      BY LeastElement
    <3>2. Min(T) \in Nat /\ Min(T) <= 0
      BY <3>1
    <3> QED
      BY <3>2
  <2> QED
    BY <1>4, <1>5, <2>1, <2>2
<1>7. Place(f, last, r).fits = (n + 2 < FreeSpace(f, last) - 0 * n - 0)
  <2>1. CASE mt = FirstMeta
    <3>1. last = EmptyMeta /\ rec = Bottom
      BY <2>1
    <3> QED
      BY <1>6, <2>1, <3>1 DEF Place
  <2>2. CASE mt # FirstMeta
    <3>1. last = mt - 1 /\ last # EmptyMeta /\ last + 1 = mt /\ f[last].off = rec
      BY <1>1, <1>2, <2>2 DEF EmptyMeta
    <3> HIDE DEF last
    <3> QED
      BY <1>6, <3>1 DEF Place
  <2> QED
    BY <2>1, <2>2
<1> HIDE DEF last, n
<1>8. n + 2 < FreeSpace(f, last) /\ 0 * n = 0
  BY <1>1, <1>2, <1>3
<1>9. n + 2 < FreeSpace(f, last) - 0 * n - 0 /\ n + 2 <= FreeSpace(f, last)
  BY <1>1, <1>3, <1>8
<1> QED
  BY <1>7, <1>9 DEF last, n

LEMMA BottomMakesRoom ==
  ASSUME SpareRoom, IInv, CInv, WriteBottom, by \in {"sync", "full"}
  PROVE  Fits(op.req)'
<1> DEFINE o == Other(active)
<1>1. /\ pc = "bottom" /\ Copying /\ UNCHANGED lastMeta /\ active' = o /\ copyPending' = FALSE
      /\ op' = [op EXCEPT !.rec = 0, !.mt = 0, !.k = 0, !.src = 0]
      /\ CellSet(o, Bottom, pageCounter)
  BY DEF WriteBottom, Copying, CellSet
<1>2. /\ FlashTyped /\ o \in Page /\ op \in OpType /\ PageTyped(Mirror)
      /\ op.req \in Req
  BY <1>1, CopyFacts DEF IInv, Holder
<1>3. op'.req = op.req
  BY <1>1, <1>2 DEF OpType
<1>4. /\ lastMeta[o] = IF op.mt = FirstMeta THEN EmptyMeta ELSE op.mt - 1
      /\ FirstMeta <= op.mt /\ op.mt - FirstMeta <= Cardinality(Elem)
      /\ Bottom - op.rec <= Cardinality(Elem)
      /\ op.mt = FirstMeta => op.rec = Bottom
      /\ op.mt > FirstMeta => Mirror[op.mt - 1].off = op.rec
      /\ \A a \in op.mt .. op.rec - 1 : Mirror[a] = Blank
  BY <1>1 DEF CInv, RoomDone
<1>5. /\ op.mt \in Nat /\ op.rec \in Nat /\ op.mt <= Bottom /\ op.rec <= Bottom /\ FirstMeta = 1
      /\ Addr = 0 .. Bottom /\ Bottom \in Nat
  BY <1>2, Sizes1 DEF OpType, FirstMeta
<1>6. \A b \in Addr \ {Bottom} : flash'[o][b] = Mirror[b]
  <2>1. Bottom \in Addr
    BY Sizes1
  <2> QED
    BY <1>1, <1>2, <2>1, ProgramCell DEF Mirror
<1> DEFINE g == flash'[o]
<1>7. /\ op.mt > FirstMeta => g[op.mt - 1].off = op.rec
      /\ \A a \in op.mt .. op.rec - 1 : g[a] = Blank
  <2>1. op.mt > FirstMeta => op.mt - 1 \in Addr \ {Bottom}
    BY <1>5
  <2>2. \A a \in op.mt .. op.rec - 1 : a \in Addr \ {Bottom}
    BY <1>5
  <2> QED
    BY <1>4, <1>6, <2>1, <2>2
<1> HIDE DEF g
<1>8. Size(op.req) + 2 <= FreeSpace(g, lastMeta[o]) /\ Place(g, lastMeta[o], op.req).fits
  <2> DEFINE mt  == op.mt
             rec == op.rec
  <2>1. /\ mt \in Nat /\ rec \in Nat /\ FirstMeta <= mt /\ mt - FirstMeta <= Cardinality(Elem)
        /\ Bottom - rec <= Cardinality(Elem) /\ rec <= Bottom
        /\ mt = FirstMeta => rec = Bottom
        /\ mt > FirstMeta => g[mt - 1].off = rec
        /\ \A a \in mt .. rec - 1 : g[a] = Blank
        /\ lastMeta[o] = IF mt = FirstMeta THEN EmptyMeta ELSE mt - 1
    BY <1>4, <1>5, <1>7
  <2> HIDE DEF mt, rec
  <2> QED
    BY <1>2, <2>1, CopyFits
<1> QED
  BY <1>1, <1>3, <1>8 DEF Fits, g

(* When the spare cells of the start-up check cover any record and its     *)
(* tag, the page copy that __NvSyncSave or NvProcessFirstSaveInQueue makes *)
(* for a record leaves room for it.                                        *)
THEOREM CopiesMakeRoom ==
  ASSUME SpareRoom
  PROVE  QuietSpec => CopyMakesRoom
<1>1. IInv /\ CInv /\ [Next /\ FormatWithoutErase]_vars =>
        [WriteBottom /\ by \in {"sync", "full"} => Fits(op.req)']_vars
  BY BottomMakesRoom
<1> QED
  BY <1>1, InvariantHolds, CopySound, PTL DEF QuietSpec, CopyMakesRoom
-----------------------------------------------------------------------------
(* The refinement: what a restart would recover.                           *)

LEMMA Recovers ==
  ASSUME NEW fl, NEW p \in Page, BootPage(fl) = p, NEW last, PageSound(fl[p], last)
  PROVE  Recovered(fl) = [x \in Elem |-> RestoredFrom(fl[p], last, x)]
<1>1. LastMetaOf(fl[p]) = last
  BY LastMetaFound
<1>2. Recovered(fl) = Contents(fl[p])
  BY DEF Recovered, Page, NoPage
<1> QED
  BY <1>1, <1>2 DEF Contents

LEMMA RecoversNothing ==
  ASSUME NEW fl, \A p \in Page : ~ValidPage(fl[p])
  PROVE  BootPage(fl) = NoPage /\ Recovered(fl) = [x \in Elem |-> NoVal]
  BY DEF Recovered, BootPage, Page, NoPage

LEMMA RecoversSame ==
  ASSUME NEW fl, NEW fl2, BootPage(fl2) = BootPage(fl),
         \A p \in Page : BootPage(fl) = p => fl2[p] = fl[p]
  PROVE  Recovered(fl2) = Recovered(fl)
<1>1. BootPage(fl) \in Page \cup {NoPage}
  BY DEF BootPage, Page, NoPage
<1> QED
  BY <1>1 DEF Recovered, Page, NoPage

(* A page that is not valid does not matter.                               *)
LEMMA InvalidPage ==
  ASSUME NEW fl, NEW fl2, NEW p \in Page, ~ValidPage(fl[p]), ~ValidPage(fl2[p]),
         fl2[Other(p)] = fl[Other(p)]
  PROVE  BootPage(fl2) = BootPage(fl) /\ Recovered(fl2) = Recovered(fl)
<1>1. BootPage(fl2) = BootPage(fl) /\ BootPage(fl) # p
  BY DEF BootPage, Page, NoPage, Other
<1>2. \A q \in Page : q # p => q = Other(p)
  BY DEF Page, Other
<1> QED
  BY <1>1, <1>2, RecoversSame

(* A blank cell that is programmed with anything but a tag.                *)
LEMMA RestoredKept ==
  ASSUME NEW f, NEW g, NEW last, PageTyped(f), PageSound(f, last), NEW x \in Elem,
         NEW c \in Addr, f[c] = Blank, \A a \in Addr \ {c} : g[a] = f[a]
  PROVE  RestoredFrom(g, last, x) = RestoredFrom(f, last, x)
<1>1. /\ PageSize \in Nat /\ PageSize >= 3 /\ Bottom = PageSize - 1 /\ Addr = 0 .. PageSize - 1
      /\ last \in -1 .. Bottom - 1 /\ last \in Int
  BY Sizes1 DEF PageSound
<1>2. \A a \in FirstMeta .. last : a \in Addr \ {Top, Bottom} /\ g[a] = f[a]
  <2>1. \A a \in FirstMeta .. last : a \in Addr \ {Top, Bottom} /\ f[a] # Blank
    BY <1>1 DEF FirstMeta, Top, PageSound
  <2> QED
    BY <2>1
<1>3. CASE \E a \in FirstMeta .. last : Covers(f[a], x)
  <2>1. PICK a \in FirstMeta .. last : Covers(f[a], x) /\ \A b \in a + 1 .. last : ~Covers(f[b], x)
    BY <1>1, <1>3, NewestTag
  <2>2. \A b \in a + 1 .. last : b \in FirstMeta .. last
    BY <1>1, <2>1 DEF FirstMeta
  <2>3. RestoredFrom(f, last, x) = f[CellOf(f[a], x)]
    BY <1>1, <2>1, RestoredNewest
  <2>4. Covers(g[a], x) /\ \A b \in a + 1 .. last : ~Covers(g[b], x)
    BY <1>2, <2>1, <2>2
  <2>5. RestoredFrom(g, last, x) = g[CellOf(g[a], x)]
    BY <1>1, <2>1, <2>4, RestoredNewest
  <2>6. f[a] \in Meta /\ RecordAt(f, f[a])
    BY <1>2, <2>1, Tags DEF PageTyped, PageSound, Covers
  <2>7. f[CellOf(f[a], x)] \in Val /\ CellOf(f[a], x) \in Addr
    <3>1. CellOf(f[a], x) \in f[a].off .. f[a].off + Size(f[a]) - 1 /\ CellOf(f[a], x) \in Addr
      BY <2>1, <2>6, CellPlace
    <3>2. f[a].off \in Nat /\ Size(f[a]) \in Nat
      BY <1>1, <2>6, Tags
    <3> DEFINE m == f[a]
               k == CellOf(m, x) - m.off
    <3>3. k \in 0 .. Size(m) - 1 /\ m.off + k = CellOf(m, x)
      BY <1>1, <3>1, <3>2, SMTT(30)
    <3>4. f[m.off + k] \in Val
      BY <2>6, <3>3 DEF RecordAt
    <3> QED
      BY <3>1, <3>3, <3>4
  <2>8. CellOf(f[a], x) # c
    BY <2>7, CellAssumption
  <2> QED
    BY <1>2, <2>1, <2>3, <2>5, <2>7, <2>8
<1>4. CASE ~ \E a \in FirstMeta .. last : Covers(f[a], x)
  <2>1. ~ \E a \in FirstMeta .. last : Covers(g[a], x)
    BY <1>2, <1>4
  <2> QED
    BY <1>4, <2>1 DEF RestoredFrom
<1> QED
  BY <1>3, <1>4

(* A blank cell is torn: the last tag is the same, if there is one.        *)
LEMMA RestoredTorn ==
  ASSUME NEW f, NEW g, NEW last, NEW new, PageTyped(f), PageSound(f, last), PageSound(g, new),
         NEW c \in Addr \ {Top, Bottom}, f[c] = Blank, g[c] = Torn,
         \A a \in Addr \ {c} : g[a] = f[a], NEW x \in Elem
  PROVE  RestoredFrom(g, new, x) = RestoredFrom(f, last, x)
<1>1. /\ PageSize \in Nat /\ PageSize >= 3 /\ Bottom = PageSize - 1 /\ Addr = 0 .. PageSize - 1
      /\ last \in -1 .. Bottom - 1 /\ new \in -1 .. Bottom - 1 /\ last \in Int /\ new \in Int
  BY Sizes1 DEF PageSound
<1>2. \A a \in 1 .. Bottom - 1 : IsMeta(g[a]) <=> IsMeta(f[a])
  BY <1>1 DEF IsMeta
<1>3. /\ \A a \in 1 .. Bottom - 1 : a > last => ~IsMeta(f[a])
      /\ \A a \in 1 .. Bottom - 1 : a > new => ~IsMeta(g[a])
      /\ last >= 1 => IsMeta(f[last])
      /\ new >= 1 => IsMeta(g[new])
  BY <1>1 DEF PageSound, FirstMeta
<1>4. CASE last >= 1 \/ new >= 1
  <2>1. new = last
    BY <1>1, <1>2, <1>3, <1>4
  <2> QED
    BY <2>1, RestoredKept
<1>5. CASE last < 1 /\ new < 1
  BY <1>1, <1>5 DEF RestoredFrom, FirstMeta
<1> QED
  BY <1>1, <1>4, <1>5
(* The tag that completes a record of request r.                           *)
LEMMA RestoredTag ==
  ASSUME NEW f, NEW g, NEW last, PageTyped(f), PageSound(f, last),
         NEW r \in Req, NEW rec \in Addr, NEW mt \in Addr,
         last < mt, FirstMeta <= mt, mt + 1 < rec, rec + Size(r) <= Bottom,
         f[mt] = Blank, g[mt] = TagOf(r, rec), \A a \in Addr \ {mt} : g[a] = f[a],
         NEW x \in Elem
  PROVE  /\ \A k \in 0 .. Size(r) - 1 : x = Saved(r, k) => RestoredFrom(g, mt, x) = f[rec + k]
         /\ x \notin ElemsOf(r) => RestoredFrom(g, mt, x) = RestoredFrom(f, last, x)
<1>1. /\ PageSize \in Nat /\ PageSize >= 3 /\ Bottom = PageSize - 1 /\ Addr = 0 .. PageSize - 1
      /\ last \in -1 .. Bottom - 1 /\ last \in Int /\ mt \in Int /\ rec \in Nat /\ FirstMeta = 1
      /\ mt \in FirstMeta .. Bottom - 1
  BY Sizes1 DEF PageSound, FirstMeta
<1>2. /\ TagOf(r, rec) \in Meta /\ TagOf(r, rec).e = r.e /\ TagOf(r, rec).i = r.i
      /\ TagOf(r, rec).all = r.all /\ TagOf(r, rec).off = rec /\ IsMeta(TagOf(r, rec))
      /\ r.all \in BOOLEAN /\ Size(r) \in Nat /\ ElemsOf(r) = {y \in Elem : y[1] = r.e /\ (r.all \/ y[2] = r.i)}
  BY Tags, Requests
<1>3. Covers(g[mt], x) <=> x \in ElemsOf(r)
  BY <1>2 DEF Covers
<1>4. ASSUME NEW k \in 0 .. Size(r) - 1, x = Saved(r, k)
      PROVE  RestoredFrom(g, mt, x) = f[rec + k]
  <2>1. x \in ElemsOf(r)
    BY <1>4 DEF ElemsOf
  <2>2. mt \in FirstMeta .. mt /\ \A b \in mt + 1 .. mt : ~Covers(g[b], x)
    BY <1>1
  <2>3. RestoredFrom(g, mt, x) = g[CellOf(g[mt], x)]
    BY <1>1, <1>3, <2>1, <2>2, RestoredNewest
  <2>4. CellOf(g[mt], x) = rec + k
    <3>1. CASE r.all
      <4>1. x[2] - 1 = k
        BY <1>4, <3>1 DEF Saved
      <4> QED
        BY <1>2, <3>1, <4>1 DEF CellOf
    <3>2. CASE ~r.all
      <4>1. k = 0
        BY <1>4, <3>2 DEF Size
      <4> QED
        BY <1>2, <3>2, <4>1 DEF CellOf
    <3> QED
      BY <3>1, <3>2
  <2>5. rec + k \in Addr /\ rec + k # mt
    BY <1>1, <1>2
  <2> QED
    BY <2>3, <2>4, <2>5
<1>5. ASSUME x \notin ElemsOf(r)
      PROVE  RestoredFrom(g, mt, x) = RestoredFrom(f, last, x)
  <2>1. \A b \in last + 1 .. mt : b >= FirstMeta => ~Covers(g[b], x)
    <3>1. ASSUME NEW b \in last + 1 .. mt, b # mt, b >= FirstMeta
          PROVE  ~Covers(g[b], x)
      <4>1. b \in FirstMeta .. Bottom - 1 /\ ~(b <= last) /\ b \in Addr \ {mt}
        BY <1>1, <3>1
      <4>2. ~IsMeta(f[b]) /\ g[b] = f[b]
        BY <4>1 DEF PageSound
      <4> QED
        BY <4>2 DEF Covers
    <3> QED
      BY <1>3, <1>5, <3>1
  <2>2. RestoredFrom(g, last, x) = RestoredFrom(g, mt, x)
    BY <1>1, <2>1, RestoredDown
  <2>3. RestoredFrom(g, last, x) = RestoredFrom(f, last, x)
    BY RestoredKept
  <2> QED
    BY <2>2, <2>3
<1> QED
  BY <1>4, <1>5

-----------------------------------------------------------------------------
(* The refinement: the steps of the abstract store.                        *)

(* The values of its variables (NvFlash!Store).                            *)
Saving == IF pc \in {"data", "meta"} THEN ElemsOf(op.req) ELSE {}

Image == [x \in Elem |->
            IF pc \in {"data", "meta"} /\ \E k \in 0 .. op.k - 1 : x = Saved(op.req, k)
            THEN flash[active][op.rec + (CHOOSE k \in 0 .. op.k - 1 : x = Saved(op.req, k))]
            ELSE NoVal]

Kept == Recovered(flash') = Recovered(flash)

LEMMA StoreIdle ==
  ASSUME pc \notin {"data", "meta"}, pc' \notin {"data", "meta"}, Kept, UNCHANGED ram
  PROVE  UNCHANGED Store!svars
  BY DEF Store!svars, Kept

LEMMA StoreBegin ==
  ASSUME pc \notin {"data", "meta"}, pc' = "data", op'.k = 0, op'.req \in Req, Kept, UNCHANGED ram
  PROVE  Store!Begin
<1>1. ~ \E k \in 0 .. op'.k - 1 : TRUE
  OBVIOUS
<1> QED
  BY <1>1 DEF Store!Begin, Kept

LEMMA StoreCapture ==
  ASSUME NEW x \in Saving, Image' = [Image EXCEPT ![x] = ram[x]], Saving' = Saving, Kept, UNCHANGED ram
  PROVE  Store!Capture
  BY DEF Store!Capture, Saving, Image, Kept

LEMMA StoreCommit ==
  ASSUME pc = "meta", pc' \notin {"data", "meta"}, Saving # {}, \A x \in Saving : Image[x] # NoVal,
         Recovered(flash') = [x \in Elem |-> IF x \in Saving THEN Image[x] ELSE Recovered(flash)[x]],
         UNCHANGED ram
  PROVE  Store!Commit
<1>1. Image' = [x \in Elem |-> NoVal] /\ Saving' = {}
  BY DEF Image, Saving
<1> QED
  BY <1>1 DEF Store!Commit, Store!None, Saving, Image

LEMMA StorePowerLoss ==
  ASSUME pc' \notin {"data", "meta"}, Kept, ram' \in [Elem -> Val]
  PROVE  Store!PowerLoss
  BY DEF Store!PowerLoss, Store!None, Kept

LEMMA StoreRestore ==
  ASSUME pc \notin {"data", "meta"}, pc' \notin {"data", "meta"}, Kept,
         ram' = [x \in Elem |-> IF Recovered(flash)[x] = NoVal THEN ram[x] ELSE Recovered(flash)[x]]
  PROVE  Store!Restore
  BY DEF Store!Restore, Kept

LEMMA StoreWipe ==
  ASSUME pc \notin {"data", "meta"}, pc' \notin {"data", "meta"},
         Recovered(flash') = [x \in Elem |-> NoVal], UNCHANGED ram
  PROVE  Store!Wipe
  BY DEF Store!Wipe, Store!None

LEMMA StoreChange ==
  ASSUME NEW x \in Elem, NEW v \in Val, ChangeRam(x, v)
  PROVE  Store!Change
  BY DEF Store!Change, ChangeRam, ramVars
-----------------------------------------------------------------------------
(* The refinement: the steps of NvFlash.                                   *)

StoreStep == Store!SNext \/ UNCHANGED Store!svars

(* The page in use stays, and its cells.                                   *)
LEMMA LiveKept ==
  ASSUME IInv, IInv', Live, Live', UNCHANGED active, flash'[active] = flash[active]
  PROVE  Kept
<1>1. BootPage(flash) = active /\ BootPage(flash') = active
  BY DEF IInv, ActiveSound
<1> DEFINE fl == flash'
<1>2. BootPage(fl) = BootPage(flash) /\ \A p \in Page : BootPage(flash) = p => fl[p] = flash[p]
  BY <1>1
<1> HIDE DEF fl
<1>3. Recovered(fl) = Recovered(flash)
  BY <1>2, RecoversSame
<1> QED
  BY <1>3 DEF Kept, fl

LEMMA SameKept ==
  ASSUME UNCHANGED flash
  PROVE  Kept
  BY DEF Kept

LEMMA CallStores ==
  ASSUME IInv, Add \/ Again \/ Drain \/ IdleTask \/ (\E r \in Req : SaveOnIdle(r) \/ SyncSave(r))
               \/ Format \/ BootFormat \/ Boot
  PROVE  StoreStep
<1>1. UNCHANGED <<flash, ram>> /\ pc \notin {"data", "meta"}
  BY DEF Add, Again, Drain, IdleTask, SaveOnIdle, SyncSave, Call, Format, BootFormat, Boot
<1>2. Kept
  BY <1>1, SameKept
<1>3. Idle \in OpType /\ NoReq \in Req \cup {NoReq} /\ op \in OpType /\ queue \in Seq(Req)
  BY TypeFacts DEF IInv, TypeOK
<1>4. ASSUME NEW f, NEW r \in Req, NEW hold \in Req \cup {NoReq}, WriteRecord(f, r, hold)
      PROVE  StoreStep
  <2>1. CASE Fits(r)
    <3> DEFINE o == [Idle EXCEPT !.req = r, !.hold = hold]
               place == Place(flash[active], lastMeta[active], r)
    <3>1. pc' = "data" /\ op' = [o EXCEPT !.rec = place.rec, !.mt = place.mt]
      BY <1>4, <2>1 DEF WriteRecord
    <3>2. o.req = r /\ o.k = 0 /\ DOMAIN o = DOMAIN Idle
      BY DEF Idle
    <3> HIDE DEF place
    <3>3. op'.k = 0 /\ op'.req = r
      BY <3>1, <3>2 DEF Idle
    <3> QED
      BY <1>1, <1>2, <3>1, <3>3, StoreBegin DEF StoreStep, Store!SNext
  <2>2. CASE ~Fits(r)
    <3>1. pc' \notin {"data", "meta"}
      BY <1>4, <2>2 DEF WriteRecord, BeginCopy
    <3> QED
      BY <1>1, <1>2, <3>1, StoreIdle DEF StoreStep
  <2> QED
    BY <2>1, <2>2
<1>5. CASE Again
  <2>1. pc = "again" /\ WriteRecord(by, op.req, op.hold) /\ op.req \in Req
    BY <1>5 DEF Again, IInv, Holder
  <2>2. op.hold \in Req \cup {NoReq}
    BY <1>3 DEF OpType
  <2> QED
    BY <1>4, <2>1, <2>2
<1>6. CASE Drain /\ queue # <<>> /\ WriteRecord("idle", Head(queue), NoReq)
  BY <1>3, <1>4, <1>6
<1>7. ASSUME NEW r \in Req, SyncSave(r)
      PROVE  StoreStep
  BY <1>3, <1>4, <1>7 DEF SyncSave
<1>8. CASE pc' \notin {"data", "meta"}
  BY <1>1, <1>2, <1>8, StoreIdle DEF StoreStep
<1>9. \/ pc' \notin {"data", "meta"}
      \/ Again
      \/ Drain /\ queue # <<>> /\ WriteRecord("idle", Head(queue), NoReq)
      \/ \E r \in Req : SyncSave(r)
  <2>1. ASSUME Add \/ \E r \in Req : SaveOnIdle(r)
        PROVE  pc' \notin {"data", "meta"}
    BY <1>1, <2>1 DEF Add, SaveOnIdle, AddRequest
  <2>2. ASSUME IdleTask \/ Format \/ BootFormat \/ Boot
        PROVE  pc' \notin {"data", "meta"}
    BY <2>2 DEF IdleTask, BeginCopy, Format, BootFormat, Boot
  <2>3. ASSUME Drain
        PROVE  pc' = "ready" \/ (queue # <<>> /\ WriteRecord("idle", Head(queue), NoReq))
    BY <2>3 DEF Drain
  <2> QED
    BY <2>1, <2>2, <2>3
<1> QED
  BY <1>5, <1>6, <1>7, <1>8, <1>9

LEMMA MirrorStores ==
  ASSUME IInv, IInv', EraseMirror \/ Scan \/ CopyData \/ CopyMeta \/ WriteTop \/ EraseOldPage \/ EraseSector
  PROVE  StoreStep
<1>1. /\ pc \in {"blank", "scan", "copyData", "copyMeta", "top", "wipe", "sector"}
      /\ pc' \in {"blank", "scan", "copyData", "copyMeta", "top", "bottom", "wipe", "again", "ready"}
      /\ UNCHANGED <<ram, active>>
  BY DEF EraseMirror, Scan, CopyData, CopyMeta, WriteTop, EraseOldPage, EraseSector, ramVars
<1>2. Live /\ Live'
  BY <1>1 DEF Live
<1>3. active \in Page /\ Other(active) # active /\ FlashTyped
  BY <1>2, TypeFacts DEF IInv, ActiveSound, Other, Page
<1>4. erase.page = Other(active) \/ pc \notin {"wipe", "sector"}
  BY <1>2 DEF IInv, EraseBehind
<1>5. flash'[active] = flash[active]
  <2>1. ASSUME NEW p \in Page, NEW g, p # active, flash' = [flash EXCEPT ![p] = g]
        PROVE  flash'[active] = flash[active]
    BY <1>3, <2>1
  <2>2. ASSUME NEW p, EraseDirty(p), p \in Page, p # active
        PROVE  flash'[active] = flash[active]
    BY <2>1, <2>2 DEF EraseDirty
  <2>3. Other(active) \in Page
    BY <1>3 DEF Other, Page
  <2>4. CASE EraseMirror \/ EraseOldPage
    <3>1. EraseDirty(Other(active))
      BY <1>4, <2>4 DEF EraseMirror, EraseOldPage
    <3> QED
      BY <1>3, <2>2, <2>3, <3>1
  <2>5. CASE CopyData \/ CopyMeta \/ WriteTop
    <3>1. \E a, v : flash' = [flash EXCEPT ![Other(active)][a] = v]
      BY <2>5 DEF CopyData, CopyMeta, WriteTop
    <3> QED
      BY <1>3, <2>3, <3>1
  <2>6. CASE Scan
    BY <2>6 DEF Scan
  <2>7. CASE EraseSector
    <3>1. CASE UNCHANGED flash
      BY <3>1
    <3>2. CASE ~UNCHANGED flash
      <4>1. erase.page = Other(active) /\ SectorSet(erase.page, erase.sector, Blank)
        BY <1>4, <2>7, <3>2 DEF EraseSector, SectorSet
      <4> QED
        BY <1>3, <2>1, <2>3, <4>1 DEF SectorSet
    <3> QED
      BY <3>1, <3>2
  <2> QED
    BY <2>4, <2>5, <2>6, <2>7
<1>6. Kept
  BY <1>1, <1>2, <1>5, LiveKept
<1> QED
  BY <1>1, <1>6, StoreIdle DEF StoreStep

(* With a queue of one save, the copy skips no tag.                        *)
LEMMA BottomStores ==
  ASSUME QueueSize = 1, IInv, CInv, IInv', WriteBottom
  PROVE  StoreStep
<1>1. pc = "bottom" /\ pc' \in {"sector", "wipe", "again", "restore"} /\ UNCHANGED ram
  <2>1. pc = "bottom" /\ Copying /\ UNCHANGED ram
    BY DEF WriteBottom, Copying
  <2> QED
    BY <2>1, CopyFacts DEF WriteBottom
<1>2. \A x \in Elem : Settled(x)
  <2>1. queue \in Seq(Req)
    BY DEF IInv, TypeOK
  <2>2. Len(queue) < 1 => DOMAIN queue = {}
    BY <2>1
  <2> QED
    BY <2>2 DEF Settled
<1>3. \A x \in Elem : Recovered(flash')[x] = Recovered(flash)[x]
  BY <1>2, BottomKeepsSettled
<1>4. Kept
  <2>1. BootPage(flash) = active /\ BootPage(flash') = active' /\ active \in Page /\ active' \in Page
    BY <1>1 DEF IInv, ActiveSound, Live
  <2> DEFINE fl == flash'
  <2>2. BootPage(fl) \in Page /\ \A x \in Elem : Recovered(fl)[x] = Recovered(flash)[x]
    BY <1>3, <2>1
  <2> HIDE DEF fl
  <2>3. \A g : Contents(g) = [x \in Elem |-> Contents(g)[x]]
    BY DEF Contents
  <2>4. Recovered(fl) = [x \in Elem |-> Recovered(fl)[x]]
    BY <2>2, <2>3 DEF Recovered, Page, NoPage
  <2>5. Recovered(flash) = [x \in Elem |-> Recovered(flash)[x]]
    BY <2>1, <2>3 DEF Recovered, Page, NoPage
  <2>6. Recovered(fl) = Recovered(flash)
    BY <2>2, <2>4, <2>5
  <2> QED
    BY <2>6 DEF Kept, fl
<1> QED
  BY <1>1, <1>4, StoreIdle DEF StoreStep

LEMMA DataStores ==
  ASSUME IInv, IInv', WriteData
  PROVE  StoreStep
<1> DEFINE f == flash[active]
           x == Saved(op.req, op.k)
           n == Size(op.req)
           last == lastMeta[active]
<1>1. /\ pc = "data" /\ pc' \in {"data", "meta"} /\ UNCHANGED <<ram, active, lastMeta>>
      /\ CellSet(active, op.rec + op.k, ram[x]) /\ op' = [op EXCEPT !.k = @ + 1]
  BY DEF WriteData, ramVars, CellSet
<1>2. /\ Live /\ Live' /\ active \in Page /\ FlashTyped /\ op \in OpType /\ op.req \in Req
      /\ BootPage(flash) = active /\ PageSound(f, last) /\ PageTyped(f)
      /\ BootPage(flash') = active /\ PageSound(flash'[active], last)
  <2>1. Live /\ Live'
    BY <1>1 DEF Live
  <2> QED
    BY <1>1, <2>1, TypeFacts DEF IInv, ActiveSound, FlashTyped, Holder
<1>3. /\ op.k \in 0 .. n - 1 /\ n \in Nat /\ op.rec \in Nat /\ op.rec + n <= Bottom
      /\ f[op.rec + op.k] = Blank
  <2>1. op.k \in 0 .. n /\ op.k # n /\ n \in Nat /\ op.rec \in Nat
    BY <1>1, <1>2, Requests, Sizes1 DEF IInv, RecordWritten, OpType
  <2>2. op.k \in 0 .. n - 1
    BY <2>1
  <2> QED
    BY <1>1, <2>1, <2>2 DEF IInv, RecordWritten
<1>4. op.rec + op.k \in Addr
  BY <1>3, Sizes1, SMTT(30)
<1>5. /\ flash'[active][op.rec + op.k] = ram[x]
      /\ \A b \in Addr \ {op.rec + op.k} : flash'[active][b] = f[b]
  BY <1>1, <1>2, <1>4, ProgramCell
<1>6. Kept
  <2> DEFINE fl == flash'
             c  == op.rec + op.k
  <2>1. \A b \in Addr \ {c} : fl[active][b] = f[b]
    BY <1>5
  <2>2. BootPage(fl) = active /\ PageSound(fl[active], last) /\ c \in Addr /\ f[c] = Blank
    BY <1>2, <1>3, <1>4
  <2> HIDE DEF fl, f, last, c
  <2>3. \A y \in Elem : RestoredFrom(fl[active], last, y) = RestoredFrom(f, last, y)
    BY <1>2, <2>1, <2>2, RestoredKept
  <2>4. Recovered(fl) = [y \in Elem |-> RestoredFrom(fl[active], last, y)]
    BY <1>2, <2>2, Recovers
  <2>5. Recovered(flash) = [y \in Elem |-> RestoredFrom(flash[active], last, y)]
    BY <1>2, Recovers DEF f
  <2>6. Recovered(fl) = Recovered(flash)
    BY <2>3, <2>4, <2>5 DEF f
  <2> QED
    BY <2>6 DEF Kept, fl
<1>7. op'.k = op.k + 1 /\ op'.req = op.req /\ op'.rec = op.rec
  BY <1>1, <1>2 DEF OpType
<1>8. x \in Saving /\ x \in Elem /\ Saving' = Saving
  BY <1>1, <1>2, <1>3, <1>7, Requests DEF Saving, ElemsOf
<1>9. \A j, k \in 0 .. n - 1 : Saved(op.req, j) = Saved(op.req, k) => j = k
  BY <1>2, Requests DEF Saved, Size
<1>10. Image' = [Image EXCEPT ![x] = ram[x]]
  <2> DEFINE at(y, k) == y = Saved(op.req, k)
             K == op.k
  <2>1. Image' = [y \in Elem |-> IF \E k \in 0 .. K : at(y, k)
                                 THEN flash'[active][op.rec + (CHOOSE k \in 0 .. K : at(y, k))] ELSE NoVal]
    <3>1. op.k + 1 - 1 = op.k
      BY <1>3
    <3>2. PICK K2, req2, rec2, act2 : K2 = op'.k /\ req2 = op'.req /\ rec2 = op'.rec /\ act2 = active'
      OBVIOUS
    <3>3. K2 - 1 = op.k /\ req2 = op.req /\ rec2 = op.rec /\ act2 = active
      <4>1. K2 = op.k + 1
        BY <1>7, <3>2
      <4>2. act2 = active
        BY <1>1, <3>2
      <4> QED
        BY <1>3, <1>7, <3>2, <4>1, <4>2
    <3>4. Image' = [y \in Elem |-> IF \E k \in 0 .. K2 - 1 : y = Saved(req2, k)
                      THEN flash'[act2][rec2 + (CHOOSE k \in 0 .. K2 - 1 : y = Saved(req2, k))] ELSE NoVal]
      BY <1>1, <3>2 DEF Image
    <3> QED
      BY <3>3, <3>4
  <2>2. Image = [y \in Elem |-> IF \E k \in 0 .. K - 1 : at(y, k)
                                THEN f[op.rec + (CHOOSE k \in 0 .. K - 1 : at(y, k))] ELSE NoVal]
    BY <1>1 DEF Image
  <2>3. ASSUME NEW y \in Elem
        PROVE  Image'[y] = IF y = x THEN ram[x] ELSE Image[y]
    <3>1. CASE y = x
      <4>1. \A k \in 0 .. K : at(y, k) <=> k = K
        BY <1>3, <1>9, <3>1
      <4>2. (CHOOSE k \in 0 .. K : at(y, k)) = K /\ K \in 0 .. K
        <5>1. K \in 0 .. K
          BY <1>3
        <5> HIDE DEF at, K
        <5> QED
          BY <4>1, <5>1
      <4>3. \E k \in 0 .. K : at(y, k)
        BY <4>1, <4>2
      <4> HIDE DEF at
      <4> QED
        BY <1>5, <2>1, <3>1, <4>2, <4>3
    <3>2. CASE y # x /\ \E k \in 0 .. K - 1 : at(y, k)
      <4>1. PICK k \in 0 .. K - 1 : at(y, k)
        BY <3>2
      <4>2. \A j \in 0 .. K : at(y, j) <=> j = k
        BY <1>3, <1>9, <4>1
      <4>3. k \in 0 .. K /\ k \in 0 .. K - 1 /\ \A j \in 0 .. K - 1 : j \in 0 .. K
        BY <1>3, <4>1
      <4> HIDE DEF at, K
      <4>4. (CHOOSE j \in 0 .. K : at(y, j)) = k /\ (CHOOSE j \in 0 .. K - 1 : at(y, j)) = k
        BY <4>2, <4>3
      <4>5. Image'[y] = flash'[active][op.rec + k] /\ Image[y] = f[op.rec + k]
        BY <2>1, <2>2, <4>1, <4>3, <4>4
      <4>6. op.rec + k \in Addr /\ op.rec + k # op.rec + op.k
        <5>1. k \in Nat /\ op.k \in Nat /\ k < op.k /\ op.k < n
          BY <1>3, <4>3 DEF K
        <5> QED
          BY <1>3, <5>1, Sizes1, SMTT(30)
      <4> QED
        BY <1>5, <3>2, <4>5, <4>6
    <3>3. CASE y # x /\ ~ \E k \in 0 .. K - 1 : at(y, k)
      <4>1. ~ \E k \in 0 .. K : at(y, k)
        BY <1>3, <3>3
      <4> HIDE DEF at
      <4> QED
        BY <2>1, <2>2, <3>3, <4>1
    <3> QED
      BY <3>1, <3>2, <3>3
  <2> HIDE DEF x
  <2>4. Image' = [y \in Elem |-> Image'[y]]
    BY DEF Image
  <2>5. Image = [y \in Elem |-> Image[y]]
    BY DEF Image
  <2> QED
    BY <2>3, <2>4, <2>5
<1> QED
  BY <1>1, <1>6, <1>8, <1>10, StoreCapture DEF StoreStep, Store!SNext

LEMMA MetaStores ==
  ASSUME IInv, IInv', WriteMeta
  PROVE  StoreStep
<1> DEFINE n == Size(op.req)
           last == lastMeta[active]
<1>1. /\ pc = "meta" /\ pc' \in {"drain", "ready"} /\ UNCHANGED <<ram, active>>
      /\ CellSet(active, op.mt, TagOf(op.req, op.rec))
      /\ lastMeta' = [lastMeta EXCEPT ![active] = op.mt]
  BY DEF WriteMeta, CellSet
<1>2. /\ Live /\ Live' /\ active \in Page /\ FlashTyped /\ op \in OpType /\ op.req \in Req
      /\ lastMeta \in [Page -> Addr \cup {EmptyMeta}]
      /\ BootPage(flash) = active /\ PageSound(flash[active], last) /\ PageTyped(flash[active])
      /\ BootPage(flash') = active /\ PageSound(flash'[active], op.mt)
  <2>1. Live /\ Live'
    BY <1>1 DEF Live
  <2>2. lastMeta \in [Page -> Addr \cup {EmptyMeta}] /\ active \in Page
    BY <2>1 DEF IInv, ActiveSound, TypeOK
  <2>3. lastMeta'[active] = op.mt
    BY <1>1, <2>2
  <2> QED
    BY <1>1, <2>1, <2>2, <2>3, TypeFacts DEF IInv, ActiveSound, FlashTyped, Holder
<1>3. /\ op.k = n /\ n \in Nat /\ n >= 1 /\ op.rec \in Addr /\ op.mt \in Addr
      /\ last < op.mt /\ FirstMeta <= op.mt /\ op.mt + 1 < op.rec /\ op.rec + n <= Bottom
      /\ flash[active][op.mt] = Blank
      /\ \A j \in 0 .. n - 1 : flash[active][op.rec + j] \in Val
  BY <1>1, <1>2, Requests DEF IInv, RecordWritten, OpType
<1>4. /\ flash'[active][op.mt] = TagOf(op.req, op.rec)
      /\ \A b \in Addr \ {op.mt} : flash'[active][b] = flash[active][b]
  BY <1>1, <1>2, <1>3, ProgramCell
<1>5. PICK f, g, r, rec, mt : f = flash[active] /\ g = flash'[active] /\ r = op.req /\ rec = op.rec /\ mt = op.mt
  OBVIOUS
<1>6. ASSUME NEW x \in Elem
      PROVE  /\ \A k \in 0 .. n - 1 : x = Saved(r, k) => RestoredFrom(g, mt, x) = f[rec + k]
             /\ x \notin ElemsOf(r) => RestoredFrom(g, mt, x) = RestoredFrom(f, last, x)
  <2>1. /\ PageTyped(f) /\ PageSound(f, last) /\ r \in Req /\ rec \in Addr /\ mt \in Addr
        /\ last < mt /\ FirstMeta <= mt /\ mt + 1 < rec /\ rec + Size(r) <= Bottom
        /\ f[mt] = Blank /\ g[mt] = TagOf(r, rec) /\ \A a \in Addr \ {mt} : g[a] = f[a]
        /\ n = Size(r)
    BY <1>2, <1>3, <1>4, <1>5
  <2> HIDE DEF n, last
  <2> QED
    BY <2>1, RestoredTag
<1>7. Recovered(flash) = [x \in Elem |-> RestoredFrom(f, last, x)]
  BY <1>2, <1>5, Recovers
<1>8. Recovered(flash') = [x \in Elem |-> RestoredFrom(g, mt, x)]
  <2> DEFINE fl == flash'
  <2>1. BootPage(fl) = active /\ PageSound(fl[active], op.mt)
    BY <1>2
  <2> HIDE DEF fl
  <2>2. Recovered(fl) = [x \in Elem |-> RestoredFrom(fl[active], op.mt, x)]
    BY <1>2, <2>1, Recovers
  <2> QED
    BY <1>5, <2>2 DEF fl
<1>9. Saving = ElemsOf(r) /\ Saving # {}
  <2>1. Saved(r, 0) \in ElemsOf(r)
    BY <1>3, <1>5 DEF ElemsOf
  <2> QED
    BY <1>1, <1>5, <2>1 DEF Saving
<1>10. ASSUME NEW x \in Saving
       PROVE  x \in Elem /\ Image[x] \in Val /\ Image[x] = RestoredFrom(g, mt, x)
  <2> DEFINE at(k) == x = Saved(r, k)
  <2>1. x \in Elem /\ \E k \in 0 .. n - 1 : at(k)
    BY <1>2, <1>5, <1>9, <1>10, Requests DEF ElemsOf
  <2>2. Image[x] = f[rec + (CHOOSE k \in 0 .. n - 1 : at(k))]
    BY <1>1, <1>3, <1>5, <2>1 DEF Image
  <2>3. PICK k \in 0 .. n - 1 : k = (CHOOSE j \in 0 .. n - 1 : at(j)) /\ at(k)
    <3> HIDE DEF at, n
    <3> QED
      BY <2>1
  <2>4. f[rec + k] \in Val
    BY <1>3, <1>5, <2>3
  <2> HIDE DEF n, last
  <2> QED
    BY <1>6, <2>1, <2>2, <2>3, <2>4
<1>11. Recovered(flash') = [x \in Elem |-> IF x \in Saving THEN Image[x] ELSE Recovered(flash)[x]]
  <2> HIDE DEF n, last
  <2> QED
    BY <1>6, <1>7, <1>8, <1>9, <1>10
<1>12. \A x \in Saving : Image[x] # NoVal
  BY <1>10, CellAssumption
<1>13. pc' \notin {"data", "meta"}
  BY <1>1
<1> HIDE DEF n, last
<1> QED
  BY <1>1, <1>9, <1>11, <1>12, <1>13, StoreCommit DEF StoreStep, Store!SNext

LEMMA RestoreStores ==
  ASSUME IInv, IInv', Restore
  PROVE  StoreStep
<1> DEFINE found(x) == RestoredFrom(flash[active], lastMeta[active], x)
<1>1. /\ pc = "restore" /\ pc' = "ready" /\ UNCHANGED flash
      /\ ram' = [x \in Elem |-> IF found(x) = NoVal THEN ram[x] ELSE found(x)]
  BY DEF Restore
<1>2. BootPage(flash) = active /\ active \in Page /\ PageSound(flash[active], lastMeta[active])
  BY <1>1 DEF IInv, ActiveSound, Live
<1>3. Recovered(flash) = [x \in Elem |-> found(x)]
  BY <1>2, Recovers
<1> HIDE DEF found
<1>4. ram' = [x \in Elem |-> IF Recovered(flash)[x] = NoVal THEN ram[x] ELSE Recovered(flash)[x]]
  BY <1>1, <1>3
<1>5. Kept
  BY <1>1, SameKept
<1> QED
  BY <1>1, <1>4, <1>5, StoreRestore DEF StoreStep, Store!SNext
-----------------------------------------------------------------------------
(* The refinement: formats, erases and power losses.                       *)

(* While the pages are erased to be formatted, the page a restart would    *)
(* choose is the only valid one.                                           *)
OnePage(fl) == \A p \in Page \ {BootPage(fl)} : ~ValidPage(fl[p])

FInv == pc = "format" => OnePage(flash)

LEMMA SameCells ==
  ASSUME NEW fl, NEW fl2, NEW p \in Page, BootPage(fl) = p, BootPage(fl2) = p, PageTyped(fl[p]),
         NEW last, PageSound(fl[p], last), \A a \in Addr : fl2[p][a] = fl[p][a]
  PROVE  Recovered(fl2) = Recovered(fl)
<1>1. PageSound(fl2[p], last)
  BY SameSound
<1>2. Recovered(fl) = [x \in Elem |-> RestoredFrom(fl[p], last, x)]
  BY Recovers
<1>3. Recovered(fl2) = [x \in Elem |-> RestoredFrom(fl2[p], last, x)]
  BY <1>1, Recovers
<1>4. \A x \in Elem : RestoredFrom(fl2[p], last, x) = RestoredFrom(fl[p], last, x)
  BY RestoredSame
<1> QED
  BY <1>2, <1>3, <1>4

(* The erase of a sector for a format, complete or not.                    *)
LEMMA FormatErased ==
  ASSUME IInv, OnePage(flash), NEW p \in Page, NEW s, NEW v \in {Blank, Torn}, SectorSet(p, s, v)
  PROVE  /\ OnePage(flash')
         /\ Kept \/ Recovered(flash') = [x \in Elem |-> NoVal]
<1>1. FlashTyped /\ ValidSound
  BY TypeFacts DEF IInv
<1>2. PICK fl : fl = flash'
  OBVIOUS
<1>3. /\ \A q \in Page \ {p} : fl[q] = flash[q]
      /\ ValidPage(fl[p]) => ValidPage(flash[p]) /\ \A a \in Addr : fl[p][a] = flash[p][a]
  BY <1>1, <1>2, EraseCells, AnyErased
<1>4. CASE \A q \in Page : ~ValidPage(fl[q])
  BY <1>2, <1>4, RecoversNothing DEF OnePage
<1>5. CASE \E q \in Page : ValidPage(fl[q])
  <2>1. PICK q \in Page : ValidPage(fl[q])
    BY <1>5
  <2>2. ValidPage(flash[q]) /\ \A a \in Addr : fl[q][a] = flash[q][a]
    BY <1>3, <2>1
  <2>3. BootPage(flash) = q /\ \A r \in Page \ {q} : ~ValidPage(flash[r])
    BY <2>2 DEF OnePage
  <2>4. \A r \in Page \ {q} : ~ValidPage(fl[r])
    BY <1>3, <2>3
  <2>5. BootPage(fl) = q
    BY <2>1, <2>4 DEF BootPage, Page
  <2>6. PICK last : PageSound(flash[q], last)
    BY <1>1, <2>2 DEF ValidSound
  <2>7. PageTyped(flash[q])
    BY <1>1 DEF FlashTyped
  <2>8. Recovered(fl) = Recovered(flash)
    BY <2>2, <2>3, <2>5, <2>6, <2>7, SameCells
  <2> QED
    BY <1>2, <2>4, <2>5, <2>8 DEF OnePage, Kept
<1> QED
  BY <1>4, <1>5

(* The erase of a sector of a page with no top counter, complete or not.   *)
LEMMA LeftoverErased ==
  ASSUME IInv, NEW p \in Leftover, NEW s, NEW v \in {Blank, Torn}, SectorSet(p, s, v)
  PROVE  Kept
<1>1. FlashTyped /\ ValidSound /\ p \in Page /\ ~ValidPage(flash[p])
  BY TypeFacts, NotValid DEF IInv, Leftover
<1>2. PICK fl : fl = flash'
  OBVIOUS
<1>3. ~ValidPage(fl[p]) /\ \A q \in Page \ {p} : fl[q] = flash[q]
  BY <1>1, <1>2, EraseCells, AnyErased
<1>4. fl[Other(p)] = flash[Other(p)]
  BY <1>1, <1>3 DEF Page, Other
<1>5. Recovered(fl) = Recovered(flash)
  BY <1>1, <1>3, <1>4, InvalidPage
<1> QED
  BY <1>2, <1>5 DEF Kept

(* The erase of a sector of the page not in use, complete or not.          *)
LEMMA OtherErased ==
  ASSUME IInv, Live, NEW p \in Page, p # active, NEW s, NEW v \in {Blank, Torn}, SectorSet(p, s, v)
  PROVE  Kept
<1>1. PICK fl : fl = flash'
  OBVIOUS
<1>2. BootPage(fl) = active /\ fl[active] = flash[active] /\ BootPage(flash) = active
  BY <1>1, UnusedErased DEF IInv, ActiveSound
<1>3. Recovered(fl) = Recovered(flash)
  BY <1>2, RecoversSame
<1> QED
  BY <1>1, <1>3 DEF Kept

(* A cell is torn on a page that has no bottom counter yet.                *)
LEMMA UnfinishedTorn ==
  ASSUME FlashTyped, NEW p \in Page, NEW c, flash[p][Bottom] = Blank, CellSet(p, c, Torn)
  PROVE  Kept
<1>1. Bottom \in Addr
  BY Sizes1
<1>2. PICK fl : fl = flash'
  OBVIOUS
<1>3. fl[p][Bottom] \in {Blank, Torn} /\ \A q \in Page \ {p} : fl[q] = flash[q]
  <2>1. DOMAIN flash = Page /\ DOMAIN flash[p] = Addr
    BY DEF FlashTyped, PageTyped
  <2>2. fl = [flash EXCEPT ![p] = [flash[p] EXCEPT ![c] = Torn]]
    BY <1>2 DEF CellSet
  <2>3. fl[p] = [flash[p] EXCEPT ![c] = Torn] /\ \A q \in Page \ {p} : fl[q] = flash[q]
    BY <2>1, <2>2
  <2>4. fl[p][Bottom] = IF Bottom = c THEN Torn ELSE flash[p][Bottom]
    BY <1>1, <2>1, <2>3
  <2> QED
    BY <2>3, <2>4
<1>4. ~ValidPage(fl[p]) /\ ~ValidPage(flash[p])
  BY <1>3, NotValid
<1>5. fl[Other(p)] = flash[Other(p)]
  BY <1>3 DEF Page, Other
<1>6. Recovered(fl) = Recovered(flash)
  BY <1>4, <1>5, InvalidPage
<1> QED
  BY <1>2, <1>6 DEF Kept

(* A cell of a record, or its tag, is torn.                                *)
LEMMA RecordTorn ==
  ASSUME IInv, ValidSound', pc \in {"data", "meta"}, CellSet(ProgramAt[1], ProgramAt[2], Torn)
  PROVE  Kept
<1>1. PICK f, last : f = flash[active] /\ last = lastMeta[active]
  OBVIOUS
<1>2. PICK c : c = IF pc = "data" THEN op.rec + op.k ELSE op.mt
  OBVIOUS
<1>3. /\ FlashTyped /\ op \in OpType /\ active \in Page /\ BootPage(flash) = active
      /\ PageSound(f, last) /\ PageTyped(f) /\ op.req \in Req
      /\ last < op.mt
  BY <1>1, TypeFacts DEF IInv, Live, ActiveSound, FlashTyped, Holder, RecordWritten
<1>4. c \in Addr \ {Top, Bottom} /\ f[c] = Blank
  <2> DEFINE n == Size(op.req)
  <2>1. /\ op.k \in 0 .. n /\ (op.k = n <=> pc = "meta") /\ n \in Nat
        /\ FirstMeta <= op.mt /\ op.mt + 1 < op.rec /\ op.rec + n <= Bottom
        /\ f[op.mt] = Blank
        /\ \A j \in 0 .. n - 1 : IF j < op.k THEN f[op.rec + j] \in Val ELSE f[op.rec + j] = Blank
        /\ op.mt \in Nat /\ op.rec \in Nat
    BY <1>1, <1>3, Requests, Sizes1 DEF IInv, RecordWritten, OpType
  <2>2. PageSize \in Nat /\ Bottom = PageSize - 1 /\ Addr = 0 .. PageSize - 1 /\ Top = 0 /\ FirstMeta = 1
    BY Sizes1 DEF Top, FirstMeta
  <2> HIDE DEF n
  <2>3. CASE pc = "data"
    <3>1. op.k \in 0 .. n - 1 /\ c = op.rec + op.k /\ ~(op.k < op.k)
      BY <1>2, <2>1, <2>3
    <3>2. f[c] = Blank
      BY <2>1, <3>1
    <3>3. op.rec + op.k \in 1 .. Bottom - 1
      <4>1. op.k \in Nat /\ op.k < n /\ op.rec > 1
        BY <2>1, <2>2, <3>1, SMTT(30)
      <4>2. Bottom \in Int
        BY <2>2
      <4> QED
        BY <2>1, <4>1, <4>2
    <3> QED
      BY <2>2, <3>1, <3>2, <3>3
  <2>4. CASE pc # "data"
    <3>1. c = op.mt /\ op.mt \in 1 .. Bottom - 1
      BY <1>2, <2>1, <2>2, <2>4
    <3> QED
      BY <2>1, <2>2, <3>1
  <2> QED
    BY <2>3, <2>4
<1>5. CellSet(active, c, Torn)
  <2>1. ProgramAt[1] = active /\ ProgramAt[2] = c
    BY <1>2 DEF ProgramAt
  <2> QED
    BY <2>1
<1>6. PICK fl, g : fl = flash' /\ g = fl[active]
  OBVIOUS
<1>7. /\ g[c] = Torn /\ \A b \in Addr \ {c} : g[b] = f[b]
      /\ \A q \in Page \ {active} : fl[q] = flash[q]
  BY <1>1, <1>3, <1>4, <1>5, <1>6, ProgramCell
<1>8. BootPage(fl) = active
  <2>1. fl[active][Top] = flash[active][Top] /\ fl[active][Bottom] = flash[active][Bottom]
    BY <1>1, <1>4, <1>6, <1>7, Sizes1 DEF Top
  <2>2. Other(active) \in Page \ {active}
    BY <1>3 DEF Page, Other
  <2> QED
    BY <1>3, <1>7, <2>1, <2>2, ChosenKept
<1>9. PICK new \in Addr \cup {EmptyMeta} : PageSound(g, new)
  <2>1. ValidPage(fl[active])
    BY <1>3, <1>8, ChosenValid
  <2> QED
    BY <1>3, <1>6, <2>1 DEF ValidSound
<1>10. \A x \in Elem : RestoredFrom(g, new, x) = RestoredFrom(f, last, x)
  BY <1>3, <1>4, <1>7, <1>9, RestoredTorn
<1>11. Recovered(flash) = [x \in Elem |-> RestoredFrom(f, last, x)]
  BY <1>1, <1>3, Recovers
<1>12. Recovered(fl) = [x \in Elem |-> RestoredFrom(g, new, x)]
  BY <1>3, <1>6, <1>8, <1>9, Recovers
<1> QED
  BY <1>6, <1>10, <1>11, <1>12 DEF Kept

(* A cell is torn.                                                         *)
LEMMA TornKept ==
  ASSUME IInv, ValidSound', pc \in Programming, CellSet(ProgramAt[1], ProgramAt[2], Torn)
  PROVE  Kept
<1>1. FlashTyped
  BY TypeFacts DEF IInv
<1>2. CASE pc \in {"data", "meta"}
  BY <1>2, RecordTorn
<1>3. CASE pc \in {"copyData", "copyMeta", "top", "bottom"}
  <2>1. Other(active) \in Page
    BY <1>3, CopyFacts DEF Copying
  <2>2. Mirror[Bottom] = Blank
    BY <1>3 DEF IInv, MirrorWritten, MirrorComplete
  <2>3. ProgramAt[1] = Other(active)
    BY <1>3 DEF ProgramAt
  <2>4. \E c : CellSet(Other(active), c, Torn)
    BY <2>3
  <2> QED
    BY <1>1, <2>1, <2>2, <2>4, UnfinishedTorn DEF Mirror
<1>4. CASE pc \in {"formatTop", "formatBottom"}
  <2>1. active = 0 /\ flash[0][Bottom] = Blank
    <3>1. Bottom \in Addr \ {Top}
      BY Sizes1 DEF Top
    <3> QED
      BY <1>4, <3>1 DEF IInv, Formatting
  <2>2. ProgramAt[1] = 0
    BY <1>4, <2>1 DEF ProgramAt
  <2>3. \E c : CellSet(0, c, Torn)
    BY <2>2
  <2> QED
    BY <1>1, <2>1, <2>3, UnfinishedTorn DEF Page
<1> QED
  BY <1>2, <1>3, <1>4 DEF Programming

LEMMA PowerLossStores ==
  ASSUME IInv, FInv, IInv', PowerLoss
  PROVE  StoreStep
<1>1. pc' = "off" /\ UNCHANGED ram /\ ram \in [Elem -> Val]
  BY DEF PowerLoss, IInv, TypeOK
<1>2. CASE Kept
  BY <1>1, <1>2, StorePowerLoss DEF StoreStep, Store!SNext
<1>3. CASE UNCHANGED flash
  BY <1>2, <1>3, SameKept
<1>4. CASE pc \in Programming /\ flash' = [flash EXCEPT ![ProgramAt[1]][ProgramAt[2]] = Torn]
  <2>1. CellSet(ProgramAt[1], ProgramAt[2], Torn)
    BY <1>4 DEF CellSet
  <2> QED
    BY <1>2, <1>4, <2>1, TornKept DEF IInv
<1>5. CASE /\ EraseAt # {}
           /\ LET e == CHOOSE e \in EraseAt : \A f \in EraseAt : e[1] <= f[1]
              IN  flash' = [flash EXCEPT ![e[1]] = [a \in Addr |-> IF SectorOf(a) = e[2] THEN Torn ELSE @[a]]]
  <2>1. PICK e \in EraseAt : SectorSet(e[1], e[2], Torn)
    BY <1>5, LeastErase DEF SectorSet
  <2>2. PICK p, s : p = e[1] /\ s = e[2]
    OBVIOUS
  <2>3. SectorSet(p, s, Torn)
    BY <2>1, <2>2
  <2>4. CASE pc \in {"blank", "wipe", "sector"}
    <3>1. Live
      BY <2>4 DEF Live
    <3>2. active \in Page
      BY <3>1 DEF IInv, ActiveSound
    <3>3. p = Other(active)
      BY <2>1, <2>2, <2>4, <3>1 DEF EraseAt, Dirty, IInv, EraseBehind
    <3>4. p \in Page /\ p # active
      BY <3>2, <3>3 DEF Page, Other
    <3> QED
      BY <1>2, <2>3, <3>1, <3>4, OtherErased
  <2>5. CASE pc = "off"
    <3>1. p \in Leftover
      BY <2>1, <2>2, <2>5 DEF EraseAt, Dirty
    <3> QED
      BY <1>2, <2>3, <3>1, LeftoverErased
  <2>6. CASE pc = "format"
    <3>1. p \in Page
      BY <2>1, <2>2, <2>6 DEF EraseAt, Dirty
    <3>2. Kept \/ Recovered(flash') = [x \in Elem |-> NoVal]
      BY <2>3, <2>6, <3>1, FormatErased DEF FInv
    <3>3. pc \notin {"data", "meta"} /\ pc' \notin {"data", "meta"}
      BY <1>1, <2>6
    <3> QED
      BY <1>1, <1>2, <3>2, <3>3, StoreWipe DEF StoreStep, Store!SNext
  <2> QED
    BY <2>1, <2>4, <2>5, <2>6 DEF EraseAt
<1> QED
  BY <1>3, <1>4, <1>5 DEF PowerLoss

(* The steps of a format and of the start-up's maintenance.                *)
LEMMA FormatStores ==
  ASSUME IInv, FInv, IInv', FormatErase \/ FormatTop \/ FormatBottom \/ Maintain
  PROVE  StoreStep
<1>1. UNCHANGED ram /\ pc \notin {"data", "meta"} /\ pc' \notin {"data", "meta"}
  BY DEF FormatErase, FormatTop, FormatBottom, Maintain
<1>2. CASE Kept
  BY <1>1, <1>2, StoreIdle DEF StoreStep
<1>3. CASE UNCHANGED flash
  BY <1>2, <1>3, SameKept
<1>4. CASE FormatErase /\ ~UNCHANGED flash
  <2> DEFINE dirty == {p \in Page : ~IsBlank(flash[p])}
  <2>1. dirty # {} /\ EraseDirty(Min(dirty)) /\ pc = "format"
    BY <1>4 DEF FormatErase
  <2>2. Min(dirty) \in Page
    <3>1. dirty \in SUBSET Nat
      BY DEF Page
    <3> HIDE DEF dirty
    <3>2. Min(dirty) \in dirty
      BY <2>1, <3>1, LeastElement
    <3> QED
      BY <3>2 DEF dirty
  <2>3. PICK p \in Page : \E s : SectorSet(p, s, Blank)
    BY <2>1, <2>2 DEF EraseDirty, SectorSet
  <2>4. Kept \/ Recovered(flash') = [x \in Elem |-> NoVal]
    BY <2>1, <2>3, FormatErased DEF FInv
  <2> QED
    BY <1>1, <1>2, <2>4, StoreWipe DEF StoreStep, Store!SNext
<1>5. CASE FormatTop \/ FormatBottom
  <2>1. \A p \in Page : ~ValidPage(flash[p])
    <3>1. /\ active = 0 /\ IsBlank(flash[1]) /\ \A a \in Addr \ {Top} : flash[0][a] = Blank
      BY <1>5 DEF FormatTop, FormatBottom, IInv, Formatting
    <3>2. Bottom \in Addr \ {Top}
      BY Sizes1 DEF Top
    <3>3. flash[0][Bottom] = Blank /\ flash[1][Bottom] = Blank
      BY <3>1, <3>2 DEF IsBlank
    <3> QED
      BY <3>3, NotValid DEF Page
  <2>2. Recovered(flash) = [x \in Elem |-> NoVal]
    BY <2>1, RecoversNothing
  <2>3. PICK fl : fl = flash'
    OBVIOUS
  <2>4. CASE FormatTop
    <3>1. pc' = "formatBottom"
      BY <2>4 DEF FormatTop
    <3>2. \A p \in Page : ~ValidPage(fl[p])
      <4>1. IsBlank(flash'[1]) /\ \A a \in Addr \ {Top} : flash'[0][a] = Blank
        BY <3>1 DEF IInv, Formatting
      <4>2. Bottom \in Addr \ {Top}
        BY Sizes1 DEF Top
      <4>3. fl[0][Bottom] = Blank /\ fl[1][Bottom] = Blank
        BY <2>3, <4>1, <4>2 DEF IsBlank
      <4> QED
        BY <4>3, NotValid DEF Page
    <3>3. Recovered(fl) = [x \in Elem |-> NoVal]
      BY <3>2, RecoversNothing
    <3> QED
      BY <1>2, <2>2, <2>3, <3>3 DEF Kept
  <2>5. CASE FormatBottom
    <3>1. /\ pc' \in {"restore", "ready"} /\ active \in Page /\ UNCHANGED active
          /\ lastMeta' = [lastMeta EXCEPT ![active] = EmptyMeta]
          /\ lastMeta \in [Page -> Addr \cup {EmptyMeta}]
      BY <2>5 DEF FormatBottom, IInv, Formatting, TypeOK, Page
    <3>2. lastMeta'[active] = EmptyMeta /\ Live'
      BY <3>1 DEF Live
    <3>3. BootPage(fl) = active /\ PageSound(fl[active], EmptyMeta)
      BY <2>3, <3>1, <3>2 DEF IInv, ActiveSound
    <3>4. Recovered(fl) = [x \in Elem |-> RestoredFrom(fl[active], EmptyMeta, x)]
      BY <3>1, <3>3, Recovers
    <3>5. \A x \in Elem : RestoredFrom(fl[active], EmptyMeta, x) = NoVal
      BY DEF RestoredFrom, EmptyMeta, FirstMeta
    <3>6. Recovered(fl) = [x \in Elem |-> NoVal]
      BY <3>4, <3>5
    <3> QED
      BY <1>2, <2>2, <2>3, <3>6 DEF Kept
  <2> QED
    BY <1>5, <2>4, <2>5
<1>6. CASE Maintain
  <2>1. Min(Leftover) \in Leftover
    <3>1. Leftover \in SUBSET Nat /\ Leftover # {}
      BY <1>6 DEF Leftover, Page, Maintain
    <3> QED
      BY <3>1, LeastElement
  <2>2. PICK p \in Leftover : \E s : SectorSet(p, s, Blank)
    BY <1>6, <2>1 DEF Maintain, EraseDirty, SectorSet
  <2> QED
    BY <1>2, <2>2, LeftoverErased
<1> QED
  BY <1>3, <1>4, <1>5, <1>6

LEMMA OnlyPageKept ==
  ASSUME IInv, FInv, [Next /\ FormatWithoutErase /\ FormatLastPage]_vars
  PROVE  FInv'
<1>1. CASE pc = "format" /\ pc' = "format" /\ ~UNCHANGED flash
  <2>1. FormatErase
    BY <1>1 DEF Next, Running, Add, Again, WriteData, WriteMeta, EraseMirror, Scan, CopyData, CopyMeta,
                WriteTop, WriteBottom, EraseOldPage, EraseSector, Drain, FormatTop, FormatBottom,
                Maintain, BootFormat, Boot, Restore, IdleTask, ChangeRam, SaveOnIdle, SyncSave, Call,
                Format, PowerLoss, vars
  <2> DEFINE dirty == {p \in Page : ~IsBlank(flash[p])}
  <2>2. dirty # {} /\ EraseDirty(Min(dirty))
    BY <1>1, <2>1 DEF FormatErase
  <2>3. Min(dirty) \in Page
    <3>1. dirty \in SUBSET Nat
      BY DEF Page
    <3> HIDE DEF dirty
    <3>2. Min(dirty) \in dirty
      BY <2>2, <3>1, LeastElement
    <3> QED
      BY <3>2 DEF dirty
  <2>4. PICK p \in Page : \E s : SectorSet(p, s, Blank)
    BY <2>2, <2>3 DEF EraseDirty, SectorSet
  <2>5. OnePage(flash')
    BY <1>1, <2>4, FormatErased DEF FInv
  <2> QED
    BY <2>5 DEF FInv, OnePage
<1>2. CASE pc' # "format" \/ (UNCHANGED flash /\ pc = "format")
  BY <1>2 DEF FInv, OnePage
<1>3. CASE pc # "format" /\ pc' = "format"
  <2>1. FormatLastPage
    BY <1>3 DEF vars
  <2>2. Format \/ BootFormat
    <3>1. ASSUME NEW f, NEW r, NEW hold, WriteRecord(f, r, hold)
          PROVE  pc' # "format"
      BY <3>1 DEF WriteRecord, BeginCopy
    <3>2. ASSUME NEW r, AddRequest(r)
          PROVE  pc' \in {pc, "again"}
      BY <3>2 DEF AddRequest
    <3>3. ASSUME NEW r \in Req, SaveOnIdle(r) \/ SyncSave(r)
          PROVE  pc' # "format"
      BY <1>3, <3>1, <3>2, <3>3 DEF SaveOnIdle, SyncSave, Call
    <3>4. ASSUME Add \/ Again \/ Drain \/ IdleTask
          PROVE  pc' # "format"
      BY <1>3, <3>1, <3>2, <3>4 DEF Add, Again, Drain, IdleTask, BeginCopy
    <3>5. ASSUME NEW x, NEW v, ChangeRam(x, v)
          PROVE  pc' # "format"
      BY <1>3, <3>5 DEF ChangeRam
    <3>6. ASSUME \/ WriteData \/ WriteMeta \/ EraseMirror \/ Scan \/ CopyData \/ CopyMeta
                 \/ WriteTop \/ EraseOldPage \/ EraseSector
          PROVE  pc' # "format"
      BY <1>3, <3>6 DEF WriteData, WriteMeta, EraseMirror, Scan, CopyData, CopyMeta, WriteTop,
         EraseOldPage, EraseSector
    <3>7. ASSUME WriteBottom
          PROVE  pc' # "format"
      <4>1. pc = "bottom" /\ Copying
        BY <3>7 DEF WriteBottom, Copying
      <4> QED
        BY <3>7, <4>1, CopyFacts DEF WriteBottom
    <3>8. ASSUME \/ FormatErase \/ FormatTop \/ FormatBottom \/ Maintain \/ Boot \/ Restore
                 \/ PowerLoss \/ UNCHANGED vars
          PROVE  pc' # "format"
      BY <1>3, <3>8 DEF FormatErase, FormatTop, FormatBottom, Maintain, Boot, Restore, PowerLoss, vars
    <3> QED
      BY <1>3, <3>3, <3>4, <3>5, <3>6, <3>7, <3>8 DEF Next, Running
  <2>3. UNCHANGED flash
    BY <2>2 DEF Format, BootFormat
  <2> QED
    BY <1>3, <2>1, <2>3 DEF FInv, OnePage, FormatLastPage
<1> QED
  BY <1>1, <1>2, <1>3

LEMMA StepStores ==
  ASSUME QueueSize = 1, IInv, CInv, FInv, IInv', [Next /\ FormatWithoutErase /\ FormatLastPage]_vars
  PROVE  StoreStep
<1>1. CASE Running
  BY <1>1, CallStores, DataStores, MetaStores, MirrorStores, BottomStores, FormatStores, RestoreStores
  DEF Running
<1>2. CASE IdleTask \/ (\E r \in Req : SaveOnIdle(r) \/ SyncSave(r)) \/ Format
  BY <1>2, CallStores
<1>3. CASE \E x \in Elem, v \in Val : ChangeRam(x, v)
  BY <1>3, StoreChange DEF StoreStep, Store!SNext
<1>4. CASE PowerLoss
  BY <1>4, PowerLossStores
<1>5. CASE UNCHANGED vars
  BY <1>5 DEF StoreStep, Store!svars, vars, ramVars
<1> QED
  BY <1>1, <1>2, <1>3, <1>4, <1>5 DEF Next

LEMMA InitStores ==
  ASSUME Init
  PROVE  Store!SInit /\ FInv
<1>1. \A p \in Page : ~ValidPage(flash[p])
  <2>1. Bottom \in Addr
    BY Sizes1
  <2>2. \A p \in Page : flash[p][Bottom] = Blank
    BY <2>1 DEF Init
  <2> QED
    BY <2>2, NotValid
<1>2. Recovered(flash) = [x \in Elem |-> NoVal]
  BY <1>1, RecoversNothing
<1> QED
  BY <1>2 DEF Init, Store!SInit, Store!None, FInv

(* With a queue of one save, where NvCopyPage skips no tag, and formats    *)
(* that begin with one valid page at most and no erase requested, nothing  *)
(* changes what a restart restores but the tag that completes a record, at *)
(* once for all its elements, and a format: not a copy, an erase, a power  *)
(* loss in the middle of any flash operation, or a start-up.               *)
THEOREM StoreImplemented ==
  ASSUME QueueSize = 1
  PROVE  StoreSpec => ImplementsStore
<1>1. Init => Store!SInit /\ FInv
  BY InitStores
<1>2. StoreSpec => QuietSpec
  <2>1. [Next /\ FormatWithoutErase /\ FormatLastPage]_vars => [Next /\ FormatWithoutErase]_vars
    OBVIOUS
  <2> QED
    BY <2>1, PTL DEF StoreSpec, QuietSpec
<1>3. IInv /\ FInv /\ [Next /\ FormatWithoutErase /\ FormatLastPage]_vars => FInv'
  BY OnlyPageKept
<1>4. /\ IInv /\ CInv /\ FInv /\ IInv' /\ [Next /\ FormatWithoutErase /\ FormatLastPage]_vars
      => [Store!SNext]_(Store!svars)
  BY StepStores DEF StoreStep
<1> QED
  BY <1>1, <1>2, <1>3, <1>4, InvariantHolds, CopySound, PTL DEF StoreSpec, ImplementsStore, Store!SSpec
=============================================================================
