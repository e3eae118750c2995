------------------------------ MODULE Ota_proofs ------------------------------
(***************************************************************************)
(* Proofs, for any configurations, geometry of the flash, pool, images and *)
(* chunks, of the safety properties of Ota.                                *)
(***************************************************************************)
EXTENDS Ota, SequenceTheorems, TLAPS

(* The invariant, in parts.                                                *)

Opened(c) == IF c = NoNode THEN <<>> ELSE <<c>>

(* Each transaction is in one place of the free list f, of the queue o, or *)
(* being filled.                                                           *)
Places(f, o, c) ==
  /\ Len(f) + Len(o) + (IF c = NoNode THEN 0 ELSE 1) = Capacity
  /\ \A i, j \in DOMAIN f : f[i] = f[j] => i = j
  /\ \A i, j \in DOMAIN o : o[i] = o[j] => i = j
  /\ \A i \in DOMAIN f, j \in DOMAIN o : f[i] # o[j]
  /\ \A i \in DOMAIN f : f[i] # c
  /\ \A i \in DOMAIN o : o[i] # c
  /\ \A n \in Node : (\E i \in DOMAIN f : f[i] = n) \/ (\E i \in DOMAIN o : o[i] = n) \/ n = c

PoolInv == ~broken => Places(free, ops, cur)

(* The transaction that is treated is the head of the queue.               *)
HeadTreated ==
  /\ phase = "take" => doing = NoNode
  /\ ~broken /\ phase = "finish" => ops # <<>> /\ doing = Head(ops)

(* Operations are posted for an image that is acquired.                    *)
PostedInv ==
  ~broken =>
    /\ ops # <<>> \/ cur # NoNode => state = "acquiring" /\ mode.queued
    /\ call = "notify" => ops = <<>>
    /\ call \in {"commit", "notify"} => cur = NoNode
    /\ cur # NoNode => mem[cur].kind = "write" /\ Len(mem[cur].data) \in 1 .. Page - 1
    /\ \A j \in DOMAIN ops : mem[ops[j]].kind # "none"

(* What was pushed is part of the image.                                   *)
Pushed == current + len

LengthInv == /\ Pushed <= Size
             /\ state = "acquiring" => Pushed <= total /\ image > 0
             /\ call \notin {"resume", "end"} => len = 0

IInv == TypeOK /\ PoolInv /\ HeadTreated /\ PostedInv /\ LengthInv
-----------------------------------------------------------------------------
(* What the operations do to the places of the transactions.               *)

LEMMA NodeFacts == Capacity \in Nat /\ Node \subseteq Nat \ {0} /\ NoNode \notin Node
  BY ConfigAssumption DEF Node, NoNode

(* A purge makes every transaction free.                                    *)
LEMMA Purged ==
  ASSUME NEW f \in Seq(Node), NEW o \in Seq(Node), NEW c \in Node \cup {NoNode}, Places(f, o, c)
  PROVE  f \o (o \o Opened(c)) \in Seq(Node) /\ Places(f \o (o \o Opened(c)), <<>>, NoNode)
<1> DEFINE g == o \o Opened(c)
           h == f \o g
<1>1. Opened(c) \in Seq(Node) /\ Len(Opened(c)) \in Nat /\ (c # NoNode => Len(Opened(c)) = 1 /\ Opened(c)[1] = c)
      /\ (c = NoNode => Len(Opened(c)) = 0)
  BY DEF Opened
<1>2. g \in Seq(Node) /\ Len(g) = Len(o) + Len(Opened(c))
      /\ \A i \in 1 .. Len(g) : g[i] = IF i <= Len(o) THEN o[i] ELSE Opened(c)[i - Len(o)]
  BY <1>1, ConcatProperties
<1>3. h \in Seq(Node) /\ Len(h) = Len(f) + Len(g)
      /\ \A i \in 1 .. Len(h) : h[i] = IF i <= Len(f) THEN f[i] ELSE g[i - Len(f)]
  BY <1>2, ConcatProperties
<1>4. DOMAIN f = 1 .. Len(f) /\ DOMAIN o = 1 .. Len(o) /\ DOMAIN g = 1 .. Len(g) /\ DOMAIN h = 1 .. Len(h)
      /\ Len(f) \in Nat /\ Len(o) \in Nat
  BY <1>2, <1>3, LenProperties
<1>5. Len(<<>>) = 0 /\ DOMAIN <<>> = {}
  OBVIOUS
<1>6. \A i, j \in DOMAIN g : g[i] = g[j] => i = j
  BY <1>1, <1>2, <1>4, SMTT(30) DEF Places
<1>7. \A i \in DOMAIN f, j \in DOMAIN g : f[i] # g[j]
  BY <1>1, <1>2, <1>4 DEF Places
<1>8. \A i, j \in DOMAIN h : h[i] = h[j] => i = j
  <2> SUFFICES ASSUME NEW i \in DOMAIN h, NEW j \in DOMAIN h, h[i] = h[j]
               PROVE  i = j
    OBVIOUS
  <2> HIDE DEF g, h
  <2>1. CASE i <= Len(f) /\ j <= Len(f)
    BY <2>1, <1>3, <1>4 DEF Places
  <2>2. CASE i <= Len(f) /\ ~(j <= Len(f))
    <3>1. i \in DOMAIN f /\ j - Len(f) \in DOMAIN g /\ h[i] = f[i] /\ h[j] = g[j - Len(f)]
      BY <2>2, <1>2, <1>3, <1>4
    <3> QED
      BY <3>1, <1>7
  <2>3. CASE ~(i <= Len(f)) /\ j <= Len(f)
    <3>1. j \in DOMAIN f /\ i - Len(f) \in DOMAIN g /\ h[j] = f[j] /\ h[i] = g[i - Len(f)]
      BY <2>3, <1>2, <1>3, <1>4
    <3> QED
      BY <3>1, <1>7
  <2>4. CASE ~(i <= Len(f)) /\ ~(j <= Len(f))
    <3>1. g[i - Len(f)] = g[j - Len(f)] /\ i - Len(f) \in DOMAIN g /\ j - Len(f) \in DOMAIN g
      BY <2>4, <1>3, <1>4, SMTT(30)
    <3> QED
      BY <3>1, <1>6, <1>4
  <2> QED
    BY <2>1, <2>2, <2>3, <2>4
<1>9. ASSUME NEW n \in Node
      PROVE  \E i \in DOMAIN h : h[i] = n
  <2>1. CASE \E i \in DOMAIN f : f[i] = n
    BY <2>1, <1>3, <1>4
  <2>2. CASE \E i \in DOMAIN g : g[i] = n
    <3>1. PICK i \in DOMAIN g : g[i] = n
      BY <2>2
    <3>2. i + Len(f) \in DOMAIN h /\ h[i + Len(f)] = n
      BY <3>1, <1>3, <1>4
    <3> QED
      BY <3>2
  <2>3. CASE \E i \in DOMAIN o : o[i] = n
    BY <2>2, <2>3, <1>1, <1>2, <1>4, SMTT(30)
  <2>4. CASE n = c
    <3>1. c # NoNode
      BY <2>4, NodeFacts
    <3>2. Len(o) + 1 \in DOMAIN g /\ g[Len(o) + 1] = n
      <4>1. Len(g) = Len(o) + 1 /\ Opened(c)[1] = n
        BY <3>1, <2>4, <1>1, <1>2
      <4>2. Len(o) + 1 \in DOMAIN g /\ ~(Len(o) + 1 <= Len(o)) /\ Len(o) + 1 - Len(o) = 1
        BY <4>1, <1>4
      <4>3. g[Len(o) + 1] = Opened(c)[Len(o) + 1 - Len(o)]
        BY <4>2, <1>2, <1>4
      <4> HIDE DEF g
      <4> QED
        BY <4>1, <4>2, <4>3
    <3> QED
      BY <3>2, <2>2
  <2> QED
    BY <2>1, <2>3, <2>4 DEF Places
<1>10. \A i \in DOMAIN h : h[i] # NoNode
  <2> HIDE DEF h
  <2> QED
    BY <1>3, <1>4, ElementOfSeq, NodeFacts
<1>11. Len(h) + Len(<<>>) + 0 = Capacity
  <2>1. Len(f) + Len(o) + (IF c = NoNode THEN 0 ELSE 1) = Capacity
    BY DEF Places
  <2>2. Len(Opened(c)) = IF c = NoNode THEN 0 ELSE 1
    BY <1>1
  <2>3. Len(h) = Len(f) + (Len(o) + Len(Opened(c)))
    BY <1>2, <1>3
  <2> HIDE DEF h, g
  <2> QED
    <3>1. PICK a : a = Len(f)
      OBVIOUS
    <3>2. PICK b : b = Len(o)
      OBVIOUS
    <3>3. PICK w : w = Len(Opened(c))
      OBVIOUS
    <3>4. a \in Nat /\ b \in Nat /\ w \in Nat
      BY <1>1, <1>4, <1>5, <3>1, <3>2, <3>3
    <3>5. a + b + w = Capacity
      BY <2>1, <2>2, <3>1, <3>2, <3>3
    <3>6. Len(h) = a + (b + w)
      BY <2>3, <3>1, <3>2, <3>3
    <3>7. Len(<<>>) = 0
      OBVIOUS
    <3>8. a + (b + w) = a + b + w /\ a + b + w + 0 + 0 = a + b + w
      BY <3>4
    <3> QED
      BY <3>5, <3>6, <3>7, <3>8
<1> QED
  BY <1>3, <1>8, <1>9, <1>10, <1>11, <1>5 DEF Places

(* F lists the transactions that can be filled, the one being filled first. *)
Lists(F, f, c, k) ==
  /\ k = IF c = NoNode THEN 0 ELSE 1
  /\ F \in Seq(Node) /\ Len(F) = k + Len(f)
  /\ \A i \in 1 .. Len(F) : F[i] = IF i <= k THEN c ELSE f[i - k]

(* The transactions are those of F and those of the queue o.                *)
Parted(F, o) ==
  /\ Len(F) + Len(o) = Capacity
  /\ \A i, j \in 1 .. Len(F) : F[i] = F[j] => i = j
  /\ \A i, j \in 1 .. Len(o) : o[i] = o[j] => i = j
  /\ \A i \in 1 .. Len(F), j \in 1 .. Len(o) : F[i] # o[j]
  /\ \A n \in Node : (\E i \in 1 .. Len(F) : F[i] = n) \/ (\E i \in 1 .. Len(o) : o[i] = n)

LEMMA FillableFacts ==
  ASSUME NEW f \in Seq(Node), NEW o \in Seq(Node), NEW c \in Node \cup {NoNode}, Places(f, o, c),
         NEW k, NEW F, Lists(F, f, c, k)
  PROVE  Parted(F, o)
<1>0. k \in {0, 1} /\ F \in Seq(Node)
  BY DEF Lists
<1>1. DOMAIN f = 1 .. Len(f) /\ DOMAIN o = 1 .. Len(o) /\ Len(f) \in Nat /\ Len(o) \in Nat /\ Len(F) \in Nat
  BY <1>0, LenProperties
<1>2. \A i \in 1 .. Len(F) : (i <= k => i = 1 /\ F[i] = c) /\ (i > k => i - k \in DOMAIN f /\ F[i] = f[i - k])
  BY <1>0, <1>1 DEF Lists
<1>3. Len(F) + Len(o) = Capacity
  <2>1. Len(f) + Len(o) + (IF c = NoNode THEN 0 ELSE 1) = Capacity
    BY DEF Places
  <2>2. k = (IF c = NoNode THEN 0 ELSE 1) /\ Len(F) = k + Len(f)
    BY DEF Lists
  <2>3. PICK a : a = Len(f)
    OBVIOUS
  <2>4. PICK b : b = Len(o)
    OBVIOUS
  <2>5. a + b + k = Capacity /\ Len(F) = k + a
    BY <2>1, <2>2, <2>3, <2>4
  <2>6. a \in Nat /\ b \in Nat /\ k \in Nat
    BY <1>0, <1>1, <2>3, <2>4
  <2>7. (k + a) + b = a + b + k
    BY <2>6
  <2> QED
    BY <2>4, <2>5, <2>7
<1>4. ASSUME NEW i \in 1 .. Len(F), NEW j \in 1 .. Len(F), F[i] = F[j]
      PROVE  i = j
  <2>1. CASE i <= k /\ j <= k
    BY <2>1, <1>0, <1>1, <1>2
  <2>2. CASE i <= k /\ j > k
    <3>1. F[i] = c /\ F[j] = f[j - k] /\ j - k \in DOMAIN f
      BY <2>2, <1>2
    <3> QED
      BY <3>1, <1>4 DEF Places
  <2>3. CASE i > k /\ j <= k
    <3>1. F[j] = c /\ F[i] = f[i - k] /\ i - k \in DOMAIN f
      BY <2>3, <1>2
    <3> QED
      BY <3>1, <1>4 DEF Places
  <2>4. CASE i > k /\ j > k
    <3>1. F[j] = f[j - k] /\ F[i] = f[i - k] /\ i - k \in DOMAIN f /\ j - k \in DOMAIN f
      BY <2>4, <1>2
    <3>2. i - k = j - k
      BY <3>1, <1>4 DEF Places
    <3> QED
      BY <3>2, <1>0, <1>1
  <2> QED
    BY <2>1, <2>2, <2>3, <2>4, <1>0, <1>1
<1>5. ASSUME NEW i \in 1 .. Len(F), NEW j \in 1 .. Len(o)
      PROVE  F[i] # o[j]
  <2>1. CASE i <= k
    BY <2>1, <1>1, <1>2 DEF Places
  <2>2. CASE i > k
    <3>1. F[i] = f[i - k] /\ i - k \in DOMAIN f /\ j \in DOMAIN o
      BY <2>2, <1>1, <1>2
    <3> QED
      BY <3>1 DEF Places
  <2> QED
    BY <2>1, <2>2, <1>0, <1>1
<1>6. ASSUME NEW n \in Node
      PROVE  (\E i \in 1 .. Len(F) : F[i] = n) \/ (\E i \in 1 .. Len(o) : o[i] = n)
  <2>1. CASE n = c
    <3>1. k = 1
      BY <2>1, NodeFacts DEF Lists
    <3>2. 1 \in 1 .. Len(F) /\ F[1] = c
      BY <3>1, <1>1, <1>2 DEF Lists
    <3> QED
      BY <3>2, <2>1
  <2>2. CASE \E i \in DOMAIN f : f[i] = n
    <3>1. PICK i \in DOMAIN f : f[i] = n
      BY <2>2
    <3>2. i + k \in 1 .. Len(F) /\ i + k > k /\ i + k - k = i
      BY <1>0, <1>1 DEF Lists
    <3>4. PICK j : j = i + k
      OBVIOUS
    <3>5. j \in 1 .. Len(F) /\ j > k /\ j - k = i
      BY <3>2, <3>4, <1>0, <1>1
    <3>6. F[j] = f[j - k]
      BY <3>5, <1>2
    <3>3. F[i + k] = n
      BY <3>1, <3>4, <3>5, <3>6
    <3> QED
      BY <3>2, <3>3
  <2> QED
    BY <2>1, <2>2, <1>1 DEF Places
<1>7. \A i, j \in 1 .. Len(o) : o[i] = o[j] => i = j
  BY <1>1 DEF Places
<1> QED
  BY <1>3, <1>4, <1>5, <1>6, <1>7 DEF Parted

(* Filling them in order: the first `full` are queued, one more is being    *)
(* filled perhaps, and the others are free.                                 *)
Dealt(F, o, full, used, f2, o2, c2) ==
  /\ full \in Nat /\ used \in full .. full + 1 /\ used <= Len(F)
  /\ f2 \in Seq(Node) /\ Len(f2) = Len(F) - used /\ \A i \in 1 .. Len(f2) : f2[i] = F[used + i]
  /\ o2 \in Seq(Node) /\ Len(o2) = Len(o) + full
  /\ \A i \in 1 .. Len(o2) : o2[i] = IF i <= Len(o) THEN o[i] ELSE F[i - Len(o)]
  /\ c2 = IF used = full THEN NoNode ELSE F[used]

LEMMA PostedPlaces ==
  ASSUME NEW o \in Seq(Node), NEW F \in Seq(Node), Parted(F, o),
         NEW full, NEW used, NEW f2, NEW o2, NEW c2, Dealt(F, o, full, used, f2, o2, c2)
  PROVE  c2 \in Node \cup {NoNode} /\ Places(f2, o2, c2)
<1> /\ Len(F) + Len(o) = Capacity
    /\ \A i, j \in 1 .. Len(F) : F[i] = F[j] => i = j
    /\ \A i, j \in 1 .. Len(o) : o[i] = o[j] => i = j
    /\ \A i \in 1 .. Len(F), j \in 1 .. Len(o) : F[i] # o[j]
    /\ \A n \in Node : (\E i \in 1 .. Len(F) : F[i] = n) \/ (\E i \in 1 .. Len(o) : o[i] = n)
  BY DEF Parted
<1> /\ full \in Nat /\ used \in full .. full + 1 /\ used <= Len(F)
    /\ f2 \in Seq(Node) /\ Len(f2) = Len(F) - used /\ \A i \in 1 .. Len(f2) : f2[i] = F[used + i]
    /\ o2 \in Seq(Node) /\ Len(o2) = Len(o) + full
    /\ \A i \in 1 .. Len(o2) : o2[i] = IF i <= Len(o) THEN o[i] ELSE F[i - Len(o)]
    /\ c2 = IF used = full THEN NoNode ELSE F[used]
  BY DEF Dealt
<1>1. Len(F) \in Nat /\ Len(o) \in Nat /\ Len(f2) \in Nat /\ Len(o2) \in Nat
      /\ DOMAIN f2 = 1 .. Len(f2) /\ DOMAIN o2 = 1 .. Len(o2)
      /\ \A i \in 1 .. Len(F) : F[i] \in Node
  BY LenProperties, ElementOfSeq
<1>2. \A i \in DOMAIN f2 : f2[i] = F[used + i] /\ used + i \in 1 .. Len(F)
  BY <1>1, SMTT(30)
<1>3. \A i \in DOMAIN o2 : \/ i \in 1 .. Len(o) /\ o2[i] = o[i]
                           \/ i > Len(o) /\ i - Len(o) \in 1 .. full /\ i - Len(o) \in 1 .. Len(F)
                              /\ o2[i] = F[i - Len(o)]
  <2> SUFFICES ASSUME NEW i \in DOMAIN o2
               PROVE  \/ i \in 1 .. Len(o) /\ o2[i] = o[i]
                      \/ i > Len(o) /\ i - Len(o) \in 1 .. full /\ i - Len(o) \in 1 .. Len(F)
                         /\ o2[i] = F[i - Len(o)]
    OBVIOUS
  <2>1. i \in 1 .. Len(o2) /\ i \in Int
    BY <1>1
  <2>2. CASE i <= Len(o)
    <3>1. o2[i] = o[i]
      BY <2>1, <2>2
    <3> QED
      BY <3>1, <2>1, <2>2, <1>1
  <2>3. CASE ~(i <= Len(o))
    <3>1. o2[i] = F[i - Len(o)]
      BY <2>1, <2>3
    <3>2. i > Len(o) /\ i - Len(o) \in 1 .. full /\ i - Len(o) \in 1 .. Len(F)
      BY <2>1, <2>3, <1>1
    <3> QED
      BY <3>1, <3>2
  <2> QED
    BY <2>2, <2>3
<1>4. c2 \in Node \cup {NoNode} /\ used - full = IF c2 = NoNode THEN 0 ELSE 1
  BY <1>1, NodeFacts
<1>5. Len(f2) + Len(o2) + (IF c2 = NoNode THEN 0 ELSE 1) = Capacity
  <2>1. Len(f2) + Len(o2) + (used - full) = Capacity
    <3>1. Len(f2) = Len(F) - used /\ Len(o2) = Len(o) + full /\ Len(F) + Len(o) = Capacity
      OBVIOUS
    <3>2. used \in Int /\ full \in Int /\ Len(F) \in Int /\ Len(o) \in Int
      BY <1>1
    <3> QED
      BY <3>1, <3>2
  <2> QED
    BY <2>1, <1>4
<1>6. ASSUME NEW i \in DOMAIN f2, NEW j \in DOMAIN f2, f2[i] = f2[j]
      PROVE  i = j
  <2>1. used + i = used + j
    BY <1>2, <1>6, SMTT(30)
  <2>2. used \in Int /\ i \in Int /\ j \in Int
    BY <1>1
  <2> QED
    BY <2>1, <2>2, SMTT(30)
<1>7. ASSUME NEW i \in DOMAIN o2, NEW j \in DOMAIN o2, o2[i] = o2[j]
      PROVE  i = j
  <2>1. CASE i \in 1 .. Len(o) /\ j \in 1 .. Len(o)
    <3>1. o2[i] = o[i]
      BY <2>1, <1>1, <1>3
    <3>2. o2[j] = o[j]
      BY <2>1, <1>1, <1>3
    <3>3. o[i] = o[j]
      BY <3>1, <3>2, <1>7
    <3> QED
      BY <2>1, <3>3
  <2>2. CASE i \in 1 .. Len(o) /\ j > Len(o)
    <3>1. o2[i] = o[i] /\ o2[j] = F[j - Len(o)] /\ j - Len(o) \in 1 .. Len(F)
      BY <2>2, <1>1, <1>3, SMTT(30)
    <3>2. F[j - Len(o)] # o[i]
      BY <3>1, <2>2
    <3> QED
      BY <3>1, <3>2, <1>7
  <2>3. CASE i > Len(o) /\ j \in 1 .. Len(o)
    <3>1. o2[j] = o[j] /\ o2[i] = F[i - Len(o)] /\ i - Len(o) \in 1 .. Len(F)
      BY <2>3, <1>1, <1>3, SMTT(30)
    <3>2. F[i - Len(o)] # o[j]
      BY <3>1, <2>3
    <3> QED
      BY <3>1, <3>2, <1>7
  <2>4. CASE i > Len(o) /\ j > Len(o)
    <3>1. F[i - Len(o)] = F[j - Len(o)] /\ i - Len(o) \in 1 .. Len(F) /\ j - Len(o) \in 1 .. Len(F)
      BY <2>4, <1>1, <1>3, <1>7, SMTT(30)
    <3>2. i - Len(o) = j - Len(o)
      BY <3>1
    <3>3. i \in Int /\ j \in Int /\ Len(o) \in Int
      BY <1>1
    <3> QED
      BY <3>2, <3>3, SMTT(30)
  <2> QED
    BY <2>1, <2>2, <2>3, <2>4, <1>1
<1>8. ASSUME NEW i \in DOMAIN f2, NEW j \in DOMAIN o2
      PROVE  f2[i] # o2[j]
  <2>1. CASE j \in 1 .. Len(o)
    <3>1. f2[i] = F[used + i] /\ used + i \in 1 .. Len(F)
      BY <1>2
    <3>2. o2[j] = o[j]
      BY <2>1, <1>1, <1>3
    <3>3. F[used + i] # o[j]
      BY <2>1, <3>1
    <3> QED
      BY <3>1, <3>2, <3>3
  <2>2. CASE j > Len(o)
    <3>1. f2[i] = F[used + i] /\ o2[j] = F[j - Len(o)] /\ used + i \in 1 .. Len(F) /\ j - Len(o) \in 1 .. Len(F)
      BY <2>2, <1>1, <1>2, <1>3, SMTT(30)
    <3>2. used + i # j - Len(o)
      BY <2>2, <1>1, <1>3, SMTT(30)
    <3> QED
      BY <3>1, <3>2
  <2>3. j \in Int /\ Len(o) \in Int /\ j >= 1
    BY <1>1
  <2> QED
    BY <2>1, <2>2, <2>3
<1>9. ASSUME NEW i \in DOMAIN f2
      PROVE  f2[i] # c2
  <2>1. f2[i] = F[used + i] /\ used + i \in 1 .. Len(F) /\ F[used + i] \in Node /\ i > 0
    BY <1>1, <1>2, SMTT(30)
  <2>2. CASE used # full
    <3>1. used \in 1 .. Len(F) /\ used # used + i
      BY <2>2, <2>1, <1>1, SMTT(30)
    <3> QED
      BY <3>1, <2>1, <2>2
  <2>3. CASE used = full
    BY <2>1, <2>3, NodeFacts
  <2> QED
    BY <2>2, <2>3
<1>10. ASSUME NEW i \in DOMAIN o2
       PROVE  o2[i] # c2
  <2>1. o2[i] \in Node
    BY <1>1, ElementOfSeq
  <2>2. CASE used # full
    <3>1. used \in 1 .. Len(F) /\ c2 = F[used] /\ used = full + 1
      <4>1. used = full + 1 /\ used \in 1 .. Len(F)
        BY <2>2, <1>1
      <4> QED
        BY <4>1, <2>2
    <3>2. CASE i \in 1 .. Len(o)
      BY <3>1, <3>2, <1>1, <1>3, SMTT(30)
    <3>3. CASE i > Len(o)
      <4>1. o2[i] = F[i - Len(o)] /\ i - Len(o) \in 1 .. Len(F) /\ i - Len(o) # used
        BY <3>1, <3>3, <1>1, <1>3, SMTT(30)
      <4> QED
        BY <4>1, <3>1
    <3> QED
      BY <3>2, <3>3, <1>1
  <2>3. CASE used = full
    BY <2>1, <2>3, NodeFacts
  <2> QED
    BY <2>2, <2>3
<1>11. ASSUME NEW n \in Node
       PROVE  (\E i \in DOMAIN f2 : f2[i] = n) \/ (\E i \in DOMAIN o2 : o2[i] = n) \/ n = c2
  <2>1. CASE \E i \in 1 .. Len(o) : o[i] = n
    <3>1. PICK i \in 1 .. Len(o) : o[i] = n
      BY <2>1
    <3>2. i \in DOMAIN o2 /\ o2[i] = n
      BY <3>1, <1>1
    <3> QED
      BY <3>2
  <2>2. CASE \E i \in 1 .. Len(F) : F[i] = n
    <3>1. PICK i \in 1 .. Len(F) : F[i] = n
      BY <2>2
    <3>2. CASE i <= full
      <4>1. i + Len(o) \in DOMAIN o2 /\ ~(i + Len(o) <= Len(o)) /\ i + Len(o) - Len(o) = i
        BY <3>2, <1>1
      <4>2. PICK k \in DOMAIN o2 : k = i + Len(o)
        BY <4>1
      <4>4. k > Len(o) /\ k - Len(o) = i
        BY <4>1, <4>2
      <4>5. o2[k] = F[k - Len(o)]
        BY <4>4, <1>1, <1>3, SMTT(30)
      <4>3. o2[i + Len(o)] = n
        BY <4>2, <4>4, <4>5, <3>1
      <4> QED
        BY <4>1, <4>3
    <3>3. CASE i > used
      <4>1. i - used \in DOMAIN f2 /\ used + (i - used) = i
        BY <3>3, <1>1
      <4>2. f2[i - used] = n
        BY <4>1, <1>2, <3>1
      <4> QED
        BY <4>1, <4>2
    <3>4. CASE full < i /\ i <= used
      <4>1. i = used /\ used # full
        BY <3>4, <1>1
      <4> QED
        BY <4>1, <3>1
    <3> QED
      BY <3>2, <3>3, <3>4, <1>1
  <2> QED
    BY <2>1, <2>2
<1> QED
  BY <1>4, <1>5, <1>6, <1>7, <1>8, <1>9, <1>10, <1>11 DEF Places
(* Tail and Append, by what they hold.                                      *)
LEMMA TailIs ==
  ASSUME NEW S, NEW s \in Seq(S), s # <<>>, NEW t, t = Tail(s)
  PROVE  /\ Len(s) \in Nat \ {0} /\ Head(s) = s[1] /\ Head(s) \in S
         /\ t \in Seq(S) /\ Len(t) = Len(s) - 1 /\ \A i \in 1 .. Len(t) : t[i] = s[i + 1]
<1>1. Len(s) \in Nat \ {0}
  BY LenProperties, EmptySeq
<1>2. /\ Head(s) \in S /\ Tail(s) \in Seq(S) /\ Len(Tail(s)) = Len(s) - 1
      /\ \A i \in 1 .. Len(Tail(s)) : Tail(s)[i] = s[i + 1]
  BY HeadTailProperties
<1>3. Head(s) = s[1]
  OBVIOUS
<1> QED
  BY <1>1, <1>2, <1>3

LEMMA AppendIs ==
  ASSUME NEW S, NEW s \in Seq(S), NEW e \in S, NEW t, t = Append(s, e)
  PROVE  /\ t \in Seq(S) /\ Len(s) \in Nat /\ Len(t) = Len(s) + 1
         /\ \A i \in 1 .. Len(t) : t[i] = IF i <= Len(s) THEN s[i] ELSE e
<1>1. Append(s, e) \in Seq(S) /\ Len(Append(s, e)) = Len(s) + 1 /\ Len(s) \in Nat
      /\ \A i \in 1 .. Len(s) : Append(s, e)[i] = s[i] /\ Append(s, e)[Len(s) + 1] = e
  BY AppendProperties, LenProperties
<1>2. t[Len(s) + 1] = e
  BY AppendProperties
<1>3. ASSUME NEW i \in 1 .. Len(s) + 1
      PROVE  t[i] = IF i <= Len(s) THEN s[i] ELSE e
  <2>1. CASE i <= Len(s)
    BY <2>1, <1>1
  <2>2. CASE ~(i <= Len(s))
    <3>1. i = Len(s) + 1
      BY <2>2, <1>1
    <3> QED
      BY <3>1, <2>2, <1>2
  <2> QED
    BY <2>1, <2>2
<1> QED
  BY <1>1, <1>3

(* The first transaction of one list goes to the end of the other.          *)
LEMMA Moved ==
  ASSUME NEW f \in Seq(Node), NEW o \in Seq(Node), NEW c \in Node \cup {NoNode}, Places(f, o, c), f # <<>>,
         NEW h, h = Head(f), NEW g, g = Tail(f), NEW p, p = Append(o, h)
  PROVE  g \in Seq(Node) /\ p \in Seq(Node) /\ h \in Node /\ Places(g, p, c)
<1>1. /\ Len(f) \in Nat \ {0} /\ h = f[1] /\ h \in Node
      /\ g \in Seq(Node) /\ Len(g) = Len(f) - 1 /\ \A i \in 1 .. Len(g) : g[i] = f[i + 1]
  BY TailIs
<1>2. /\ p \in Seq(Node) /\ Len(o) \in Nat /\ Len(p) = Len(o) + 1
      /\ \A i \in 1 .. Len(p) : p[i] = IF i <= Len(o) THEN o[i] ELSE h
  BY <1>1, AppendIs
<1>3. DOMAIN f = 1 .. Len(f) /\ DOMAIN o = 1 .. Len(o) /\ DOMAIN g = 1 .. Len(g) /\ DOMAIN p = 1 .. Len(p)
  BY <1>1, <1>2, LenProperties
<1>4. /\ \A i \in DOMAIN g : i \in Int /\ i >= 1 /\ i + 1 \in DOMAIN f /\ g[i] = f[i + 1]
      /\ \A i \in DOMAIN f : i = 1 \/ (i - 1 \in DOMAIN g /\ g[i - 1] = f[i])
  BY <1>1, <1>3
<1>5. /\ \A i \in DOMAIN p : (i \in DOMAIN o /\ p[i] = o[i]) \/ (i = Len(o) + 1 /\ i \notin DOMAIN o /\ p[i] = h)
      /\ \A i \in DOMAIN o : i \in DOMAIN p /\ p[i] = o[i]
      /\ Len(o) + 1 \in DOMAIN p /\ p[Len(o) + 1] = h
  BY <1>2, <1>3
<1>6. 1 \in DOMAIN f
  BY <1>1, <1>3
<1>7. Len(g) + Len(p) + (IF c = NoNode THEN 0 ELSE 1) = Capacity
  <2>1. Len(f) + Len(o) + (IF c = NoNode THEN 0 ELSE 1) = Capacity
    BY DEF Places
  <2> QED
    BY <2>1, <1>1, <1>2
<1>8. ASSUME NEW i \in DOMAIN g, NEW j \in DOMAIN g, g[i] = g[j]
      PROVE  i = j
  <2>1. i + 1 = j + 1
    BY <1>4, <1>8 DEF Places
  <2> QED
    BY <2>1, <1>4
<1>9. ASSUME NEW i \in DOMAIN p, NEW j \in DOMAIN p, p[i] = p[j]
      PROVE  i = j
  BY <1>1, <1>5, <1>6, <1>9 DEF Places
<1>10. ASSUME NEW i \in DOMAIN g, NEW j \in DOMAIN p
       PROVE  g[i] # p[j]
  <2>1. g[i] = f[i + 1] /\ i + 1 \in DOMAIN f /\ i + 1 # 1
    BY <1>4
  <2>2. f[i + 1] # h
    BY <2>1, <1>1, <1>6 DEF Places
  <2> QED
    BY <2>1, <2>2, <1>5 DEF Places
<1>11. \A i \in DOMAIN g : g[i] # c
  BY <1>4 DEF Places
<1>12. \A i \in DOMAIN p : p[i] # c
  BY <1>1, <1>5, <1>6 DEF Places
<1>13. ASSUME NEW n \in Node
       PROVE  (\E i \in DOMAIN g : g[i] = n) \/ (\E i \in DOMAIN p : p[i] = n) \/ n = c
  <2>1. CASE \E i \in DOMAIN f : f[i] = n
    <3>1. PICK i \in DOMAIN f : f[i] = n
      BY <2>1
    <3>2. CASE i = 1
      BY <3>1, <3>2, <1>1, <1>5
    <3>3. CASE i - 1 \in DOMAIN g /\ g[i - 1] = f[i]
      BY <3>1, <3>3
    <3> QED
      BY <3>2, <3>3, <1>4
  <2>2. CASE \E i \in DOMAIN o : o[i] = n
    BY <2>2, <1>5
  <2> QED
    BY <2>1, <2>2 DEF Places
<1> QED
  BY <1>1, <1>2, <1>7, <1>8, <1>9, <1>10, <1>11, <1>12, <1>13 DEF Places

(* The free list and the queue play the same part.                          *)
LEMMA Mirrored ==
  ASSUME NEW f \in Seq(Node), NEW o \in Seq(Node), NEW c, Places(f, o, c)
  PROVE  Places(o, f, c)
<1>1. Len(f) \in Nat /\ Len(o) \in Nat
  BY LenProperties
<1>2. Len(o) + Len(f) + (IF c = NoNode THEN 0 ELSE 1) = Capacity
  BY <1>1 DEF Places
<1> QED
  BY <1>2 DEF Places

(* The transaction being filled is queued.                                  *)
LEMMA Closed ==
  ASSUME NEW f \in Seq(Node), NEW o \in Seq(Node), NEW c \in Node, Places(f, o, c), NEW p, p = Append(o, c)
  PROVE  p \in Seq(Node) /\ Places(f, p, NoNode)
<1>1. /\ p \in Seq(Node) /\ Len(o) \in Nat /\ Len(p) = Len(o) + 1
      /\ \A i \in 1 .. Len(p) : p[i] = IF i <= Len(o) THEN o[i] ELSE c
  BY AppendIs
<1>2. DOMAIN f = 1 .. Len(f) /\ DOMAIN o = 1 .. Len(o) /\ DOMAIN p = 1 .. Len(p) /\ Len(f) \in Nat
      /\ c # NoNode
  BY <1>1, LenProperties, NodeFacts
<1>3. /\ \A i \in DOMAIN p : (i \in DOMAIN o /\ p[i] = o[i]) \/ (i = Len(o) + 1 /\ p[i] = c)
      /\ \A i \in DOMAIN o : i \in DOMAIN p /\ p[i] = o[i]
      /\ Len(o) + 1 \in DOMAIN p /\ p[Len(o) + 1] = c
  BY <1>1, <1>2
<1>4. Len(f) + Len(p) + (IF NoNode = NoNode THEN 0 ELSE 1) = Capacity
  <2>1. Len(f) + Len(o) + (IF c = NoNode THEN 0 ELSE 1) = Capacity
    BY DEF Places
  <2> QED
    BY <2>1, <1>1, <1>2
<1>5. (\A i \in DOMAIN f : f[i] # NoNode) /\ (\A i \in DOMAIN p : p[i] # NoNode)
  BY <1>1, <1>2, ElementOfSeq, NodeFacts
<1>6. \A i, j \in DOMAIN p : p[i] = p[j] => i = j
  BY <1>3 DEF Places
<1>7. \A i \in DOMAIN f, j \in DOMAIN p : f[i] # p[j]
  BY <1>3 DEF Places
<1>8. \A n \in Node : (\E i \in DOMAIN f : f[i] = n) \/ (\E i \in DOMAIN p : p[i] = n) \/ n = NoNode
  BY <1>3 DEF Places
<1> QED
  BY <1>1, <1>4, <1>5, <1>6, <1>7, <1>8 DEF Places

(* At the start every transaction is free.                                  *)
LEMMA AllFree ==
  ASSUME NEW f, f = [n \in Node |-> n]
  PROVE  f \in Seq(Node) /\ Places(f, <<>>, NoNode)
<1>1. Node = 1 .. Capacity /\ Capacity \in Nat
  BY NodeFacts DEF Node
<1>2. f \in [1 .. Capacity -> Node]
  BY <1>1
<1>3. f \in Seq(Node) /\ Len(f) = Capacity /\ DOMAIN f = Node
  BY <1>1, <1>2
<1>4. <<>> \in Seq(Node) /\ Len(<<>>) = 0 /\ DOMAIN <<>> = {}
  OBVIOUS
<1>5. Len(f) + Len(<<>>) + 0 = Capacity
  BY <1>1, <1>3, <1>4
<1> QED
  BY <1>3, <1>4, <1>5, NodeFacts DEF Places
-----------------------------------------------------------------------------
(* The operations of the storage keep its type.                            *)

LEMMA Division ==
  ASSUME NEW p \in Nat \ {0}, NEW a \in Nat
  PROVE  /\ a \div p \in Nat /\ a % p \in 0 .. p - 1
         /\ (a \div p) * p <= a /\ a < (a \div p) * p + p
         /\ a = (a \div p) * p + (a % p)
  OBVIOUS

LEMMA Geometry == Page \in Nat \ {0} /\ Sector \in Nat \ {0} /\ Size \in Nat
  BY GeometryAssumption

Fields(d) == /\ d.flash \in [Units -> Cell] /\ d.buf \in [0 .. Page - 1 -> Cell]
             /\ d.driver \in {"external", "internal"} /\ d.erased \in SUBSET Nat
             /\ d.offs \in Nat /\ d.level \in Nat

LEMMA StorageFields == ASSUME NEW d \in Storage PROVE Fields(d)
  BY DEF Storage, Fields

LEMMA MergedTyped == ASSUME NEW old \in Cell, NEW new \in Cell PROVE Merged(old, new) \in Cell
  BY DEF Merged, Cell

LEMMA ProgrammedTyped ==
  ASSUME NEW d \in Storage, NEW offs \in Nat, NEW data \in Seq(Cell)
  PROVE  Programmed(d, offs, data) \in Storage
<1> DEFINE g == [u \in Units |-> IF u \in offs .. offs + Len(data) - 1
                                 THEN Merged(d.flash[u], data[u - offs + 1])
                                 ELSE d.flash[u]]
<1>1. ASSUME NEW u \in Units
      PROVE  g[u] \in Cell
  <2>1. d.flash[u] \in Cell
    BY StorageFields DEF Fields
  <2>2. CASE u \in offs .. offs + Len(data) - 1
    <3>1. u - offs + 1 \in 1 .. Len(data)
      BY <2>2 DEF Units
    <3>2. data[u - offs + 1] \in Cell
      BY <3>1, ElementOfSeq
    <3> QED
      BY <2>1, <2>2, <3>2, MergedTyped
  <2> QED
    BY <2>1, <2>2
<1>2. g \in [Units -> Cell]
  BY <1>1
<1> HIDE DEF g
<1>3. [d EXCEPT !.flash = g] \in Storage
  BY <1>2 DEF Storage
<1> QED
  BY <1>3 DEF Programmed, g

LEMMA ErasedTyped ==
  ASSUME NEW d \in Storage, NEW sectors
  PROVE  ErasedSectors(d, sectors) \in Storage
<1>1. [u \in Units |-> IF SectorOf(u) \in sectors THEN Blank ELSE d.flash[u]] \in [Units -> Cell]
  BY StorageFields DEF Fields, Cell
<1> QED
  BY <1>1 DEF ErasedSectors, Storage

LEMMA PageBufferTyped ==
  ASSUME NEW d \in Storage, NEW p \in Nat, NEW offs \in Nat, NEW data \in Seq(Cell)
  PROVE  PageBuffer(d, p, offs, data) \in [0 .. Page - 1 -> Cell]
<1> SUFFICES ASSUME NEW i \in 0 .. Page - 1
             PROVE  PageBuffer(d, p, offs, data)[i] \in Cell
  BY DEF PageBuffer
<1>1. d.buf[i] \in Cell /\ Blank \in Cell
  BY StorageFields DEF Fields, Cell
<1> DEFINE u == p * Page + i
<1>2. CASE u \in offs .. offs + Len(data) - 1
  <2>1. u - offs + 1 \in 1 .. Len(data)
    BY <1>2
  <2>2. data[u - offs + 1] \in Cell
    BY <2>1, ElementOfSeq
  <2> QED
    BY <1>2, <2>2 DEF PageBuffer
<1> QED
  BY <1>1, <1>2 DEF PageBuffer

LEMMA BufferedTyped ==
  ASSUME NEW d \in Storage, NEW offs \in Nat, NEW data \in Seq(Cell),
         NEW p \in PageOf(offs) .. PageOf(offs + Len(data))
  PROVE  Buffered(d, p, offs, data) \in Storage
<1> DEFINE end == offs + Len(data)
           l == (IF p = PageOf(offs) THEN d.level - offs ELSE -p * Page)
                + IF p < PageOf(end) THEN (p + 1) * Page ELSE end
<1>1. end \in Nat /\ offs <= end /\ d.level \in Nat
  BY Geometry, StorageFields, LenProperties DEF Fields
<1>2. /\ PageOf(offs) * Page <= offs /\ offs < PageOf(offs) * Page + Page
      /\ PageOf(end) * Page <= end /\ end < PageOf(end) * Page + Page /\ PageOf(end) \in Nat
      /\ PageOf(offs) \in Nat /\ p \in Nat /\ p * Page \in Nat
  <2>1. /\ PageOf(offs) * Page <= offs /\ offs < PageOf(offs) * Page + Page
        /\ PageOf(end) * Page <= end /\ end < PageOf(end) * Page + Page /\ PageOf(end) \in Nat
        /\ PageOf(offs) \in Nat
    BY <1>1, Geometry, Division DEF PageOf
  <2>2. p \in Nat
    BY <2>1
  <2> QED
    BY <2>1, <2>2, Geometry
<1>3. (p + 1) * Page = p * Page + Page /\ -p * Page = -(p * Page)
  BY Geometry
<1>4. l \in Nat
  <2>1. PICK x \in Nat : x = p * Page
    BY <1>2
  <2>2. (p + 1) * Page = x + Page /\ -p * Page = -x /\ Page \in Nat
    BY <2>1, <1>3, Geometry
  <2>3. CASE p = PageOf(offs)
    <3>1. offs < x + Page /\ offs <= end
      BY <2>1, <2>3, <1>1, <1>2
    <3>2. l = d.level - offs + IF p < PageOf(end) THEN x + Page ELSE end
      BY <2>2, <2>3
    <3> HIDE DEF l
    <3> QED
      BY <3>1, <3>2, <2>2, <1>1
  <2>4. CASE p # PageOf(offs)
    <3>1. CASE p < PageOf(end)
      <4>1. l = -x + (x + Page)
        BY <2>1, <2>2, <2>4, <3>1
      <4> HIDE DEF l
      <4> QED
        BY <4>1, <2>1, <2>2
    <3>2. CASE ~(p < PageOf(end))
      <4>1. p = PageOf(end)
        BY <3>2, <1>2
      <4>2. l = -x + end /\ x <= end
        BY <2>1, <2>2, <2>4, <4>1, <1>1, <1>2
      <4> HIDE DEF l
      <4> QED
        BY <4>2, <1>1, <2>1
    <3> QED
      BY <3>1, <3>2
  <2> QED
    BY <2>3, <2>4
<1> HIDE DEF l
<1>5. [d EXCEPT !.buf = PageBuffer(d, p, offs, data), !.offs = p * Page, !.level = l] \in Storage
  BY <1>2, <1>4, PageBufferTyped DEF Storage
<1> QED
  BY <1>5 DEF Buffered, l

(* A unit of the pages from a up to b.                                      *)
LEMMA PageWithin ==
  ASSUME NEW a \in Nat, NEW b \in Nat, NEW x \in Nat
  PROVE  /\ a * Page <= x <=> a <= PageOf(x)
         /\ x < b * Page <=> PageOf(x) < b
         /\ PageOf(x) \in Nat
<1>1. PICK p : p = PageOf(x)
  OBVIOUS
<1>2. p \in Nat /\ p * Page <= x /\ x < p * Page + Page /\ Page \in Nat \ {0}
  BY <1>1, Geometry, Division DEF PageOf
<1>3. ASSUME NEW c \in Nat
      PROVE  c * Page <= x <=> c <= p
  <2>1. CASE c <= p
    <3>1. c * Page <= p * Page /\ c * Page \in Nat /\ p * Page \in Nat
      BY <2>1, <1>2
    <3> QED
      BY <3>1, <2>1, <1>2
  <2>2. CASE ~(c <= p)
    <3>1. p + 1 <= c /\ (p + 1) * Page = p * Page + Page
      BY <2>2, <1>2
    <3>2. (p + 1) * Page <= c * Page /\ c * Page \in Nat /\ p * Page \in Nat
      BY <3>1, <1>2
    <3> QED
      BY <3>1, <3>2, <2>2, <1>2
  <2> QED
    BY <2>1, <2>2
<1>4. x < b * Page <=> p < b
  <2>1. b * Page <= x <=> b <= p
    BY <1>3
  <2>2. b * Page \in Nat
    BY <1>2
  <2> QED
    BY <2>1, <2>2, <1>2
<1> QED
  BY <1>1, <1>2, <1>3, <1>4

(* The page where a write stops.                                            *)
LEMMA StopIs ==
  ASSUME NEW offs \in Nat, NEW n \in Nat, NEW fault, NEW stop,
         stop = IF ProgramFails(fault, PageOf(offs) * Page, (PageOf(offs + n) - PageOf(offs)) * Page)
                THEN PageOf(fault.at) ELSE PageOf(offs + n)
  PROVE  /\ PageOf(offs) \in Nat /\ PageOf(offs + n) \in Nat /\ PageOf(offs) <= PageOf(offs + n)
         /\ stop \in PageOf(offs) .. PageOf(offs + n)
<1>1. PICK a : a = PageOf(offs)
  OBVIOUS
<1>2. PICK b : b = PageOf(offs + n)
  OBVIOUS
<1>3. a \in Nat /\ b \in Nat /\ a <= b
  <2>1. offs + n \in Nat
    OBVIOUS
  <2>2. a \in Nat /\ b \in Nat
    BY <2>1, <1>1, <1>2, PageWithin
  <2>3. a * Page <= offs /\ a * Page \in Nat
    BY <2>2, <1>1, PageWithin, Geometry
  <2>4. a * Page <= offs + n
    BY <2>3
  <2> QED
    BY <2>1, <2>2, <2>4, <1>2, PageWithin
<1>4. CASE ProgramFails(fault, a * Page, (b - a) * Page)
  <2>1. stop = PageOf(fault.at)
    BY <1>1, <1>2, <1>4
  <2>2. fault.at \in a * Page .. a * Page + (b - a) * Page - 1
    BY <1>4 DEF ProgramFails
  <2>3. (b - a) * Page = b * Page - a * Page /\ a * Page \in Nat /\ b * Page \in Nat
    BY <1>3, Geometry
  <2>4. fault.at \in Nat /\ a * Page <= fault.at /\ fault.at < b * Page
    <3>1. PICK x : x = a * Page
      OBVIOUS
    <3>2. PICK y : y = (b - a) * Page
      OBVIOUS
    <3>3. fault.at \in x .. x + y - 1 /\ y = b * Page - x /\ x \in Nat
      BY <2>2, <2>3, <3>1, <3>2
    <3> QED
      BY <3>1, <3>3, <2>3
  <2>5. a <= PageOf(fault.at) /\ PageOf(fault.at) < b
    BY <2>4, <1>3, PageWithin
  <2> QED
    BY <1>1, <1>2, <1>3, <2>1, <2>4, <2>5, PageWithin
<1>5. CASE ~ProgramFails(fault, a * Page, (b - a) * Page)
  <2>1. stop = b
    BY <1>1, <1>2, <1>5
  <2> QED
    BY <2>1, <1>1, <1>2, <1>3
<1> QED
  BY <1>4, <1>5

LEMMA ExternalWriteTyped ==
  ASSUME NEW d \in Storage, NEW offs \in Nat, NEW data \in Seq(Cell), Len(data) > 0, NEW fault,
         NEW r, r = ExternalWrite(d, offs, data, fault)
  PROVE  r.d \in Storage /\ r.ok \in BOOLEAN
<1> DEFINE first == PageOf(offs)
           end == offs + Len(data)
           last == PageOf(end)
           stop == IF ProgramFails(fault, first * Page, (last - first) * Page)
                   THEN PageOf(fault.at) ELSE last
           b == IF stop < last \/ end % Page # 0 THEN Buffered(d, stop, offs, data)
                ELSE [d EXCEPT !.buf = BlankBuffer, !.offs = end - Page, !.level = 0]
           g == [u \in Units |-> IF PageOf(u) \in first .. stop - 1
                                 THEN Merged(d.flash[u], PageBuffer(d, PageOf(u), offs, data)[u % Page])
                                 ELSE d.flash[u]]
<1>0. end \in Nat /\ Len(data) \in Nat /\ end = offs + Len(data)
  BY LenProperties
<1>1. first \in Nat /\ last \in Nat /\ stop \in first .. last
  BY <1>0, StopIs
<1>2. CASE ~InPartition(offs, Len(data))
  BY <1>2 DEF ExternalWrite, Done
<1>3. CASE InPartition(offs, Len(data)) /\ Len(data) = Page
  <2>1. CASE ProgramFails(fault, offs, Page)
    BY <1>3, <2>1 DEF ExternalWrite, Done
  <2>2. CASE ~ProgramFails(fault, offs, Page)
    BY <1>3, <2>2, ProgrammedTyped DEF ExternalWrite, Done
  <2> QED
    BY <2>1, <2>2
<1>4. CASE InPartition(offs, Len(data)) /\ Len(data) # Page
  <2>1. r = Done(stop = last, [b EXCEPT !.flash = g])
    BY <1>4 DEF ExternalWrite
  <2> HIDE DEF stop
  <2>2. b \in Storage
    <3>1. CASE stop < last \/ end % Page # 0
      <4>1. Buffered(d, stop, offs, data) \in Storage
        BY <1>1, BufferedTyped
      <4> QED
        BY <3>1, <4>1
    <3>2. CASE ~(stop < last \/ end % Page # 0)
      <4>1. BlankBuffer \in [0 .. Page - 1 -> Cell]
        BY DEF BlankBuffer, Cell
      <4>2. CASE end - Page \in Nat
        <5>1. [d EXCEPT !.buf = BlankBuffer, !.offs = end - Page, !.level = 0] \in Storage
          BY <4>1, <4>2 DEF Storage
        <5> QED
          BY <3>2, <5>1
      <4>3. CASE end - Page \notin Nat
        <5>1. end < Page
          BY <4>3, <1>0, Geometry
        <5>2. end > 0
          BY <1>0
        <5>3. PICK q : q = end \div Page
          OBVIOUS
        <5>4. q \in Nat /\ end = q * Page + (end % Page) /\ end % Page = 0
          BY <5>3, <3>2, <1>0, Geometry, Division
        <5>5. q * Page < Page
          BY <5>4, <5>1, Geometry
        <5>6. q = 0
          BY <5>4, <5>5, Geometry
        <5> QED
          BY <5>2, <5>4, <5>6, Geometry
      <4> QED
        BY <4>2, <4>3
    <3> QED
      BY <3>1, <3>2
  <2>3. ASSUME NEW u \in Units
        PROVE  g[u] \in Cell
    <3>1. d.flash[u] \in Cell
      BY StorageFields DEF Fields
    <3>2. PageOf(u) \in Nat /\ u % Page \in 0 .. Page - 1
      <4>1. u \in Nat
        BY Geometry DEF Units
      <4> QED
        BY <4>1, Geometry, Division DEF PageOf
    <3>3. PageBuffer(d, PageOf(u), offs, data)[u % Page] \in Cell
      BY <3>2, PageBufferTyped, ZenonT(60)
    <3> QED
      BY <3>1, <3>3, MergedTyped
  <2>4. g \in [Units -> Cell]
    BY <2>3
  <2> HIDE DEF b, g
  <2>5. [b EXCEPT !.flash = g] \in Storage
    BY <2>2, <2>4 DEF Storage
  <2> QED
    BY <2>1, <2>5 DEF Done
<1> QED
  BY <1>2, <1>3, <1>4

LEMMA FlushTyped ==
  ASSUME NEW d \in Storage, NEW fault, NEW r, r = Flush(d, fault)
  PROVE  r.d \in Storage /\ r.ok \in BOOLEAN
<1> DEFINE s == BufferSeq(d)
<1>1. d.buf \in [0 .. Page - 1 -> Cell] /\ d.offs \in Nat /\ d.level \in Nat
  BY StorageFields DEF Fields
<1>2. s \in Seq(Cell) /\ Len(s) = Page
  <2>1. s = [i \in 1 .. Page |-> d.buf[i - 1]]
    BY DEF BufferSeq
  <2>2. \A i \in 1 .. Page : d.buf[i - 1] \in Cell
    BY <1>1, Geometry
  <2> QED
    BY <2>1, <2>2, Geometry
<1>3. Filled(d) \in Seq(Cell)
  <2> DEFINE n == IF d.level < Page THEN d.level ELSE Page
  <2>1. \A i \in 1 .. n : s[i] \in Cell
    BY <1>1, <1>2, Geometry, ElementOfSeq
  <2>2. n \in Int
    BY <1>1, Geometry
  <2> HIDE DEF n, s
  <2>3. SubSeq(s, 1, n) \in Seq(Cell)
    BY <2>1, <2>2, SubSeqProperties
  <2> QED
    BY <2>3 DEF Filled, n, s
<1>4. BlankBuffer \in [0 .. Page - 1 -> Cell]
  BY DEF BlankBuffer, Cell
<1>5. Programmed(d, d.offs, s) \in Storage /\ Programmed(d, d.offs, Filled(d)) \in Storage
  BY <1>1, <1>2, <1>3, ProgrammedTyped
<1>6. [Programmed(d, d.offs, s) EXCEPT !.buf = BlankBuffer, !.level = 0] \in Storage
      /\ [Programmed(d, d.offs, Filled(d)) EXCEPT !.level = 0] \in Storage
  BY <1>4, <1>5 DEF Storage
<1> QED
  BY <1>6 DEF Flush, ExternalFlush, InternalFlush, Done

LEMMA InternalEraseTyped ==
  ASSUME NEW d \in Storage, NEW offs \in Nat, NEW size \in Nat, NEW fault,
         NEW r, r = InternalErase(d, offs, size, fault)
  PROVE  r.d \in Storage /\ r.ok \in BOOLEAN
<1> DEFINE new == SectorsOf(offs, size) \ d.erased
           done == Reached(new, fault)
<1>1. SectorsOf(offs, size) \subseteq Nat
  <2>1. SectorOf(offs) \in Nat
    BY Geometry, Division DEF SectorOf
  <2>2. SectorOf(offs + size - 1) \in Int
    BY Geometry DEF SectorOf
  <2> QED
    BY <2>1, <2>2 DEF SectorsOf
<1>2. ErasedSectors(d, done) \in Storage
  BY ErasedTyped
<1>3. done \subseteq Nat
  BY <1>1 DEF Reached
<1> HIDE DEF new, done
<1>4. ErasedSectors(d, done).erased \subseteq Nat
  BY <1>2 DEF Storage
<1>5. [ErasedSectors(d, done) EXCEPT !.erased = @ \cup done] \in Storage
  BY <1>2, <1>3, <1>4 DEF Storage
<1> QED
  BY <1>5 DEF InternalErase, Done, new, done

LEMMA InternalProgramTyped ==
  ASSUME NEW d \in Storage, NEW offs \in Nat, NEW data \in Seq(Cell), NEW fault,
         NEW r, r = InternalProgram(d, offs, data, fault)
  PROVE  r.d \in Storage /\ r.ok \in BOOLEAN
<1> DEFINE rest == Len(data) % Page
           whole == Len(data) - rest
           fails == ProgramFails(fault, offs, whole)
           put == IF fails THEN fault.at - offs ELSE whole
           part == SubSeq(data, 1, put)
           b == [i \in 0 .. Page - 1 |-> IF i < rest THEN data[whole + i + 1] ELSE d.buf[i]]
<1>1. Len(data) \in Nat /\ rest \in 0 .. Page - 1 /\ rest <= Len(data) /\ whole \in Nat
  <2>1. Len(data) \in Nat
    BY LenProperties
  <2>2. rest \in 0 .. Page - 1 /\ Len(data) = (Len(data) \div Page) * Page + rest /\ (Len(data) \div Page) * Page \in Nat
    <3>1. Len(data) \div Page \in Nat
      BY <2>1, Geometry, Division
    <3>2. (Len(data) \div Page) * Page \in Nat
      BY <3>1, Geometry
    <3> QED
      BY <3>2, <2>1, Geometry, Division
  <2> HIDE DEF rest
  <2> QED
    BY <2>1, <2>2, Geometry
<1> HIDE DEF rest
<1>2. part \in Seq(Cell)
  <2>1. put \in 0 .. whole
    BY <1>1 DEF ProgramFails
  <2> HIDE DEF put
  <2>2. \A i \in 1 .. put : data[i] \in Cell
    BY <2>1, <1>1, ElementOfSeq
  <2> QED
    BY <2>1, <2>2, <1>1, SubSeqProperties
<1>3. b \in [0 .. Page - 1 -> Cell]
  <2> SUFFICES ASSUME NEW i \in 0 .. Page - 1
               PROVE  b[i] \in Cell
    OBVIOUS
  <2>1. CASE i < rest
    <3>1. whole + i + 1 \in 1 .. Len(data)
      BY <2>1, <1>1
    <3>2. data[whole + i + 1] \in Cell
      BY <3>1, ElementOfSeq
    <3> QED
      BY <2>1, <3>2
  <2>2. CASE ~(i < rest)
    BY <2>2, StorageFields DEF Fields
  <2> QED
    BY <2>1, <2>2
<1>4. Programmed(d, offs, part) \in Storage
  BY <1>2, ProgrammedTyped
<1> HIDE DEF b, part
<1>5. [Programmed(d, offs, part) EXCEPT !.level = rest, !.offs = offs + whole, !.buf = b] \in Storage
  <2>1. rest \in Nat /\ offs + whole \in Nat
    BY <1>1, Geometry
  <2> QED
    BY <2>1, <1>3, <1>4 DEF Storage
<1>6. CASE offs % Page # 0
  BY <1>6 DEF InternalProgram, Done
<1>7. CASE offs % Page = 0
  <2>1. r = Done(~fails, [Programmed(d, offs, part) EXCEPT !.level = rest, !.offs = offs + whole, !.buf = b])
    BY <1>7 DEF InternalProgram, rest, part, b
  <2> QED
    BY <2>1, <1>5 DEF Done
<1> QED
  BY <1>6, <1>7

(* The steps of a write to the internal flash: q is what preparing leaves, b *)
(* the buffer filled up, f what flushing it leaves.                         *)
Steps(d, offs, data, fault, r, q, b, f, taken, rest) ==
  /\ q = InternalErase(d, offs, Len(data), fault) /\ q.d \in Storage /\ q.ok \in BOOLEAN
  /\ b \in Storage /\ b.driver = "internal" /\ b.erased = q.d.erased
  /\ f = InternalFlush(b, fault) /\ f.d \in Storage /\ f.ok \in BOOLEAN
  /\ taken \in 0 .. Len(data) /\ rest \in Seq(Cell)
  /\ r = IF ~InPartition(offs, Len(data)) THEN Done(FALSE, d)
         ELSE IF ~q.ok THEN q
         ELSE IF q.d.level = 0 THEN InternalProgram(q.d, offs, data, fault)
         ELSE IF b.level < Page THEN Done(TRUE, b)
         ELSE IF ~f.ok THEN f
         ELSE InternalProgram(f.d, offs + taken, rest, fault)

LEMMA InternalWriteSteps ==
  ASSUME NEW d \in Storage, NEW offs \in Nat, NEW data \in Seq(Cell), NEW fault,
         d.driver = "internal",
         NEW r, r = InternalWrite(d, offs, data, fault)
  PROVE  \E q, b, f, taken, rest : Steps(d, offs, data, fault, r, q, b, f, taken, rest)
<1> DEFINE e == InternalErase(d, offs, Len(data), fault)
           open == e.d.level # 0
           same == offs \in e.d.offs .. e.d.offs + Page - 1
           left == e.d.offs + Page - offs
           taken == IF ~open \/ ~same THEN 0 ELSE IF Len(data) < left THEN Len(data) ELSE left
           c1 == [i \in 0 .. Page - 1 |-> LET u == e.d.offs + i
                                          IN IF u \in offs .. offs + taken - 1 THEN data[u - offs + 1]
                                             ELSE e.d.buf[i]]
           c2 == [i \in 0 .. Page - 1 |-> IF i < e.d.level THEN e.d.buf[i] ELSE Blank]
           b == IF same THEN [e.d EXCEPT !.buf = c1, !.level = @ + taken]
                ELSE [e.d EXCEPT !.buf = c2, !.level = Page]
           f == InternalFlush(b, fault)
           rest == SubSeq(data, taken + 1, Len(data))
<1>1. Len(data) \in Nat
  BY LenProperties
<1>2. e.d \in Storage /\ e.ok \in BOOLEAN
  BY <1>1, InternalEraseTyped
<1>3. Fields(e.d)
  BY <1>2, StorageFields
<1>4. taken \in 0 .. Len(data)
  <2>1. e.d.offs \in Nat /\ Page \in Nat
    BY <1>3, Geometry DEF Fields
  <2>2. same => left \in Nat
    BY <2>1
  <2> QED
    BY <2>1, <2>2, <1>1
<1> HIDE DEF e, taken
<1>5. c1 \in [0 .. Page - 1 -> Cell] /\ c2 \in [0 .. Page - 1 -> Cell]
  <2>1. ASSUME NEW i \in 0 .. Page - 1
        PROVE  c1[i] \in Cell
    <3>1. CASE e.d.offs + i \in offs .. offs + taken - 1
      <4>0. PICK o \in Nat : o = e.d.offs
        BY <1>3 DEF Fields
      <4>4. o + i \in offs .. offs + taken - 1
        BY <3>1, <4>0
      <4>1. o + i - offs + 1 \in 1 .. Len(data)
        <5>1. taken <= Len(data) /\ taken \in Int /\ i \in Int
          BY <1>1, <1>4
        <5> QED
          BY <1>1, <4>4, <5>1
      <4>2. data[o + i - offs + 1] \in Cell
        BY <4>1, ElementOfSeq
      <4>3. c1[i] = data[o + i - offs + 1]
        <5>1. c1[i] = IF o + i \in offs .. offs + taken - 1 THEN data[o + i - offs + 1] ELSE e.d.buf[i]
          BY <4>0
        <5> HIDE DEF c1
        <5> QED
          BY <4>4, <5>1
      <4> QED
        BY <4>2, <4>3
    <3>2. CASE ~(e.d.offs + i \in offs .. offs + taken - 1)
      BY <3>2, <1>3 DEF Fields
    <3> QED
      BY <3>1, <3>2
  <2>2. ASSUME NEW i \in 0 .. Page - 1
        PROVE  c2[i] \in Cell
    BY <1>3 DEF Fields, Cell
  <2> QED
    BY <2>1, <2>2
<1> HIDE DEF c1, c2
<1>6. b \in Storage
  <2>1. e.d.level + taken \in Nat /\ Page \in Nat
    BY <1>3, <1>4, <1>1, Geometry DEF Fields
  <2>2. [e.d EXCEPT !.buf = c1, !.level = @ + taken] \in Storage
    BY <2>1, <1>2, <1>5 DEF Storage
  <2>3. [e.d EXCEPT !.buf = c2, !.level = Page] \in Storage
    BY <2>1, <1>2, <1>5 DEF Storage
  <2> QED
    BY <2>2, <2>3
<1>7. b.driver = "internal" /\ b.erased = e.d.erased
  <2>1. e.d.driver = "internal"
    BY DEF e, InternalErase, Done, ErasedSectors
  <2>2. PICK l : l = e.d.level + taken
    OBVIOUS
  <2>3. /\ [e.d EXCEPT !.buf = c1, !.level = l].driver = e.d.driver
        /\ [e.d EXCEPT !.buf = c1, !.level = l].erased = e.d.erased
        /\ [e.d EXCEPT !.buf = c2, !.level = Page].driver = e.d.driver
        /\ [e.d EXCEPT !.buf = c2, !.level = Page].erased = e.d.erased
    BY <1>2 DEF Storage
  <2>4. b = IF same THEN [e.d EXCEPT !.buf = c1, !.level = l] ELSE [e.d EXCEPT !.buf = c2, !.level = Page]
    BY <2>2, <1>2 DEF Storage
  <2> HIDE DEF b, same
  <2> QED
    BY <2>1, <2>3, <2>4
<1> HIDE DEF b
<1>8. f.d \in Storage /\ f.ok \in BOOLEAN
  <2>1. f = Flush(b, fault)
    BY <1>7 DEF Flush
  <2> QED
    BY <2>1, <1>6, FlushTyped
<1>9. rest \in Seq(Cell)
  <2>1. \A i \in taken + 1 .. Len(data) : data[i] \in Cell
    BY <1>1, <1>4, ElementOfSeq
  <2>2. taken + 1 \in Int /\ Len(data) \in Int
    BY <1>1, <1>4
  <2> QED
    BY <2>1, <2>2, SubSeqProperties
<1> HIDE DEF f, rest
<1>10. r = IF ~InPartition(offs, Len(data)) THEN Done(FALSE, d)
           ELSE IF ~e.ok THEN e
           ELSE IF ~open THEN InternalProgram(e.d, offs, data, fault)
           ELSE IF b.level < Page THEN Done(TRUE, b)
           ELSE IF ~f.ok THEN f
           ELSE InternalProgram(f.d, offs + taken, rest, fault)
  BY DEF InternalWrite, e, taken, b, f, rest, c1, c2
<1>11. r = IF ~InPartition(offs, Len(data)) THEN Done(FALSE, d)
           ELSE IF ~e.ok THEN e
           ELSE IF e.d.level = 0 THEN InternalProgram(e.d, offs, data, fault)
           ELSE IF b.level < Page THEN Done(TRUE, b)
           ELSE IF ~f.ok THEN f
           ELSE InternalProgram(f.d, offs + taken, rest, fault)
  BY <1>10
<1>12. e = InternalErase(d, offs, Len(data), fault) /\ f = InternalFlush(b, fault)
  BY DEF e, f
<1> HIDE DEF open
<1>13. Steps(d, offs, data, fault, r, e, b, f, taken, rest)
  BY <1>2, <1>4, <1>6, <1>7, <1>8, <1>9, <1>11, <1>12, Zenon DEF Steps
<1> QED
  BY <1>13, Zenon

LEMMA InternalWriteTyped ==
  ASSUME NEW d \in Storage, NEW offs \in Nat, NEW data \in Seq(Cell), NEW fault,
         d.driver = "internal",
         NEW r, r = InternalWrite(d, offs, data, fault)
  PROVE  r.d \in Storage /\ r.ok \in BOOLEAN
<1>1. PICK q, b, f, taken, rest : Steps(d, offs, data, fault, r, q, b, f, taken, rest)
  BY InternalWriteSteps
<1>2. PICK s : s = InternalProgram(q.d, offs, data, fault)
  OBVIOUS
<1>3. PICK t : t = InternalProgram(f.d, offs + taken, rest, fault)
  OBVIOUS
<1>4. s.d \in Storage /\ s.ok \in BOOLEAN
  BY <1>1, <1>2, InternalProgramTyped DEF Steps
<1>5. t.d \in Storage /\ t.ok \in BOOLEAN
  <2>1. offs + taken \in Nat
    BY <1>1 DEF Steps
  <2> QED
    BY <2>1, <1>1, <1>3, InternalProgramTyped DEF Steps
<1>6. Done(FALSE, d).d \in Storage /\ Done(FALSE, d).ok \in BOOLEAN /\ Done(TRUE, b).d \in Storage
       /\ Done(TRUE, b).ok \in BOOLEAN
  BY <1>1 DEF Done, Steps
<1> QED
  BY <1>1, <1>2, <1>3, <1>4, <1>5, <1>6, Zenon DEF Steps

LEMMA WriteTyped ==
  ASSUME NEW d \in Storage, NEW offs \in Nat, NEW data \in Seq(Cell), Len(data) > 0, NEW fault
  PROVE  Write(d, offs, data, fault).d \in Storage /\ Write(d, offs, data, fault).ok \in BOOLEAN
<1>1. d.driver \in {"external", "internal"}
  BY DEF Storage
<1>2. CASE d.driver = "external"
  BY <1>2, ExternalWriteTyped DEF Write
<1>3. CASE d.driver = "internal"
  BY <1>3, InternalWriteTyped DEF Write
<1> QED
  BY <1>1, <1>2, <1>3

LEMMA EraseTyped ==
  ASSUME NEW d \in Storage, NEW offs \in Nat, NEW size \in Nat, NEW fault,
         NEW r, r = EraseArea(d, offs, size, fault)
  PROVE  r.d \in Storage /\ r.ok \in BOOLEAN /\ r.next \in Nat
<1>1. ExternalErase(d, offs, size, fault).d \in Storage /\ ExternalErase(d, offs, size, fault).ok \in BOOLEAN
  BY ErasedTyped DEF ExternalErase, Done
<1>2. InternalErase(d, offs, size, fault).d \in Storage /\ InternalErase(d, offs, size, fault).ok \in BOOLEAN
  BY InternalEraseTyped
<1>3. (SectorOf(offs + size) + 1) * Sector \in Nat
  <2>0. offs + size \in Nat
    OBVIOUS
  <2>1. SectorOf(offs + size) \in Nat
    BY <2>0, Geometry, Division DEF SectorOf
  <2> QED
    BY <2>1, Geometry
<1> DEFINE q == IF size <= 0 THEN Done(TRUE, d)
                ELSE IF d.driver = "external" THEN ExternalErase(d, offs, size, fault)
                ELSE InternalErase(d, offs, size, fault)
<1>4. q.d \in Storage /\ q.ok \in BOOLEAN
  BY <1>1, <1>2 DEF Done
<1> HIDE DEF q
<1>5. r = IF offs % Sector # 0 THEN [ok |-> FALSE, d |-> d, next |-> offs]
          ELSE [ok |-> q.ok, d |-> q.d, next |-> (SectorOf(offs + size) + 1) * Sector]
  BY DEF EraseArea, q
<1>6. CASE offs % Sector # 0
  BY <1>5, <1>6
<1>7. CASE ~(offs % Sector # 0)
  <2>1. r = [ok |-> q.ok, d |-> q.d, next |-> (SectorOf(offs + size) + 1) * Sector]
    BY <1>5, <1>7, Zenon
  <2> QED
    BY <2>1, <1>3, <1>4
<1> QED
  BY <1>6, <1>7
-----------------------------------------------------------------------------
(* What OTA_PostWriteToFlash leaves in the transactions.                    *)

(* A page of the text from unit a on.                                       *)
Holds(m, addr, text, a, l) ==
  /\ m \in Op /\ m.kind = "write" /\ m.addr = addr
  /\ Len(m.data) = l /\ \A i \in 1 .. l : m.data[i] = text[a + i]

(* The text is what was begun and the n units of the chunk.                 *)
TextOf(text, n) ==
  /\ text \in Seq(Nat \X Nat) /\ Len(text) = Len(Begun) + n
  /\ \A i \in 1 .. Len(text) : text[i] = IF i <= Len(Begun) THEN Begun[i]
                                         ELSE Unit(image, current + i - Len(Begun) - 1)

(* Up to `end` it goes to `full` pages and, perhaps, one not full.          *)
Cut(text, last, end, full, used) ==
  /\ end \in 0 .. Len(text) /\ full \in Nat /\ used \in full .. full + 1 /\ used <= last
  /\ full * Page <= end /\ (used = full => end = full * Page)
  /\ (used # full => end - full * Page \in 1 .. Page - 1)
  /\ (used = 0 => end = 0 /\ cur = NoNode)

(* The transactions F take the pages.                                       *)
Taken(F, text, end, full, used) ==
  /\ \A j \in 1 .. used :
       Holds(mem'[F[j]],
             IF j = 1 /\ cur # NoNode THEN mem[cur].addr ELSE current - Len(Begun) + (j - 1) * Page,
             text, (j - 1) * Page, IF j <= full THEN Page ELSE end - full * Page)
  /\ \A x \in Node : (\A j \in 1 .. used : F[j] # x) => mem'[x] = mem[x]
  /\ mem' \in [Node -> Op]

PostEffect(n, F, text, end, full, used, k) ==
  /\ Lists(F, free, cur, k) /\ Parted(F, ops)
  /\ TextOf(text, n)
  /\ Cut(text, Len(F), end, full, used)
  /\ Taken(F, text, end, full, used)
  /\ Dealt(F, ops, full, used, free', ops', cur')
  /\ ~spoiled' => ~spoiled /\ end = Len(text)

(* A piece of a text, from the unit after a on.                             *)
LEMMA Piece ==
  ASSUME NEW S, NEW text \in Seq(S), NEW a \in Nat, NEW b \in a + 1 .. Len(text)
  PROVE  /\ SubSeq(text, a + 1, b) \in Seq(S) /\ Len(SubSeq(text, a + 1, b)) = b - a
         /\ \A i \in 1 .. b - a : SubSeq(text, a + 1, b)[i] = text[a + i]
<1>1. \A i \in a + 1 .. b : text[i] \in S
  <2>1. Len(text) \in Nat /\ \A i \in 1 .. Len(text) : text[i] \in S
    BY LenProperties, ElementOfSeq
  <2> QED
    BY <2>1
<1>2. a + 1 \in Int /\ b \in Int /\ b - (a + 1) + 1 = b - a /\ a + 1 <= b
  BY LenProperties
<1>3. PICK t : t = SubSeq(text, a + 1, b)
  OBVIOUS
<1>4. /\ t \in Seq(S) /\ Len(t) = IF a + 1 <= b THEN b - (a + 1) + 1 ELSE 0
      /\ \A i \in 1 .. b - (a + 1) + 1 : t[i] = text[a + 1 + i - 1]
  BY <1>1, <1>2, <1>3, SubSeqProperties
<1>5. ASSUME NEW i \in 1 .. b - a
      PROVE  t[i] = text[a + i]
  <2>1. t[i] = text[a + 1 + i - 1] /\ a + 1 + i - 1 = a + i
    BY <1>2, <1>4
  <2> QED
    BY <2>1
<1> QED
  BY <1>2, <1>3, <1>4, <1>5

LEMMA PieceBounds ==
  ASSUME NEW end \in Nat, NEW full \in Nat, NEW used \in full .. full + 1,
         full * Page <= end, used # full => end - full * Page \in 1 .. Page - 1,
         NEW j \in 1 .. used,
         NEW l, l = IF j <= full THEN Page ELSE end - full * Page,
         NEW b, b = IF j <= full THEN j * Page ELSE end
  PROVE  (j - 1) * Page \in Nat /\ b \in Int /\ b <= end /\ b - (j - 1) * Page = l /\ l \in 1 .. Page
<1>1. (j - 1) * Page \in Nat /\ j * Page = (j - 1) * Page + Page /\ full * Page \in Nat
  BY Geometry
<1>2. CASE j <= full
  <2>1. j * Page <= full * Page
    BY <1>2, Geometry
  <2> QED
    BY <2>1, <1>1, <1>2, Geometry
<1>3. CASE ~(j <= full)
  <2>1. j - 1 = full /\ used # full
    BY <1>3
  <2>2. (j - 1) * Page = full * Page
    BY <2>1
  <2> QED
    BY <2>1, <2>2, <1>1, <1>3, Geometry
<1> QED
  BY <1>2, <1>3

LEMMA BegunFacts ==
  ASSUME IInv, ~broken
  PROVE  /\ Begun \in Seq(Nat \X Nat) /\ Len(Begun) \in 0 .. Page - 1
         /\ (cur # NoNode => Len(Begun) > 0 /\ Begun = mem[cur].data) /\ (cur = NoNode => Len(Begun) = 0)
<1>1. CASE cur = NoNode
  BY <1>1, Geometry DEF Begun
<1>2. CASE cur # NoNode
  <2>1. mem[cur] \in Op /\ Len(mem[cur].data) \in 1 .. Page - 1
    BY <1>2 DEF IInv, TypeOK, PostedInv
  <2>2. Begun = mem[cur].data
    BY <1>2 DEF Begun
  <2> QED
    BY <1>2, <2>1, <2>2, SMTT(30) DEF Op
<1> QED
  BY <1>1, <1>2

LEMMA FillableIs ==
  ASSUME IInv, ~broken, NEW k, k = IF cur = NoNode THEN 0 ELSE 1
  PROVE  /\ Fillable \in Seq(Node) /\ Len(Fillable) = k + Len(free) /\ Len(free) \in Nat
         /\ \A i \in 1 .. Len(Fillable) : Fillable[i] = IF i <= k THEN cur ELSE free[i - k]
<1> DEFINE o == IF cur = NoNode THEN <<>> ELSE <<cur>>
<1>1. cur \in Node \cup {NoNode} /\ free \in Seq(Node)
  BY DEF IInv, TypeOK
<1>2. o \in Seq(Node) /\ Len(o) = k /\ \A i \in 1 .. k : o[i] = cur
  BY <1>1
<1> HIDE DEF o
<1>3. /\ o \o free \in Seq(Node) /\ Len(o \o free) = Len(o) + Len(free)
      /\ \A i \in 1 .. Len(o) + Len(free) : (o \o free)[i] = IF i <= Len(o) THEN o[i] ELSE free[i - Len(o)]
  BY <1>1, <1>2, ConcatProperties
<1>4. PICK F : F = o \o free
  OBVIOUS
<1>5. F = Fillable
  BY <1>4 DEF Fillable, o
<1>6. Len(free) \in Nat
  BY <1>1, LenProperties
<1>7. ASSUME NEW i \in 1 .. Len(F)
      PROVE  F[i] = IF i <= k THEN cur ELSE free[i - k]
  <2>1. F[i] = IF i <= k THEN o[i] ELSE free[i - k]
    BY <1>2, <1>3, <1>4, <1>6
  <2> QED
    BY <2>1, <1>2
<1> QED
  BY <1>2, <1>3, <1>4, <1>5, <1>6, <1>7

LEMMA TextIs ==
  ASSUME IInv, ~broken, NEW n \in Nat
  PROVE  /\ Begun \o Chunk(n) \in Seq(Nat \X Nat) /\ Len(Begun \o Chunk(n)) = Len(Begun) + n
         /\ \A i \in 1 .. Len(Begun) + n :
              (Begun \o Chunk(n))[i] = IF i <= Len(Begun) THEN Begun[i]
                                       ELSE Unit(image, current + i - Len(Begun) - 1)
<1>1. Begun \in Seq(Nat \X Nat) /\ Len(Begun) \in Nat
  BY BegunFacts, Geometry
<1>2. image \in Nat /\ current \in Nat
  BY Geometry, ConfigAssumption DEF IInv, TypeOK
<1>3. PICK ch : ch = Chunk(n)
  OBVIOUS
<1>4. ch \in Seq(Nat \X Nat) /\ Len(ch) = n /\ \A i \in 1 .. n : ch[i] = Unit(image, current + i - 1)
  <2>1. ch = [j \in 1 .. n |-> Unit(image, current + j - 1)]
    BY <1>3 DEF Chunk
  <2>2. \A j \in 1 .. n : Unit(image, current + j - 1) \in Nat \X Nat
    BY <1>2 DEF Unit
  <2> QED
    BY <2>1, <2>2
<1>5. PICK t : t = Begun \o ch
  OBVIOUS
<1>6. /\ t \in Seq(Nat \X Nat) /\ Len(t) = Len(Begun) + Len(ch)
      /\ \A i \in 1 .. Len(Begun) + Len(ch) : t[i] = IF i <= Len(Begun) THEN Begun[i] ELSE ch[i - Len(Begun)]
  BY <1>1, <1>4, <1>5, ConcatProperties
<1>7. ASSUME NEW i \in 1 .. Len(Begun) + n
      PROVE  t[i] = IF i <= Len(Begun) THEN Begun[i] ELSE Unit(image, current + i - Len(Begun) - 1)
  <2>1. t[i] = IF i <= Len(Begun) THEN Begun[i] ELSE ch[i - Len(Begun)]
    BY <1>4, <1>6
  <2>2. CASE i <= Len(Begun)
    BY <2>1, <2>2
  <2>3. CASE ~(i <= Len(Begun))
    <3>1. i - Len(Begun) \in 1 .. n /\ current + (i - Len(Begun)) - 1 = current + i - Len(Begun) - 1
      BY <2>3, <1>1, <1>2
    <3>2. ch[i - Len(Begun)] = Unit(image, current + (i - Len(Begun)) - 1)
      BY <3>1, <1>4
    <3> QED
      BY <2>1, <2>3, <3>1, <3>2
  <2> QED
    BY <2>2, <2>3
<1> QED
  BY <1>3, <1>4, <1>5, <1>6, <1>7

(* Pages needed for the part of a text that fits `last` transactions.       *)
LEMMA PostNumbers ==
  ASSUME NEW size \in Nat, NEW last \in Nat,
         NEW end, end = IF size <= Page * last THEN size ELSE Page * last,
         NEW full, full = end \div Page,
         NEW used, used = (end + Page - 1) \div Page
  PROVE  /\ end \in 0 .. size /\ full \in Nat /\ used \in full .. full + 1 /\ used <= last
         /\ full * Page <= end /\ (used = full => end = full * Page)
         /\ (used # full => end - full * Page \in 1 .. Page - 1)
         /\ (used = 0 => end = 0)
<1>1. Page * last \in Nat /\ Page * last = last * Page
  BY Geometry
<1>2. end \in Nat /\ end <= size /\ end <= last * Page
  BY <1>1
<1>3. full \in Nat /\ full * Page \in Nat /\ full * Page <= end /\ end < full * Page + Page
  <2>1. full \in Nat /\ full * Page <= end /\ end < full * Page + Page
    BY <1>2, Geometry, Division
  <2> QED
    BY <2>1, Geometry
<1>4. used \in Nat /\ used * Page \in Nat /\ used * Page <= end + Page - 1 /\ end + Page - 1 < used * Page + Page
  <2>1. end + Page - 1 \in Nat
    BY <1>2, Geometry
  <2>2. used \in Nat /\ used * Page <= end + Page - 1 /\ end + Page - 1 < used * Page + Page
    BY <2>1, Geometry, Division
  <2> QED
    BY <2>2, Geometry
<1>5. ASSUME NEW a \in Nat, NEW b \in Nat, a * Page < b * Page + Page
      PROVE  a <= b
  BY <1>5, Geometry
<1>6. used <= last
  <2>1. used * Page < last * Page + Page
    BY <1>1, <1>2, <1>4, Geometry
  <2> QED
    BY <2>1, <1>4, <1>5
<1>7. full <= used /\ used <= full + 1
  <2>1. full * Page < used * Page + Page
    BY <1>3, <1>4, Geometry
  <2>2. (full + 1) * Page = full * Page + Page
    BY <1>3, Geometry
  <2>3. used * Page < (full + 1) * Page + Page
    BY <2>2, <1>2, <1>3, <1>4, Geometry
  <2> QED
    BY <2>1, <2>3, <1>3, <1>4, <1>5
<1>8. used = full => end = full * Page
  BY <1>2, <1>3, <1>4, Geometry
<1>9. used # full => end - full * Page \in 1 .. Page - 1
  <2>1. ASSUME used = full + 1
        PROVE  end > full * Page
    <3>1. used * Page = full * Page + Page
      BY <2>1, <1>3, Geometry
    <3> QED
      BY <3>1, <1>2, <1>3, <1>4, Geometry
  <2> QED
    BY <2>1, <1>2, <1>3, <1>4, <1>7, Geometry
<1>10. used = 0 => end = 0
  BY <1>2, <1>4, Geometry
<1> QED
  BY <1>2, <1>3, <1>4, <1>6, <1>7, <1>8, <1>9, <1>10

(* OTA_PostWriteToFlash has this effect.                                    *)
LEMMA PostHas ==
  ASSUME IInv, ~broken, call = "ready", NEW n \in Nat \ {0}, Post(n)
  PROVE  \E F, text, end, full, used, k : PostEffect(n, F, text, end, full, used, k)
<1> DEFINE F == Fillable
           text == Begun \o Chunk(n)
           end  == IF Len(text) <= Page * Len(F) THEN Len(text) ELSE Page * Len(F)
           full == end \div Page
           used == (end + Page - 1) \div Page
           Begin(j)   == IF j = 1 /\ cur # NoNode THEN mem[cur]
                         ELSE [NoOp EXCEPT !.kind = "write", !.addr = current - Len(Begun) + (j - 1) * Page]
           Filling(j) == [Begin(j) EXCEPT !.data = SubSeq(text, (j - 1) * Page + 1,
                                                          IF j <= full THEN j * Page ELSE end)]
<1>0. PICK k \in Nat : k = IF cur = NoNode THEN 0 ELSE 1
  OBVIOUS
<1>6. /\ mem' = [x \in Node |-> IF \E j \in 1 .. used : F[j] = x
                               THEN Filling(CHOOSE j \in 1 .. used : F[j] = x) ELSE mem[x]]
      /\ ops' = ops \o SubSeq(F, 1, full)
      /\ cur' = IF used = full THEN NoNode ELSE F[used]
      /\ free' = SubSeq(F, used + 1, Len(F))
      /\ spoiled' = (spoiled \/ ~(Len(text) <= Page * Len(F)))
  BY Zenon DEF Post
<1>1. F = Fillable
  OBVIOUS
<1>2. text = Begun \o Chunk(n)
  OBVIOUS
<1>3. end = IF Len(text) <= Page * Len(F) THEN Len(text) ELSE Page * Len(F)
  OBVIOUS
<1>4. full = end \div Page
  OBVIOUS
<1>5. used = (end + Page - 1) \div Page
  OBVIOUS
<1> HIDE DEF F, text, end, full, used
<1>7. /\ mem \in [Node -> Op] /\ ops \in Seq(Node) /\ free \in Seq(Node) /\ cur \in Node \cup {NoNode}
      /\ current \in Nat /\ Places(free, ops, cur) /\ spoiled \in BOOLEAN /\ image \in Nat
  BY Geometry, ConfigAssumption DEF IInv, TypeOK, PoolInv
<1>8. /\ F \in Seq(Node) /\ Len(F) = k + Len(free) /\ Len(free) \in Nat
      /\ \A i \in 1 .. Len(F) : F[i] = IF i <= k THEN cur ELSE free[i - k]
  BY <1>0, <1>1, FillableIs
<1>9. /\ Lists(F, free, cur, k) /\ Parted(F, ops)
      /\ \A i, j \in 1 .. Len(F) : F[i] = F[j] => i = j
  <2>1. Lists(F, free, cur, k)
    BY <1>0, <1>8 DEF Lists
  <2>2. PICK f : f = free
    OBVIOUS
  <2>3. PICK o : o = ops
    OBVIOUS
  <2>4. PICK c : c = cur
    OBVIOUS
  <2>5. f \in Seq(Node) /\ o \in Seq(Node) /\ c \in Node \cup {NoNode} /\ Places(f, o, c) /\ Lists(F, f, c, k)
    BY <2>1, <2>2, <2>3, <2>4, <1>7, Zenon
  <2>6. Parted(F, o)
    BY <2>5, FillableFacts, Zenon
  <2> QED
    BY <2>1, <2>3, <2>6 DEF Parted
<1>10. cur # NoNode => Len(F) > 0 /\ F[1] = cur
  BY <1>0, <1>8
<1>11. /\ text \in Seq(Nat \X Nat) /\ Len(text) = Len(Begun) + n
       /\ \A i \in 1 .. Len(text) : text[i] = IF i <= Len(Begun) THEN Begun[i]
                                              ELSE Unit(image, current + i - Len(Begun) - 1)
  <2>1. n \in Nat
    OBVIOUS
  <2> QED
    BY <2>1, <1>2, TextIs
<1>12. /\ end \in 0 .. Len(text) /\ full \in Nat /\ used \in full .. full + 1 /\ used <= Len(F)
       /\ full * Page <= end /\ (used = full => end = full * Page)
       /\ (used # full => end - full * Page \in 1 .. Page - 1)
       /\ (used = 0 => end = 0)
  <2>1. Len(text) \in Nat /\ Len(F) \in Nat
    BY <1>8, <1>11, LenProperties
  <2> QED
    BY <2>1, <1>3, <1>4, <1>5, PostNumbers
<1>13. used = 0 => cur = NoNode
  <2> SUFFICES ASSUME used = 0, cur # NoNode
               PROVE  FALSE
    OBVIOUS
  <2>1. Len(text) > 0 /\ Len(F) > 0 /\ Len(F) \in Nat
    BY <1>0, <1>8, <1>10, <1>11, BegunFacts, Geometry
  <2>2. Page * Len(F) > 0
    BY <2>1, Geometry
  <2> QED
    BY <2>1, <2>2, <1>3, <1>12
<1>14. Len(Begun) \in 0 .. Page - 1
  BY BegunFacts
<1>15. ASSUME NEW j \in 1 .. used, NEW l, l = IF j <= full THEN Page ELSE end - full * Page,
              NEW m, m = Filling(j)
       PROVE  /\ m.kind = "write"
              /\ m.addr = IF j = 1 /\ cur # NoNode THEN mem[cur].addr
                          ELSE current - Len(Begun) + (j - 1) * Page
              /\ m \in Op /\ Len(m.data) = l /\ l \in 1 .. Page
              /\ \A i \in 1 .. l : m.data[i] = text[(j - 1) * Page + i]
  <2>1. PICK a : a = (j - 1) * Page
    OBVIOUS
  <2>2. PICK b : b = IF j <= full THEN j * Page ELSE end
    OBVIOUS
  <2>3. a \in Nat /\ b \in Int /\ b <= end /\ b - a = l /\ l \in 1 .. Page
    BY <2>1, <2>2, <1>12, <1>15, PieceBounds
  <2>4. b \in a + 1 .. Len(text)
    BY <2>3, <1>12, <1>11, LenProperties
  <2>5. PICK s : s = SubSeq(text, a + 1, b)
    OBVIOUS
  <2>6. s \in Seq(Nat \X Nat) /\ Len(s) = b - a /\ \A i \in 1 .. b - a : s[i] = text[a + i]
    <3>1. PICK x : x = text
      OBVIOUS
    <3>2. PICK T : T = Nat \X Nat
      OBVIOUS
    <3>3. a \in Nat /\ b \in a + 1 .. Len(x) /\ x \in Seq(T)
      BY <2>3, <2>4, <1>11, <3>1, <3>2
    <3>4. /\ SubSeq(x, a + 1, b) \in Seq(T) /\ Len(SubSeq(x, a + 1, b)) = b - a
          /\ \A i \in 1 .. b - a : SubSeq(x, a + 1, b)[i] = x[a + i]
      BY <3>3, Piece
    <3> HIDE DEF text
    <3> QED
      BY <2>5, <3>1, <3>2, <3>4
  <2>7. PICK g : g = Begin(j)
    OBVIOUS
  <2>8. g \in Op /\ g.kind = "write" /\ g.addr = IF j = 1 /\ cur # NoNode THEN mem[cur].addr
                                                 ELSE current - Len(Begun) + a
    <3>1. CASE j = 1 /\ cur # NoNode
      <4>1. mem[cur] \in Op /\ mem[cur].kind = "write"
        BY <3>1, <1>7 DEF IInv, PostedInv
      <4> QED
        BY <3>1, <4>1, <2>7
    <3>2. CASE ~(j = 1 /\ cur # NoNode)
      <4>1. current - Len(Begun) + a \in Nat
        <5>1. CASE cur = NoNode
          <6>1. Len(Begun) = 0
            BY <5>1, BegunFacts
          <6> QED
            BY <6>1, <1>7, <2>3
        <5>2. CASE j > 1
          <6>1. a >= Page
            BY <5>2, <2>1, <1>12, Geometry
          <6> QED
            BY <6>1, <1>7, <1>14, <2>3, Geometry
        <5> QED
          BY <5>1, <5>2, <3>2, <1>12
      <4>2. g = [NoOp EXCEPT !.kind = "write", !.addr = current - Len(Begun) + a]
        BY <3>2, <2>1, <2>7
      <4>3. NoOp \in Op
        BY DEF NoOp, Op
      <4> QED
        BY <3>2, <4>1, <4>2, <4>3 DEF Op
    <3> QED
      BY <3>1, <3>2
  <2>9. m = [g EXCEPT !.data = s]
    BY <2>1, <2>2, <2>5, <2>7, <1>15
  <2>10. m \in Op /\ m.kind = g.kind /\ m.addr = g.addr /\ m.data = s
    BY <2>6, <2>8, <2>9 DEF Op
  <2> QED
    BY <2>1, <2>3, <2>6, <2>8, <2>10
<1>16. ASSUME NEW j \in 1 .. used
       PROVE  F[j] \in Node /\ mem'[F[j]] = Filling(j)
  <2>1. j \in 1 .. Len(F)
    BY <1>8, <1>12
  <2>2. F[j] \in Node
    BY <2>1, <1>8, ElementOfSeq
  <2>3. (CHOOSE i \in 1 .. used : F[i] = F[j]) = j
    <3>1. ASSUME NEW i \in 1 .. used, F[i] = F[j]
          PROVE  i = j
      <4>1. i \in 1 .. Len(F)
        BY <1>8, <1>12
      <4> QED
        BY <4>1, <2>1, <3>1, <1>9
    <3> QED
      BY <3>1
  <2>4. mem'[F[j]] = Filling(CHOOSE i \in 1 .. used : F[i] = F[j])
    <3> HIDE DEF Filling
    <3> QED
      BY <2>2, <1>6
  <2> QED
    BY <2>2, <2>3, <2>4
<1> HIDE DEF Filling, Begin
<1>17. ASSUME NEW x \in Node, \A j \in 1 .. used : F[j] # x
       PROVE  mem'[x] = mem[x]
  BY <1>6, <1>17
<1>18. mem' \in [Node -> Op]
  <2>1. DOMAIN mem' = Node /\ mem' = [x \in Node |-> mem'[x]]
    BY <1>6
  <2>2. ASSUME NEW x \in Node
        PROVE  mem'[x] \in Op
    <3>1. CASE \A j \in 1 .. used : F[j] # x
      BY <3>1, <1>17, <1>7
    <3>2. CASE \E j \in 1 .. used : F[j] = x
      <4>1. PICK j \in 1 .. used : F[j] = x
        BY <3>2
      <4> QED
        BY <4>1, <1>15, <1>16
    <3> QED
      BY <3>1, <3>2
  <2> QED
    BY <2>1, <2>2
<1>19. /\ ops' \in Seq(Node) /\ Len(ops') = Len(ops) + full
       /\ \A i \in 1 .. Len(ops') : ops'[i] = IF i <= Len(ops) THEN ops[i] ELSE F[i - Len(ops)]
  <2>1. PICK t : t = SubSeq(F, 1, full)
    OBVIOUS
  <2>2. \A i \in 1 .. full : F[i] \in Node /\ i \in 1 .. Len(F)
    BY <1>8, <1>12, ElementOfSeq
  <2>3. t \in Seq(Node) /\ Len(t) = (IF 1 <= full THEN full - 1 + 1 ELSE 0)
        /\ \A i \in 1 .. full - 1 + 1 : t[i] = F[1 + i - 1]
    BY <2>1, <2>2, <1>12, SubSeqProperties
  <2>4. Len(t) = full /\ \A i \in 1 .. full : t[i] = F[i]
    BY <2>3, <1>12
  <2>5. /\ ops \o t \in Seq(Node) /\ Len(ops \o t) = Len(ops) + Len(t)
        /\ \A i \in 1 .. Len(ops) + Len(t) : (ops \o t)[i] = IF i <= Len(ops) THEN ops[i] ELSE t[i - Len(ops)]
    BY <2>3, <1>7, ConcatProperties, ZenonT(60)
  <2>6. PICK o : o = ops \o t
    OBVIOUS
  <2>7. ops' = o
    BY <2>1, <2>6, <1>6
  <2>8. Len(ops) \in Nat
    BY <1>7, LenProperties
  <2>9. ASSUME NEW i \in 1 .. Len(ops) + full
        PROVE  o[i] = IF i <= Len(ops) THEN ops[i] ELSE F[i - Len(ops)]
    <3>1. o[i] = IF i <= Len(ops) THEN ops[i] ELSE t[i - Len(ops)]
      BY <2>4, <2>5, <2>6
    <3>2. CASE ~(i <= Len(ops))
      <4>1. i - Len(ops) \in 1 .. full
        BY <3>2, <2>8, <1>12
      <4> QED
        BY <4>1, <3>1, <3>2, <2>4
    <3> QED
      BY <3>1, <3>2
  <2> QED
    BY <2>4, <2>5, <2>6, <2>7, <2>9
<1>20. /\ free' \in Seq(Node) /\ Len(free') = Len(F) - used
       /\ \A i \in 1 .. Len(free') : free'[i] = F[used + i]
  <2>1. PICK t : t = SubSeq(F, used + 1, Len(F))
    OBVIOUS
  <2>2. Len(F) \in Nat /\ \A i \in used + 1 .. Len(F) : F[i] \in Node
    BY <1>8, <1>12, ElementOfSeq, LenProperties
  <2>3. t \in Seq(Node) /\ Len(t) = (IF used + 1 <= Len(F) THEN Len(F) - (used + 1) + 1 ELSE 0)
        /\ \A i \in 1 .. Len(F) - (used + 1) + 1 : t[i] = F[used + 1 + i - 1]
    <3>1. used + 1 \in Int /\ Len(F) \in Int
      BY <2>2, <1>12
    <3> QED
      BY <3>1, <2>1, <2>2, SubSeqProperties
  <2>4. Len(t) = Len(F) - used
    BY <2>2, <2>3, <1>12
  <2>5. ASSUME NEW i \in 1 .. Len(t)
        PROVE  t[i] = F[used + i]
    <3>1. t[i] = F[used + 1 + i - 1] /\ used + 1 + i - 1 = used + i
      BY <2>2, <2>3, <2>4, <1>12
    <3> QED
      BY <3>1
  <2>6. free' = t
    BY <2>1, <1>6
  <2> QED
    BY <2>3, <2>4, <2>5, <2>6
<1>21. Dealt(F, ops, full, used, free', ops', cur')
  BY <1>6, <1>12, <1>19, <1>20, Zenon DEF Dealt
<1>22. ~spoiled' => ~spoiled /\ end = Len(text)
  BY <1>3, <1>6, <1>7
<1>23. Taken(F, text, end, full, used)
  <2>1. ASSUME NEW j \in 1 .. used
        PROVE  Holds(mem'[F[j]],
                     IF j = 1 /\ cur # NoNode THEN mem[cur].addr ELSE current - Len(Begun) + (j - 1) * Page,
                     text, (j - 1) * Page, IF j <= full THEN Page ELSE end - full * Page)
    <3>1. PICK l : l = IF j <= full THEN Page ELSE end - full * Page
      OBVIOUS
    <3>2. PICK m : m = mem'[F[j]]
      OBVIOUS
    <3>3. PICK addr : addr = IF j = 1 /\ cur # NoNode THEN mem[cur].addr
                             ELSE current - Len(Begun) + (j - 1) * Page
      OBVIOUS
    <3>4. m = Filling(j)
      BY <3>2, <1>16
    <3>5. /\ m.kind = "write" /\ m.addr = addr
          /\ m \in Op /\ Len(m.data) = l
          /\ \A i \in 1 .. l : m.data[i] = text[(j - 1) * Page + i]
      BY <3>1, <3>3, <3>4, <1>15
    <3>6. Holds(m, addr, text, (j - 1) * Page, l)
      BY <3>5 DEF Holds
    <3> QED
      BY <3>1, <3>2, <3>3, <3>6, Zenon
  <2> QED
    BY <2>1, <1>17, <1>18, Zenon DEF Taken
<1>24. TextOf(text, n)
  BY <1>11, Zenon DEF TextOf
<1>25. Cut(text, Len(F), end, full, used)
  BY <1>12, <1>13, Zenon DEF Cut
<1> QED
  BY <1>9, <1>21, <1>22, <1>23, <1>24, <1>25, Zenon DEF PostEffect
-----------------------------------------------------------------------------
(* Each step keeps the invariant.                                          *)
LEMMA CancelEffect ==
  ASSUME IInv, ~broken, NEW to, Cancel(to)
  PROVE  /\ state' = to /\ ops' = <<>> /\ cur' = NoNode
         /\ free' \in Seq(Node) /\ Places(free', <<>>, NoNode)
         /\ mem' \in [Node -> Op] /\ \A n \in Node : Len(mem'[n].data) <= Page
         /\ {total', current'} \subseteq 0 .. Size /\ {written', erased'} \subseteq Nat
         /\ current' + len <= Size
<1> USE DEF IInv, TypeOK, PoolInv, PostedInv, LengthInv, Pushed
<1>1. Places(free, ops, cur) /\ free \in Seq(Node) /\ ops \in Seq(Node) /\ cur \in Node \cup {NoNode}
  OBVIOUS
<1>2. CASE state = "permanent" \/ ~mode.queued
  <2>1. ops = <<>> /\ cur = NoNode
    BY <1>2
  <2>2. UNCHANGED queueVars
    BY <1>2 DEF Cancel
  <2>3. /\ state' = to /\ {total', current'} \subseteq 0 .. Size /\ {written', erased'} \subseteq Nat
        /\ current' + len <= Size
    BY Geometry, SMTT(30) DEF Cancel
  <2>4. Places(free, <<>>, NoNode)
    BY <2>1, <1>1
  <2> QED
    BY <2>1, <2>2, <2>3, <2>4 DEF queueVars
<1>3. CASE state # "permanent" /\ mode.queued
  <2>1. Purge /\ state' = to /\ total' = 0 /\ current' = 0 /\ written' = 0 /\ erased' = 0
    BY <1>3 DEF Cancel
  <2>2. PICK c : c = cur
    OBVIOUS
  <2>3. PICK o : o = ops
    OBVIOUS
  <2>4. PICK f : f = free
    OBVIOUS
  <2>5. f \o (o \o Opened(c)) \in Seq(Node) /\ Places(f \o (o \o Opened(c)), <<>>, NoNode)
    BY <1>1, <2>2, <2>3, <2>4, Purged
  <2>6. free' = f \o (o \o Opened(c)) /\ ops' = <<>> /\ cur' = NoNode
    BY <2>1, <2>2, <2>3, <2>4 DEF Purge, Freed, Opened
  <2>7. mem' \in [Node -> Op] /\ \A n \in Node : Len(mem'[n].data) <= Page
    <3>1. NoOp \in Op /\ Len(NoOp.data) <= Page
      BY Geometry DEF NoOp, Op
    <3>2. mem' = [n \in Node |-> IF n \in ToSet(Freed) THEN NoOp ELSE mem[n]]
      BY <2>1 DEF Purge
    <3> QED
      BY <3>1, <3>2
  <2>8. {total', current'} \subseteq 0 .. Size /\ {written', erased'} \subseteq Nat /\ current' + len <= Size
    BY <2>1, Geometry
  <2> QED
    BY <2>1, <2>5, <2>6, <2>7, <2>8
<1> QED
  BY <1>2, <1>3

(* One lemma for each action follows.                                       *)
LEMMA CancelImageKeeps ==
  ASSUME IInv, ~broken, CancelImage
  PROVE  IInv'
<1>1. Cancel("permanent") /\ call = "ready" /\ broken' = CutShort
      /\ UNCHANGED <<mode, dev, workVars, callVars, image, request, faults, spoiled>>
  BY DEF CancelImage
<1>2. /\ state' = "permanent" /\ ops' = <<>> /\ cur' = NoNode
      /\ free' \in Seq(Node) /\ Places(free', <<>>, NoNode)
      /\ mem' \in [Node -> Op] /\ \A n \in Node : Len(mem'[n].data) <= Page
      /\ {total', current'} \subseteq 0 .. Size /\ {written', erased'} \subseteq Nat
      /\ current' + len <= Size
  BY <1>1, CancelEffect
<1>3. TypeOK'
  BY <1>1, <1>2 DEF IInv, TypeOK, workVars, callVars, CutShort
<1>4. PoolInv'
  BY <1>2 DEF PoolInv
<1>5. HeadTreated'
  <2>1. phase = "finish" => doing # NoNode /\ mode.queued /\ state = "acquiring"
    BY NodeFacts DEF IInv, TypeOK, HeadTreated, PostedInv
  <2> QED
    BY <2>1, <1>1 DEF IInv, HeadTreated, CutShort, workVars
<1>6. PostedInv'
  BY <1>1, <1>2 DEF PostedInv, callVars
<1>7. LengthInv'
  BY <1>1, <1>2 DEF IInv, LengthInv, Pushed, callVars
<1> QED
  BY <1>3, <1>4, <1>5, <1>6, <1>7 DEF IInv
LEMMA NewTyped ==
  ASSUME NEW driver \in {"external", "internal"}, NEW content \in [Units -> Cell]
  PROVE  NewStorage(driver, content) \in Storage
<1>1. BlankBuffer \in [0 .. Page - 1 -> Cell]
  BY DEF BlankBuffer, Cell
<1> QED
  BY <1>1 DEF NewStorage, Storage

LEMMA SelectKeeps ==
  ASSUME IInv, ~broken, Select
  PROVE  IInv'
<1>1. /\ call = "ready" /\ state # "acquiring" /\ erased' = 0
      /\ dev' = (IF mode.driver = "internal" THEN NewStorage("internal", dev.flash) ELSE dev)
      /\ UNCHANGED <<mode, state, total, current, written, queueVars, workVars, callVars,
                     image, request, faults, spoiled, broken>>
  BY DEF Select
<1>2. dev' \in Storage
  <2>1. dev \in Storage /\ dev.flash \in [Units -> Cell]
    BY DEF IInv, TypeOK, Storage
  <2>2. NewStorage("internal", dev.flash) \in Storage
    BY <2>1, NewTyped
  <2> QED
    BY <1>1, <2>1, <2>2
<1>3. TypeOK'
  BY <1>1, <1>2 DEF IInv, TypeOK, queueVars, workVars, callVars
<1> QED
  BY <1>1, <1>3 DEF IInv, PoolInv, HeadTreated, PostedInv, LengthInv, Pushed, queueVars, workVars, callVars

LEMMA StartImageKeeps ==
  ASSUME IInv, ~broken, NEW n \in Lengths, StartImage(n)
  PROVE  IInv'
<1>1. /\ call = "ready" /\ state = "permanent" /\ image < MaxImages
      /\ state' = "acquiring" /\ total' = n /\ current' = 0 /\ written' = 0
      /\ image' = image + 1 /\ spoiled' = FALSE
      /\ UNCHANGED <<mode, erased, dev, queueVars, workVars, callVars, request, faults, broken>>
  BY DEF StartImage
<1>2. n \in 1 .. Size /\ Size \in Nat /\ MaxImages \in Nat
  BY ConfigAssumption, Geometry
<1>3. TypeOK'
  <2>1. image \in 0 .. MaxImages /\ request \in 0 .. image /\ len \in 0 .. Size
    BY DEF IInv, TypeOK
  <2>2. image' \in 0 .. MaxImages /\ request' \in 0 .. image' /\ len' \in 0 .. Size
    BY <1>1, <1>2, <2>1 DEF callVars
  <2>3. total' \in 0 .. Size /\ current' \in 0 .. Size /\ written' \in Nat
    BY <1>1, <1>2
  <2> QED
    BY <1>1, <2>2, <2>3 DEF IInv, TypeOK, queueVars, workVars, callVars
<1>4. ops = <<>> /\ cur = NoNode /\ len = 0
  BY <1>1 DEF IInv, PostedInv, LengthInv
<1>5. PostedInv'
  BY <1>1, <1>4 DEF PostedInv, queueVars, callVars
<1>6. LengthInv'
  BY <1>1, <1>2, <1>4 DEF IInv, TypeOK, LengthInv, Pushed, callVars
<1> QED
  BY <1>1, <1>3, <1>5, <1>6 DEF IInv, PoolInv, HeadTreated, queueVars, workVars

LEMMA CallEndsKeeps ==
  ASSUME IInv, ~broken, CallEnds
  PROVE  IInv'
<1>1. /\ call = "end" /\ current' = current + len /\ call' = "ready" /\ len' = 0
      /\ UNCHANGED <<mode, state, total, written, erased, dev, queueVars, workVars,
                     image, request, faults, spoiled, broken>>
  BY DEF CallEnds
<1>2. current \in Nat /\ len \in Nat /\ current + len <= Size /\ Size \in Nat
  BY Geometry DEF IInv, TypeOK, LengthInv, Pushed
<1>3. TypeOK'
  <2>1. {total', current', len'} \subseteq 0 .. Size
    BY <1>1, <1>2 DEF IInv, TypeOK
  <2> QED
    BY <1>1, <2>1 DEF IInv, TypeOK, queueVars, workVars
<1>4. LengthInv'
  BY <1>1, <1>2 DEF IInv, LengthInv, Pushed
<1> QED
  BY <1>1, <1>3, <1>4 DEF IInv, PoolInv, HeadTreated, PostedInv, queueVars, workVars

LEMMA ResumeKeeps ==
  ASSUME IInv, ~broken, NEW who \in {"app", "idle"}, Resume(who)
  PROVE  IInv'
<1>1. /\ worker' = who /\ count' = 0
      /\ UNCHANGED <<Others, imageVars, dev, queueVars, phase, doing, callVars, faults, spoiled, broken>>
  BY DEF Resume
<1>2. TypeOK'
  BY <1>1, ConfigAssumption, SMTT(30) DEF IInv, TypeOK, Others, imageVars, queueVars, callVars
<1> QED
  BY <1>1, <1>2 DEF IInv, PoolInv, HeadTreated, PostedInv, LengthInv, Pushed, Others, imageVars, queueVars, callVars

LEMMA ReleaseKeeps ==
  ASSUME IInv, ~broken, Release
  PROVE  IInv'
<1>1. /\ worker' = "none" /\ count' = 0
      /\ call' = (IF worker = "app" /\ call = "resume" THEN "end" ELSE call)
      /\ UNCHANGED <<Others, imageVars, dev, queueVars, phase, doing, len, faults, spoiled, broken>>
  BY DEF Release
<1>2. TypeOK'
  BY <1>1, ConfigAssumption, SMTT(30) DEF IInv, TypeOK, Others, imageVars, queueVars
<1>3. PostedInv' /\ LengthInv'
  BY <1>1 DEF IInv, PostedInv, LengthInv, Pushed, Others, imageVars, queueVars
<1> QED
  BY <1>1, <1>2, <1>3 DEF IInv, PoolInv, HeadTreated, Others, imageVars, queueVars

LEMMA CommitDrainedKeeps ==
  ASSUME IInv, ~broken, CommitDrained
  PROVE  IInv'
<1>1. /\ call = "commit" /\ (mode.queued => ops = <<>>) /\ written' = current
      /\ \/ state = "acquiring" /\ call' = "notify" /\ request' = 0 /\ UNCHANGED state
         \/ state # "acquiring" /\ call' = "ready" /\ state' = "fail" /\ UNCHANGED request
      /\ UNCHANGED <<mode, total, current, erased, dev, queueVars, workVars, len, image,
                     faults, spoiled, broken>>
  BY DEF CommitDrained
<1>2. TypeOK'
  BY <1>1, Geometry, SMTT(30) DEF IInv, TypeOK, queueVars, workVars
<1>3. PostedInv'
  BY <1>1 DEF IInv, PostedInv, queueVars
<1>4. LengthInv'
  BY <1>1 DEF IInv, LengthInv, Pushed
<1> QED
  BY <1>1, <1>2, <1>3, <1>4 DEF IInv, PoolInv, HeadTreated, queueVars, workVars

LEMMA NotifyKeeps ==
  ASSUME IInv, ~broken, Notify
  PROVE  IInv'
<1>1. /\ call = "notify" /\ call' = "ready" /\ state' \in {"ready", "fail"}
      /\ request' \in {image, request} /\ faults' \in 0 .. MaxFaults
      /\ UNCHANGED <<mode, total, current, written, erased, dev, queueVars, workVars, len,
                     image, spoiled, broken>>
  BY ConfigAssumption, SMTT(30) DEF Notify, IInv, TypeOK
<1>2. TypeOK'
  BY <1>1, ConfigAssumption, SMTT(30) DEF IInv, TypeOK, queueVars, workVars
<1>3. PostedInv'
  BY <1>1 DEF IInv, PostedInv, queueVars
<1>4. LengthInv'
  BY <1>1 DEF IInv, LengthInv, Pushed
<1> QED
  BY <1>1, <1>2, <1>3, <1>4 DEF IInv, PoolInv, HeadTreated, queueVars, workVars

LEMMA ResetKeeps ==
  ASSUME IInv, ~broken, Reset
  PROVE  IInv'
<1>1. /\ faults < MaxFaults /\ faults' = faults + 1 /\ request' = 0
      /\ state' = "permanent" /\ total' = 0 /\ current' = 0 /\ written' = 0 /\ erased' = 0
      /\ dev' = NewStorage(mode.driver, dev.flash)
      /\ mem' = [n \in Node |-> NoOp] /\ ops' = <<>> /\ cur' = NoNode
      /\ free' = [n \in Node |-> n]
      /\ worker' = "none" /\ phase' = "take" /\ doing' = NoNode /\ count' = 0
      /\ call' = "ready" /\ len' = 0 /\ spoiled' = FALSE
      /\ UNCHANGED <<mode, image, broken>>
  BY DEF Reset
<1>2. dev' \in Storage
  <2>1. dev.flash \in [Units -> Cell] /\ mode.driver \in {"external", "internal"}
    BY ConfigAssumption DEF IInv, TypeOK, Storage
  <2> QED
    BY <1>1, <2>1, NewTyped
<1>3. NoOp \in Op /\ Len(NoOp.data) <= Page
  BY Geometry DEF NoOp, Op
<1>4. free' \in Seq(Node) /\ Places(free', <<>>, NoNode)
  <2>1. PICK f : f = [n \in Node |-> n]
    OBVIOUS
  <2> QED
    BY <1>1, <2>1, AllFree
<1>5. TypeOK'
  <2>1. /\ {total', current', len'} \subseteq 0 .. Size /\ {written', erased'} \subseteq Nat
        /\ count' \in 0 .. MaxConsecutive /\ faults' \in 0 .. MaxFaults
        /\ request' \in 0 .. image' /\ image' \in 0 .. MaxImages
    BY <1>1, Geometry, ConfigAssumption, SMTT(30) DEF IInv, TypeOK
  <2>2. ops' \in Seq(Node)
    BY <1>1
  <2>3. mem' \in [Node -> Op] /\ \A n \in Node : Len(mem'[n].data) <= Page
    BY <1>1, <1>3
  <2> QED
    BY <1>1, <1>2, <1>4, <2>1, <2>2, <2>3 DEF IInv, TypeOK
<1>6. PoolInv'
  BY <1>1, <1>4 DEF PoolInv
<1> QED
  BY <1>1, <1>5, <1>6, Geometry DEF IInv, HeadTreated, PostedInv, LengthInv, Pushed

(* A fault is reckoned with, up to the bound.                               *)
LEMMA CountedTyped ==
  ASSUME IInv, NEW fault, Fault(fault), Counted(fault)
  PROVE  faults' \in 0 .. MaxFaults
BY ConfigAssumption, SMTT(30) DEF IInv, TypeOK, Fault, Counted

LEMMA CommitKeeps ==
  ASSUME IInv, ~broken, NEW fault \in Faults, Commit(fault)
  PROVE  IInv'
<1>1. /\ call = "ready" /\ state = "acquiring" /\ Fault(fault) /\ Counted(fault)
      /\ call' = "commit" /\ spoiled' \in BOOLEAN
      /\ UNCHANGED <<mode, imageVars, mem, free, workVars, len, image, request, broken>>
  BY DEF Commit
<1>2. faults' \in 0 .. MaxFaults
  BY <1>1, CountedTyped
<1>3. LengthInv'
  BY <1>1 DEF IInv, LengthInv, Pushed, imageVars
<1>4. CASE ~mode.queued
  <2>1. dev' = Flush(dev, fault).d /\ ops' = ops /\ cur' = cur
    BY <1>4 DEF Commit
  <2>2. dev' \in Storage
    <3>1. dev \in Storage
      BY DEF IInv, TypeOK
    <3> QED
      BY <2>1, <3>1, FlushTyped
  <2>3. ops = <<>> /\ cur = NoNode
    BY <1>4 DEF IInv, PostedInv
  <2>4. TypeOK'
    BY <1>1, <1>2, <2>1, <2>2 DEF IInv, TypeOK, imageVars, workVars
  <2>5. PostedInv'
    BY <1>1, <2>1, <2>3 DEF PostedInv, IInv, imageVars
  <2> QED
    BY <1>1, <1>3, <2>1, <2>4, <2>5 DEF IInv, PoolInv, HeadTreated, workVars
<1>5. CASE mode.queued /\ cur = NoNode
  <2>1. dev' = dev /\ ops' = ops /\ cur' = cur
    BY <1>5 DEF Commit
  <2>2. TypeOK'
    BY <1>1, <1>2, <2>1 DEF IInv, TypeOK, imageVars, workVars
  <2>3. PostedInv'
    BY <1>1, <1>5, <2>1 DEF PostedInv, IInv, imageVars
  <2> QED
    BY <1>1, <1>3, <2>1, <2>2, <2>3 DEF IInv, PoolInv, HeadTreated, workVars
<1>6. CASE mode.queued /\ cur # NoNode
  <2>1. dev' = dev /\ ops' = Append(ops, cur) /\ cur' = NoNode
    BY <1>6 DEF Commit
  <2>2. PICK c : c = cur
    OBVIOUS
  <2>3. PICK o : o = ops
    OBVIOUS
  <2>4. PICK f : f = free
    OBVIOUS
  <2>5. PICK p : p = Append(o, c)
    OBVIOUS
  <2>6. f \in Seq(Node) /\ o \in Seq(Node) /\ c \in Node /\ Places(f, o, c)
    BY <2>2, <2>3, <2>4, <1>6 DEF IInv, TypeOK, PoolInv
  <2>7. p \in Seq(Node) /\ Places(f, p, NoNode)
    BY <2>5, <2>6, Closed
  <2>8. /\ Len(o) \in Nat /\ Len(p) = Len(o) + 1
        /\ \A i \in 1 .. Len(p) : p[i] = IF i <= Len(o) THEN o[i] ELSE c
    BY <2>5, <2>6, AppendIs
  <2>9. ops' = p /\ free' = f
    BY <2>1, <2>2, <2>3, <2>4, <2>5, <1>1
  <2>10. TypeOK'
    BY <1>1, <1>2, <2>1, <2>7, <2>9 DEF IInv, TypeOK, imageVars, workVars
  <2>11. PoolInv'
    BY <2>1, <2>7, <2>9 DEF PoolInv
  <2>12. HeadTreated'
    <3>1. o # <<>> => p # <<>> /\ Head(p) = Head(o)
      <4>1. ASSUME o # <<>>
            PROVE  p # <<>> /\ Head(p) = Head(o)
        <5>1. Len(o) \in Nat \ {0} /\ Head(o) = o[1]
          BY <4>1, <2>6, TailIs
        <5>2. p # <<>> /\ 1 \in 1 .. Len(p) /\ 1 <= Len(o)
          BY <5>1, <2>7, <2>8
        <5>3. Head(p) = p[1]
          BY <5>2, <2>7, TailIs
        <5> QED
          BY <5>1, <5>2, <5>3, <2>8
      <4> QED
        BY <4>1
    <3> QED
      BY <3>1, <1>1, <2>3, <2>9 DEF IInv, HeadTreated, workVars
  <2>13. PostedInv'
    <3>1. \A j \in DOMAIN o : mem[o[j]].kind # "none"
      BY <2>3 DEF IInv, PostedInv
    <3>2. mem[c].kind = "write"
      BY <1>6, <2>2 DEF IInv, PostedInv
    <3>3. \A j \in DOMAIN p : mem[p[j]].kind # "none"
      <4>1. DOMAIN p = 1 .. Len(p) /\ DOMAIN o = 1 .. Len(o)
        BY <2>6, <2>7, LenProperties
      <4>2. ASSUME NEW j \in 1 .. Len(p)
            PROVE  mem[p[j]].kind # "none"
        BY <4>1, <3>1, <3>2, <2>8
      <4> QED
        BY <4>1, <4>2
    <3> QED
      BY <3>3, <1>1, <1>6, <2>1, <2>9 DEF PostedInv, imageVars
  <2> QED
    BY <1>3, <2>10, <2>11, <2>12, <2>13 DEF IInv
<1> QED
  BY <1>4, <1>5, <1>6
(* The head of the queue is a transaction.                                  *)
LEMMA HeadIs ==
  ASSUME IInv, ~broken, ops # <<>>
  PROVE  /\ Head(ops) \in Node /\ op \in Op /\ op.kind # "none" /\ Len(op.data) <= Page
         /\ state = "acquiring" /\ mode.queued
<1>1. PICK o : o = ops
  OBVIOUS
<1>2. o \in Seq(Node) /\ o # <<>>
  BY <1>1 DEF IInv, TypeOK
<1>3. Len(o) \in Nat \ {0} /\ Head(o) = o[1] /\ Head(o) \in Node
  BY <1>2, TailIs
<1>4. 1 \in DOMAIN o
  BY <1>2, <1>3, LenProperties
<1>5. mem[o[1]].kind # "none"
  BY <1>1, <1>4 DEF IInv, PostedInv
<1>6. mem[Head(o)] \in Op /\ Len(mem[Head(o)].data) <= Page
  BY <1>3 DEF IInv, TypeOK
<1> QED
  BY <1>1, <1>3, <1>5, <1>6 DEF op, IInv, PostedInv

LEMMA PaddedTyped ==
  ASSUME NEW data \in Seq(Nat \X Nat), Len(data) <= Page
  PROVE  Padded(data) \in Seq(Cell) /\ Len(Padded(data)) = Page
<1>1. \A j \in 1 .. Len(data) : data[j] \in Cell
  BY ElementOfSeq DEF Cell
<1>2. Zero \in Cell
  BY DEF Cell
<1>3. Len(data) \in Nat
  BY LenProperties
<1>4. \A j \in 1 .. Page : (IF j <= Len(data) THEN data[j] ELSE Zero) \in Cell
  BY <1>1, <1>2, <1>3
<1> QED
  BY <1>4, Geometry DEF Padded

(* Writing the page of the operation keeps the type of the storage.         *)
LEMMA HeadWritten ==
  ASSUME IInv, ~broken, ops # <<>>, NEW fault, NEW r, r = Write(dev, op.addr, Padded(op.data), fault)
  PROVE  r.d \in Storage
<1>1. PICK a : a = op.addr
  OBVIOUS
<1>2. PICK p : p = Padded(op.data)
  OBVIOUS
<1>3. PICK d : d = dev
  OBVIOUS
<1>4. op.addr \in Nat /\ op.data \in Seq(Nat \X Nat) /\ Len(op.data) <= Page
  BY HeadIs DEF Op
<1>5. a \in Nat /\ p \in Seq(Cell) /\ Len(p) > 0 /\ d \in Storage
  BY <1>1, <1>2, <1>3, <1>4, PaddedTyped, Geometry, SMTT(30) DEF IInv, TypeOK
<1>6. Write(d, a, p, fault).d \in Storage
  BY <1>5, WriteTyped
<1> QED
  BY <1>1, <1>2, <1>3, <1>6

LEMMA TreatWriteKeeps ==
  ASSUME IInv, ~broken, TreatWrite
  PROVE  IInv'
<1>1. PICK r : r = Write(dev, op.addr, Padded(op.data), NoFault)
  OBVIOUS
<1>2. /\ ops # <<>> /\ count < MaxConsecutive /\ phase = "take"
      /\ dev' = r.d /\ written' = written + Page
      /\ phase' = "finish" /\ doing' = Head(ops) /\ count' = count + 1
      /\ UNCHANGED <<Others, state, total, current, erased, queueVars, worker, callVars,
                     faults, spoiled, broken>>
  BY <1>1 DEF TreatWrite, Take
<1>3. dev' \in Storage /\ doing' \in Node
  BY <1>1, <1>2, HeadWritten, HeadIs
<1>4. written' \in Nat /\ count' \in 0 .. MaxConsecutive
  <2>1. written \in Nat /\ Page \in Nat /\ count \in 0 .. MaxConsecutive /\ MaxConsecutive \in Nat
    BY Geometry, ConfigAssumption DEF IInv, TypeOK
  <2>2. written' = written + Page /\ count' = count + 1 /\ count < MaxConsecutive
    BY <1>2
  <2> QED
    BY <2>1, <2>2
<1>5. TypeOK'
  BY <1>2, <1>3, <1>4 DEF IInv, TypeOK, Others, queueVars, callVars
<1>6. HeadTreated'
  BY <1>2 DEF HeadTreated, queueVars
<1> QED
  BY <1>2, <1>5, <1>6 DEF IInv, PoolInv, PostedInv, LengthInv, Pushed, Others, queueVars, callVars

LEMMA TreatEraseKeeps ==
  ASSUME IInv, ~broken, TreatErase
  PROVE  IInv'
<1>1. PICK r : r = EraseArea(dev, op.addr, op.size, NoFault)
  OBVIOUS
<1>2. /\ ops # <<>> /\ count < MaxConsecutive /\ phase = "take" /\ op.kind = "erase"
      /\ dev' = r.d /\ erased' = r.next
      /\ mem' = [mem EXCEPT ![Head(ops)].kind = "erased"]
      /\ count' = count + 1
      /\ UNCHANGED <<Others, state, total, current, written, ops, cur, free, worker, phase, doing,
                     callVars, faults, spoiled, broken>>
  BY <1>1 DEF TreatErase, Take
<1>3. dev' \in Storage /\ erased' \in Nat
  <2>1. PICK d : d = dev
    OBVIOUS
  <2>2. PICK a : a = op.addr
    OBVIOUS
  <2>3. PICK size : size = op.size
    OBVIOUS
  <2>4. d \in Storage /\ a \in Nat /\ size \in Nat
    BY <1>2, <2>1, <2>2, <2>3, HeadIs DEF IInv, TypeOK, Op
  <2> QED
    BY <1>1, <1>2, <2>1, <2>2, <2>3, <2>4, EraseTyped
<1>4. Head(ops) \in Node /\ mem \in [Node -> Op] /\ cur # Head(ops)
  <2>1. Head(ops) \in Node /\ op.kind = "erase"
    BY <1>2, HeadIs
  <2>2. cur # NoNode => mem[cur].kind = "write"
    BY DEF IInv, PostedInv
  <2> QED
    BY <2>1, <2>2, NodeFacts DEF IInv, TypeOK, op
<1>5. PICK h : h = Head(ops)
  OBVIOUS
<1>6. /\ \A n \in Node : n # h => mem'[n] = mem[n]
      /\ mem'[h].kind = "erased" /\ mem'[h].data = mem[h].data /\ mem' \in [Node -> Op]
  BY <1>2, <1>4, <1>5, ZenonT(60) DEF Op
<1>7. count' \in 0 .. MaxConsecutive
  BY <1>2, ConfigAssumption, SMTT(30) DEF IInv, TypeOK
<1>8. TypeOK'
  <2>1. \A n \in Node : Len(mem'[n].data) <= Page
    BY <1>6 DEF IInv, TypeOK
  <2> QED
    BY <1>2, <1>3, <1>6, <1>7, <2>1 DEF IInv, TypeOK, Others, callVars
<1>9. PostedInv'
  <2>1. cur # NoNode => mem'[cur] = mem[cur]
    BY <1>4, <1>5, <1>6 DEF IInv, TypeOK
  <2>2. \A j \in DOMAIN ops : mem'[ops[j]].kind # "none"
    <3>1. \A j \in DOMAIN ops : ops[j] \in Node
      BY ElementOfSeq, LenProperties DEF IInv, TypeOK
    <3> QED
      BY <3>1, <1>6 DEF IInv, PostedInv
  <2> QED
    BY <1>2, <2>1, <2>2 DEF IInv, PostedInv, Others, callVars
<1> QED
  BY <1>2, <1>8, <1>9 DEF IInv, PoolInv, HeadTreated, LengthInv, Pushed, Others, callVars

LEMMA TreatErasedKeeps ==
  ASSUME IInv, ~broken, TreatErased
  PROVE  IInv'
<1>1. /\ ops # <<>> /\ count < MaxConsecutive /\ phase = "take"
      /\ phase' = "finish" /\ doing' = Head(ops) /\ count' = count + 1
      /\ UNCHANGED <<Others, dev, worker, callVars, faults, spoiled>>
  BY DEF TreatErased, Take
<1>2. doing' \in Node /\ state = "acquiring"
  BY <1>1, HeadIs
<1>3. count' \in 0 .. MaxConsecutive
  BY <1>1, ConfigAssumption, SMTT(30) DEF IInv, TypeOK
<1>4. CASE UNCHANGED <<imageVars, queueVars, broken>>
  <2>1. TypeOK'
    BY <1>1, <1>2, <1>3, <1>4 DEF IInv, TypeOK, Others, callVars, imageVars, queueVars
  <2>2. HeadTreated'
    BY <1>1, <1>4 DEF HeadTreated, queueVars
  <2> QED
    BY <1>1, <1>4, <2>1, <2>2 DEF IInv, PoolInv, PostedInv, LengthInv, Pushed, Others, callVars, imageVars, queueVars
<1>5. CASE Cancel("permanent") /\ broken' = (state # "permanent")
  <2>1. /\ state' = "permanent" /\ ops' = <<>> /\ cur' = NoNode
        /\ free' \in Seq(Node) /\ Places(free', <<>>, NoNode)
        /\ mem' \in [Node -> Op] /\ \A n \in Node : Len(mem'[n].data) <= Page
        /\ {total', current'} \subseteq 0 .. Size /\ {written', erased'} \subseteq Nat
        /\ current' + len <= Size
    BY <1>5, CancelEffect
  <2>2. broken' = TRUE
    BY <1>2, <1>5
  <2>3. TypeOK'
    BY <1>1, <1>2, <1>3, <2>1, <2>2, SMTT(30) DEF IInv, TypeOK, Others, callVars
  <2>4. LengthInv'
    BY <1>1, <2>1 DEF IInv, LengthInv, Pushed, callVars
  <2> QED
    BY <1>1, <2>2, <2>3, <2>4 DEF IInv, PoolInv, HeadTreated, PostedInv
<1> QED
  BY <1>4, <1>5 DEF TreatErased

LEMMA TreatFailsKeeps ==
  ASSUME IInv, ~broken, NEW fault \in Faults, TreatFails(fault)
  PROVE  IInv'
<1>1. PICK w : w = IF op.kind = "write" THEN Write(dev, op.addr, Padded(op.data), fault)
                   ELSE EraseArea(dev, op.addr, op.size, fault)
  OBVIOUS
<1>2. /\ ops # <<>> /\ phase = "take" /\ Cancel("permanent")
      /\ dev' = w.d /\ Fault(fault) /\ Counted(fault)
      /\ worker' = "none" /\ count' = 0
      /\ call' = (IF worker = "app" /\ call = "resume" THEN "end" ELSE call)
      /\ UNCHANGED <<Others, phase, doing, len, spoiled, broken>>
  BY <1>1 DEF TreatFails, Take
<1>3. dev' \in Storage /\ faults' \in 0 .. MaxFaults
  <2>1. Write(dev, op.addr, Padded(op.data), fault).d \in Storage
    BY <1>2, HeadWritten
  <2>2. EraseArea(dev, op.addr, op.size, fault).d \in Storage
    <3>1. op \in Op /\ dev \in Storage
      BY <1>2, HeadIs DEF IInv, TypeOK
    <3>2. op.addr \in Nat /\ op.size \in Nat
      BY <3>1 DEF Op
    <3> QED
      BY <3>1, <3>2, EraseTyped
  <2> QED
    BY <1>1, <1>2, <2>1, <2>2, CountedTyped
<1>4. /\ state' = "permanent" /\ ops' = <<>> /\ cur' = NoNode
      /\ free' \in Seq(Node) /\ Places(free', <<>>, NoNode)
      /\ mem' \in [Node -> Op] /\ \A n \in Node : Len(mem'[n].data) <= Page
      /\ {total', current'} \subseteq 0 .. Size /\ {written', erased'} \subseteq Nat
      /\ current' + len <= Size
  BY <1>2, CancelEffect
<1>5. TypeOK'
  <2>1. TypeOK
    BY DEF IInv
  <2>2. UNCHANGED <<mode, image, request, phase, doing, len, spoiled, broken>>
    BY <1>2 DEF Others
  <2>3. MaxConsecutive \in Nat
    BY ConfigAssumption
  <2>4. mode' \in Modes /\ image' \in 0 .. MaxImages /\ request' \in 0 .. image'
        /\ phase' \in {"take", "finish"} /\ doing' \in Node \cup {NoNode} /\ len' \in 0 .. Size
        /\ {spoiled', broken'} \subseteq BOOLEAN
    BY <2>1, <2>2 DEF TypeOK
  <2>5. call' \in {"ready", "resume", "end", "commit", "notify"}
    BY <1>2, <2>1 DEF TypeOK
  <2>6. worker' \in {"none", "app", "idle"} /\ count' \in 0 .. MaxConsecutive
    BY <1>2, <2>3
  <2> QED
    BY <1>3, <1>4, <2>4, <2>5, <2>6 DEF TypeOK
<1>6. LengthInv'
  BY <1>2, <1>4 DEF IInv, LengthInv, Pushed
<1> QED
  BY <1>2, <1>4, <1>5, <1>6 DEF IInv, PoolInv, HeadTreated, PostedInv

LEMMA FinishKeeps ==
  ASSUME IInv, ~broken, Finish
  PROVE  IInv'
<1>1. /\ phase = "finish" /\ ops' = Tail(ops) /\ free' = Append(free, doing)
      /\ mem' = [mem EXCEPT ![doing] = NoOp]
      /\ phase' = "take" /\ doing' = NoNode
      /\ UNCHANGED <<Others, imageVars, dev, cur, worker, count, callVars, faults, spoiled, broken>>
  BY DEF Finish
<1>2. PICK o : o = ops
  OBVIOUS
<1>3. PICK f : f = free
  OBVIOUS
<1>4. PICK c : c = cur
  OBVIOUS
<1>5. PICK h : h = Head(o)
  OBVIOUS
<1>6. PICK g : g = Tail(o)
  OBVIOUS
<1>7. PICK p : p = Append(f, h)
  OBVIOUS
<1>8. /\ o \in Seq(Node) /\ f \in Seq(Node) /\ c \in Node \cup {NoNode} /\ Places(f, o, c)
      /\ o # <<>> /\ doing = h
  BY <1>1, <1>2, <1>3, <1>4, <1>5 DEF IInv, TypeOK, PoolInv, HeadTreated
<1>9. g \in Seq(Node) /\ p \in Seq(Node) /\ h \in Node /\ Places(g, p, c)
  <2>1. Places(o, f, c)
    BY <1>8, Mirrored
  <2> QED
    BY <2>1, <1>5, <1>6, <1>7, <1>8, Moved
<1>10. Places(p, g, c)
  BY <1>9, <1>4, Mirrored
<1>11. ops' = g /\ free' = p /\ cur' = c
  BY <1>1, <1>2, <1>3, <1>4, <1>6, <1>7, <1>8
<1>12. /\ mem' \in [Node -> Op] /\ mem'[h] = NoOp /\ \A n \in Node : n # h => mem'[n] = mem[n]
  <2>1. NoOp \in Op
    BY DEF NoOp, Op
  <2> QED
    BY <2>1, <1>1, <1>8, <1>9 DEF IInv, TypeOK
<1>13. TypeOK'
  <2>1. \A n \in Node : Len(mem'[n].data) <= Page
    <3>1. Page \in Nat /\ Len(NoOp.data) <= Page
      BY Geometry DEF NoOp
    <3>2. \A n \in Node : Len(mem[n].data) <= Page
      BY DEF IInv, TypeOK
    <3>3. ASSUME NEW n \in Node
          PROVE  Len(mem'[n].data) <= Page
      <4>1. CASE n = h
        BY <1>12, <3>1, <4>1
      <4>2. CASE n # h
        BY <1>12, <3>2, <4>2
      <4> QED
        BY <4>1, <4>2
    <3> QED
      BY <3>3
  <2> QED
    BY <1>1, <1>8, <1>9, <1>11, <1>12, <2>1 DEF IInv, TypeOK, Others, imageVars, callVars
<1>14. PoolInv'
  BY <1>10, <1>11 DEF PoolInv
<1>15. HeadTreated'
  BY <1>1 DEF HeadTreated
<1>16. PostedInv'
  <2>1. /\ Len(o) \in Nat \ {0} /\ h = o[1]
        /\ Len(g) = Len(o) - 1 /\ \A i \in 1 .. Len(g) : g[i] = o[i + 1]
    BY <1>5, <1>6, <1>8, TailIs
  <2>2. DOMAIN g = 1 .. Len(g) /\ DOMAIN o = 1 .. Len(o)
    BY <1>8, <1>9, LenProperties
  <2>3. ASSUME NEW j \in DOMAIN g
        PROVE  mem'[g[j]].kind # "none"
    <3>1. g[j] = o[j + 1] /\ j + 1 \in DOMAIN o /\ 1 \in DOMAIN o /\ j + 1 # 1
      BY <2>1, <2>2
    <3>2. o[j + 1] # h
      BY <3>1, <2>1, <1>8 DEF Places
    <3>3. o[j + 1] \in Node
      BY <3>1, <2>2, <1>8, ElementOfSeq
    <3>4. mem[o[j + 1]].kind # "none"
      BY <3>1, <1>2 DEF IInv, PostedInv
    <3> QED
      BY <3>1, <3>2, <3>3, <3>4, <1>12
  <2>4. c # NoNode => mem'[c] = mem[c]
    <3>1. c # h
      BY <2>1, <2>2, <1>8 DEF Places
    <3> QED
      BY <3>1, <1>8, <1>12
  <2>5. state = "acquiring" /\ mode.queued /\ call # "notify"
    BY <1>2, <1>8 DEF IInv, PostedInv
  <2> QED
    BY <1>1, <1>4, <1>11, <2>3, <2>4, <2>5 DEF IInv, PostedInv, Others, imageVars, callVars
<1>17. LengthInv'
  BY <1>1 DEF IInv, LengthInv, Pushed, Others, imageVars, callVars
<1> QED
  BY <1>13, <1>14, <1>15, <1>16, <1>17 DEF IInv
LEMMA HeadRoomKeeps ==
  ASSUME IInv, ~broken, NEW n \in Windows, NEW fault \in Faults, HeadRoom(n, fault)
  PROVE  IInv'
<1>1. /\ call = "ready" /\ state = "acquiring" /\ current <= erased /\ erased < total
      /\ Fault(fault) /\ Counted(fault)
      /\ HeadRoomNow(n, fault) \/ HeadRoomPosted(n)
      /\ UNCHANGED <<mode, state, total, current, written, workVars, image, request, spoiled, broken>>
  BY DEF HeadRoom
<1>2. faults' \in 0 .. MaxFaults
  BY <1>1, CountedTyped
<1>3. n \in Nat \ {0} /\ erased \in Nat /\ total \in Nat
  BY ConfigAssumption, Geometry DEF IInv, TypeOK
<1>4. ToErase(n) \in Nat
  <2>1. ToErase(n) = IF erased + n >= total THEN total - erased ELSE n
    <3>1. total # 0
      BY <1>1, <1>3
    <3> QED
      BY <3>1 DEF ToErase
  <2>2. erased < total
    BY <1>1
  <2> QED
    BY <2>1, <2>2, <1>3
<1>5. len = 0
  BY <1>1 DEF IInv, LengthInv
<1>6. CASE HeadRoomNow(n, fault)
  <2>1. PICK r : r = EraseArea(dev, erased, ToErase(n), fault)
    OBVIOUS
  <2>2. dev' = r.d /\ erased' = (IF r.ok THEN r.next ELSE 0) /\ UNCHANGED <<queueVars, callVars>>
    BY <1>6, <2>1 DEF HeadRoomNow
  <2>3. dev' \in Storage /\ erased' \in Nat
    <3>1. PICK size \in Nat : size = ToErase(n)
      BY <1>4
    <3>2. dev \in Storage /\ r = EraseArea(dev, erased, size, fault)
      BY <2>1, <3>1 DEF IInv, TypeOK
    <3>3. r.d \in Storage /\ r.ok \in BOOLEAN /\ r.next \in Nat
      BY <3>2, <1>3, EraseTyped
    <3> QED
      BY <2>2, <3>3
  <2>4. TypeOK'
    BY <1>1, <1>2, <2>2, <2>3 DEF IInv, TypeOK, workVars, queueVars, callVars
  <2> QED
    BY <1>1, <2>2, <2>4 DEF IInv, PoolInv, HeadTreated, PostedInv, LengthInv, Pushed, workVars, queueVars, callVars
<1>7. CASE HeadRoomPosted(n) /\ free = <<>>
  <2>1. UNCHANGED <<dev, erased, queueVars, callVars>>
    BY <1>7 DEF HeadRoomPosted
  <2>2. TypeOK'
    BY <1>1, <1>2, <2>1 DEF IInv, TypeOK, workVars, queueVars, callVars
  <2> QED
    BY <1>1, <2>1, <2>2 DEF IInv, PoolInv, HeadTreated, PostedInv, LengthInv, Pushed, workVars, queueVars, callVars
<1>8. CASE HeadRoomPosted(n) /\ free # <<>>
  <2>1. PICK e : e = [NoOp EXCEPT !.kind = "erase", !.addr = erased, !.size = ToErase(n)]
    OBVIOUS
  <2>2. /\ mode.queued
        /\ mem' = [mem EXCEPT ![Head(free)] = e]
        /\ ops' = Append(ops, Head(free)) /\ free' = Tail(free)
        /\ call' = (IF mode.idle THEN call ELSE "resume")
        /\ UNCHANGED <<cur, len, dev, erased>>
    BY <1>8, <2>1 DEF HeadRoomPosted
  <2>3. e \in Op /\ e.kind = "erase" /\ Len(e.data) = 0
    <3>1. PICK size \in Nat : size = ToErase(n)
      BY <1>4
    <3>2. e = [kind |-> "erase", addr |-> erased, data |-> <<>>, size |-> size]
      BY <2>1, <3>1 DEF NoOp
    <3> QED
      BY <3>1, <3>2, <1>3 DEF Op
  <2>4. PICK f : f = free
    OBVIOUS
  <2>5. PICK o : o = ops
    OBVIOUS
  <2>6. PICK c : c = cur
    OBVIOUS
  <2>7. PICK h : h = Head(f)
    OBVIOUS
  <2>8. PICK g : g = Tail(f)
    OBVIOUS
  <2>9. PICK p : p = Append(o, h)
    OBVIOUS
  <2>10. /\ o \in Seq(Node) /\ f \in Seq(Node) /\ c \in Node \cup {NoNode} /\ Places(f, o, c) /\ f # <<>>
    BY <1>8, <2>4, <2>5, <2>6 DEF IInv, TypeOK, PoolInv
  <2>11. g \in Seq(Node) /\ p \in Seq(Node) /\ h \in Node /\ Places(g, p, c)
    BY <2>7, <2>8, <2>9, <2>10, Moved
  <2>12. ops' = p /\ free' = g /\ cur' = c
    BY <2>2, <2>4, <2>5, <2>6, <2>7, <2>8, <2>9
  <2>13. mem' \in [Node -> Op] /\ mem'[h] = e /\ \A x \in Node : x # h => mem'[x] = mem[x]
    BY <2>2, <2>3, <2>4, <2>7, <2>11 DEF IInv, TypeOK
  <2>14. /\ Len(f) \in Nat \ {0} /\ h = f[1]
    BY <2>7, <2>10, TailIs
  <2>15. /\ Len(o) \in Nat /\ Len(p) = Len(o) + 1
         /\ \A i \in 1 .. Len(p) : p[i] = IF i <= Len(o) THEN o[i] ELSE h
    BY <2>9, <2>10, <2>11, AppendIs
  <2>16. DOMAIN p = 1 .. Len(p) /\ DOMAIN o = 1 .. Len(o) /\ DOMAIN f = 1 .. Len(f)
    BY <2>10, <2>11, LenProperties
  <2>17. h # c /\ \A j \in DOMAIN o : o[j] # h /\ o[j] \in Node
    <3>1. 1 \in DOMAIN f
      BY <2>14, <2>16
    <3>2. \A j \in DOMAIN o : o[j] \in Node
      BY <2>10, <2>16, ElementOfSeq
    <3> QED
      BY <3>1, <3>2, <2>10, <2>14 DEF Places
  <2>18. TypeOK'
    <3>1. \A x \in Node : Len(mem'[x].data) <= Page
      BY <2>3, <2>13, Geometry, SMTT(30) DEF IInv, TypeOK
    <3> QED
      BY <1>1, <1>2, <2>2, <2>10, <2>11, <2>12, <2>13, <3>1 DEF IInv, TypeOK, workVars
  <2>19. PoolInv'
    BY <2>11, <2>12 DEF PoolInv
  <2>20. HeadTreated'
    <3>1. ASSUME o # <<>>
          PROVE  p # <<>> /\ Head(p) = Head(o)
      <4>1. Len(o) \in Nat \ {0} /\ Head(o) = o[1]
        BY <3>1, <2>10, TailIs
      <4>2. p # <<>> /\ 1 \in 1 .. Len(p) /\ 1 <= Len(o)
        BY <4>1, <2>11, <2>15
      <4>3. Head(p) = p[1]
        BY <4>2, <2>11, TailIs
      <4> QED
        BY <4>1, <4>2, <4>3, <2>15
    <3> QED
      BY <3>1, <1>1, <2>5, <2>12 DEF IInv, HeadTreated, workVars
  <2>21. PostedInv'
    <3>1. ASSUME NEW j \in DOMAIN p
          PROVE  mem'[p[j]].kind # "none"
      <4>1. CASE j <= Len(o)
        <5>1. j \in DOMAIN o /\ p[j] = o[j]
          BY <4>1, <2>15, <2>16
        <5>2. mem[o[j]].kind # "none"
          BY <5>1, <2>5 DEF IInv, PostedInv
        <5> QED
          BY <5>1, <5>2, <2>13, <2>17
      <4>2. CASE ~(j <= Len(o))
        BY <4>2, <2>3, <2>13, <2>15, <2>16
      <4> QED
        BY <4>1, <4>2
    <3>2. c # NoNode => mem'[c] = mem[c]
      BY <2>10, <2>13, <2>17
    <3> QED
      BY <3>1, <3>2, <1>1, <2>2, <2>6, <2>12 DEF IInv, PostedInv
  <2>22. LengthInv'
    BY <1>1, <1>5, <2>2 DEF IInv, LengthInv, Pushed
  <2> QED
    BY <2>18, <2>19, <2>20, <2>21, <2>22 DEF IInv
<1> QED
  BY <1>1, <1>6, <1>7, <1>8
LEMMA PushNowKeeps ==
  ASSUME IInv, ~broken, NEW n \in Chunks, NEW fault \in Faults,
         PushImageChunk(n, fault), PushNow(n, fault)
  PROVE  IInv'
<1>1. /\ call = "ready" /\ state = "acquiring" /\ current + n <= total
      /\ Fault(fault) /\ Counted(fault)
      /\ UNCHANGED <<mode, state, total, erased, workVars, image, request, broken>>
  BY DEF PushImageChunk
<1>2. PICK r : r = Write(dev, current, Chunk(n), fault)
  OBVIOUS
<1>3. /\ dev' = r.d /\ current' \in {current, current + n}
      /\ spoiled' \in BOOLEAN
      /\ UNCHANGED <<written, queueVars, callVars>>
  BY <1>2 DEF PushNow
<1>4. n \in Nat \ {0} /\ current \in Nat /\ total \in 0 .. Size /\ Size \in Nat /\ image \in Nat
  BY ConfigAssumption, Geometry DEF IInv, TypeOK
<1>5. dev' \in Storage
  <2>1. PICK ch : ch = Chunk(n)
    OBVIOUS
  <2>2. ch \in Seq(Cell) /\ Len(ch) > 0
    <3>1. ch = [j \in 1 .. n |-> Unit(image, current + j - 1)]
      BY <2>1 DEF Chunk
    <3>2. \A j \in 1 .. n : Unit(image, current + j - 1) \in Cell
      BY <1>4 DEF Unit, Cell
    <3> QED
      BY <3>1, <3>2, <1>4
  <2>3. PICK d : d = dev
    OBVIOUS
  <2>4. PICK a : a = current
    OBVIOUS
  <2>5. d \in Storage /\ a \in Nat
    BY <2>3, <2>4, <1>4 DEF IInv, TypeOK
  <2>6. Write(d, a, ch, fault).d \in Storage
    BY <2>2, <2>5, WriteTyped
  <2> QED
    BY <1>2, <1>3, <2>1, <2>3, <2>4, <2>6
<1>6. faults' \in 0 .. MaxFaults /\ current' \in 0 .. Size
  BY <1>1, <1>3, <1>4, CountedTyped
<1>7. len = 0
  BY <1>1 DEF IInv, LengthInv
<1>8. TypeOK'
  BY <1>1, <1>3, <1>5, <1>6 DEF IInv, TypeOK, workVars, queueVars, callVars
<1>9. LengthInv'
  <2>1. current + n <= total /\ len' = 0 /\ UNCHANGED <<state, total, call, image>>
    BY <1>1, <1>3, <1>7 DEF callVars
  <2>2. PICK c : c = current'
    OBVIOUS
  <2>3. c + 0 <= total /\ c + 0 <= Size
    <3>1. c = current \/ c = current + n
      BY <2>2, <1>3
    <3>2. current + n <= total
      BY <2>1
    <3> QED
      BY <3>1, <3>2, <1>4
  <2>4. image > 0
    BY <1>1 DEF IInv, LengthInv
  <2>5. Pushed' = c + 0
    BY <2>1, <2>2 DEF Pushed
  <2> QED
    BY <2>1, <2>3, <2>4, <2>5 DEF LengthInv
<1> QED
  BY <1>1, <1>3, <1>8, <1>9 DEF IInv, PoolInv, HeadTreated, PostedInv, workVars, queueVars, callVars

(* What OTA_PostWriteToFlash does to the transactions it had queued.        *)
LEMMA PostQueue ==
  ASSUME IInv, ~broken, call = "ready", state = "acquiring", mode.queued,
         NEW n, NEW F, NEW text, NEW end, NEW full, NEW used, NEW k,
         PostEffect(n, F, text, end, full, used, k)
  PROVE  /\ ops' \in Seq(Node) /\ free' \in Seq(Node) /\ cur' \in Node \cup {NoNode}
         /\ mem' \in [Node -> Op] /\ Places(free', ops', cur')
         /\ \A x \in Node : Len(mem'[x].data) <= Page
         /\ \A j \in 1 .. Len(ops) : j \in DOMAIN ops' /\ ops'[j] = ops[j] /\ mem'[ops[j]] = mem[ops[j]]
         /\ \A j \in DOMAIN ops' : mem'[ops'[j]].kind # "none"
         /\ cur' # NoNode => mem'[cur'].kind = "write" /\ Len(mem'[cur'].data) \in 1 .. Page - 1
         /\ ops # <<>> => ops' # <<>> /\ Head(ops') = Head(ops)
<1>1. /\ Lists(F, free, cur, k) /\ Parted(F, ops)
      /\ Cut(text, Len(F), end, full, used)
      /\ Taken(F, text, end, full, used)
      /\ Dealt(F, ops, full, used, free', ops', cur')
  BY DEF PostEffect
<1>2. PICK f2 : f2 = free'
  OBVIOUS
<1>3. PICK o2 : o2 = ops'
  OBVIOUS
<1>4. PICK c2 : c2 = cur'
  OBVIOUS
<1>5. PICK m2 : m2 = mem'
  OBVIOUS
<1>6. PICK o : o = ops
  OBVIOUS
<1>7. o \in Seq(Node) /\ F \in Seq(Node) /\ Parted(F, o) /\ Dealt(F, o, full, used, f2, o2, c2)
  BY <1>1, <1>2, <1>3, <1>4, <1>6 DEF IInv, TypeOK, Lists
<1>8. c2 \in Node \cup {NoNode} /\ Places(f2, o2, c2)
  BY <1>7, PostedPlaces
<1>9. /\ full \in Nat /\ used \in full .. full + 1 /\ used <= Len(F)
      /\ f2 \in Seq(Node) /\ o2 \in Seq(Node) /\ Len(o2) = Len(o) + full
      /\ \A i \in 1 .. Len(o2) : o2[i] = IF i <= Len(o) THEN o[i] ELSE F[i - Len(o)]
      /\ c2 = IF used = full THEN NoNode ELSE F[used]
  BY <1>7 DEF Dealt
<1>10. /\ Len(F) \in Nat /\ Len(o) \in Nat /\ DOMAIN o2 = 1 .. Len(o2) /\ DOMAIN o = 1 .. Len(o)
       /\ \A i \in 1 .. Len(F) : F[i] \in Node
       /\ \A i \in 1 .. Len(o) : o[i] \in Node
  BY <1>7, <1>9, LenProperties, ElementOfSeq
<1>11. \A i \in 1 .. Len(F), j \in 1 .. Len(o) : F[i] # o[j]
  BY <1>7 DEF Parted
<1>12. /\ m2 \in [Node -> Op]
       /\ \A x \in Node : (\A j \in 1 .. used : F[j] # x) => m2[x] = mem[x]
  BY <1>1, <1>5 DEF Taken
<1>13. ASSUME NEW j \in 1 .. used
       PROVE  /\ m2[F[j]].kind = "write" /\ Len(m2[F[j]].data) \in 1 .. Page
              /\ j > full => Len(m2[F[j]].data) \in 1 .. Page - 1
  <2>1. PICK l : l = IF j <= full THEN Page ELSE end - full * Page
    OBVIOUS
  <2>2. PICK x : x = m2[F[j]]
    OBVIOUS
  <2>3. x.kind = "write" /\ Len(x.data) = l
    BY <1>1, <1>5, <2>1, <2>2 DEF Taken, Holds
  <2>4. used # full => end - full * Page \in 1 .. Page - 1
    BY <1>1 DEF Cut
  <2> QED
    BY <2>1, <2>2, <2>3, <2>4, <1>9, Geometry
<1>14. \A x \in Node : Len(m2[x].data) <= Page
  <2> SUFFICES ASSUME NEW x \in Node
               PROVE  Len(m2[x].data) <= Page
    OBVIOUS
  <2>1. CASE \A j \in 1 .. used : F[j] # x
    BY <2>1, <1>12 DEF IInv, TypeOK
  <2>2. CASE \E j \in 1 .. used : F[j] = x
    BY <2>2, <1>13, Geometry
  <2> QED
    BY <2>1, <2>2
<1>15. ASSUME NEW j \in 1 .. Len(o)
       PROVE  j \in DOMAIN o2 /\ o2[j] = o[j] /\ m2[o[j]] = mem[o[j]]
  <2>1. j \in DOMAIN o2 /\ o2[j] = o[j]
    BY <1>9, <1>10
  <2>2. \A i \in 1 .. used : F[i] # o[j]
    BY <1>9, <1>10, <1>11
  <2> QED
    BY <2>1, <2>2, <1>10, <1>12
<1>16. ASSUME NEW j \in DOMAIN o2
       PROVE  m2[o2[j]].kind # "none"
  <2>1. CASE j <= Len(o)
    <3>1. j \in 1 .. Len(o) /\ j \in DOMAIN o
      BY <2>1, <1>10
    <3>2. mem[o[j]].kind # "none"
      BY <3>1, <1>6 DEF IInv, PostedInv
    <3> QED
      BY <3>1, <3>2, <1>15
  <2>2. CASE ~(j <= Len(o))
    <3>1. j - Len(o) \in 1 .. used /\ o2[j] = F[j - Len(o)]
      BY <2>2, <1>9, <1>10
    <3> QED
      BY <3>1, <1>13
  <2> QED
    BY <2>1, <2>2
<1>17. c2 # NoNode => m2[c2].kind = "write" /\ Len(m2[c2].data) \in 1 .. Page - 1
  <2>1. ASSUME c2 # NoNode
        PROVE  used \in 1 .. used /\ used > full /\ c2 = F[used]
    BY <2>1, <1>9
  <2> QED
    BY <2>1, <1>13
<1>18. ASSUME o # <<>>
       PROVE  o2 # <<>> /\ Head(o2) = Head(o)
  <2>1. Len(o) \in Nat \ {0} /\ Head(o) = o[1]
    BY <1>18, <1>7, TailIs
  <2>2. o2 # <<>> /\ 1 \in 1 .. Len(o)
    BY <2>1, <1>9
  <2>3. Head(o2) = o2[1]
    BY <2>2, <1>9, TailIs
  <2> QED
    BY <2>1, <2>2, <2>3, <1>15
<1> QED
  BY <1>2, <1>3, <1>4, <1>5, <1>6, <1>8, <1>9, <1>12, <1>14, <1>15, <1>16, <1>17, <1>18

LEMMA PostKeeps ==
  ASSUME IInv, ~broken, NEW n \in Chunks, NEW fault \in Faults,
         PushImageChunk(n, fault), Post(n)
  PROVE  IInv'
<1>1. /\ call = "ready" /\ state = "acquiring" /\ current + n <= total
      /\ Fault(fault) /\ Counted(fault)
      /\ UNCHANGED <<mode, state, total, erased, workVars, image, request, broken>>
  BY DEF PushImageChunk
<1>2. n \in Nat \ {0} /\ current \in Nat /\ total \in 0 .. Size /\ Size \in Nat /\ image \in Nat
      /\ len = 0
  BY <1>1, ConfigAssumption, Geometry DEF IInv, TypeOK, LengthInv
<1>3. /\ mode.queued /\ UNCHANGED <<written, dev>> /\ spoiled' \in BOOLEAN
      /\ \/ call' = "resume" /\ len' = n /\ UNCHANGED current
         \/ current' \in {current, current + n} /\ UNCHANGED callVars
  <2>1. PICK ok : /\ IF ok /\ ~mode.idle /\ ops' # <<>>
                                 THEN call' = "resume" /\ len' = n /\ UNCHANGED current
                                 ELSE current' = (IF ok THEN current + n ELSE current) /\ UNCHANGED callVars
                              /\ spoiled' = (spoiled \/ ~ok)
    <3>1. PICK b : b = (Len(Begun \o Chunk(n)) <= Page * Len(Fillable))
      OBVIOUS
    <3> QED
      BY <3>1, Zenon DEF Post
  <2> QED
    BY <2>1 DEF Post
<1>4. PICK F, text, end, full, used, k : PostEffect(n, F, text, end, full, used, k)
  BY <1>1, <1>2, PostHas
<1>5. /\ ops' \in Seq(Node) /\ free' \in Seq(Node) /\ cur' \in Node \cup {NoNode}
      /\ mem' \in [Node -> Op] /\ Places(free', ops', cur')
      /\ \A x \in Node : Len(mem'[x].data) <= Page
      /\ \A j \in DOMAIN ops' : mem'[ops'[j]].kind # "none"
      /\ cur' # NoNode => mem'[cur'].kind = "write" /\ Len(mem'[cur'].data) \in 1 .. Page - 1
      /\ ops # <<>> => ops' # <<>> /\ Head(ops') = Head(ops)
  BY <1>1, <1>3, <1>4, PostQueue
<1>6. faults' \in 0 .. MaxFaults
  BY <1>1, CountedTyped
<1>7. {total', current', len'} \subseteq 0 .. Size /\ call' \in {"ready", "resume"}
  BY <1>1, <1>2, <1>3 DEF callVars
<1>8. TypeOK'
  BY <1>1, <1>3, <1>5, <1>6, <1>7 DEF IInv, TypeOK, workVars
<1>9. PoolInv'
  BY <1>5 DEF PoolInv
<1>10. HeadTreated'
  BY <1>1, <1>5 DEF IInv, HeadTreated, workVars
<1>11. PostedInv'
  BY <1>1, <1>3, <1>5, <1>7 DEF PostedInv
<1>12. LengthInv'
  BY <1>1, <1>2, <1>3 DEF IInv, LengthInv, Pushed, callVars
<1> QED
  BY <1>8, <1>9, <1>10, <1>11, <1>12 DEF IInv
LEMMA InitHolds == Init => IInv
<1> SUFFICES ASSUME Init
             PROVE  IInv
  OBVIOUS
<1>1. NoOp \in Op /\ Len(NoOp.data) <= Page
  BY Geometry DEF NoOp, Op
<1>2. dev \in Storage
  <2>1. mode.driver \in {"external", "internal"}
    BY ConfigAssumption DEF Init
  <2>2. [u \in Units |-> Junk] \in [Units -> Cell]
    BY DEF Cell
  <2> QED
    BY <2>1, <2>2, NewTyped DEF Init
<1>3. free \in Seq(Node) /\ Places(free, <<>>, NoNode)
  BY AllFree DEF Init
<1>4. {total, current, len} \subseteq 0 .. Size /\ {written, erased} \subseteq Nat
      /\ count \in 0 .. MaxConsecutive /\ faults \in 0 .. MaxFaults
      /\ request \in 0 .. image /\ image \in 0 .. MaxImages
  BY Geometry, ConfigAssumption DEF Init
<1>5. mem \in [Node -> Op] /\ (\A n \in Node : Len(mem[n].data) <= Page) /\ ops \in Seq(Node)
  BY <1>1 DEF Init
<1>6. TypeOK
  BY <1>2, <1>3, <1>4, <1>5 DEF Init, TypeOK
<1> QED
  BY <1>3, <1>6, Geometry DEF Init, IInv, PoolInv, HeadTreated, PostedInv, LengthInv, Pushed

LEMMA StepKeeps == IInv /\ [Next]_vars => IInv'
<1> SUFFICES ASSUME IInv, [Next]_vars
             PROVE  IInv'
  OBVIOUS
<1>1. CASE ~broken /\ Application
  <2>1. CASE CancelImage
    BY <1>1, <2>1, CancelImageKeeps
  <2>2. CASE Select
    BY <1>1, <2>2, SelectKeeps
  <2>3. CASE \E n \in Lengths : StartImage(n)
    BY <1>1, <2>3, StartImageKeeps
  <2>4. CASE \E n \in Chunks, fault \in Faults : PushImageChunk(n, fault)
    <3>1. PICK n \in Chunks, fault \in Faults : PushImageChunk(n, fault)
      BY <2>4
    <3>2. PushNow(n, fault) \/ Post(n)
      BY <3>1 DEF PushImageChunk
    <3> QED
      BY <1>1, <3>1, <3>2, PushNowKeeps, PostKeeps
  <2>5. CASE \E n \in Windows, fault \in Faults : HeadRoom(n, fault)
    BY <1>1, <2>5, HeadRoomKeeps
  <2>6. CASE \E fault \in Faults : Commit(fault)
    BY <1>1, <2>6, CommitKeeps
  <2> QED
    BY <1>1, <2>1, <2>2, <2>3, <2>4, <2>5, <2>6 DEF Application
<1>2. CASE ~broken /\ Calls
  BY <1>2, CallEndsKeeps, CommitDrainedKeeps, NotifyKeeps DEF Calls
<1>3. CASE ~broken /\ Worker
  BY <1>3, FinishKeeps, TreatErasedKeeps, TreatEraseKeeps, TreatWriteKeeps, TreatFailsKeeps DEF Worker
<1>4. CASE ~broken /\ Release
  BY <1>4, ReleaseKeeps
<1>5. CASE ~broken /\ Reset
  BY <1>5, ResetKeeps
<1>6. CASE ~broken /\ \E who \in {"app", "idle"} : Resume(who)
  BY <1>6, ResumeKeeps
<1>7. CASE UNCHANGED vars
  <2>1. TypeOK'
    BY <1>7 DEF IInv, TypeOK, vars, imageVars, queueVars, workVars, callVars
  <2> QED
    BY <1>7, <2>1 DEF IInv, PoolInv, HeadTreated, PostedInv, LengthInv, Pushed, vars, imageVars, queueVars,
                      workVars, callVars
<1> QED
  BY <1>1, <1>2, <1>3, <1>4, <1>5, <1>6, <1>7 DEF Next

(* The invariant is kept by every step of OtaSupport.c that Ota models, whatever*)
(* fails and whenever the device resets.                                    *)
THEOREM InvariantHolds == Spec => []IInv
  BY InitHolds, StepKeeps, PTL DEF Spec

(* The variables of OtaSupport.c keep their types: lengths stay in the      *)
(* partition, and no transaction holds more than a page.                    *)
THEOREM TypeCorrect == Spec => []TypeOK
<1>1. IInv => TypeOK
  BY DEF IInv
<1> QED
  BY <1>1, InvariantHolds, PTL

(* No transaction of the pool is lost or in two places, whatever is posted, *)
(* treated, purged or cancelled (OTA_FlashTransactionAlloc and _Free), as long*)
(* as none is released under way.                                           *)
THEOREM PoolKept == Spec => []PoolSound
<1>1. ASSUME IInv
      PROVE  PoolSound
  <2>1. ASSUME ~broken
        PROVE  /\ Len(free) + Len(ops) + (IF cur = NoNode THEN 0 ELSE 1) = Capacity
               /\ ToSet(free) \cup ToSet(ops) \cup ({cur} \ {NoNode}) = Node
    <3>1. Places(free, ops, cur)
      BY <1>1, <2>1 DEF IInv, PoolInv
    <3>2. free \in Seq(Node) /\ ops \in Seq(Node) /\ cur \in Node \cup {NoNode}
      BY <1>1 DEF IInv, TypeOK
    <3>3. /\ \A i \in DOMAIN free : free[i] \in Node
          /\ \A i \in DOMAIN ops : ops[i] \in Node
      BY <3>2, ElementOfSeq, LenProperties
    <3>4. ToSet(free) \cup ToSet(ops) \cup ({cur} \ {NoNode}) = Node
      <4>1. \A n : n \in ToSet(free) <=> \E i \in DOMAIN free : free[i] = n
        BY DEF ToSet
      <4>2. \A n : n \in ToSet(ops) <=> \E i \in DOMAIN ops : ops[i] = n
        BY DEF ToSet
      <4>3. \A n \in Node : (\E i \in DOMAIN free : free[i] = n) \/ (\E i \in DOMAIN ops : ops[i] = n) \/ n = cur
        BY <3>1 DEF Places
      <4>4. \A n : n \in ToSet(free) \cup ToSet(ops) \cup ({cur} \ {NoNode}) => n \in Node
        BY <3>2, <3>3, <4>1, <4>2
      <4>5. \A n \in Node : n \in ToSet(free) \cup ToSet(ops) \cup ({cur} \ {NoNode})
        BY <4>1, <4>2, <4>3, NodeFacts
      <4> QED
        BY <4>4, <4>5
    <3> QED
      BY <3>1, <3>4 DEF Places
  <2> QED
    BY <2>1 DEF PoolSound
<1> QED
  BY <1>1, InvariantHolds, PTL
-----------------------------------------------------------------------------
(* The order of the pages.                                                  *)
(* The pages to be written: places in the queue o of transactions m, but    *)
(* for the page that has been written and is about to leave.                *)
WritesOf(o, m, p) == {j \in DOMAIN o : m[o[j]].kind = "write" /\ ~(j = 1 /\ p = "finish")}
AddressOf(o, m) == [j \in DOMAIN o |-> m[o[j]].addr]

(* Along the places W the addresses A follow each other, from `from` up to  *)
(* `to`.                                                                    *)
Ordered(W, A, from, to) ==
  /\ \A i, j \in W : i < j /\ (\A k \in W : k <= i \/ j <= k) => A[j] = A[i] + Page
  /\ \A j \in W : (\A k \in W : j <= k) => A[j] = from
  /\ \A j \in W : (\A k \in W : k <= j) => A[j] + Page = to
  /\ W = {} => from = to

NextPage == IF cur = NoNode THEN Pushed ELSE mem[cur].addr

(* The pages posted follow the pages written; the next one follows them.    *)
OrderInv ==
  /\ broken => ops = <<>>
  /\ ~broken /\ ~spoiled /\ mode.queued =>
       /\ \E to \in Nat :
            /\ Ordered(WritesOf(ops, mem, phase), AddressOf(ops, mem), written, to)
            /\ state = "acquiring" /\ call \in {"ready", "resume", "end"} => to = NextPage
            /\ state = "acquiring" /\ call = "commit" => total <= to
       /\ cur # NoNode => mem[cur].addr + Len(mem[cur].data) = Pushed

LEMMA OrderedNone ==
  ASSUME NEW A, NEW from
  PROVE  Ordered({}, A, from, from)
BY DEF Ordered

LEMMA OrderedSame ==
  ASSUME NEW W, NEW A, NEW from, NEW to, Ordered(W, A, from, to),
         NEW B, \A j \in W : B[j] = A[j]
  PROVE  Ordered(W, B, from, to)
BY DEF Ordered

(* The first page is written.                                               *)
LEMMA OrderedHead ==
  ASSUME NEW W \in SUBSET (Nat \ {0}), NEW A, NEW from, NEW to, Ordered(W, A, from, to), 1 \in W
  PROVE  Ordered(W \ {1}, A, from + Page, to)
<1>1. A[1] = from
  BY DEF Ordered
<1>2. ASSUME NEW i \in W \ {1}, NEW j \in W \ {1}, i < j, \A k \in W \ {1} : k <= i \/ j <= k
      PROVE  A[j] = A[i] + Page
  <2>1. \A k \in W : k <= i \/ j <= k
    BY <1>2
  <2> QED
    BY <2>1, <1>2 DEF Ordered
<1>3. ASSUME NEW j \in W \ {1}, \A k \in W \ {1} : j <= k
      PROVE  A[j] = from + Page
  <2>1. 1 < j /\ \A k \in W : k <= 1 \/ j <= k
    BY <1>3
  <2> QED
    BY <2>1, <1>1 DEF Ordered
<1>4. ASSUME NEW j \in W \ {1}, \A k \in W \ {1} : k <= j
      PROVE  A[j] + Page = to
  <2>1. \A k \in W : k <= j
    BY <1>4
  <2> QED
    BY <2>1 DEF Ordered
<1>5. ASSUME W \ {1} = {}
      PROVE  from + Page = to
  <2>1. \A k \in W : k <= 1
    BY <1>5
  <2> QED
    BY <2>1, <1>1 DEF Ordered
<1> QED
  BY <1>2, <1>3, <1>4, <1>5 DEF Ordered

(* The head of the queue leaves.                                            *)
LEMMA OrderedShift ==
  ASSUME NEW W \in SUBSET (Nat \ {0}), NEW A, NEW from, NEW to, Ordered(W, A, from, to),
         NEW V \in SUBSET (Nat \ {0}), NEW B,
         \A j \in Nat \ {0} : j \in V <=> j + 1 \in W,
         1 \notin W,
         \A j \in V : B[j] = A[j + 1]
  PROVE  Ordered(V, B, from, to)
<1>1. \A k \in W : k - 1 \in V /\ k \in Nat
  <2>1. ASSUME NEW k \in W
        PROVE  k - 1 \in V /\ k \in Nat
    <3>1. k \in Nat /\ k - 1 \in Nat \ {0} /\ (k - 1) + 1 = k
      OBVIOUS
    <3> QED
      BY <3>1
  <2> QED
    BY <2>1
<1>2. ASSUME NEW i \in V, NEW j \in V, i < j, \A k \in V : k <= i \/ j <= k
      PROVE  B[j] = B[i] + Page
  <2>1. i + 1 \in W /\ j + 1 \in W /\ i + 1 < j + 1
    BY <1>2
  <2>2. \A k \in W : k <= i + 1 \/ j + 1 <= k
    <3>1. ASSUME NEW k \in W
          PROVE  k <= i + 1 \/ j + 1 <= k
      <4>1. k - 1 <= i \/ j <= k - 1
        BY <1>1, <1>2
      <4> QED
        BY <4>1, <1>1
    <3> QED
      BY <3>1
  <2>3. A[j + 1] = A[i + 1] + Page
    BY <2>1, <2>2 DEF Ordered
  <2> QED
    BY <2>3
<1>3. ASSUME NEW j \in V, \A k \in V : j <= k
      PROVE  B[j] = from
  <2>1. j + 1 \in W
    OBVIOUS
  <2>2. ASSUME NEW k \in W
        PROVE  j + 1 <= k
    <3>1. j <= k - 1
      BY <1>1, <1>3
    <3> QED
      BY <3>1, <1>1
  <2>3. A[j + 1] = from
    BY <2>1, <2>2 DEF Ordered
  <2> QED
    BY <2>3
<1>4. ASSUME NEW j \in V, \A k \in V : k <= j
      PROVE  B[j] + Page = to
  <2>1. j + 1 \in W
    OBVIOUS
  <2>2. ASSUME NEW k \in W
        PROVE  k <= j + 1
    <3>1. k - 1 <= j
      BY <1>1, <1>4
    <3> QED
      BY <3>1, <1>1
  <2>3. A[j + 1] + Page = to
    BY <2>1, <2>2 DEF Ordered
  <2> QED
    BY <2>3
<1>5. V = {} => from = to
  BY <1>1 DEF Ordered
<1> QED
  BY <1>2, <1>3, <1>4, <1>5 DEF Ordered

(* Pages are posted behind the others.                                      *)
LEMMA OrderedMore ==
  ASSUME NEW L \in Nat, NEW W \in SUBSET (1 .. L), NEW A, NEW from, NEW to \in Nat, Ordered(W, A, from, to),
         NEW m \in Nat, NEW B,
         \A j \in W : B[j] = A[j],
         \A j \in 1 .. m : B[L + j] = to + (j - 1) * Page
  PROVE  Ordered(W \cup (L + 1 .. L + m), B, from, to + m * Page)
<1> DEFINE V == W \cup (L + 1 .. L + m)
<1>1. \A j \in L + 1 .. L + m : B[j] = to + (j - L - 1) * Page
  <2>1. ASSUME NEW j \in L + 1 .. L + m
        PROVE  B[j] = to + (j - L - 1) * Page
    <3>1. PICK i \in 1 .. m : i = j - L
      OBVIOUS
    <3>2. L + i = j
      BY <3>1
    <3>3. B[L + i] = to + (i - 1) * Page
      OBVIOUS
    <3> QED
      BY <3>1, <3>2, <3>3
  <2> QED
    BY <2>1
<1>2. ASSUME NEW i \in V, NEW j \in V, i < j, \A k \in V : k <= i \/ j <= k
      PROVE  B[j] = B[i] + Page
  <2>1. CASE i \in W /\ j \in W
    BY <2>1, <1>2 DEF Ordered
  <2>2. CASE i \in W /\ j \in L + 1 .. L + m
    <3>1. L + 1 \in V /\ ~(L + 1 <= i)
      BY <2>2
    <3>2. j = L + 1
      BY <2>2, <3>1, <1>2
    <3>3. \A k \in W : k <= i
      BY <2>2, <1>2
    <3>4. A[i] + Page = to
      BY <2>2, <3>3 DEF Ordered
    <3>5. B[j] = to + 0 * Page
      BY <2>2, <3>2, <1>1
    <3> QED
      BY <2>2, <3>4, <3>5, Geometry
  <2>3. CASE i \in L + 1 .. L + m /\ j \in L + 1 .. L + m
    <3>1. i + 1 \in V
      BY <2>3, <1>2
    <3>2. j = i + 1
      BY <2>3, <3>1, <1>2
    <3>3. B[i] = to + (i - L - 1) * Page /\ B[j] = to + (j - L - 1) * Page
      BY <2>3, <1>1
    <3>4. (j - L - 1) * Page = (i - L - 1) * Page + Page
      BY <2>3, <3>2, Geometry
    <3>5. PICK x : x = (i - L - 1) * Page
      OBVIOUS
    <3>6. x \in Int
      BY <2>3, <3>5, Geometry
    <3> QED
      BY <3>3, <3>4, <3>5, <3>6, Geometry
  <2>4. CASE i \in L + 1 .. L + m /\ j \in W
    BY <2>4, <1>2
  <2> QED
    BY <2>1, <2>2, <2>3, <2>4
<1>3. ASSUME NEW j \in V, \A k \in V : j <= k
      PROVE  B[j] = from
  <2>1. CASE j \in W
    BY <2>1, <1>3 DEF Ordered
  <2>2. CASE j \notin W
    <3>1. j \in L + 1 .. L + m
      BY <2>2
    <3>2. W = {}
      <4>1. ASSUME NEW k \in W
            PROVE  FALSE
        BY <3>1, <1>3
      <4> QED
        BY <4>1
    <3>3. L + 1 \in V
      BY <3>1
    <3>4. j = L + 1
      BY <3>1, <3>3, <1>3
    <3>5. B[j] = to + 0 * Page /\ from = to
      BY <3>1, <3>2, <3>4, <1>1 DEF Ordered
    <3> QED
      BY <3>5, Geometry
  <2> QED
    BY <2>1, <2>2
<1>4. ASSUME NEW j \in V, \A k \in V : k <= j
      PROVE  B[j] + Page = to + m * Page
  <2>1. CASE m = 0
    <3>1. j \in W /\ \A k \in W : k <= j
      BY <2>1, <1>4
    <3>2. A[j] + Page = to
      BY <3>1 DEF Ordered
    <3>3. m * Page = 0
      BY <2>1, Geometry
    <3> QED
      BY <3>1, <3>2, <3>3
  <2>2. CASE m # 0
    <3>1. L + m \in V
      BY <2>2
    <3>2. j = L + m
      BY <3>1, <1>4, <2>2
    <3>3. B[j] = to + (m - 1) * Page
      BY <3>2, <2>2, <1>1
    <3>4. (m - 1) * Page + Page = m * Page /\ (m - 1) * Page \in Int
      BY Geometry
    <3> QED
      BY <3>3, <3>4, Geometry
  <2> QED
    BY <2>1, <2>2
<1>5. ASSUME V = {}
      PROVE  from = to + m * Page
  <2>1. m = 0
    <3>1. m # 0 => L + 1 \in V
      OBVIOUS
    <3> QED
      BY <3>1, <1>5
  <2>2. W = {} /\ m * Page = 0
    BY <2>1, <1>5, Geometry
  <2> QED
    BY <2>2 DEF Ordered
<1> HIDE DEF V
<1>6. Ordered(V, B, from, to + m * Page)
  BY <1>2, <1>3, <1>4, <1>5 DEF Ordered
<1> QED
  BY <1>6 DEF V
(* Nothing is left to write.                                                *)
LEMMA EmptiedOrder ==
  ASSUME IInv', ops' = <<>>, cur' = NoNode,
         state' = "acquiring" /\ call' \in {"ready", "resume", "end"} => written' = Pushed',
         state' = "acquiring" => call' # "commit"
  PROVE  OrderInv'
<1>1. PICK w : w = written'
  OBVIOUS
<1>2. w \in Nat
  BY <1>1 DEF IInv, TypeOK
<1>3. PICK W : W = WritesOf(ops', mem', phase')
  OBVIOUS
<1>4. PICK A : A = AddressOf(ops', mem')
  OBVIOUS
<1>5. W = {}
  BY <1>3 DEF WritesOf
<1>6. Ordered(W, A, w, w)
  BY <1>5, OrderedNone
<1>7. state' = "acquiring" /\ call' \in {"ready", "resume", "end"} => w = NextPage'
  BY <1>1 DEF NextPage
<1> QED
  BY <1>1, <1>2, <1>3, <1>4, <1>6, <1>7 DEF OrderInv

(* Where the pages and their order are left alone.                          *)
LEMMA SameOrder ==
  ASSUME OrderInv, ~broken, UNCHANGED <<mode, ops, mem, phase, cur, written, spoiled, broken>>,
         Pushed' = Pushed,
         state' = "acquiring" /\ call' \in {"ready", "resume", "end"}
           => state = "acquiring" /\ call \in {"ready", "resume", "end"},
         state' = "acquiring" /\ call' = "commit" => state = "acquiring" /\ call = "commit" /\ total' = total
  PROVE  OrderInv'
BY DEF OrderInv, NextPage

(* The pages are kept, with their addresses, and what is posted later too.  *)
LEMMA KeptOrder ==
  ASSUME IInv, OrderInv, ~broken, UNCHANGED <<mode, cur, written, spoiled, broken>>,
         Pushed' = Pushed,
         cur # NoNode => mem'[cur] = mem[cur],
         state' = "acquiring" /\ call' \in {"ready", "resume", "end"}
           => state = "acquiring" /\ call \in {"ready", "resume", "end"},
         state' = "acquiring" /\ call' = "commit" => state = "acquiring" /\ call = "commit" /\ total' = total,
         WritesOf(ops', mem', phase') = WritesOf(ops, mem, phase),
         \A j \in WritesOf(ops, mem, phase) : AddressOf(ops', mem')[j] = AddressOf(ops, mem)[j]
  PROVE  OrderInv'
<1> SUFFICES ASSUME ~spoiled, mode.queued
             PROVE  OrderInv'
  BY DEF OrderInv
<1>1. PICK to \in Nat : /\ Ordered(WritesOf(ops, mem, phase), AddressOf(ops, mem), written, to)
                        /\ state = "acquiring" /\ call \in {"ready", "resume", "end"} => to = NextPage
                        /\ state = "acquiring" /\ call = "commit" => total <= to
  BY DEF OrderInv
<1>2. PICK W : W = WritesOf(ops, mem, phase)
  OBVIOUS
<1>3. PICK A : A = AddressOf(ops, mem)
  OBVIOUS
<1>4. PICK B : B = AddressOf(ops', mem')
  OBVIOUS
<1>5. PICK w : w = written
  OBVIOUS
<1>6. Ordered(W, A, w, to) /\ \A j \in W : B[j] = A[j]
  BY <1>1, <1>2, <1>3, <1>4, <1>5
<1>7. Ordered(W, B, w, to)
  BY <1>6, OrderedSame
<1>8. NextPage' = NextPage /\ (cur # NoNode => mem'[cur].addr + Len(mem'[cur].data) = Pushed)
  BY DEF NextPage, OrderInv
<1>9. Ordered(WritesOf(ops', mem', phase'), AddressOf(ops', mem'), written', to)
  BY <1>2, <1>4, <1>5, <1>7
<1> QED
  BY <1>1, <1>8, <1>9 DEF OrderInv

LEMMA WritesTyped ==
  ASSUME IInv
  PROVE  /\ DOMAIN ops = 1 .. Len(ops) /\ Len(ops) \in Nat
         /\ \A j \in DOMAIN ops : ops[j] \in Node
         /\ WritesOf(ops, mem, phase) \in SUBSET (1 .. Len(ops))
         /\ WritesOf(ops, mem, phase) \in SUBSET (Nat \ {0})
<1>1. DOMAIN ops = 1 .. Len(ops) /\ Len(ops) \in Nat /\ \A j \in DOMAIN ops : ops[j] \in Node
  BY LenProperties, ElementOfSeq DEF IInv, TypeOK
<1> QED
  BY <1>1 DEF WritesOf

LEMMA CancelImageOrder ==
  ASSUME IInv, OrderInv, ~broken, CancelImage, IInv'
  PROVE  OrderInv'
<1>1. state' = "permanent" /\ ops' = <<>> /\ cur' = NoNode
  BY CancelEffect DEF CancelImage
<1> QED
  BY <1>1, EmptiedOrder

LEMMA StartImageOrder ==
  ASSUME IInv, OrderInv, ~broken, NEW n \in Lengths, StartImage(n), IInv'
  PROVE  OrderInv'
<1>1. ops = <<>> /\ cur = NoNode /\ len = 0 /\ UNCHANGED <<queueVars, callVars>> /\ current' = 0 /\ written' = 0
      /\ call = "ready"
  BY DEF StartImage, IInv, PostedInv, LengthInv
<1>2. ops' = <<>> /\ cur' = NoNode /\ Pushed' = 0 /\ call' = "ready"
  BY <1>1 DEF queueVars, callVars, Pushed
<1> QED
  BY <1>1, <1>2, EmptiedOrder

LEMMA CommitDrainedOrder ==
  ASSUME IInv, OrderInv, ~broken, CommitDrained, IInv'
  PROVE  OrderInv'
<1>1. call = "commit" /\ (mode.queued => ops = <<>>) /\ UNCHANGED queueVars /\ UNCHANGED <<mode, broken>>
      /\ (call' = "notify" \/ state' = "fail")
  BY DEF CommitDrained
<1>2. cur = NoNode
  BY <1>1 DEF IInv, PostedInv
<1>3. ops = <<>>
  BY <1>1, <1>2 DEF IInv, PostedInv
<1> QED
  BY <1>1, <1>2, <1>3, EmptiedOrder DEF queueVars

LEMMA TreatFailsOrder ==
  ASSUME IInv, OrderInv, ~broken, NEW fault, TreatFails(fault), IInv'
  PROVE  OrderInv'
<1>1. state' = "permanent" /\ ops' = <<>> /\ cur' = NoNode
  BY CancelEffect DEF TreatFails
<1> QED
  BY <1>1, EmptiedOrder

LEMMA ResetOrder ==
  ASSUME IInv, OrderInv, ~broken, Reset, IInv'
  PROVE  OrderInv'
<1>1. state' = "permanent" /\ ops' = <<>> /\ cur' = NoNode
  BY DEF Reset
<1> QED
  BY <1>1, EmptiedOrder

(* Steps that neither post nor treat.                                       *)
LEMMA QuietOrder ==
  ASSUME IInv, OrderInv, ~broken,
         Select \/ CallEnds \/ Notify \/ Release \/ \E who \in {"app", "idle"} : Resume(who)
  PROVE  OrderInv'
<1>1. CASE Select
  <2>1. UNCHANGED <<mode, state, total, current, written, queueVars, workVars, callVars, spoiled, broken>>
    BY <1>1 DEF Select
  <2> QED
    BY <2>1, SameOrder DEF queueVars, workVars, callVars, Pushed
<1>2. CASE CallEnds
  <2>1. /\ call = "end" /\ current' = current + len /\ call' = "ready" /\ len' = 0
        /\ UNCHANGED <<mode, state, written, queueVars, workVars, spoiled, broken>>
    BY <1>2 DEF CallEnds
  <2>2. Pushed' = Pushed
    <3>1. current \in Nat /\ len \in Nat
      BY Geometry DEF IInv, TypeOK
    <3> QED
      BY <2>1, <3>1 DEF Pushed
  <2> QED
    BY <2>1, <2>2, SameOrder DEF queueVars, workVars
<1>3. CASE Notify
  <2>1. /\ state' \in {"ready", "fail"}
        /\ UNCHANGED <<mode, current, written, queueVars, workVars, len, spoiled, broken>>
    BY <1>3 DEF Notify
  <2> QED
    BY <2>1, SameOrder DEF queueVars, workVars, Pushed
<1>4. CASE Release
  <2>1. /\ call' = (IF worker = "app" /\ call = "resume" THEN "end" ELSE call)
        /\ UNCHANGED <<Others, imageVars, queueVars, phase, len, spoiled, broken>>
    BY <1>4 DEF Release
  <2> QED
    BY <2>1, SameOrder DEF Others, imageVars, queueVars, Pushed
<1>5. CASE \E who \in {"app", "idle"} : Resume(who)
  <2>1. UNCHANGED <<Others, imageVars, queueVars, phase, callVars, spoiled, broken>>
    BY <1>5 DEF Resume
  <2> QED
    BY <2>1, SameOrder DEF Others, imageVars, queueVars, callVars, Pushed
<1> QED
  BY <1>1, <1>2, <1>3, <1>4, <1>5

LEMMA TreatWriteOrder ==
  ASSUME IInv, OrderInv, ~broken, TreatWrite
  PROVE  OrderInv'
<1>1. /\ ops # <<>> /\ phase = "take" /\ op.kind = "write"
      /\ written' = written + Page /\ phase' = "finish"
      /\ UNCHANGED <<Others, state, total, current, queueVars, callVars, spoiled, broken>>
  BY DEF TreatWrite, Take
<1> SUFFICES ASSUME ~spoiled, mode.queued
             PROVE  OrderInv'
  BY <1>1 DEF OrderInv, Others
<1>2. PICK to \in Nat : /\ Ordered(WritesOf(ops, mem, phase), AddressOf(ops, mem), written, to)
                        /\ state = "acquiring" /\ call \in {"ready", "resume", "end"} => to = NextPage
                        /\ state = "acquiring" /\ call = "commit" => total <= to
  BY DEF OrderInv
<1>3. PICK W : W = WritesOf(ops, mem, phase)
  OBVIOUS
<1>4. PICK A : A = AddressOf(ops, mem)
  OBVIOUS
<1>5. PICK w : w = written
  OBVIOUS
<1>6. W \in SUBSET (Nat \ {0}) /\ 1 \in W
  <2>1. 1 \in DOMAIN ops /\ ops[1] = Head(ops)
    <3>1. PICK o : o = ops
      OBVIOUS
    <3>2. o \in Seq(Node) /\ o # <<>>
      BY <3>1, <1>1 DEF IInv, TypeOK
    <3>3. Len(o) \in Nat \ {0} /\ Head(o) = o[1] /\ DOMAIN o = 1 .. Len(o)
      BY <3>2, TailIs, LenProperties
    <3> QED
      BY <3>1, <3>3
  <2> QED
    BY <2>1, <1>1, <1>3, WritesTyped DEF WritesOf, op
<1>7. Ordered(W \ {1}, A, w + Page, to)
  BY <1>2, <1>3, <1>4, <1>5, <1>6, OrderedHead
<1>8. WritesOf(ops', mem', phase') = W \ {1} /\ AddressOf(ops', mem') = A /\ written' = w + Page
  BY <1>1, <1>3, <1>4, <1>5 DEF WritesOf, AddressOf, queueVars
<1>9. Ordered(WritesOf(ops', mem', phase'), AddressOf(ops', mem'), written', to)
  BY <1>7, <1>8
<1> QED
  BY <1>1, <1>2, <1>9 DEF OrderInv, NextPage, Pushed, Others, queueVars, callVars

LEMMA TreatEraseOrder ==
  ASSUME IInv, OrderInv, ~broken, TreatErase
  PROVE  OrderInv'
<1>1. /\ ops # <<>> /\ op.kind = "erase"
      /\ mem' = [mem EXCEPT ![Head(ops)].kind = "erased"]
      /\ UNCHANGED <<Others, state, total, current, written, ops, cur, phase, callVars, spoiled, broken>>
  BY DEF TreatErase, Take
<1>2. PICK h : h = Head(ops)
  OBVIOUS
<1>3. h \in Node /\ mem \in [Node -> Op] /\ mem[h].kind = "erase" /\ cur # h
  <2>1. Head(ops) \in Node
    BY <1>1, HeadIs
  <2>2. cur # NoNode => mem[cur].kind = "write"
    BY DEF IInv, PostedInv
  <2> QED
    BY <2>1, <2>2, <1>1, <1>2, NodeFacts DEF IInv, TypeOK, op
<1>4. /\ \A n \in Node : n # h => mem'[n] = mem[n]
      /\ mem'[h].kind = "erased" /\ mem'[h].addr = mem[h].addr
  BY <1>1, <1>2, <1>3 DEF Op
<1>5. \A j \in DOMAIN ops : ops[j] \in Node
  BY WritesTyped
<1>6. WritesOf(ops', mem', phase') = WritesOf(ops, mem, phase)
  BY <1>1, <1>3, <1>4, <1>5 DEF WritesOf
<1>7. \A j \in WritesOf(ops, mem, phase) : AddressOf(ops', mem')[j] = AddressOf(ops, mem)[j]
  BY <1>1, <1>4, <1>5 DEF WritesOf, AddressOf
<1>8. cur # NoNode => mem'[cur] = mem[cur]
  BY <1>3, <1>4 DEF IInv, TypeOK
<1> QED
  BY <1>1, <1>6, <1>7, <1>8, KeptOrder DEF Others, callVars, Pushed

LEMMA TreatErasedOrder ==
  ASSUME IInv, OrderInv, ~broken, TreatErased, IInv'
  PROVE  OrderInv'
<1>1. /\ ops # <<>> /\ op.kind = "erased" /\ phase' = "finish"
      /\ UNCHANGED <<Others, callVars, spoiled>>
  BY DEF TreatErased, Take
<1>2. CASE UNCHANGED <<imageVars, queueVars, broken>>
  <2>1. mem[ops[1]].kind # "write"
    <3>1. PICK o : o = ops
      OBVIOUS
    <3>2. o \in Seq(Node) /\ o # <<>>
      BY <3>1, <1>1 DEF IInv, TypeOK
    <3>3. Head(o) = o[1]
      BY <3>2, TailIs
    <3> QED
      BY <3>1, <3>3, <1>1 DEF op
  <2>2. WritesOf(ops', mem', phase') = WritesOf(ops, mem, phase)
    BY <1>1, <1>2, <2>1 DEF WritesOf, queueVars
  <2>3. \A j \in WritesOf(ops, mem, phase) : AddressOf(ops', mem')[j] = AddressOf(ops, mem)[j]
    BY <1>2 DEF queueVars
  <2>4. /\ UNCHANGED <<mode, cur, written, spoiled, broken>> /\ Pushed' = Pushed
        /\ (cur # NoNode => mem'[cur] = mem[cur]) /\ UNCHANGED <<state, total, call>>
    BY <1>1, <1>2 DEF imageVars, queueVars, Others, callVars, Pushed
  <2> QED
    BY <2>2, <2>3, <2>4, KeptOrder
<1>3. CASE Cancel("permanent")
  <2>1. state' = "permanent" /\ ops' = <<>> /\ cur' = NoNode
    BY <1>3, CancelEffect
  <2> QED
    BY <2>1, EmptiedOrder
<1> QED
  BY <1>2, <1>3 DEF TreatErased

LEMMA FinishOrder ==
  ASSUME IInv, OrderInv, ~broken, Finish
  PROVE  OrderInv'
<1>1. /\ phase = "finish" /\ ops' = Tail(ops) /\ mem' = [mem EXCEPT ![doing] = NoOp] /\ phase' = "take"
      /\ ops # <<>> /\ doing = Head(ops)
      /\ UNCHANGED <<Others, imageVars, cur, callVars, spoiled, broken>>
  BY DEF Finish, IInv, HeadTreated
<1> SUFFICES ASSUME ~spoiled, mode.queued
             PROVE  OrderInv'
  BY <1>1 DEF OrderInv, Others
<1>2. PICK to \in Nat : /\ Ordered(WritesOf(ops, mem, phase), AddressOf(ops, mem), written, to)
                        /\ state = "acquiring" /\ call \in {"ready", "resume", "end"} => to = NextPage
                        /\ state = "acquiring" /\ call = "commit" => total <= to
  BY DEF OrderInv
<1>3. PICK o : o = ops
  OBVIOUS
<1>4. PICK g : g = Tail(o)
  OBVIOUS
<1>5. PICK h : h = Head(o)
  OBVIOUS
<1>6. PICK m : m = mem'
  OBVIOUS
<1>7. o \in Seq(Node) /\ o # <<>> /\ Places(free, o, cur)
  BY <1>1, <1>3 DEF IInv, TypeOK, PoolInv
<1>8. /\ Len(o) \in Nat \ {0} /\ h = o[1] /\ h \in Node /\ g \in Seq(Node)
      /\ Len(g) = Len(o) - 1 /\ \A i \in 1 .. Len(g) : g[i] = o[i + 1]
  BY <1>4, <1>5, <1>7, TailIs
<1>9. DOMAIN g = 1 .. Len(g) /\ DOMAIN o = 1 .. Len(o) /\ \A j \in DOMAIN o : o[j] \in Node
  BY <1>7, <1>8, LenProperties, ElementOfSeq
<1>10. \A n \in Node : n # h => m[n] = mem[n]
  BY <1>1, <1>3, <1>5, <1>6, <1>8 DEF IInv, TypeOK
<1>11. \A j \in DOMAIN o : j # 1 => o[j] # h
  BY <1>7, <1>8, <1>9 DEF Places
<1>12. \A j \in DOMAIN g : j + 1 \in DOMAIN o /\ g[j] = o[j + 1] /\ m[g[j]] = mem[o[j + 1]]
  BY <1>8, <1>9, <1>10, <1>11
<1>13. PICK W : W = WritesOf(o, mem, "finish")
  OBVIOUS
<1>14. PICK V : V = WritesOf(g, m, "take")
  OBVIOUS
<1>15. PICK A : A = AddressOf(o, mem)
  OBVIOUS
<1>16. PICK B : B = AddressOf(g, m)
  OBVIOUS
<1>17. PICK w : w = written
  OBVIOUS
<1>18. /\ W \in SUBSET (Nat \ {0}) /\ V \in SUBSET (Nat \ {0}) /\ 1 \notin W
  BY <1>8, <1>9, <1>13, <1>14 DEF WritesOf
<1>19. ASSUME NEW j \in Nat \ {0}
       PROVE  j \in V <=> j + 1 \in W
  <2>1. j \in V <=> j \in DOMAIN g /\ m[g[j]].kind = "write"
    BY <1>14 DEF WritesOf
  <2>2. j + 1 \in W <=> j + 1 \in DOMAIN o /\ mem[o[j + 1]].kind = "write"
    BY <1>13 DEF WritesOf
  <2>3. j \in DOMAIN g <=> j + 1 \in DOMAIN o
    BY <1>8, <1>9
  <2> QED
    BY <2>1, <2>2, <2>3, <1>12
<1>20. ASSUME NEW j \in V
       PROVE  B[j] = A[j + 1]
  <2>1. j \in DOMAIN g
    BY <1>14 DEF WritesOf
  <2>2. B[j] = m[g[j]].addr
    BY <2>1, <1>16 DEF AddressOf
  <2>3. A[j + 1] = mem[o[j + 1]].addr
    BY <2>1, <1>12, <1>15 DEF AddressOf
  <2> QED
    BY <2>1, <2>2, <2>3, <1>12
<1>21. Ordered(W, A, w, to)
  BY <1>1, <1>2, <1>3, <1>13, <1>15, <1>17
<1>22. Ordered(V, B, w, to)
  BY <1>18, <1>19, <1>20, <1>21, OrderedShift
<1>23. Ordered(WritesOf(ops', mem', phase'), AddressOf(ops', mem'), written', to)
  <2>1. ops' = g /\ mem' = m /\ phase' = "take" /\ written' = w
    BY <1>1, <1>3, <1>4, <1>6, <1>17 DEF imageVars
  <2> QED
    BY <2>1, <1>14, <1>16, <1>22
<1>24. cur # NoNode => mem'[cur] = mem[cur]
  <2>1. cur # h /\ (cur # NoNode => cur \in Node)
    <3>1. 1 \in DOMAIN o
      BY <1>8, <1>9
    <3> QED
      BY <3>1, <1>7, <1>8 DEF Places, IInv, TypeOK
  <2> QED
    BY <2>1, <1>6, <1>10
<1>25. NextPage' = NextPage /\ (cur' # NoNode => mem'[cur'].addr + Len(mem'[cur'].data) = Pushed')
  BY <1>1, <1>24 DEF NextPage, OrderInv, Pushed, imageVars, callVars
<1> QED
  BY <1>1, <1>2, <1>23, <1>25 DEF OrderInv, imageVars, callVars
(* With operations made at once nothing is posted.                          *)
LEMMA DirectOrder ==
  ASSUME ~broken, ~mode.queued, UNCHANGED <<mode, broken>>
  PROVE  OrderInv'
BY DEF OrderInv

LEMMA HeadRoomOrder ==
  ASSUME IInv, OrderInv, ~broken, NEW n \in Windows, NEW fault \in Faults, HeadRoom(n, fault)
  PROVE  OrderInv'
<1>1. /\ call = "ready" /\ state = "acquiring"
      /\ HeadRoomNow(n, fault) \/ HeadRoomPosted(n)
      /\ UNCHANGED <<mode, state, current, written, workVars, spoiled, broken>>
  BY DEF HeadRoom
<1>2. CASE HeadRoomNow(n, fault)
  BY <1>1, <1>2, DirectOrder DEF HeadRoomNow
<1>3. CASE HeadRoomPosted(n) /\ free = <<>>
  <2>1. UNCHANGED <<queueVars, callVars>>
    BY <1>3 DEF HeadRoomPosted
  <2> QED
    BY <1>1, <2>1, SameOrder DEF queueVars, workVars, callVars, Pushed
<1>4. CASE HeadRoomPosted(n) /\ free # <<>>
  <2>1. PICK e : e = [NoOp EXCEPT !.kind = "erase", !.addr = erased, !.size = ToErase(n)]
    OBVIOUS
  <2>2. /\ mem' = [mem EXCEPT ![Head(free)] = e]
        /\ ops' = Append(ops, Head(free))
        /\ UNCHANGED <<cur, len>>
    BY <1>4, <2>1 DEF HeadRoomPosted
  <2>3. e.kind = "erase"
    BY <2>1 DEF NoOp
  <2>4. PICK f : f = free
    OBVIOUS
  <2>5. PICK o : o = ops
    OBVIOUS
  <2>6. PICK h : h = Head(f)
    OBVIOUS
  <2>7. PICK p : p = Append(o, h)
    OBVIOUS
  <2>8. o \in Seq(Node) /\ f \in Seq(Node) /\ Places(f, o, cur) /\ f # <<>>
    BY <1>4, <2>4, <2>5 DEF IInv, TypeOK, PoolInv
  <2>9. Len(f) \in Nat \ {0} /\ h = f[1] /\ h \in Node /\ 1 \in DOMAIN f
    BY <2>6, <2>8, TailIs, LenProperties
  <2>10. /\ p \in Seq(Node) /\ Len(o) \in Nat /\ Len(p) = Len(o) + 1
         /\ \A i \in 1 .. Len(p) : p[i] = IF i <= Len(o) THEN o[i] ELSE h
    BY <2>7, <2>8, <2>9, AppendIs
  <2>11. DOMAIN p = 1 .. Len(p) /\ DOMAIN o = 1 .. Len(o) /\ \A j \in DOMAIN o : o[j] \in Node
    BY <2>8, <2>10, LenProperties, ElementOfSeq
  <2>12. h # cur /\ \A j \in DOMAIN o : o[j] # h
    BY <2>8, <2>9 DEF Places
  <2>13. PICK m : m = mem'
    OBVIOUS
  <2>14. m[h].kind = "erase" /\ \A x \in Node : x # h => m[x] = mem[x]
    BY <2>2, <2>3, <2>4, <2>6, <2>9, <2>13 DEF IInv, TypeOK
  <2>15. \A j \in DOMAIN o : j \in DOMAIN p /\ p[j] = o[j] /\ m[p[j]] = mem[o[j]]
    BY <2>10, <2>11, <2>12, <2>14
  <2>16. \A j \in DOMAIN p : j \in DOMAIN o \/ m[p[j]].kind = "erase"
    BY <2>10, <2>11, <2>14
  <2>17. WritesOf(p, m, phase) = WritesOf(o, mem, phase)
    BY <2>15, <2>16 DEF WritesOf
  <2>18. \A j \in WritesOf(o, mem, phase) : AddressOf(p, m)[j] = AddressOf(o, mem)[j]
    BY <2>15 DEF WritesOf, AddressOf
  <2>19. cur # NoNode => mem'[cur] = mem[cur]
    BY <2>12, <2>13, <2>14 DEF IInv, TypeOK
  <2>20. ops' = p /\ mem' = m /\ phase' = phase
    BY <1>1, <2>2, <2>4, <2>5, <2>6, <2>7, <2>13 DEF workVars
  <2>21. WritesOf(ops', mem', phase') = WritesOf(ops, mem, phase)
    BY <2>5, <2>17, <2>20
  <2>22. \A j \in WritesOf(ops, mem, phase) : AddressOf(ops', mem')[j] = AddressOf(ops, mem)[j]
    BY <2>5, <2>18, <2>20
  <2>23. call' # "commit"
    BY <1>1, <1>4 DEF HeadRoomPosted
  <2> QED
    BY <1>1, <2>2, <2>19, <2>21, <2>22, <2>23, KeptOrder DEF Pushed
<1> QED
  BY <1>1, <1>2, <1>3, <1>4

LEMMA CommitOrder ==
  ASSUME IInv, OrderInv, ~broken, NEW fault \in Faults, Commit(fault)
  PROVE  OrderInv'
<1>1. /\ call = "ready" /\ state = "acquiring" /\ current = total
      /\ (fault # NoFault => ~mode.queued) /\ call' = "commit"
      /\ spoiled' = (spoiled \/ fault # NoFault)
      /\ UNCHANGED <<mode, imageVars, mem, workVars, len, broken>>
  BY DEF Commit
<1>2. CASE ~mode.queued
  BY <1>1, <1>2, DirectOrder
<1>3. CASE mode.queued /\ cur = NoNode
  <2>1. ops' = ops /\ cur' = cur
    BY <1>3 DEF Commit
  <2>2. spoiled' = spoiled
    BY <1>1, <1>3 DEF IInv, TypeOK
  <2> SUFFICES ASSUME ~spoiled
               PROVE  OrderInv'
    BY <1>1, <2>2 DEF OrderInv
  <2>3. PICK to \in Nat : /\ Ordered(WritesOf(ops, mem, phase), AddressOf(ops, mem), written, to)
                          /\ to = NextPage
    BY <1>1, <1>3 DEF OrderInv
  <2>4. to = total
    <3>1. len = 0 /\ current \in Nat
      BY <1>1, Geometry DEF IInv, LengthInv, TypeOK
    <3> QED
      BY <3>1, <2>3, <1>1, <1>3 DEF NextPage, Pushed
  <2>5. Ordered(WritesOf(ops', mem', phase'), AddressOf(ops', mem'), written', to) /\ total' <= to
    <3>1. total \in Nat
      BY Geometry DEF IInv, TypeOK
    <3> QED
      BY <3>1, <1>1, <2>1, <2>3, <2>4 DEF imageVars, workVars
  <2> QED
    BY <1>1, <1>3, <2>1, <2>5 DEF OrderInv
<1>4. CASE mode.queued /\ cur # NoNode
  <2> SUFFICES ASSUME ~spoiled
               PROVE  OrderInv'
    BY <1>1 DEF OrderInv
  <2>1. ops' = Append(ops, cur) /\ cur' = NoNode
    BY <1>4 DEF Commit
  <2>2. PICK to \in Nat : /\ Ordered(WritesOf(ops, mem, phase), AddressOf(ops, mem), written, to)
                          /\ state = "acquiring" /\ call \in {"ready", "resume", "end"} => to = NextPage
                          /\ state = "acquiring" /\ call = "commit" => total <= to
    BY <1>4 DEF OrderInv
  <2>3. to = mem[cur].addr /\ mem[cur].kind = "write"
    BY <2>2, <1>1, <1>4 DEF NextPage, IInv, PostedInv
  <2>4. PICK c : c = cur
    OBVIOUS
  <2>5. PICK o : o = ops
    OBVIOUS
  <2>6. PICK p : p = Append(o, c)
    OBVIOUS
  <2>7. o \in Seq(Node) /\ c \in Node
    BY <1>4, <2>4, <2>5 DEF IInv, TypeOK
  <2>8. /\ p \in Seq(Node) /\ Len(o) \in Nat /\ Len(p) = Len(o) + 1
        /\ \A i \in 1 .. Len(p) : p[i] = IF i <= Len(o) THEN o[i] ELSE c
    BY <2>6, <2>7, AppendIs
  <2>9. DOMAIN p = 1 .. Len(p) /\ DOMAIN o = 1 .. Len(o)
    BY <2>7, <2>8, LenProperties
  <2>10. PICK W : W = WritesOf(o, mem, phase)
    OBVIOUS
  <2>11. PICK A : A = AddressOf(o, mem)
    OBVIOUS
  <2>12. PICK B : B = AddressOf(p, mem)
    OBVIOUS
  <2>13. PICK w : w = written
    OBVIOUS
  <2>14. PICK L : L = Len(o)
    OBVIOUS
  <2>15. W \in SUBSET (1 .. L) /\ L \in Nat /\ Ordered(W, A, w, to)
    BY <2>2, <2>5, <2>8, <2>10, <2>11, <2>13, <2>14, WritesTyped
  <2>16. \A j \in W : B[j] = A[j]
    BY <2>8, <2>9, <2>10, <2>11, <2>12 DEF WritesOf, AddressOf
  <2>17. B[L + 1] = to + (1 - 1) * Page
    <3>1. L + 1 \in DOMAIN p /\ p[L + 1] = c
      BY <2>8, <2>9, <2>14
    <3>2. B[L + 1] = mem[c].addr
      BY <3>1, <2>12 DEF AddressOf
    <3> QED
      BY <3>2, <2>3, <2>4, Geometry
  <2>18. Ordered(W \cup (L + 1 .. L + 1), B, w, to + 1 * Page)
    <3>1. \A j \in 1 .. 1 : B[L + j] = to + (j - 1) * Page
      BY <2>17
    <3> QED
      BY <3>1, <2>15, <2>16, OrderedMore
  <2>19. CASE ops # <<>> \/ phase = "take"
    <3>1. WritesOf(p, mem, phase) = W \cup (L + 1 .. L + 1)
      <4>1. \A j \in 1 .. L + 1 : j \in 1 .. L \/ j = L + 1
        BY <2>15
      <4>2. L + 1 = 1 => phase # "finish"
        <5>1. ops # <<>> => L # 0
          BY <2>5, <2>7, <2>14, TailIs
        <5> QED
          BY <5>1, <2>15, <2>19
      <4>3. \A j \in 1 .. L : p[j] = o[j]
        BY <2>8, <2>14
      <4>4. p[L + 1] = c /\ mem[c].kind = "write" /\ DOMAIN p = 1 .. L + 1 /\ DOMAIN o = 1 .. L
        BY <2>3, <2>4, <2>8, <2>9, <2>14
      <4>5. \A j : j \in WritesOf(p, mem, phase) <=> j \in W \/ j = L + 1
        BY <4>1, <4>2, <4>3, <4>4, <2>10, <2>15 DEF WritesOf
      <4>6. L + 1 .. L + 1 = {L + 1}
        BY <2>15
      <4> QED
        BY <4>5, <4>6
    <3>2. Ordered(WritesOf(ops', mem', phase'), AddressOf(ops', mem'), written', to + Page)
      <4>1. ops' = p /\ mem' = mem /\ phase' = phase /\ written' = w
        BY <1>1, <2>1, <2>4, <2>5, <2>6, <2>13 DEF workVars, imageVars
      <4>2. to + 1 * Page = to + Page
        BY Geometry
      <4> QED
        BY <4>1, <4>2, <3>1, <2>12, <2>18
    <3>3. to + Page \in Nat /\ total <= to + Page
      <4>1. len = 0 /\ current \in Nat /\ Len(mem[cur].data) \in 1 .. Page - 1
        BY <1>1, <1>4, Geometry DEF IInv, LengthInv, PostedInv, TypeOK
      <4>2. mem[cur].addr + Len(mem[cur].data) = current + len
        BY <1>4 DEF OrderInv, Pushed
      <4> QED
        BY <4>1, <4>2, <1>1, <2>3, Geometry, SMTT(30)
    <3>4. total' = total
      BY <1>1 DEF imageVars
    <3> QED
      BY <3>2, <3>3, <3>4, <1>1, <2>1 DEF OrderInv
  <2>20. ops # <<>> \/ phase = "take"
    BY DEF IInv, TypeOK, HeadTreated
  <2> QED
    BY <2>19, <2>20
<1> QED
  BY <1>2, <1>3, <1>4

(* What was posted: the pages of the text, which begins where the page being *)
(* filled does, stand behind what was queued, and the rest is being filled.  *)
Posted(n, text, full, to) ==
  /\ full \in Nat /\ to \in Nat /\ to = NextPage
  /\ ops' \in Seq(Node) /\ Len(ops') = Len(ops) + full
  /\ \A j \in 1 .. Len(ops) : ops'[j] = ops[j] /\ mem'[ops[j]] = mem[ops[j]]
  /\ \A j \in 1 .. full : Holds(mem'[ops'[Len(ops) + j]], to + (j - 1) * Page, text, (j - 1) * Page, Page)
  /\ full * Page <= Len(text) /\ (cur' = NoNode => Len(text) = full * Page)
  /\ cur' # NoNode => Holds(mem'[cur'], to + full * Page, text, full * Page, Len(text) - full * Page)
  /\ TextOf(text, n) /\ to + Len(Begun) = current
  /\ Pushed = current /\ Pushed' = current + n /\ call' # "commit"

LEMMA PostPages ==
  ASSUME IInv, OrderInv, ~broken, NEW n \in Chunks, NEW fault \in Faults,
         PushImageChunk(n, fault), Post(n), ~spoiled'
  PROVE  \E text, full, to : Posted(n, text, full, to)
<1>1. /\ call = "ready" /\ state = "acquiring"
      /\ UNCHANGED <<mode, state, workVars, broken>>
  BY DEF PushImageChunk
<1>2. n \in Nat \ {0} /\ current \in Nat /\ len = 0
  BY <1>1, ConfigAssumption, Geometry DEF IInv, TypeOK, LengthInv
<1>3. mode.queued /\ UNCHANGED <<written, dev>>
  BY DEF Post
<1>4. PICK F, text, end, full, used, k : PostEffect(n, F, text, end, full, used, k)
  BY <1>1, <1>2, PostHas
<1>5. ~spoiled /\ end = Len(text)
  BY <1>4 DEF PostEffect
<1>6. Pushed = current /\ Pushed' = current + n
  <2>1. PICK ok : /\ IF ok /\ ~mode.idle /\ ops' # <<>>
                     THEN call' = "resume" /\ len' = n /\ UNCHANGED current
                     ELSE current' = (IF ok THEN current + n ELSE current) /\ UNCHANGED callVars
                  /\ spoiled' = (spoiled \/ ~ok)
    <3>1. PICK b : b = (Len(Begun \o Chunk(n)) <= Page * Len(Fillable))
      OBVIOUS
    <3> QED
      BY <3>1, Zenon DEF Post
  <2>2. \/ len' = n /\ current' = current
        \/ current' = current + n /\ len' = len
    BY <2>1 DEF callVars
  <2> QED
    BY <2>2, <1>2 DEF Pushed
<1>7. PICK to \in Nat : /\ Ordered(WritesOf(ops, mem, phase), AddressOf(ops, mem), written, to)
                        /\ to = NextPage
  BY <1>1, <1>3, <1>5 DEF OrderInv
<1>8. PICK o : o = ops
  OBVIOUS
<1>9. PICK p : p = ops'
  OBVIOUS
<1>10. PICK m : m = mem'
  OBVIOUS
<1>11. PICK L : L = Len(o)
  OBVIOUS
<1>12. /\ full \in Nat /\ used \in full .. full + 1 /\ used <= Len(F)
       /\ p \in Seq(Node) /\ Len(p) = L + full
       /\ \A i \in 1 .. Len(p) : p[i] = IF i <= L THEN o[i] ELSE F[i - L]
       /\ cur' = IF used = full THEN NoNode ELSE F[used]
  BY <1>4, <1>8, <1>9, <1>11 DEF PostEffect, Dealt
<1>13. /\ Len(text) = Len(Begun) + n
       /\ end \in Nat /\ (used = full => end = full * Page)
       /\ (used = 0 => cur = NoNode)
  <2>1. Len(text) \in Nat
    BY <1>4, LenProperties DEF PostEffect, TextOf
  <2> QED
    BY <2>1, <1>4 DEF PostEffect, TextOf, Cut
<1>14. /\ o \in Seq(Node) /\ L \in Nat /\ DOMAIN o = 1 .. L /\ DOMAIN p = 1 .. L + full
       /\ F \in Seq(Node) /\ Len(F) \in Nat /\ \A i \in 1 .. Len(F) : F[i] \in Node
  <2>1. o \in Seq(Node) /\ F \in Seq(Node)
    BY <1>4, <1>8 DEF IInv, TypeOK, PostEffect, Lists
  <2> QED
    BY <2>1, <1>11, <1>12, LenProperties, ElementOfSeq
<1>15. Begun \in Seq(Nat \X Nat) /\ Len(Begun) \in 0 .. Page - 1
       /\ (cur # NoNode => Begun = mem[cur].data) /\ (cur = NoNode => Len(Begun) = 0)
  BY BegunFacts
<1>16. to + Len(Begun) = current
  <2>1. CASE cur = NoNode
    BY <2>1, <1>2, <1>6, <1>7, <1>15 DEF NextPage
  <2>2. CASE cur # NoNode
    <3>1. mem[cur].addr + Len(mem[cur].data) = Pushed
      BY <2>2, <1>3, <1>5 DEF OrderInv
    <3> QED
      BY <2>2, <3>1, <1>6, <1>7, <1>15 DEF NextPage
  <2> QED
    BY <2>1, <2>2
<1>17. ASSUME NEW j \in 1 .. used
       PROVE  Holds(m[F[j]], to + (j - 1) * Page, text, (j - 1) * Page, IF j <= full THEN Page ELSE end - full * Page)
  <2>1. PICK x : x = m[F[j]]
    OBVIOUS
  <2>2. PICK a : a = (j - 1) * Page
    OBVIOUS
  <2>3. PICK l : l = IF j <= full THEN Page ELSE end - full * Page
    OBVIOUS
  <2>4. Holds(x, IF j = 1 /\ cur # NoNode THEN mem[cur].addr ELSE current - Len(Begun) + a, text, a, l)
    BY <1>4, <1>10, <2>1, <2>2, <2>3 DEF PostEffect, Taken
  <2>5. (IF j = 1 /\ cur # NoNode THEN mem[cur].addr ELSE current - Len(Begun) + a) = to + a
    <3>1. CASE j = 1 /\ cur # NoNode
      <4>1. a = 0
        BY <3>1, <2>2, Geometry
      <4> QED
        BY <3>1, <4>1, <1>7 DEF NextPage
    <3>2. CASE ~(j = 1 /\ cur # NoNode)
      <4>1. a \in Int /\ Len(Begun) \in Nat
        BY <2>2, <1>12, <1>15, Geometry
      <4> QED
        BY <3>2, <4>1, <1>2, <1>16
    <3> QED
      BY <3>1, <3>2
  <2> QED
    BY <2>1, <2>2, <2>3, <2>4, <2>5
<1>18. ASSUME NEW j \in 1 .. L
       PROVE  p[j] = o[j] /\ m[o[j]] = mem[o[j]]
  BY <1>1, <1>3, <1>4, <1>8, <1>9, <1>10, <1>11, PostQueue
<1>19. ASSUME NEW j \in 1 .. full
       PROVE  Holds(m[p[L + j]], to + (j - 1) * Page, text, (j - 1) * Page, Page)
  <2>1. PICK i : i = L + j
    OBVIOUS
  <2>2. i \in 1 .. Len(p) /\ ~(i <= L) /\ i - L = j
    BY <2>1, <1>12, <1>14
  <2>3. p[i] = F[j]
    BY <2>2, <1>12
  <2>4. j \in 1 .. used /\ j <= full
    BY <1>12
  <2> QED
    BY <2>1, <2>3, <2>4, <1>17
<1>20. ASSUME cur' # NoNode
       PROVE  Holds(m[cur'], to + full * Page, text, full * Page, end - full * Page)
  <2>1. used = full + 1 /\ used \in 1 .. used /\ used - 1 = full /\ ~(used <= full) /\ cur' = F[used]
    BY <1>12, <1>20
  <2>2. Holds(m[F[used]], to + (used - 1) * Page, text, (used - 1) * Page, end - full * Page)
    BY <2>1, <1>17
  <2> QED
    BY <2>1, <2>2
<1>21. cur' = NoNode => end = full * Page
  <2>1. ASSUME used # full
        PROVE  cur' # NoNode
    <3>1. used \in 1 .. Len(F) /\ cur' = F[used]
      BY <2>1, <1>12, <1>14
    <3> QED
      BY <3>1, <1>14, NodeFacts
  <2> QED
    BY <2>1, <1>13
<1>22. full * Page <= end
  BY <1>4 DEF PostEffect, Cut
<1>23. call' # "commit"
  <2>1. PICK ok : IF ok /\ ~mode.idle /\ ops' # <<>>
                  THEN call' = "resume" /\ len' = n /\ UNCHANGED current
                  ELSE current' = (IF ok THEN current + n ELSE current) /\ UNCHANGED callVars
    <3>1. PICK b : b = (Len(Begun \o Chunk(n)) <= Page * Len(Fillable))
      OBVIOUS
    <3> QED
      BY <3>1, Zenon DEF Post
  <2> QED
    BY <2>1, <1>1 DEF callVars
<1>24. TextOf(text, n)
  BY <1>4 DEF PostEffect
<1>25. Posted(n, text, full, to)
  <2>1. /\ full \in Nat /\ to \in Nat /\ to = NextPage
        /\ p \in Seq(Node) /\ Len(p) = L + full /\ call' # "commit"
    BY <1>7, <1>12, <1>23
  <2>2. \A j \in 1 .. full : Holds(mem'[ops'[Len(ops) + j]], to + (j - 1) * Page, text, (j - 1) * Page, Page)
    BY <1>8, <1>9, <1>10, <1>11, <1>19
  <2>3. \A j \in 1 .. Len(ops) : ops'[j] = ops[j] /\ mem'[ops[j]] = mem[ops[j]]
    BY <1>8, <1>9, <1>10, <1>11, <1>18
  <2>4. cur' # NoNode => Holds(mem'[cur'], to + full * Page, text, full * Page, Len(text) - full * Page)
    BY <1>5, <1>10, <1>20
  <2>5. full * Page <= Len(text) /\ (cur' = NoNode => Len(text) = full * Page)
    BY <1>5, <1>21, <1>22
  <2> QED
    BY <2>1, <2>2, <2>3, <2>4, <2>5, <1>6, <1>8, <1>9, <1>11, <1>16, <1>24 DEF Posted
<1> QED
  BY <1>25

LEMMA PostOrder ==
  ASSUME IInv, OrderInv, ~broken, NEW n \in Chunks, NEW fault \in Faults,
         PushImageChunk(n, fault), Post(n)
  PROVE  OrderInv'
<1>1. /\ call = "ready" /\ state = "acquiring" /\ mode.queued
      /\ UNCHANGED <<mode, state, workVars, broken, written>> /\ (spoiled => spoiled')
  <2>1. PICK ok : spoiled' = (spoiled \/ ~ok)
    <3>1. PICK b : b = (Len(Begun \o Chunk(n)) <= Page * Len(Fillable))
      OBVIOUS
    <3> QED
      BY <3>1, Zenon DEF Post
  <2> QED
    BY <2>1 DEF PushImageChunk, Post, IInv, TypeOK
<1> SUFFICES ASSUME ~spoiled'
             PROVE  OrderInv'
  BY <1>1 DEF OrderInv
<1>2. PICK text, full, to : Posted(n, text, full, to)
  BY PostPages
<1>3. PICK to1 \in Nat : Ordered(WritesOf(ops, mem, phase), AddressOf(ops, mem), written, to1) /\ to1 = NextPage
  BY <1>1 DEF OrderInv
<1>4. to = to1
  BY <1>2, <1>3 DEF Posted
<1>5. PICK o : o = ops
  OBVIOUS
<1>6. PICK p : p = ops'
  OBVIOUS
<1>7. PICK m : m = mem'
  OBVIOUS
<1>8. PICK L : L = Len(o)
  OBVIOUS
<1>9. full \in Nat /\ to \in Nat /\ p \in Seq(Node) /\ Len(p) = L + full
  BY <1>2, <1>5, <1>6, <1>8 DEF Posted
<1>10. o \in Seq(Node) /\ L \in Nat /\ DOMAIN o = 1 .. L /\ DOMAIN p = 1 .. L + full
  <2>1. o \in Seq(Node)
    BY <1>5 DEF IInv, TypeOK
  <2> QED
    BY <2>1, <1>8, <1>9, LenProperties
<1>11. \A j \in 1 .. L : p[j] = o[j] /\ m[o[j]] = mem[o[j]]
  BY <1>2, <1>5, <1>6, <1>7, <1>8 DEF Posted
<1>12. \A j \in 1 .. full : m[p[L + j]].kind = "write" /\ m[p[L + j]].addr = to + (j - 1) * Page
  BY <1>2, <1>5, <1>6, <1>7, <1>8 DEF Posted, Holds
<1>13. PICK W : W = WritesOf(o, mem, phase)
  OBVIOUS
<1>14. PICK A : A = AddressOf(o, mem)
  OBVIOUS
<1>15. PICK B : B = AddressOf(p, m)
  OBVIOUS
<1>16. PICK w : w = written
  OBVIOUS
<1>17. W \in SUBSET (1 .. L) /\ Ordered(W, A, w, to)
  BY <1>3, <1>4, <1>5, <1>8, <1>13, <1>14, <1>16, WritesTyped
<1>18. \A j \in W : B[j] = A[j]
  <2>1. ASSUME NEW j \in 1 .. L
        PROVE  B[j] = A[j]
    <3>1. j \in DOMAIN o /\ j \in DOMAIN p
      BY <1>9, <1>10
    <3>2. B[j] = m[p[j]].addr /\ A[j] = mem[o[j]].addr
      BY <3>1, <1>14, <1>15 DEF AddressOf
    <3> QED
      BY <3>2, <1>11
  <2> QED
    BY <2>1, <1>17
<1>19. \A j \in 1 .. full : B[L + j] = to + (j - 1) * Page
  <2>1. \A j \in 1 .. full : L + j \in DOMAIN p
    BY <1>9, <1>10
  <2> QED
    BY <2>1, <1>12, <1>15 DEF AddressOf
<1>20. Ordered(W \cup (L + 1 .. L + full), B, w, to + full * Page)
  BY <1>9, <1>10, <1>17, <1>18, <1>19, OrderedMore
<1>21. WritesOf(p, m, phase) = W \cup (L + 1 .. L + full)
  <2>1. L = 0 => phase # "finish"
    <3>1. phase = "finish" => o # <<>>
      BY <1>5 DEF IInv, HeadTreated
    <3>2. o # <<>> => L # 0
      BY <1>8, <1>10, TailIs
    <3> QED
      BY <3>1, <3>2
  <2>2. ASSUME NEW j \in 1 .. L
        PROVE  j \in WritesOf(p, m, phase) <=> j \in W
    BY <1>9, <1>10, <1>11, <1>13 DEF WritesOf
  <2>3. ASSUME NEW j \in L + 1 .. L + full
        PROVE  j \in WritesOf(p, m, phase)
    <3>1. PICK i \in 1 .. full : i = j - L
      BY <1>9, <1>10
    <3>2. L + i = j /\ j \in DOMAIN p
      BY <3>1, <1>9, <1>10
    <3>3. m[p[j]].kind = "write"
      BY <3>1, <3>2, <1>12
    <3>4. j = 1 => phase # "finish"
      BY <2>1, <1>10
    <3> QED
      BY <3>2, <3>3, <3>4 DEF WritesOf
  <2>4. WritesOf(p, m, phase) \subseteq 1 .. L + full
    BY <1>10 DEF WritesOf
  <2>5. 1 .. L + full = (1 .. L) \cup (L + 1 .. L + full)
    BY <1>9, <1>10
  <2> QED
    BY <2>2, <2>3, <2>4, <2>5, <1>17
<1>22. PICK to2 : to2 = to + full * Page
  OBVIOUS
<1>23. full * Page \in Nat /\ to2 \in Nat
  BY <1>9, <1>22, Geometry
<1>24. Ordered(WritesOf(ops', mem', phase'), AddressOf(ops', mem'), written', to2)
  <2>1. ops' = p /\ mem' = m /\ phase' = phase /\ written' = w
    BY <1>1, <1>6, <1>7, <1>16 DEF workVars
  <2> QED
    BY <2>1, <1>15, <1>20, <1>21, <1>22
<1>25. to2 = NextPage' /\ (cur' # NoNode => mem'[cur'].addr + Len(mem'[cur'].data) = Pushed')
  <2>1. PICK s : s = Len(text)
    OBVIOUS
  <2>2. to + s = Pushed' /\ s \in Nat
    <3>1. Len(Begun) \in Nat /\ current \in Nat /\ n \in Nat
      BY BegunFacts, ConfigAssumption, Geometry DEF IInv, TypeOK
    <3>2. s = Len(Begun) + n /\ to + Len(Begun) = current /\ Pushed' = current + n
      BY <1>2, <2>1 DEF Posted, TextOf
    <3> QED
      BY <3>1, <3>2, <1>9
  <2>3. CASE cur' = NoNode
    <3>1. s = full * Page
      BY <2>1, <2>3, <1>2 DEF Posted
    <3> QED
      BY <2>2, <2>3, <3>1, <1>22 DEF NextPage
  <2>4. CASE cur' # NoNode
    <3>1. mem'[cur'].addr = to2 /\ Len(mem'[cur'].data) = s - full * Page
      BY <2>1, <2>4, <1>2, <1>22 DEF Posted, Holds
    <3>2. PICK q \in Nat : q = full * Page
      BY <1>23
    <3> QED
      BY <2>2, <2>4, <3>1, <3>2, <1>9, <1>22 DEF NextPage
  <2> QED
    BY <2>3, <2>4
<1>26. call' # "commit"
  BY <1>2 DEF Posted
<1> QED
  BY <1>1, <1>23, <1>24, <1>25, <1>26 DEF OrderInv
LEMMA OrderInit == Init => OrderInv
<1> SUFFICES ASSUME Init
             PROVE  OrderInv
  OBVIOUS
<1>1. WritesOf(ops, mem, phase) = {}
  BY DEF Init, WritesOf
<1>2. PICK A : A = AddressOf(ops, mem)
  OBVIOUS
<1>3. Ordered({}, A, 0, 0)
  BY OrderedNone
<1>4. Ordered(WritesOf(ops, mem, phase), AddressOf(ops, mem), written, 0)
  BY <1>1, <1>2, <1>3 DEF Init
<1> QED
  BY <1>4 DEF Init, OrderInv

LEMMA OrderStep == IInv /\ OrderInv /\ [Next]_vars => OrderInv'
<1> SUFFICES ASSUME IInv, OrderInv, [Next]_vars
             PROVE  OrderInv'
  OBVIOUS
<1>0. IInv'
  BY StepKeeps
<1>1. CASE ~broken /\ Application
  <2>1. CASE CancelImage
    BY <1>0, <1>1, <2>1, CancelImageOrder
  <2>2. CASE Select
    BY <1>1, <2>2, QuietOrder
  <2>3. CASE \E n \in Lengths : StartImage(n)
    BY <1>0, <1>1, <2>3, StartImageOrder
  <2>4. CASE \E n \in Chunks, fault \in Faults : PushImageChunk(n, fault)
    <3>1. PICK n \in Chunks, fault \in Faults : PushImageChunk(n, fault)
      BY <2>4
    <3>2. CASE PushNow(n, fault)
      <4>1. ~mode.queued /\ UNCHANGED <<mode, broken>>
        BY <3>1, <3>2 DEF PushImageChunk, PushNow
      <4> QED
        BY <4>1, <1>1, DirectOrder
    <3>3. CASE Post(n)
      BY <1>1, <3>1, <3>3, PostOrder
    <3> QED
      BY <3>1, <3>2, <3>3 DEF PushImageChunk
  <2>5. CASE \E n \in Windows, fault \in Faults : HeadRoom(n, fault)
    BY <1>1, <2>5, HeadRoomOrder
  <2>6. CASE \E fault \in Faults : Commit(fault)
    BY <1>1, <2>6, CommitOrder
  <2> QED
    BY <1>1, <2>1, <2>2, <2>3, <2>4, <2>5, <2>6 DEF Application
<1>2. CASE ~broken /\ Calls
  BY <1>0, <1>2, QuietOrder, CommitDrainedOrder DEF Calls
<1>3. CASE ~broken /\ Worker
  BY <1>0, <1>3, FinishOrder, TreatErasedOrder, TreatEraseOrder, TreatWriteOrder, TreatFailsOrder DEF Worker
<1>4. CASE ~broken /\ Release
  BY <1>4, QuietOrder
<1>5. CASE ~broken /\ Reset
  BY <1>0, <1>5, ResetOrder
<1>6. CASE ~broken /\ \E who \in {"app", "idle"} : Resume(who)
  BY <1>6, QuietOrder
<1>7. CASE UNCHANGED vars
  <2>1. UNCHANGED <<mode, state, total, ops, mem, phase, cur, written, spoiled, broken, call, current, len>>
    BY <1>7 DEF vars, imageVars, queueVars, workVars, callVars
  <2>2. CASE broken
    BY <2>1, <2>2 DEF OrderInv
  <2>3. CASE ~broken
    BY <2>1, <2>3, SameOrder DEF Pushed
  <2> QED
    BY <2>2, <2>3
<1> QED
  BY <1>1, <1>2, <1>3, <1>4, <1>5, <1>6, <1>7 DEF Next

(* The pages posted are written one after the other, each where the last one*)
(* ended (OTA_TreatFlashOpWrite, the assert on StorageAddressWritten).      *)
THEOREM PagesFollow == Spec => []PagesInOrder
<1>1. ASSUME IInv, OrderInv
      PROVE  PagesInOrder
  <2> SUFFICES ASSUME phase = "take", ops # <<>>, op.kind = "write", ~spoiled
               PROVE  op.addr = written
    BY DEF PagesInOrder
  <2>1. ~broken /\ mode.queued
    BY <1>1, HeadIs DEF OrderInv
  <2>2. PICK to \in Nat : Ordered(WritesOf(ops, mem, phase), AddressOf(ops, mem), written, to)
    BY <1>1, <2>1 DEF OrderInv
  <2>3. PICK o : o = ops
    OBVIOUS
  <2>4. o \in Seq(Node) /\ o # <<>>
    BY <1>1, <2>3 DEF IInv, TypeOK
  <2>5. Len(o) \in Nat \ {0} /\ Head(o) = o[1] /\ DOMAIN o = 1 .. Len(o)
    BY <2>4, TailIs, LenProperties
  <2>6. PICK W : W = WritesOf(o, mem, phase)
    OBVIOUS
  <2>7. 1 \in W /\ \A k \in W : 1 <= k
    BY <2>3, <2>5, <2>6 DEF WritesOf, op
  <2>8. AddressOf(o, mem)[1] = written
    BY <2>2, <2>3, <2>6, <2>7 DEF Ordered
  <2> QED
    BY <2>3, <2>5, <2>8 DEF AddressOf, op
<1>2. Init => IInv /\ OrderInv
  BY InitHolds, OrderInit
<1>3. IInv /\ OrderInv /\ [Next]_vars => (IInv /\ OrderInv)'
  BY StepKeeps, OrderStep
<1> QED
  BY <1>1, <1>2, <1>3, PTL DEF Spec
=============================================================================
