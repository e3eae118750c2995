--------------------------- MODULE Services_proofs ----------------------------
(***************************************************************************)
(* Proofs about services of the framework: the MWS coexistence, for any    *)
(* protocols, priorities and limit of locks, and, each by itself, the      *)
(* acknowledged sends of FSCI, the calibration of the 32 kHz clock, the    *)
(* sensors, the hardware parameters, the files, the messages of the two    *)
(* cores and the random numbers, for any packets, tasks, users, files and  *)
(* values, and any bounds.                                                 *)
(***************************************************************************)
EXTENDS Mws, SequenceTheorems, FiniteSetTheorems, FunctionTheorems, TLAPS

(* Some variables (waiting, pc, constraint, got, call, kept, faults and     *)
(* failures) stand for those of several services, whose specifications are *)
(* never combined.                                                         *)
CONSTANTS MaxPackets, TxRetryCnt, MaxLost
VARIABLES current, txRetryCnt, ackReceived, frames, acks, got, acknowledged, lost, late
Acks == INSTANCE FsciAck

CONSTANTS MaxDrift, Target, Shift, Configs
VARIABLES error, drifting, radio, oscReady, osc32kUsed, osc32kSwitchPending, enable,
          hostLpConstraintCount, measureAvailable, ppm, ppmTargetReached, sampleNumber, sum,
          trigSampleNumber, sfa, pc
Clock == INSTANCE Sfc

CONSTANTS Tasks, Calls, Requests, Samples, MaxConstraint, NoOne
VARIABLES status, interval, timer, constraint, conversion, works, mutex, seen
Adc == INSTANCE Sensors

CONSTANTS Values, Legacy, Rsvd, NoSave, MaxFaults
VARIABLES sector, ram, loaded, call, want, saved, result, faults, kept
Hw == INSTANCE HwParam

CONSTANTS Users, FileNames, Texts, MaxCount
VARIABLES stored, mounted, initDone, user
Fs == INSTANCE Files

CONSTANTS Callers, Capacity, MaxPending, MaxFailures, NoCaller
VARIABLES toHost, pending, submitted, handling, wanted, failures, overtaken, toNbu, answered,
          answer, callPc, infoWanted, infoPc
Radio == INSTANCE Ics

CONSTANTS MaxRequests, MaxKey, Chunks, Bits
VARIABLES backend, init, seeded, need, requests, strong, key, work, lock, todo, read, given,
          entropy, disallow, clashed
Source == INSTANCE RngSource

(* mProtocolPriority has a number for each protocol, gMWS_None_c is none,  *)
(* and a protocol may lock the transceiver at least once.                  *)
Constants == /\ Priority \in [Protocols -> Int]
             /\ NoProtocol \notin Protocols
             /\ MaxLocks \in Nat \ {0}

(* The chain has every protocol once, and those of higher priority first.  *)
Chained(c) == /\ c \in Seq(Protocols)
              /\ \A i, j \in DOMAIN c : c[i] = c[j] => i = j
Sorted(c) == \A i, j \in DOMAIN c : i < j => Priority[c[i]] <= Priority[c[j]]

Typed == /\ active \in Registered \cup {NoProtocol}
         /\ lockCount \in -MaxLocks .. MaxLocks
         /\ held \in [Protocols -> 0 .. MaxLocks]
         /\ waiting \subseteq Registered
         /\ aborted \in BOOLEAN
         /\ abortPc \in [Aborters -> {"idle", "free", "count"}]
         /\ misled \subseteq Registered

(* The owner can give all it holds back without the count leaving its      *)
(* range, although a clearing may have made it smaller.                    *)
Returnable == active # NoProtocol => held[active] - lockCount <= MaxLocks

IInv == /\ Chained(chain) /\ Sorted(chain) /\ Typed
        /\ AccessesAgree /\ FreeIsOffered /\ Returnable
-----------------------------------------------------------------------------
(* The chain.                                                              *)

LEMMA RegisteredIs ==
  ASSUME Chained(chain)
  PROVE  /\ Registered \subseteq Protocols /\ IsFiniteSet(Registered)
         /\ Len(chain) = Cardinality(Registered)
<1>1. chain \in Seq(Protocols) /\ Len(chain) \in Nat /\ DOMAIN chain = 1 .. Len(chain)
  BY DEF Chained
<1>2. Registered = {chain[i] : i \in DOMAIN chain} /\ Registered \subseteq Protocols
  BY <1>1 DEF Registered, ToSet
<1>3. [i \in 1 .. Len(chain) |-> chain[i]] \in Bijection(1 .. Len(chain), Registered)
  BY <1>1, <1>2 DEF Chained, Bijection, Injection, Surjection, IsInjective
<1>4. IsFiniteSet(1 .. Len(chain)) /\ Cardinality(1 .. Len(chain)) = Len(chain)
  BY <1>1, FS_Interval, SMTT(30)
<1> QED
  BY <1>2, <1>3, <1>4, FS_Bijection DEF ExistsBijection

(* The protocols of a higher priority are the first ones.                  *)
LEMMA AheadAreFirst ==
  ASSUME Constants, Chained(chain), Sorted(chain), NEW p \in Protocols,
         NEW n, n = Cardinality({q \in Registered : Priority[q] < Priority[p]})
  PROVE  /\ n \in 0 .. Len(chain)
         /\ \A i \in DOMAIN chain : Priority[chain[i]] < Priority[p] <=> i <= n
<1> DEFINE A == {q \in Registered : Priority[q] < Priority[p]}
           I == {i \in DOMAIN chain : Priority[chain[i]] < Priority[p]}
<1>1. /\ chain \in Seq(Protocols) /\ Len(chain) \in Nat /\ DOMAIN chain = 1 .. Len(chain)
      /\ \A i \in DOMAIN chain : chain[i] \in Protocols /\ Priority[chain[i]] \in Int
      /\ Priority[p] \in Int
  BY DEF Chained, Constants
<1>2. IsFiniteSet(1 .. Len(chain)) /\ Cardinality(1 .. Len(chain)) = Len(chain)
  BY <1>1, FS_Interval, SMTT(30)
<1>3. I \subseteq 1 .. Len(chain) /\ IsFiniteSet(I) /\ Cardinality(I) <= Len(chain) /\ Cardinality(I) \in Nat
  BY <1>1, <1>2, FS_Subset, FS_CardinalityType
<1>4. [i \in I |-> chain[i]] \in Bijection(I, A)
  BY <1>1 DEF Chained, Bijection, Injection, Surjection, IsInjective, Registered, ToSet
<1>5. n = Cardinality(I)
  BY <1>3, <1>4, FS_Bijection DEF ExistsBijection
<1>6. ASSUME NEW i \in I, NEW j \in 1 .. i
      PROVE  j \in I
  <2>1. j \in DOMAIN chain /\ i \in DOMAIN chain /\ Priority[chain[j]] <= Priority[chain[i]]
    BY <1>1, <1>6 DEF Sorted
  <2> QED
    BY <1>1, <2>1
<1>7. ASSUME NEW i \in I
      PROVE  i <= n
  <2>1. 1 .. i \subseteq I /\ i \in Nat
    BY <1>1, <1>6
  <2>2. Cardinality(1 .. i) = i
    BY <2>1, <1>1, FS_Interval
  <2> QED
    BY <1>3, <1>5, <2>1, <2>2, FS_Subset
<1>8. ASSUME NEW i \in DOMAIN chain, i <= n
      PROVE  i \in I
  <2> SUFFICES ASSUME i \notin I PROVE FALSE
    OBVIOUS
  <2>1. i \in Nat \ {0} /\ I \subseteq 1 .. i - 1
    BY <1>1, <1>3, <1>6
  <2>2. IsFiniteSet(1 .. i - 1) /\ Cardinality(1 .. i - 1) = i - 1
    <3>1. PICK k \in Nat : k = i - 1
      BY <2>1
    <3>2. IsFiniteSet(1 .. k) /\ Cardinality(1 .. k) = k
      BY <3>1, FS_Interval
    <3> QED
      BY <3>1, <3>2
  <2>3. Cardinality(I) <= i - 1
    BY <2>1, <2>2, FS_Subset
  <2> QED
    BY <1>3, <1>5, <1>8, <2>1, <2>3
<1> QED
  BY <1>1, <1>3, <1>5, <1>7, <1>8

(* MWS_SetPriority keeps the chain in order.                               *)
LEMMA InsertKeeps ==
  ASSUME Constants, Chained(chain), Sorted(chain), NEW p \in Protocols, p \notin Registered,
         NEW c, c = Insert(p)
  PROVE  Chained(c) /\ Sorted(c) /\ ToSet(c) = Registered \cup {p}
<1>1. PICK n : n = Cardinality({q \in Registered : Priority[q] < Priority[p]})
  OBVIOUS
<1>2. /\ n \in 0 .. Len(chain)
      /\ \A i \in DOMAIN chain : Priority[chain[i]] < Priority[p] <=> i <= n
  BY <1>1, AheadAreFirst
<1>3. /\ chain \in Seq(Protocols) /\ Len(chain) \in Nat /\ DOMAIN chain = 1 .. Len(chain)
      /\ \A i \in DOMAIN chain : chain[i] \in Registered /\ chain[i] \in Protocols /\ Priority[chain[i]] \in Int
      /\ Priority[p] \in Int
      /\ Registered = {chain[i] : i \in DOMAIN chain}
  BY DEF Chained, Constants, Registered, ToSet
<1>4. c = SubSeq(chain, 1, n) \o <<p>> \o SubSeq(chain, n + 1, Len(chain))
  <2>1. c = InsertAt(chain, n + 1, p)
    BY <1>1 DEF Insert
  <2>2. PICK m : m = n + 1
    OBVIOUS
  <2>3. m - 1 = n
    BY <1>2, <2>2
  <2>4. c = SubSeq(chain, 1, m - 1) \o <<p>> \o SubSeq(chain, m, Len(chain))
    BY <2>1, <2>2 DEF InsertAt
  <2> QED
    BY <2>2, <2>3, <2>4
<1>5. PICK s : s = SubSeq(chain, 1, n)
  OBVIOUS
<1>6. PICK t : t = SubSeq(chain, n + 1, Len(chain))
  OBVIOUS
<1>7. s \in Seq(Protocols) /\ Len(s) = n /\ \A i \in 1 .. n : s[i] = chain[i]
  BY <1>2, <1>3, <1>5
<1>8. t \in Seq(Protocols) /\ Len(t) = Len(chain) - n /\ \A i \in 1 .. Len(chain) - n : t[i] = chain[n + i]
  <2> PICK l \in Nat : l = Len(chain)
    BY <1>3
  <2>1. l - n \in Nat /\ n \in Nat
    BY <1>2
  <2> PICK m \in Nat : m = Len(chain) - n
    BY <2>1
  <2>2. Len(t) = m /\ t \in Seq(Protocols)
    <3>1. n + 1 \in Int /\ l \in Int /\ \A i \in n + 1 .. l : chain[i] \in Protocols
      BY <1>2, <1>3
    <3>2. t \in Seq(Protocols) /\ Len(t) = IF n + 1 <= l THEN l - (n + 1) + 1 ELSE 0
      BY <1>6, <3>1, SubSeqProperties
    <3>3. m = l - n /\ n <= l
      BY <1>2
    <3>4. (IF n + 1 <= l THEN l - (n + 1) + 1 ELSE 0) = m
      BY <2>1, <3>3
    <3> QED
      BY <3>2, <3>4
  <2>3. ASSUME NEW i \in 1 .. m PROVE t[i] = chain[n + i]
    <3>1. n + 1 \in Int /\ l \in Int /\ \A j \in n + 1 .. l : chain[j] \in Protocols
      BY <1>2, <1>3
    <3>2. i \in 1 .. l - (n + 1) + 1 /\ n + 1 <= l /\ n + 1 + i - 1 = n + i
      BY <1>2, <2>1
    <3>3. t[i] = chain[n + 1 + i - 1]
      BY <1>6, <3>1, <3>2, SubSeqProperties
    <3> QED
      BY <3>2, <3>3
  <2> QED
    BY <2>1, <2>2, <2>3
<1>9. PICK u : u = s \o <<p>>
  OBVIOUS
<1>10. u \in Seq(Protocols) /\ Len(u) = n + 1 /\ u[n + 1] = p /\ \A i \in 1 .. n : u[i] = chain[i]
  BY <1>2, <1>7, <1>9
<1>11. c = u \o t
  BY <1>4, <1>5, <1>6, <1>9
<1>12. /\ c \in Seq(Protocols) /\ Len(c) = Len(chain) + 1 /\ c[n + 1] = p
       /\ \A i \in 1 .. n : c[i] = chain[i]
       /\ \A i \in n + 2 .. Len(chain) + 1 : c[i] = chain[i - 1]
  <2>1. c \in Seq(Protocols) /\ Len(c) = Len(chain) + 1
    <3>1. c \in Seq(Protocols) /\ Len(c) = Len(u) + Len(t)
      <4>1. u \in Seq(Protocols) /\ t \in Seq(Protocols)
        BY <1>8, <1>10
      <4> QED
        BY <1>11, <4>1
    <3> QED
      BY <1>2, <1>3, <1>8, <1>10, <3>1
  <2>2. \A i \in 1 .. n + 1 : c[i] = u[i]
    BY <1>2, <1>3, <1>8, <1>10, <1>11
  <2>3. ASSUME NEW i \in n + 2 .. Len(chain) + 1 PROVE c[i] = chain[i - 1]
    <3>1. PICK k : k = i - (n + 1)
      OBVIOUS
    <3>2. k \in 1 .. Len(chain) - n /\ i = Len(u) + k /\ n + k = i - 1 /\ k \in 1 .. Len(t)
      BY <1>2, <1>3, <1>8, <1>10, <3>1
    <3>3. c[i] = t[k]
      <4>1. u \in Seq(Protocols) /\ t \in Seq(Protocols)
        BY <1>8, <1>10
      <4>2. i \in 1 .. Len(u) + Len(t) /\ Len(u) \in Nat /\ ~(i <= Len(u)) /\ i - Len(u) = k
        <5>1. Len(u) \in Nat /\ Len(t) \in Nat
          BY <4>1
        <5> QED
          BY <3>2, <5>1
      <4>3. (u \o t)[i] = IF i <= Len(u) THEN u[i] ELSE t[i - Len(u)]
        BY <4>1, <4>2, ConcatProperties
      <4> QED
        BY <1>11, <4>2, <4>3
    <3> QED
      BY <1>8, <3>2, <3>3
  <2> QED
    BY <1>2, <1>10, <2>1, <2>2, <2>3
<1>13. DOMAIN c = 1 .. Len(chain) + 1
  BY <1>3, <1>12
<1>20. ASSUME NEW i \in DOMAIN c
       PROVE  \/ i = n + 1 /\ c[i] = p
              \/ i \in DOMAIN chain /\ i <= n /\ c[i] = chain[i]
              \/ i > n + 1 /\ i - 1 \in DOMAIN chain /\ ~(i - 1 <= n) /\ c[i] = chain[i - 1]
  <2>1. i \in Nat /\ n \in Nat /\ 1 <= i /\ i <= Len(chain) + 1 /\ n <= Len(chain)
    BY <1>2, <1>3, <1>13
  <2>2. CASE i = n + 1
    BY <1>12, <2>2
  <2>3. CASE i <= n
    BY <1>3, <1>12, <2>1, <2>3
  <2>4. CASE i > n + 1
    BY <1>3, <1>12, <2>1, <2>4
  <2> QED
    BY <2>1, <2>2, <2>3, <2>4
<1>14. Chained(c)
  <2> SUFFICES ASSUME NEW i \in DOMAIN c, NEW j \in DOMAIN c, c[i] = c[j]
               PROVE  i = j
    BY <1>12 DEF Chained
  <2>1. \A k, m \in DOMAIN chain : chain[k] = chain[m] => k = m
    BY DEF Chained
  <2>2. \A k \in DOMAIN chain : chain[k] # p
    BY <1>3
  <2>3. i \in Nat /\ j \in Nat /\ n \in Nat
    BY <1>2, <1>13
  <2>4. CASE i = n + 1 \/ j = n + 1
    BY <1>20, <2>2, <2>3, <2>4
  <2>5. CASE i <= n \/ j <= n
    BY <1>20, <2>1, <2>2, <2>3, <2>5
  <2>6. CASE n + 1 < i /\ n + 1 < j
    BY <1>20, <2>1, <2>3, <2>6
  <2> QED
    BY <2>3, <2>4, <2>5, <2>6
<1>15. Sorted(c)
  <2> SUFFICES ASSUME NEW i \in DOMAIN c, NEW j \in DOMAIN c, i < j
               PROVE  Priority[c[i]] <= Priority[c[j]]
    BY DEF Sorted
  <2>1. \A k, m \in DOMAIN chain : k < m => Priority[chain[k]] <= Priority[chain[m]]
    BY DEF Sorted
  <2>2. i \in Nat /\ j \in Nat /\ n \in Nat
    BY <1>2, <1>13
  <2>3. CASE i <= n /\ j <= n
    BY <1>20, <2>1, <2>2, <2>3
  <2>4. CASE i <= n /\ j = n + 1
    <3>1. i \in DOMAIN chain /\ c[i] = chain[i] /\ c[j] = p
      BY <1>20, <2>2, <2>4
    <3>2. Priority[chain[i]] < Priority[p]
      BY <1>2, <2>4, <3>1
    <3>3. Priority[chain[i]] \in Int /\ Priority[p] \in Int
      BY <1>3, <3>1
    <3> QED
      BY <3>1, <3>2, <3>3
  <2>5. CASE i <= n /\ n + 1 < j
    <3>1. i \in DOMAIN chain /\ c[i] = chain[i] /\ j - 1 \in DOMAIN chain /\ c[j] = chain[j - 1] /\ i < j - 1
      BY <1>20, <2>2, <2>5
    <3> QED
      BY <2>1, <3>1
  <2>6. CASE i = n + 1
    <3>1. c[i] = p /\ j - 1 \in DOMAIN chain /\ c[j] = chain[j - 1] /\ ~(j - 1 <= n)
      BY <1>20, <2>2, <2>6
    <3>2. ~(Priority[chain[j - 1]] < Priority[p]) /\ Priority[chain[j - 1]] \in Int /\ Priority[p] \in Int
      BY <1>2, <1>3, <3>1
    <3> QED
      BY <3>1, <3>2
  <2>7. CASE n + 1 < i
    <3>1. i - 1 \in DOMAIN chain /\ c[i] = chain[i - 1] /\ j - 1 \in DOMAIN chain /\ c[j] = chain[j - 1] /\ i - 1 < j - 1
      BY <1>20, <2>2, <2>7
    <3> QED
      BY <2>1, <3>1
  <2> QED
    BY <2>2, <2>3, <2>4, <2>5, <2>6, <2>7
<1>16. ToSet(c) = Registered \cup {p}
  <2>1. ASSUME NEW x \in ToSet(c) PROVE x \in Registered \cup {p}
    <3>1. PICK i \in DOMAIN c : x = c[i]
      BY <2>1 DEF ToSet
    <3> QED
      BY <1>3, <1>20, <3>1
  <2>2. ASSUME NEW k \in DOMAIN chain PROVE chain[k] \in ToSet(c)
    <3>1. CASE k <= n
      <4>1. k \in DOMAIN c /\ c[k] = chain[k]
        BY <1>2, <1>3, <1>12, <1>13, <3>1
      <4> QED
        BY <4>1 DEF ToSet
    <3>2. CASE ~(k <= n)
      <4>1. k + 1 \in DOMAIN c /\ c[k + 1] = chain[k]
        BY <1>2, <1>3, <1>12, <1>13, <3>2, SMTT(30)
      <4> QED
        BY <4>1 DEF ToSet
    <3> QED
      BY <3>1, <3>2
  <2>3. p \in ToSet(c)
    <3>1. n + 1 \in DOMAIN c
      BY <1>2, <1>3, <1>13
    <3> QED
      BY <1>12, <3>1 DEF ToSet
  <2> QED
    BY <1>3, <2>1, <2>2, <2>3
<1> QED
  BY <1>14, <1>15, <1>16
-----------------------------------------------------------------------------
(* The invariant.                                                          *)

LEMMA InitHolds == ASSUME Constants PROVE Init => IInv
<1> SUFFICES ASSUME Init PROVE IInv
  OBVIOUS
<1>1. chain = <<>> /\ chain \in Seq(Protocols) /\ DOMAIN chain = {} /\ Registered = {}
  BY DEF Init, Registered, ToSet
<1>2. Chained(chain) /\ Sorted(chain)
  BY <1>1 DEF Chained, Sorted
<1>3. 0 \in 0 .. MaxLocks /\ 0 \in -MaxLocks .. MaxLocks
  BY DEF Constants
<1>4. Typed
  BY <1>1, <1>3 DEF Init, Typed
<1>5. AccessesAgree /\ FreeIsOffered /\ Returnable
  BY DEF Init, AccessesAgree, FreeIsOffered, Returnable
<1> QED
  BY <1>2, <1>4, <1>5 DEF IInv

(* What a protocol gets takes the accesses of the owner from it, and no    *)
(* other one had any that were counted.                                    *)
LEMMA GrantKeeps ==
  ASSUME Constants, Typed, AccessesAgree, NEW p \in Registered, Registered \subseteq Protocols,
         NEW w \in SUBSET Registered, Grant(p, w)
  PROVE  /\ active' = p /\ active' # NoProtocol
         /\ lockCount' \in -MaxLocks .. MaxLocks /\ held' \in [Protocols -> 0 .. MaxLocks]
         /\ waiting' \subseteq Registered /\ misled' \subseteq Registered
         /\ AccessesAgree' /\ Returnable'
<1>1. /\ 0 \in 0 .. MaxLocks /\ 1 \in 0 .. MaxLocks /\ 1 \in -MaxLocks .. MaxLocks
      /\ MaxLocks \in Nat \ {0} /\ NoProtocol \notin Protocols
  BY DEF Constants
<1>2. /\ active' = p /\ lockCount' = 1 /\ waiting' = w \ {p} /\ misled' = misled \ {p}
      /\ held' = [q \in Protocols |-> IF q = p THEN 1 ELSE IF q = active THEN 0 ELSE held[q]]
  BY DEF Grant
<1>3. p \in Protocols /\ held \in [Protocols -> 0 .. MaxLocks] /\ misled \subseteq Registered
  BY DEF Typed
<1>4. held' \in [Protocols -> 0 .. MaxLocks] /\ held'[p] = 1
  BY <1>1, <1>2, <1>3
<1>5. ASSUME NEW q \in Protocols \ misled', q # p
      PROVE  held'[q] = 0
  <2>1. q \in Protocols \ misled /\ held'[q] = IF q = active THEN 0 ELSE held[q]
    BY <1>2, <1>5
  <2>2. CASE q # active
    BY <2>1, <2>2 DEF AccessesAgree
  <2> QED
    BY <2>1, <2>2
<1>6. AccessesAgree'
  <2>1. \A q \in Protocols \ misled' : held'[q] = IF q = active' THEN lockCount' ELSE 0
    BY <1>2, <1>4, <1>5
  <2> QED
    BY <2>1 DEF AccessesAgree
<1>7. Returnable'
  BY <1>1, <1>2, <1>4 DEF Returnable
<1> QED
  BY <1>1, <1>2, <1>3, <1>4, <1>6, <1>7

(* MWS_SignalIdle leaves a protocol waiting only if another one has got the *)
(* transceiver.                                                            *)
LEMMA SignalIdleKeeps ==
  ASSUME Constants, IInv, NEW p \in Registered, SignalIdle(p), chain' = chain
  PROVE  Typed' /\ AccessesAgree' /\ FreeIsOffered' /\ Returnable'
<1>1. /\ Registered \subseteq Protocols /\ Registered' = Registered /\ waiting \subseteq Registered
      /\ Typed /\ AccessesAgree
  BY RegisteredIs DEF IInv, Typed, Registered
<1>2. aborted' = FALSE /\ abortPc' = abortPc
  BY DEF SignalIdle
<1>3. CASE \E i \in DOMAIN chain : chain[i] \in waiting \ {p} /\ Grant(chain[i], waiting \ {p})
  <2>1. PICK i \in DOMAIN chain : chain[i] \in waiting \ {p} /\ Grant(chain[i], waiting \ {p})
    BY <1>3
  <2>2. chain[i] \in Registered /\ waiting \ {p} \in SUBSET Registered
    BY <1>1, <2>1
  <2>3. /\ active' = chain[i] /\ active' # NoProtocol
        /\ lockCount' \in -MaxLocks .. MaxLocks /\ held' \in [Protocols -> 0 .. MaxLocks]
        /\ waiting' \subseteq Registered /\ misled' \subseteq Registered
        /\ AccessesAgree' /\ Returnable'
    BY <1>1, <2>1, <2>2, GrantKeeps
  <2>4. FreeIsOffered'
    BY <2>3 DEF FreeIsOffered
  <2> QED
    BY <1>1, <1>2, <2>2, <2>3, <2>4 DEF Typed
<1>4. CASE /\ {i \in DOMAIN chain : chain[i] \in waiting \ {p}} = {}
           /\ active' = NoProtocol /\ lockCount' = (IF active = NoProtocol THEN lockCount ELSE 0)
           /\ held' = [q \in Protocols |-> IF q = active THEN 0 ELSE held[q]]
           /\ waiting' = waiting \ {p} /\ misled' = misled
  <2>1. waiting' = {}
    <3>1. Registered = {chain[i] : i \in DOMAIN chain}
      BY DEF Registered, ToSet
    <3> QED
      BY <1>1, <1>4, <3>1
  <2>2. 0 \in 0 .. MaxLocks /\ 0 \in -MaxLocks .. MaxLocks /\ NoProtocol \notin Protocols
    BY DEF Constants
  <2>3. lockCount' \in -MaxLocks .. MaxLocks /\ held' \in [Protocols -> 0 .. MaxLocks]
    BY <1>1, <1>4, <2>2 DEF Typed
  <2>4. Typed'
    BY <1>1, <1>2, <1>4, <2>1, <2>3 DEF Typed
  <2>5. AccessesAgree'
    <3>1. ASSUME NEW q \in Protocols \ misled
          PROVE  held'[q] = 0
      <4>1. q # active => held[q] = 0
        BY <1>1 DEF AccessesAgree
      <4> QED
        BY <1>4, <4>1
    <3> QED
      BY <1>4, <2>2, <3>1 DEF AccessesAgree
  <2> QED
    BY <1>2, <1>4, <2>1, <2>4, <2>5 DEF FreeIsOffered, Returnable
<1> QED
  BY <1>3, <1>4 DEF SignalIdle

(* One access more or less is one count more or less.                      *)
LEMMA CountKeeps ==
  ASSUME Constants, IInv, NEW p \in Registered, NEW d \in {-1, 1},
         active = p, held[p] + d \in 0 .. MaxLocks, lockCount + d <= MaxLocks,
         chain' = chain, active' = active, lockCount' = lockCount + d,
         held' = [held EXCEPT ![p] = @ + d], waiting' \subseteq waiting,
         aborted' = aborted, abortPc' = abortPc, misled' = misled
  PROVE  Typed' /\ AccessesAgree' /\ FreeIsOffered' /\ Returnable'
<1>1. /\ Registered \subseteq Protocols /\ Registered' = Registered
      /\ Typed /\ AccessesAgree /\ Returnable
      /\ MaxLocks \in Nat \ {0} /\ NoProtocol \notin Protocols
  BY RegisteredIs DEF IInv, Registered, Constants
<1>2. /\ p \in Protocols /\ p # NoProtocol /\ lockCount \in -MaxLocks .. MaxLocks
      /\ held \in [Protocols -> 0 .. MaxLocks] /\ held[p] - lockCount <= MaxLocks
  BY <1>1 DEF Typed, Returnable
<1>3. held' \in [Protocols -> 0 .. MaxLocks] /\ held'[p] = held[p] + d
  BY <1>1, <1>2
<1>4. held'[p] - lockCount' <= MaxLocks /\ lockCount' \in -MaxLocks .. MaxLocks
  BY <1>1, <1>2, <1>3
<1>5. Typed'
  BY <1>1, <1>3, <1>4 DEF Typed
<1>6. AccessesAgree'
  <2> SUFFICES ASSUME NEW q \in Protocols \ misled
               PROVE  \/ held'[q] = IF q = active THEN lockCount' ELSE 0
                      \/ q = active /\ \E a \in Aborters : abortPc[a] = "free"
    BY DEF AccessesAgree
  <2>1. \/ held[q] = IF q = active THEN lockCount ELSE 0
        \/ q = active /\ \E a \in Aborters : abortPc[a] = "free"
    BY <1>1 DEF AccessesAgree
  <2>2. CASE q = p
    BY <1>2, <1>3, <2>1, <2>2
  <2>3. CASE q # p
    BY <1>2, <2>1, <2>3
  <2> QED
    BY <2>2, <2>3
<1> QED
  BY <1>2, <1>4, <1>5, <1>6 DEF FreeIsOffered, Returnable

(* Each step of MWS_Abort: the accesses the second and the third overwrite *)
(* are those of the protocols they mislead.                                *)
LEMMA AbortKeeps ==
  ASSUME Constants, IInv, NEW a \in Aborters,
         AbortCalls(a) \/ AbortFrees(a) \/ AbortUncounts(a)
  PROVE  chain' = chain /\ Typed' /\ AccessesAgree' /\ FreeIsOffered' /\ Returnable'
<1>1. /\ Registered \subseteq Protocols /\ Typed /\ AccessesAgree /\ FreeIsOffered /\ Returnable
      /\ MaxLocks \in Nat \ {0} /\ NoProtocol \notin Protocols
      /\ 0 \in 0 .. MaxLocks /\ 0 \in -MaxLocks .. MaxLocks
  BY RegisteredIs DEF IInv, Constants
<1>2. /\ chain' = chain /\ Registered' = Registered
  BY DEF AbortCalls, AbortFrees, AbortUncounts, Registered
<1>3. /\ held \in [Protocols -> 0 .. MaxLocks] /\ lockCount \in -MaxLocks .. MaxLocks
      /\ Overwritten \subseteq Registered
  BY <1>1 DEF Typed, Overwritten
<1>4. CASE AbortCalls(a)
  <2>1. /\ active \in Registered /\ active \in Protocols /\ active # NoProtocol
        /\ active' = active /\ lockCount' = lockCount /\ aborted' = aborted /\ misled' = misled
        /\ held' = [held EXCEPT ![active] = 0] /\ waiting' \subseteq waiting \cup {active}
        /\ abortPc' = [abortPc EXCEPT ![a] = "free"] /\ abortPc \in [Aborters -> {"idle", "free", "count"}]
    BY <1>1, <1>4 DEF AbortCalls, Typed
  <2>2. held' \in [Protocols -> 0 .. MaxLocks] /\ held'[active] = 0 /\ abortPc'[a] = "free"
    BY <1>1, <1>3, <2>1
  <2>3. Typed'
    BY <1>1, <1>2, <2>1, <2>2 DEF Typed
  <2>4. AccessesAgree'
    <3> SUFFICES ASSUME NEW q \in Protocols \ misled, q # active
                 PROVE  held'[q] = 0
      BY <2>1, <2>2 DEF AccessesAgree
    <3>1. held[q] = 0
      BY <1>1 DEF AccessesAgree
    <3> QED
      BY <1>3, <2>1, <3>1
  <2>5. Returnable'
    BY <1>1, <1>3, <2>1, <2>2 DEF Returnable
  <2> QED
    BY <1>2, <2>1, <2>3, <2>4, <2>5 DEF FreeIsOffered
<1>5. CASE AbortFrees(a)
  <2>1. /\ active' = NoProtocol /\ lockCount' = lockCount /\ held' = held /\ waiting' = waiting
        /\ aborted' = (aborted \/ active # NoProtocol) /\ misled' = misled \cup Overwritten
        /\ abortPc' = [abortPc EXCEPT ![a] = "count"] /\ abortPc \in [Aborters -> {"idle", "free", "count"}]
    BY <1>1, <1>5 DEF AbortFrees, Typed
  <2>2. aborted' \in BOOLEAN
    BY <2>1
  <2>3. Typed'
    BY <1>1, <1>2, <1>3, <2>1, <2>2 DEF Typed
  <2>4. AccessesAgree'
    <3> SUFFICES ASSUME NEW q \in Protocols \ (misled \cup Overwritten)
                 PROVE  held[q] = 0
      BY <1>1, <2>1 DEF AccessesAgree
    <3>1. CASE q = active
      <4>1. active \in Registered
        BY <1>1, <3>1 DEF Typed
      <4> QED
        BY <1>3, <3>1, <4>1 DEF Overwritten
    <3>2. CASE q # active
      BY <1>1, <3>2 DEF AccessesAgree
    <3> QED
      BY <3>1, <3>2
  <2>5. FreeIsOffered'
    BY <1>1, <2>1 DEF FreeIsOffered
  <2>6. Returnable'
    BY <2>1 DEF Returnable
  <2> QED
    BY <1>2, <2>3, <2>4, <2>5, <2>6
<1>6. CASE AbortUncounts(a)
  <2>1. /\ active' = active /\ lockCount' = 0 /\ held' = held /\ waiting' = waiting
        /\ aborted' = aborted /\ misled' = misled \cup Overwritten
        /\ abortPc' = [abortPc EXCEPT ![a] = "idle"] /\ abortPc \in [Aborters -> {"idle", "free", "count"}]
    BY <1>1, <1>6 DEF AbortUncounts, Typed
  <2>2. Typed'
    BY <1>1, <1>2, <1>3, <2>1 DEF Typed
  <2>3. AccessesAgree'
    <3> SUFFICES ASSUME NEW q \in Protocols \ (misled \cup Overwritten)
                 PROVE  held[q] = 0
      BY <1>1, <2>1 DEF AccessesAgree
    <3>1. CASE q = active
      <4>1. active \in Registered
        BY <1>1, <3>1 DEF Typed
      <4> QED
        BY <1>3, <3>1, <4>1 DEF Overwritten
    <3>2. CASE q # active
      BY <1>1, <3>2 DEF AccessesAgree
    <3> QED
      BY <3>1, <3>2
  <2>4. Returnable'
    <3>1. active # NoProtocol => held[active] \in 0 .. MaxLocks
      BY <1>1, <1>3 DEF Typed
    <3> QED
      BY <1>1, <2>1, <3>1 DEF Returnable
  <2> QED
    BY <1>1, <1>2, <2>1, <2>2, <2>3, <2>4 DEF FreeIsOffered
<1> QED
  BY <1>4, <1>5, <1>6

LEMMA StepKeeps == ASSUME Constants, IInv, [Next]_vars PROVE IInv'
<1>1. /\ Chained(chain) /\ Sorted(chain) /\ Typed /\ AccessesAgree /\ FreeIsOffered /\ Returnable
      /\ Registered \subseteq Protocols /\ NoProtocol \notin Protocols /\ MaxLocks \in Nat \ {0}
  BY RegisteredIs DEF IInv, Constants
<1>2. ASSUME NEW p \in Protocols, MWS_Register(p)
      PROVE  IInv'
  <2>1. PICK c : c = Insert(p)
    OBVIOUS
  <2>2. chain' = c /\ p \notin Registered
    BY <1>2, <2>1 DEF MWS_Register
  <2>3. Chained(c) /\ Sorted(c) /\ ToSet(c) = Registered \cup {p}
    BY <1>1, <2>1, <2>2, InsertKeeps
  <2>4. Registered' = Registered \cup {p}
    BY <2>2, <2>3 DEF Registered
  <2>5. Chained(chain)' /\ Sorted(chain)'
    BY <2>2, <2>3 DEF Chained, Sorted
  <2>6. /\ active' = active /\ lockCount' = lockCount /\ held' = held /\ waiting' = waiting
        /\ aborted' = aborted /\ abortPc' = abortPc /\ misled' = misled
    BY <1>2 DEF MWS_Register, abortVars
  <2>7. Typed'
    BY <1>1, <2>4, <2>6 DEF Typed
  <2>8. AccessesAgree' /\ FreeIsOffered' /\ Returnable'
    BY <1>1, <2>6 DEF AccessesAgree, FreeIsOffered, Returnable
  <2> QED
    BY <2>5, <2>7, <2>8 DEF IInv
<1>3. ASSUME chain' = chain, Typed', AccessesAgree', FreeIsOffered', Returnable'
      PROVE  IInv'
  BY <1>1, <1>3 DEF IInv, Chained, Sorted
<1>4. ASSUME chain' = chain
      PROVE  Registered' = Registered
  BY <1>4 DEF Registered
<1>5. ASSUME NEW p \in Registered, NEW force \in BOOLEAN, MWS_Acquire(p, force)
      PROVE  IInv'
  <2>1. ASSUME NEW w \in SUBSET Registered, Grant(p, w),
               chain' = chain, aborted' \in BOOLEAN, abortPc' = abortPc
        PROVE  IInv'
    <3>1. /\ active' = p /\ active' # NoProtocol
          /\ lockCount' \in -MaxLocks .. MaxLocks /\ held' \in [Protocols -> 0 .. MaxLocks]
          /\ waiting' \subseteq Registered /\ misled' \subseteq Registered
          /\ AccessesAgree' /\ Returnable'
      BY <1>1, <2>1, GrantKeeps
    <3>2. Typed' /\ FreeIsOffered'
      BY <1>1, <1>4, <2>1, <3>1 DEF Typed, FreeIsOffered
    <3> QED
      BY <1>3, <2>1, <3>1, <3>2
  <2>2. CASE AcquireFree(p)
    <3>1. /\ waiting \in SUBSET Registered /\ Grant(p, waiting)
          /\ chain' = chain /\ aborted' = FALSE /\ abortPc' = abortPc
      BY <1>1, <2>2 DEF AcquireFree, Typed
    <3> QED
      BY <2>1, <3>1
  <2>3. CASE AcquireAgain(p)
    <3>1. /\ chain' = chain /\ active' = active /\ active = p /\ lockCount < MaxLocks
          /\ held[p] < MaxLocks /\ lockCount' = lockCount + 1
          /\ held' = [held EXCEPT ![p] = @ + 1] /\ waiting' \subseteq waiting
          /\ aborted' = aborted /\ abortPc' = abortPc /\ misled' = misled
      BY <2>3 DEF AcquireAgain, abortVars
    <3>2. held[p] \in 0 .. MaxLocks /\ lockCount \in -MaxLocks .. MaxLocks
      BY <1>1 DEF Typed
    <3>3. held[p] + 1 \in 0 .. MaxLocks /\ lockCount + 1 <= MaxLocks /\ 1 \in {-1, 1}
      BY <1>1, <3>1, <3>2
    <3>4. Typed' /\ AccessesAgree' /\ FreeIsOffered' /\ Returnable'
      BY <3>1, <3>3, CountKeeps
    <3> QED
      BY <1>3, <3>1, <3>4
  <2>4. CASE AcquireOver(p, force)
    <3>1. PICK again \in SUBSET {active} : Grant(p, waiting \cup again)
      BY <2>4 DEF AcquireOver
    <3>2. active \in Registered /\ chain' = chain /\ aborted' \in BOOLEAN /\ abortPc' = abortPc
      BY <1>1, <2>4 DEF AcquireOver, Typed
    <3>3. waiting \cup again \in SUBSET Registered
      BY <1>1, <3>2 DEF Typed
    <3> QED
      BY <2>1, <3>1, <3>2, <3>3
  <2>5. CASE AcquireDenied(p)
    <3>1. /\ chain' = chain /\ active' = active /\ active # NoProtocol /\ lockCount' = lockCount
          /\ held' = held /\ aborted' = aborted /\ waiting' = waiting \cup {p}
          /\ abortPc' = abortPc /\ misled' = misled
      BY <2>5 DEF AcquireDenied, abortVars
    <3>2. Typed' /\ AccessesAgree' /\ FreeIsOffered' /\ Returnable'
      BY <1>1, <1>4, <3>1 DEF Typed, AccessesAgree, FreeIsOffered, Returnable
    <3> QED
      BY <1>3, <3>1, <3>2
  <2> QED
    BY <1>5, <2>2, <2>3, <2>4, <2>5 DEF MWS_Acquire
<1>6. ASSUME NEW p \in Registered, Release(p)
      PROVE  IInv'
  <2>1. chain' = chain /\ active = p /\ held[p] > 0
    BY <1>6 DEF Release
  <2>2. CASE lockCount = 1
    <3>1. SignalIdle(p)
      BY <1>6, <2>2 DEF Release
    <3> QED
      BY <1>3, <2>1, <3>1, SignalIdleKeeps
  <2>3. CASE lockCount # 1
    <3>1. /\ active' = active /\ lockCount' = lockCount - 1
          /\ held' = [held EXCEPT ![p] = @ - 1] /\ waiting' \subseteq waiting
          /\ aborted' = aborted /\ abortPc' = abortPc /\ misled' = misled
      BY <1>6, <2>3 DEF Release, abortVars
    <3>2. /\ held \in [Protocols -> 0 .. MaxLocks] /\ p \in Protocols
          /\ held[p] \in 0 .. MaxLocks /\ lockCount \in -MaxLocks .. MaxLocks
      BY <1>1 DEF Typed
    <3>3. /\ held[p] + (-1) \in 0 .. MaxLocks /\ lockCount + (-1) <= MaxLocks /\ -1 \in {-1, 1}
          /\ lockCount' = lockCount + (-1)
      BY <1>1, <2>1, <3>1, <3>2
    <3>4. held' = [held EXCEPT ![p] = @ + (-1)]
      <4>1. held[p] - 1 = held[p] + (-1)
        BY <3>2
      <4> QED
        BY <3>1, <4>1
    <3>5. Typed' /\ AccessesAgree' /\ FreeIsOffered' /\ Returnable'
      BY <2>1, <3>1, <3>3, <3>4, CountKeeps
    <3> QED
      BY <1>3, <2>1, <3>5
  <2> QED
    BY <2>2, <2>3
<1>7. ASSUME NEW p \in Registered, ReleaseFree(p)
      PROVE  IInv'
  <2>1. SignalIdle(p) /\ chain' = chain
    BY <1>7 DEF ReleaseFree
  <2> QED
    BY <1>3, <2>1, SignalIdleKeeps
<1>8. ASSUME NEW p \in Registered, ReleaseDenied(p)
      PROVE  IInv'
  <2>1. /\ chain' = chain /\ active' = active /\ active # p /\ lockCount' = lockCount
        /\ held[p] > 0 /\ held' = [held EXCEPT ![p] = @ - 1] /\ waiting' = waiting
        /\ aborted' = aborted /\ abortPc' = abortPc /\ misled' = misled
    BY <1>8 DEF ReleaseDenied, abortVars
  <2>2. held \in [Protocols -> 0 .. MaxLocks] /\ p \in Protocols /\ held[p] \in 0 .. MaxLocks
    BY <1>1 DEF Typed
  <2>3. held' \in [Protocols -> 0 .. MaxLocks]
    BY <1>1, <2>1, <2>2
  <2>4. Typed'
    BY <1>1, <1>4, <2>1, <2>3 DEF Typed
  <2>5. p \in misled
    BY <1>1, <2>1, <2>2 DEF AccessesAgree
  <2>6. \A q \in Protocols : q # p => held'[q] = held[q]
    BY <2>1, <2>2
  <2>7. AccessesAgree'
    BY <1>1, <2>1, <2>5, <2>6 DEF AccessesAgree
  <2>8. FreeIsOffered'
    BY <1>1, <2>1 DEF FreeIsOffered
  <2>9. Returnable'
    <3>1. active # NoProtocol => active \in Protocols
      BY <1>1 DEF Typed
    <3> QED
      BY <1>1, <2>1, <2>6, <3>1 DEF Returnable
  <2> QED
    BY <1>3, <2>1, <2>4, <2>7, <2>8, <2>9
<1>9. ASSUME NEW a \in Aborters, AbortCalls(a) \/ AbortFrees(a) \/ AbortUncounts(a)
      PROVE  IInv'
  BY <1>3, <1>9, AbortKeeps
<1>10. CASE UNCHANGED vars
  <2>1. /\ chain' = chain /\ active' = active /\ lockCount' = lockCount /\ held' = held
        /\ waiting' = waiting /\ aborted' = aborted /\ abortPc' = abortPc /\ misled' = misled
    BY <1>10 DEF vars, abortVars
  <2>2. Typed' /\ AccessesAgree' /\ FreeIsOffered' /\ Returnable'
    BY <1>1, <1>4, <2>1 DEF Typed, AccessesAgree, FreeIsOffered, Returnable
  <2> QED
    BY <1>3, <2>1, <2>2
<1> QED
  BY <1>2, <1>5, <1>6, <1>7, <1>8, <1>9, <1>10 DEF Next

LEMMA InvariantHolds == ASSUME Constants PROVE Spec => []IInv
<1>1. Init => IInv
  BY InitHolds
<1>2. IInv /\ [Next]_vars => IInv'
  BY StepKeeps
<1> QED
  BY <1>1, <1>2, PTL DEF Spec

(* Every protocol is in the chain once, the owner and those that wait are  *)
(* in it, and the locks stay in their range.                               *)
THEOREM TypeCorrect == ASSUME Constants PROVE Spec => []TypeOK
<1>1. IInv => TypeOK
  BY RegisteredIs DEF IInv, Chained, Typed, TypeOK
<1> QED
  BY <1>1, InvariantHolds, PTL

(* Only the protocol that MWS takes for the owner believes to have access, *)
(* and as often as MWS has counted (MWS_Acquire, MWS_Release), but for the *)
(* two cases MWS_Abort makes: the owner it is about to clear, and those    *)
(* whose access it has cleared without telling them.                       *)
THEOREM AccessesAlwaysAgree == ASSUME Constants PROVE Spec => []AccessesAgree
<1>1. IInv => AccessesAgree
  BY DEF IInv
<1> QED
  BY <1>1, InvariantHolds, PTL

(* Nobody waits for a transceiver that is free, unless MWS_Abort freed it  *)
(* (MWS_SignalIdle).                                                       *)
THEOREM FreeIsAlwaysOffered == ASSUME Constants PROVE Spec => []FreeIsOffered
<1>1. IInv => FreeIsOffered
  BY DEF IInv
<1> QED
  BY <1>1, InvariantHolds, PTL

(* A release hands the transceiver to a protocol that no other one waiting *)
(* precedes in priority (MWS_SetPriority, MWS_SignalIdle).                 *)
THEOREM HandsByPriority == ASSUME Constants PROVE Spec => HandedByPriority
<1> DEFINE Handed(p) == active' \notin {p, NoProtocol} => \A q \in waiting \ {p} : Priority[q] >= Priority[active']
<1>1. ASSUME IInv, NEW p \in Registered, Release(p)
      PROVE  Handed(p)
  <2> SUFFICES ASSUME active' \notin {p, NoProtocol}, NEW q \in waiting \ {p}
               PROVE  Priority[q] >= Priority[active']
    OBVIOUS
  <2>1. SignalIdle(p)
    BY <1>1 DEF Release
  <2>2. PICK i \in DOMAIN chain : /\ chain[i] \in waiting \ {p}
                                  /\ \A j \in DOMAIN chain : chain[j] \in waiting \ {p} => i <= j
                                  /\ Grant(chain[i], waiting \ {p})
    BY <2>1 DEF SignalIdle
  <2>3. active' = chain[i]
    BY <2>2 DEF Grant
  <2>4. waiting \subseteq Registered /\ Chained(chain) /\ Sorted(chain)
    BY <1>1 DEF IInv, Typed
  <2>5. PICK j \in DOMAIN chain : q = chain[j]
    BY <2>4 DEF Registered, ToSet
  <2>6. /\ i \in Int /\ j \in Int /\ i <= j
        /\ Priority[chain[i]] \in Int /\ Priority[chain[j]] \in Int
    BY <2>2, <2>4, <2>5 DEF Chained, Constants
  <2>7. Priority[chain[i]] <= Priority[chain[j]]
    BY <2>4, <2>6 DEF Sorted
  <2> QED
    BY <2>3, <2>5, <2>6, <2>7
<1>2. IInv /\ [Next]_vars => [\A p \in Registered : Release(p) /\ active' \notin {p, NoProtocol}
         => \A q \in waiting \ {p} : Priority[q] >= Priority[active']]_vars
  BY <1>1
<1> QED
  BY <1>2, InvariantHolds, PTL DEF Spec, HandedByPriority

-----------------------------------------------------------------------------
(* FsciAck: the invariant, in parts.                                       *)
AckConstants == MaxPackets \in Nat /\ TxRetryCnt \in Nat \ {0}

Packet == 1 .. MaxPackets
Received == {got[i] : i \in DOMAIN got}

AckTyped == /\ current \in 0 .. MaxPackets /\ txRetryCnt \in 0 .. TxRetryCnt
            /\ waiting \in BOOLEAN /\ ackReceived \in BOOLEAN /\ late \in BOOLEAN
            /\ acknowledged \subseteq Packet
            /\ frames \in Seq(Packet) /\ acks \in Seq(Packet) /\ got \in Seq(Packet)
            /\ waiting => current \in Packet /\ txRetryCnt > 0

(* As long as no timeout is early, one frame or answer at most is under     *)
(* way, that of the packet being sent, and nothing when it is answered.    *)
OneUnderWay == \/ frames = <<>> /\ acks = <<>>
               \/ waiting /\ ~ackReceived /\ frames = <<current>> /\ acks = <<>>
               \/ waiting /\ ~ackReceived /\ frames = <<>> /\ acks = <<current>> /\ current \in Received
AnswerInv == waiting /\ ackReceived => current \in Received
GotInv == /\ \A i \in DOMAIN got : got[i] <= current
          /\ \A i, j \in DOMAIN got : i < j => got[i] <= got[j]
          /\ acknowledged \subseteq Received

AckInv == AckTyped /\ (~late => OneUnderWay /\ AnswerInv /\ GotInv)

LEMMA AckInitHolds == ASSUME AckConstants PROVE Acks!Init => AckInv
<1> SUFFICES ASSUME Acks!Init PROVE AckInv
  OBVIOUS
<1>1. /\ current = 0 /\ txRetryCnt = 0 /\ frames = <<>> /\ acks = <<>> /\ got = <<>>
      /\ acknowledged = {} /\ MaxPackets \in Nat /\ TxRetryCnt \in Nat
  BY DEF Acks!Init, AckConstants
<1>2. waiting = FALSE /\ ackReceived = FALSE /\ late = FALSE
  BY DEF Acks!Init
<1>3. current \in 0 .. MaxPackets /\ txRetryCnt \in 0 .. TxRetryCnt
  BY <1>1
<1>4. acknowledged \subseteq Packet /\ frames \in Seq(Packet) /\ acks \in Seq(Packet) /\ got \in Seq(Packet)
  BY <1>1
<1>5. AckTyped
  BY <1>2, <1>3, <1>4 DEF AckTyped
<1>6. GotInv
  BY <1>1 DEF GotInv
<1> QED
  BY <1>1, <1>2, <1>5, <1>6 DEF AckInv, OneUnderWay, AnswerInv

(* What a step that changes nothing leaves.                                *)
LEMMA AckStutters ==
  ASSUME Acks!Stop \/ UNCHANGED Acks!vars
  PROVE  /\ current' = current /\ waiting' = waiting /\ txRetryCnt' = txRetryCnt
         /\ ackReceived' = ackReceived /\ frames' = frames /\ acks' = acks /\ got' = got
         /\ acknowledged' = acknowledged /\ late' = late
<1>1. UNCHANGED Acks!vars
  BY DEF Acks!Stop
<1> QED
  BY <1>1 DEF Acks!vars

LEMMA AckTypeKept ==
  ASSUME AckConstants, AckTyped, [Acks!Next]_(Acks!vars)
  PROVE  AckTyped'
<1>1. CASE Acks!SendPacket
  <2>1. /\ current \in 0 .. MaxPackets /\ current < MaxPackets /\ MaxPackets \in Nat
        /\ TxRetryCnt \in Nat \ {0} /\ current' = current + 1 /\ txRetryCnt' = TxRetryCnt
        /\ frames' = Append(frames, current + 1) /\ frames \in Seq(Packet)
    BY <1>1 DEF Acks!SendPacket, Acks!Write, AckTyped, AckConstants
  <2>2. current + 1 \in Packet /\ current + 1 \in 0 .. MaxPackets
    BY <2>1 DEF Packet
  <2>3. frames' \in Seq(Packet)
    BY <2>1, <2>2
  <2>4. txRetryCnt' \in 0 .. TxRetryCnt /\ txRetryCnt' > 0 /\ current' \in Packet /\ current' \in 0 .. MaxPackets
    BY <2>1, <2>2
  <2> QED
    BY <1>1, <2>3, <2>4 DEF Acks!SendPacket, AckTyped
<1>2. CASE Acks!Expire
  <2>1. CASE txRetryCnt' # 0
    <3>1. frames' \in Seq(Packet)
      <4>1. frames' = Append(frames, current) /\ waiting
        BY <1>2, <2>1 DEF Acks!Expire, Acks!Write
      <4>2. frames \in Seq(Packet) /\ current \in Packet
        BY <4>1 DEF AckTyped
      <4> QED
        BY <4>1, <4>2
    <3>2. late' \in BOOLEAN /\ waiting' = waiting
      BY <1>2, <2>1 DEF Acks!Expire, AckTyped
    <3>3. txRetryCnt' \in 1 .. TxRetryCnt
      BY <1>2, <2>1 DEF Acks!Expire, AckTyped, AckConstants
    <3> QED
      BY <1>2, <3>1, <3>2, <3>3 DEF Acks!Expire, AckTyped
  <2>2. CASE txRetryCnt' = 0
    <3>1. late' \in BOOLEAN /\ waiting' = FALSE /\ frames' = frames
      BY <1>2, <2>2 DEF Acks!Expire, AckTyped
    <3>2. txRetryCnt' \in 0 .. TxRetryCnt
      BY <2>2 DEF AckConstants
    <3> QED
      BY <1>2, <3>1, <3>2 DEF Acks!Expire, AckTyped
  <2> QED
    BY <2>1, <2>2
<1>3. CASE Acks!Acknowledged
  BY <1>3 DEF Acks!Acknowledged, AckTyped
<1>4. CASE Acks!ReceiveAck
  BY <1>4 DEF Acks!ReceiveAck, AckTyped
<1>5. CASE Acks!FSCI_Ack
  <2>1. frames \in Seq(Packet) /\ acks \in Seq(Packet) /\ got \in Seq(Packet) /\ frames # <<>>
    BY <1>5 DEF Acks!FSCI_Ack, AckTyped
  <2>2. Head(frames) \in Packet /\ Tail(frames) \in Seq(Packet)
    BY <2>1
  <2>3. Append(acks, Head(frames)) \in Seq(Packet) /\ Append(got, Head(frames)) \in Seq(Packet)
    BY <2>1, <2>2
  <2> QED
    BY <1>5, <2>2, <2>3 DEF Acks!FSCI_Ack, AckTyped
<1>6. CASE Acks!Lose
  <2>1. frames \in Seq(Packet) /\ acks \in Seq(Packet)
    BY DEF AckTyped
  <2>2. frames # <<>> => Tail(frames) \in Seq(Packet)
    BY <2>1
  <2>3. acks # <<>> => Tail(acks) \in Seq(Packet)
    BY <2>1
  <2>4. frames' \in Seq(Packet) /\ acks' \in Seq(Packet)
    BY <1>6, <2>1, <2>2, <2>3 DEF Acks!Lose
  <2> QED
    BY <1>6, <2>4 DEF Acks!Lose, AckTyped
<1>7. CASE Acks!Stop \/ UNCHANGED Acks!vars
  BY <1>7, AckStutters DEF AckTyped
<1> QED
  BY <1>1, <1>2, <1>3, <1>4, <1>5, <1>6, <1>7 DEF Acks!Next

LEMMA AckStepKeeps ==
  ASSUME AckConstants, AckInv, [Acks!Next]_(Acks!vars)
  PROVE  AckInv'
<1>1. AckTyped /\ AckTyped'
  BY AckTypeKept DEF AckInv
<1>2. SUFFICES ASSUME ~late' PROVE OneUnderWay' /\ AnswerInv' /\ GotInv'
  BY <1>1 DEF AckInv
<1>3. ~late
  <2>1. Acks!Expire => ~late
    BY <1>2 DEF Acks!Expire
  <2>2. Acks!Stop \/ UNCHANGED Acks!vars => ~late
    BY <1>2, AckStutters
  <2> QED
    BY <1>2, <2>1, <2>2 DEF Acks!Next, Acks!SendPacket, Acks!Acknowledged, Acks!ReceiveAck,
                            Acks!FSCI_Ack, Acks!Lose
<1>4. OneUnderWay /\ AnswerInv /\ GotInv
  BY <1>3 DEF AckInv
<1>5. CASE got' = got /\ current' = current /\ acknowledged' = acknowledged /\ waiting' = waiting
           /\ ackReceived' = ackReceived
           /\ ((frames' = frames /\ acks' = acks) \/ (frames' = <<>> /\ acks' = <<>>))
  BY <1>4, <1>5 DEF OneUnderWay, AnswerInv, GotInv, Received
<1>6. CASE Acks!SendPacket
  <2>1. frames = <<>> /\ acks = <<>>
    BY <1>4, <1>6 DEF OneUnderWay, Acks!SendPacket
  <2>2. OneUnderWay' /\ AnswerInv'
    BY <1>6, <2>1 DEF Acks!SendPacket, Acks!Write, OneUnderWay, AnswerInv
  <2>3. \A i \in DOMAIN got : got[i] <= current + 1
    <3>1. current \in Nat /\ got \in Seq(Packet) /\ \A i \in DOMAIN got : got[i] <= current
      BY <1>1, <1>4 DEF GotInv, AckTyped
    <3>2. \A i \in DOMAIN got : got[i] \in Nat
      BY <3>1 DEF Packet, AckConstants
    <3> QED
      BY <3>1, <3>2
  <2> QED
    BY <1>4, <1>6, <2>2, <2>3 DEF Acks!SendPacket, GotInv, Received
<1>7. CASE Acks!Expire
  <2>1. frames = <<>> /\ acks = <<>> /\ waiting /\ ~ackReceived
    BY <1>2, <1>7 DEF Acks!Expire
  <2>2. acks' = <<>> /\ ~ackReceived' /\ current' = current /\ got' = got /\ acknowledged' = acknowledged
        /\ (frames' = <<>> \/ (waiting' /\ frames' = <<current>>))
    <3>1. frames' = frames \/ (waiting' /\ frames' = Append(frames, current))
      <4>1. CASE txRetryCnt' # 0
        BY <1>7, <2>1, <4>1 DEF Acks!Expire, Acks!Write
      <4>2. CASE txRetryCnt' = 0
        <5>1. frames' = frames
          BY <1>7, <4>2 DEF Acks!Expire
        <5> QED
          BY <5>1
      <4> QED
        BY <4>1, <4>2
    <3>2. Append(<<>>, current) = <<current>>
      OBVIOUS
    <3> QED
      BY <1>7, <2>1, <3>1, <3>2 DEF Acks!Expire
  <2> QED
    BY <1>4, <2>2 DEF OneUnderWay, AnswerInv, GotInv, Received
<1>8. CASE Acks!Acknowledged
  <2>1. frames = <<>> /\ acks = <<>> /\ current \in Received
    BY <1>4, <1>8 DEF Acks!Acknowledged, OneUnderWay, AnswerInv
  <2> QED
    BY <1>4, <1>8, <2>1 DEF Acks!Acknowledged, OneUnderWay, AnswerInv, GotInv, Received
<1>9. CASE Acks!ReceiveAck
  <2>1. waiting /\ frames = <<>> /\ acks = <<current>> /\ current \in Received
    BY <1>4, <1>9 DEF Acks!ReceiveAck, OneUnderWay
  <2>2. frames' = <<>> /\ acks' = <<>>
    BY <1>9, <2>1 DEF Acks!ReceiveAck
  <2> QED
    BY <1>4, <1>9, <2>1, <2>2 DEF Acks!ReceiveAck, OneUnderWay, AnswerInv, GotInv, Received
<1>10. CASE Acks!FSCI_Ack
  <2>1. waiting /\ ~ackReceived /\ frames = <<current>> /\ acks = <<>>
    BY <1>4, <1>10 DEF Acks!FSCI_Ack, OneUnderWay
  <2>2. /\ frames' = <<>> /\ acks' = <<current>> /\ got' = Append(got, current)
        /\ waiting' /\ ~ackReceived' /\ current' = current /\ acknowledged' = acknowledged
    BY <1>10, <2>1 DEF Acks!FSCI_Ack
  <2>3. /\ got \in Seq(Packet) /\ current \in Nat
        /\ DOMAIN got' = 1 .. Len(got) + 1 /\ DOMAIN got = 1 .. Len(got) /\ Len(got) \in Nat
        /\ got'[Len(got) + 1] = current
        /\ \A i \in 1 .. Len(got) : got'[i] = got[i]
    BY <1>1, <2>2 DEF AckTyped
  <2>4. current \in Received' /\ Received \subseteq Received'
    BY <2>3 DEF Received
  <2>5. \A i \in DOMAIN got' : got'[i] <= current
    BY <1>4, <2>3 DEF GotInv
  <2>6. \A i, j \in DOMAIN got' : i < j => got'[i] <= got'[j]
    <3> SUFFICES ASSUME NEW i \in 1 .. Len(got) + 1, NEW j \in 1 .. Len(got) + 1, i < j
                 PROVE  got'[i] <= got'[j]
      BY <2>3
    <3>1. CASE j = Len(got) + 1
      BY <2>3, <2>5, <3>1
    <3>2. CASE j # Len(got) + 1
      <4>1. i \in 1 .. Len(got) /\ j \in 1 .. Len(got)
        BY <2>3, <3>2
      <4> QED
        BY <1>4, <2>3, <4>1 DEF GotInv
    <3> QED
      BY <3>1, <3>2
  <2>7. GotInv'
    BY <1>4, <2>2, <2>4, <2>5, <2>6 DEF GotInv
  <2>8. OneUnderWay' /\ AnswerInv'
    BY <2>2, <2>4 DEF OneUnderWay, AnswerInv
  <2> QED
    BY <2>7, <2>8
<1>11. CASE Acks!Lose
  <2>1. frames' = <<>> /\ acks' = <<>>
    <3>1. Tail(<<current>>) = <<>>
      OBVIOUS
    <3>2. \/ frames # <<>> /\ frames' = Tail(frames) /\ acks' = acks
          \/ acks # <<>> /\ acks' = Tail(acks) /\ frames' = frames
      BY <1>11 DEF Acks!Lose
    <3>3. \/ frames = <<>> /\ acks = <<>>
          \/ frames = <<current>> /\ acks = <<>>
          \/ frames = <<>> /\ acks = <<current>>
      BY <1>4 DEF OneUnderWay
    <3> QED
      BY <3>1, <3>2, <3>3
  <2> QED
    BY <1>5, <1>11, <2>1 DEF Acks!Lose
<1>12. CASE Acks!Stop \/ UNCHANGED Acks!vars
  <2>1. /\ got' = got /\ current' = current /\ acknowledged' = acknowledged /\ waiting' = waiting
        /\ ackReceived' = ackReceived /\ frames' = frames /\ acks' = acks
    BY <1>12, AckStutters
  <2> QED
    BY <1>4, <2>1 DEF OneUnderWay, AnswerInv, GotInv, Received
<1> QED
  BY <1>6, <1>7, <1>8, <1>9, <1>10, <1>11, <1>12 DEF Acks!Next

LEMMA AckAlways == ASSUME AckConstants PROVE Acks!Spec => []AckInv
<1>1. Acks!Init => AckInv
  BY AckInitHolds
<1>2. AckInv /\ [Acks!Next]_(Acks!vars) => AckInv'
  BY AckStepKeeps
<1> QED
  BY <1>1, <1>2, PTL DEF Acks!Spec

(* The packet, its attempts and what was given up as acknowledged have      *)
(* their types: no attempt is made after the last.                         *)
THEOREM AckTypes == ASSUME AckConstants PROVE Acks!Spec => []Acks!TypeOK
<1>1. AckInv => Acks!TypeOK
  BY DEF AckInv, AckTyped, Acks!TypeOK, Packet
<1> QED
  BY <1>1, AckAlways, PTL

(* A packet FSCI_SendPacketToSerialManager takes for acknowledged has been  *)
(* received, and none is received after a later one, although an answer    *)
(* names no packet: as long as no timeout comes before the answer does.    *)
THEOREM AckedAlwaysReceived == ASSUME AckConstants PROVE Acks!Spec => []Acks!AckedIsReceived
<1>1. AckInv => Acks!AckedIsReceived
  BY DEF AckInv, GotInv, Received, Acks!AckedIsReceived
<1> QED
  BY <1>1, AckAlways, PTL

-----------------------------------------------------------------------------
(* Sfc.                                                                    *)
(* While the clock is measured the host is constrained once, up to the      *)
(* release at which SFC_Enable(false) may be interrupted.                  *)
ClockInv == /\ pc \in {"run", "disable", "restart", "switch"}
            /\ pc = "disable" => enable = TRUE
            /\ enable \in BOOLEAN
            /\ hostLpConstraintCount = IF enable /\ pc \in {"run", "restart"} THEN 1 ELSE 0

LEMMA ClockStepKeeps ==
  ASSUME ClockInv, [Clock!Next]_(Clock!vars)
  PROVE  ClockInv'
<1>1. CASE UNCHANGED <<enable, hostLpConstraintCount, pc>>
  BY <1>1 DEF ClockInv
<1>2. CASE Clock!ProcessIdle
  <2>1. CASE enable
    <3>1. hostLpConstraintCount' = 0 /\ pc' = "disable" /\ enable' = enable
      BY <1>2, <2>1 DEF Clock!ProcessIdle, Clock!Disable, ClockInv
    <3> QED
      BY <2>1, <3>1 DEF ClockInv
  <2>2. CASE ~enable
    BY <1>1, <1>2, <2>2 DEF Clock!ProcessIdle, Clock!Disable
  <2> QED
    BY <2>1, <2>2
<1>3. CASE Clock!EndDisable
  BY <1>3 DEF Clock!EndDisable, ClockInv
<1>4. CASE Clock!ProcessEnable
  BY <1>4 DEF Clock!ProcessEnable, Clock!Enable, ClockInv
<1>5. CASE Clock!Calibrate
  <2>1. enable' = TRUE /\ pc' = "restart" /\ hostLpConstraintCount' = 1
    BY <1>5 DEF Clock!Calibrate, Clock!Enable, ClockInv
  <2> QED
    BY <2>1 DEF ClockInv
<1>6. CASE Clock!Restart
  BY <1>6 DEF Clock!Restart, ClockInv
<1>7. CASE Clock!Switch
  <2>1. enable' = enable /\ pc' = "switch" /\ hostLpConstraintCount' = 0
    BY <1>7 DEF Clock!Switch, ClockInv
  <2> QED
    BY <2>1 DEF ClockInv
<1>8. CASE Clock!EndSwitch
  BY <1>8 DEF Clock!EndSwitch, ClockInv
<1>9. CASE Clock!Drift \/ Clock!Environment \/ Clock!SFC_UpdateConfig \/ Clock!LowPower
           \/ Clock!MeasureCallback \/ Clock!MeasureFails \/ Clock!Overdue
  BY <1>1, <1>9 DEF Clock!Drift, Clock!Environment, Clock!SFC_UpdateConfig, Clock!LowPower,
                    Clock!MeasureCallback, Clock!MeasureFails, Clock!Overdue
<1>10. CASE UNCHANGED Clock!vars
  BY <1>1, <1>10 DEF Clock!vars
<1> QED
  BY <1>2, <1>3, <1>4, <1>5, <1>6, <1>7, <1>8, <1>9, <1>10 DEF Clock!Next, Clock!Process

(* SFC_Enable constrains the host's low power exactly while the 32 kHz      *)
(* clock is measured, whatever interrupts SFC_Process and whichever clock  *)
(* and radio events come and go: no constraint is entered twice or left    *)
(* behind.                                                                 *)
THEOREM ConstrainedAlways == Clock!Spec => []Clock!ConstrainedWhileEnabled
<1>1. Clock!Init => ClockInv
  BY DEF Clock!Init, ClockInv
<1>2. ClockInv /\ [Clock!Next]_(Clock!vars) => ClockInv'
  BY ClockStepKeeps
<1>3. ClockInv => Clock!ConstrainedWhileEnabled
  BY DEF ClockInv, Clock!ConstrainedWhileEnabled
<1> QED
  BY <1>1, <1>2, <1>3, PTL DEF Clock!Spec

-----------------------------------------------------------------------------
(* Sensors: the invariant, in parts.                                       *)
AdcConstants == /\ MaxConstraint \in Nat /\ Requests \subseteq {"never", "period"}
                /\ NoOne \notin Adc!Threads
                /\ Calls \subseteq {"temperature", "battery", "refresh", "refreshBattery", "unsafe"}

Labels == {"ready", "temperature", "battery", "refresh", "refreshBattery", "wait", "restart", "finish"}
Queues == {<<>>, <<"trigger">>, <<"ready">>, <<"trigger", "ready">>, <<"ready", "trigger">>}

AdcTyped == /\ status \in {"idle", "temperature", "battery"}
            /\ interval \in {"never", "period"} /\ timer \in {"off", "retry", "period", "never"}
            /\ constraint \in Nat /\ constraint <= MaxConstraint
            /\ conversion \in BOOLEAN /\ seen \in BOOLEAN
            /\ works \in Queues /\ pc \in [Adc!Threads -> Labels]

(* Who refreshes the temperature holds the lock, and until it is given back *)
(* nothing takes the measurement away; no conversion begins meanwhile.     *)
LockInv == /\ mutex \in Adc!Threads \cup {NoOne}
           /\ \A t \in Adc!Threads : pc[t] \in {"wait", "restart", "finish"} => mutex = t /\ status = "temperature"
           /\ \A t \in Adc!Threads : pc[t] \in {"restart", "finish"} => conversion = FALSE

(* A measurement that is on and not yet refreshed has its constraint. One   *)
(* of the battery that takes over leaves that of the temperature behind.   *)
Measuring == status # "idle" /\ \A t \in Adc!Threads : pc[t] \notin {"restart", "finish"}
HeldInv == /\ Measuring => constraint > 0
           /\ "battery" \notin Calls => /\ status # "battery" /\ \A t \in Adc!Threads : pc[t] # "battery"
                                        /\ constraint = IF Measuring THEN 1 ELSE 0

EndsInv == "invalid" \notin Samples => Adc!MeasurementEnds

AdcInv == AdcTyped /\ LockInv /\ HeldInv /\ EndsInv

LEMMA AppendTwo == ASSUME NEW q, NEW w PROVE Append(<<q>>, w) = <<q, w>>
<1> DEFINE s == Append(<<q>>, w)
           t == <<q, w>>
<1>1. s \in Seq({q, w}) /\ Len(s) = 2 /\ s[1] = q /\ s[2] = w
  OBVIOUS
<1>2. t \in Seq({q, w}) /\ Len(t) = 2 /\ t[1] = q /\ t[2] = w
  OBVIOUS
<1> HIDE DEF s, t
<1>3. \A i \in 1 .. Len(s) : s[i] = t[i]
  BY <1>1, <1>2
<1>4. s = t
  BY <1>1, <1>2, <1>3, SeqEqual
<1> QED
  BY <1>4 DEF s, t

LEMMA TailTwo == ASSUME NEW q, NEW w PROVE Tail(<<q, w>>) = <<w>>
<1> DEFINE s == Tail(<<q, w>>)
           t == <<w>>
<1>1. s \in Seq({q, w}) /\ Len(s) = 1 /\ s[1] = w
  OBVIOUS
<1>2. t \in Seq({q, w}) /\ Len(t) = 1 /\ t[1] = w
  OBVIOUS
<1> HIDE DEF s, t
<1>3. \A i \in 1 .. Len(s) : s[i] = t[i]
  BY <1>1, <1>2
<1>4. s = t
  BY <1>1, <1>2, <1>3, SeqEqual
<1> QED
  BY <1>4 DEF s, t

LEMMA SubmitIs ==
  ASSUME works \in Queues, NEW w \in {"trigger", "ready"}, Adc!Submit(w)
  PROVE  works' \in Queues /\ Adc!Contains(works', w)
         /\ (Adc!Contains(works, "ready") => Adc!Contains(works', "ready"))
<1>1. CASE Adc!Contains(works, w)
  <2>1. works' = works
    BY <1>1 DEF Adc!Submit
  <2> QED
    BY <1>1, <2>1
<1>2. CASE ~Adc!Contains(works, w)
  <2>1. works' = Append(works, w)
    BY <1>2 DEF Adc!Submit
  <2>2. CASE works = <<>>
    <3>1. works' = <<w>> /\ works'[1] = w /\ Len(works') = 1
      BY <2>1, <2>2
    <3> QED
      BY <2>2, <3>1 DEF Queues, Adc!Contains
  <2>3. CASE works \in {<<"trigger">>, <<"ready">>}
    <3>1. Len(works) = 1 /\ works[1] \in {"trigger", "ready"} /\ works = <<works[1]>>
      BY <2>3
    <3>2. w # works[1]
      <4>1. 1 \in 1 .. Len(works)
        BY <3>1
      <4> QED
        BY <1>2, <4>1 DEF Adc!Contains
    <3>3. PICK q : q = works[1]
      OBVIOUS
    <3>4. works' = Append(<<q>>, w)
      BY <2>1, <3>1, <3>3
    <3>5. Append(<<q>>, w) = <<q, w>>
      BY AppendTwo
    <3>6. works' = <<q, w>> /\ works'[1] = q /\ works'[2] = w /\ Len(works') = 2
      BY <3>4, <3>5
    <3>7. works' \in Queues
      BY <3>1, <3>2, <3>3, <3>6 DEF Queues
    <3> QED
      BY <3>1, <3>3, <3>6, <3>7 DEF Adc!Contains
  <2>5. CASE works \in {<<"trigger", "ready">>, <<"ready", "trigger">>}
    <3>1. Len(works) = 2 /\ (works[1] = w \/ works[2] = w)
      BY <2>5
    <3> QED
      BY <1>2, <3>1 DEF Adc!Contains
  <2> QED
    BY <2>2, <2>3, <2>5 DEF Queues
<1> QED
  BY <1>1, <1>2

(* What is left of the queue when its head is taken.                        *)
LEMMA TailIs ==
  ASSUME NEW q \in Queues \ {<<>>}
  PROVE  /\ Tail(q) \in Queues /\ Head(q) \in {"trigger", "ready"}
         /\ Adc!Contains(q, "ready") /\ Head(q) # "ready" => Adc!Contains(Tail(q), "ready")
<1>1. CASE q = <<"trigger">>
  <2>1. Head(q) = "trigger" /\ Tail(q) = <<>> /\ Len(q) = 1 /\ q[1] # "ready"
    BY <1>1
  <2> QED
    BY <2>1 DEF Queues, Adc!Contains
<1>2. CASE q = <<"ready">>
  <2>1. Head(q) = "ready" /\ Tail(q) = <<>>
    BY <1>2
  <2> QED
    BY <2>1 DEF Queues
<1>3. CASE q = <<"trigger", "ready">>
  <2>1. Head(q) = "trigger" /\ Tail(q) = <<"ready">>
    BY <1>3, TailTwo
  <2>2. Len(<<"ready">>) = 1 /\ <<"ready">>[1] = "ready"
    OBVIOUS
  <2> QED
    BY <2>1, <2>2 DEF Queues, Adc!Contains
<1>4. CASE q = <<"ready", "trigger">>
  <2>1. Head(q) = "ready" /\ Tail(q) = <<"trigger">>
    BY <1>4, TailTwo
  <2> QED
    BY <2>1 DEF Queues
<1> QED
  BY <1>1, <1>2, <1>3, <1>4 DEF Queues

(* What the step of a thread does to pc.                                    *)
LEMMA GotoIs ==
  ASSUME AdcTyped, NEW t \in Adc!Threads, NEW l \in Labels, Adc!Goto(t, l)
  PROVE  pc' \in [Adc!Threads -> Labels] /\ pc'[t] = l /\ \A u \in Adc!Threads \ {t} : pc'[u] = pc[u]
<1>1. pc \in [Adc!Threads -> Labels] /\ pc' = [pc EXCEPT ![t] = l]
  BY DEF AdcTyped, Adc!Goto
<1> QED
  BY <1>1

(* Whoever ends a measurement has a constraint to leave.                    *)
LEMMA WaitsAlone ==
  ASSUME AdcInv, NEW t \in Adc!Threads, pc[t] = "wait"
  PROVE  Measuring /\ constraint > 0 /\ mutex = t /\ status = "temperature"
<1>1. mutex = t /\ status = "temperature"
  BY DEF AdcInv, LockInv
<1>2. \A u \in Adc!Threads : pc[u] \notin {"restart", "finish"}
  <2> SUFFICES ASSUME NEW u \in Adc!Threads, pc[u] \in {"restart", "finish"} PROVE FALSE
    OBVIOUS
  <2>1. mutex = u
    BY DEF AdcInv, LockInv
  <2> QED
    BY <1>1, <2>1
<1> QED
  BY <1>1, <1>2 DEF AdcInv, HeldInv, Measuring

LEMMA AdcTypeKept ==
  ASSUME AdcConstants, AdcInv, [Adc!Next]_(Adc!vars)
  PROVE  AdcTyped'
<1>1. AdcTyped /\ LockInv /\ HeldInv
  BY DEF AdcInv
<1>2. "workq" \in Adc!Threads /\ MaxConstraint \in Nat
  BY DEF Adc!Threads, Adc!Workq, AdcConstants
<1>3. ASSUME NEW t \in Adc!Threads, Adc!Call(t)
      PROVE  AdcTyped'
  <2>1. PICK f \in Calls \ {"unsafe"} : Adc!Goto(t, f)
    BY <1>3 DEF Adc!Call
  <2>2. f \in Labels
    BY DEF AdcConstants, Labels
  <2> QED
    BY <1>1, <1>3, <2>1, <2>2, GotoIs DEF Adc!Call, AdcTyped
<1>4. ASSUME Adc!StartTemperature
      PROVE  /\ status' \in {"idle", "temperature", "battery"} /\ constraint' \in Nat
             /\ constraint' <= MaxConstraint /\ conversion' \in BOOLEAN
  <2>1. CASE status = "idle"
    <3>1. constraint \in Nat /\ constraint < MaxConstraint /\ constraint' = constraint + 1
      BY <1>1, <1>4, <2>1 DEF Adc!StartTemperature, AdcTyped
    <3>2. constraint' \in Nat /\ constraint' <= MaxConstraint
      BY <1>2, <3>1
    <3> QED
      BY <1>4, <2>1, <3>2 DEF Adc!StartTemperature
  <2>2. CASE status # "idle"
    BY <1>1, <1>4, <2>2 DEF Adc!StartTemperature, AdcTyped
  <2> QED
    BY <2>1, <2>2
<1>5. ASSUME NEW t \in Adc!Threads, Adc!Temperature(t)
      PROVE  AdcTyped'
  <2>1. Adc!Goto(t, "ready") /\ "ready" \in Labels
    BY <1>5 DEF Adc!Temperature, Labels
  <2>2. pc' \in [Adc!Threads -> Labels]
    BY <1>1, <2>1, GotoIs
  <2> QED
    BY <1>1, <1>4, <1>5, <2>2 DEF Adc!Temperature, AdcTyped
<1>6. CASE Adc!Unsafe
  BY <1>1, <1>4, <1>6 DEF Adc!Unsafe, AdcTyped
<1>7. ASSUME NEW t \in Adc!Threads, Adc!Battery(t)
      PROVE  AdcTyped'
  <2>1. Adc!Goto(t, "ready") /\ "ready" \in Labels
    BY <1>7 DEF Adc!Battery, Labels
  <2>2. pc' \in [Adc!Threads -> Labels]
    BY <1>1, <2>1, GotoIs
  <2>3. constraint \in Nat /\ constraint < MaxConstraint /\ constraint' = constraint + 1
    BY <1>1, <1>7 DEF Adc!Battery, AdcTyped
  <2>4. constraint' \in Nat /\ constraint' <= MaxConstraint
    BY <1>2, <2>3
  <2> QED
    BY <1>1, <1>7, <2>2, <2>4 DEF Adc!Battery, AdcTyped
<1>8. ASSUME constraint > 0, constraint' = constraint - 1
      PROVE  constraint' \in Nat /\ constraint' <= MaxConstraint
  <2>1. constraint \in Nat /\ constraint <= MaxConstraint
    BY <1>1 DEF AdcTyped
  <2> QED
    BY <1>2, <1>8, <2>1
<1>9. ASSUME NEW t \in Adc!Threads, Adc!RefreshBattery(t)
      PROVE  AdcTyped'
  <2>1. Adc!Goto(t, "ready") /\ "ready" \in Labels
    BY <1>9 DEF Adc!RefreshBattery, Labels
  <2>2. pc' \in [Adc!Threads -> Labels]
    BY <1>1, <2>1, GotoIs
  <2>3. constraint' \in Nat /\ constraint' <= MaxConstraint /\ status' \in {"idle", "temperature", "battery"}
    <3>1. CASE status = "battery"
      <4>1. Measuring
        BY <1>1, <3>1 DEF Measuring, LockInv
      <4>2. constraint > 0 /\ constraint' = constraint - 1 /\ status' = "idle"
        BY <1>1, <1>9, <3>1, <4>1 DEF HeldInv, Adc!RefreshBattery
      <4> QED
        BY <1>8, <4>2
    <3>2. CASE status # "battery"
      BY <1>1, <1>9, <3>2 DEF Adc!RefreshBattery, AdcTyped
    <3> QED
      BY <3>1, <3>2
  <2> QED
    BY <1>1, <1>9, <2>2, <2>3 DEF Adc!RefreshBattery, AdcTyped
<1>10. ASSUME NEW t \in Adc!Threads, Adc!Refresh(t)
       PROVE  AdcTyped'
  <2>1. PICK l \in {"ready", "wait"} : Adc!Goto(t, l)
    BY <1>10 DEF Adc!Refresh
  <2>2. pc' \in [Adc!Threads -> Labels]
    BY <1>1, <2>1, GotoIs DEF Labels
  <2> QED
    BY <1>1, <1>10, <2>2 DEF Adc!Refresh, AdcTyped
<1>11. ASSUME NEW t \in Adc!Threads, Adc!Wait(t)
       PROVE  AdcTyped'
  <2>1. Adc!Goto(t, "restart") /\ "restart" \in Labels /\ pc[t] = "wait"
    BY <1>11 DEF Adc!Wait, Labels
  <2>2. pc' \in [Adc!Threads -> Labels]
    BY <1>1, <2>1, GotoIs
  <2>3. constraint' \in Nat /\ constraint' <= MaxConstraint
    BY <1>8, <1>11, <2>1, WaitsAlone DEF Adc!Wait
  <2>4. seen' \in BOOLEAN
    BY <1>11 DEF Adc!Wait
  <2> QED
    BY <1>1, <1>11, <2>2, <2>3, <2>4 DEF Adc!Wait, AdcTyped
<1>12. ASSUME NEW t \in Adc!Threads, Adc!Restart(t)
       PROVE  AdcTyped'
  <2>1. Adc!Goto(t, "finish") /\ "finish" \in Labels
    BY <1>12 DEF Adc!Restart, Labels
  <2>2. pc' \in [Adc!Threads -> Labels]
    BY <1>1, <2>1, GotoIs
  <2>3. timer' \in {"off", "retry", "period", "never"}
    BY <1>1, <1>12 DEF Adc!Restart, AdcTyped
  <2> QED
    BY <1>1, <1>12, <2>2, <2>3 DEF Adc!Restart, AdcTyped
<1>13. ASSUME NEW t \in Adc!Threads, Adc!Finish(t)
       PROVE  AdcTyped'
  <2>1. Adc!Goto(t, "ready") /\ "ready" \in Labels
    BY <1>13 DEF Adc!Finish, Labels
  <2>2. pc' \in [Adc!Threads -> Labels]
    BY <1>1, <2>1, GotoIs
  <2> QED
    BY <1>1, <1>13, <2>2 DEF Adc!Finish, AdcTyped
<1>14. CASE Adc!RunWork
  <2>1. works \in Queues \ {<<>>} /\ works' = Tail(works)
    BY <1>1, <1>14 DEF Adc!RunWork, AdcTyped
  <2>2. works' \in Queues
    BY <2>1, TailIs
  <2>3. pc' \in [Adc!Threads -> Labels] /\ timer' \in {"off", "retry", "period", "never"}
    <3>1. CASE \E l \in {"refresh", "temperature"} : Adc!Goto("workq", l) /\ timer' = timer
      BY <1>1, <1>2, <3>1, GotoIs DEF Labels, AdcTyped
    <3>2. CASE pc' = pc /\ timer' = "retry"
      BY <1>1, <3>2 DEF AdcTyped
    <3> QED
      BY <1>14, <3>1, <3>2 DEF Adc!RunWork, Adc!Workq
  <2> QED
    BY <1>1, <1>14, <2>2, <2>3 DEF Adc!RunWork, AdcTyped
<1>15. CASE Adc!Converted
  <2>1. works' \in Queues
    BY <1>1, <1>15, SubmitIs DEF Adc!Converted, AdcTyped
  <2> QED
    BY <1>1, <1>15, <2>1 DEF Adc!Converted, AdcTyped
<1>16. CASE Adc!Expire
  <2>1. works' \in Queues
    BY <1>1, <1>16, SubmitIs DEF Adc!Expire, AdcTyped
  <2> QED
    BY <1>1, <1>16, <2>1 DEF Adc!Expire, AdcTyped
<1>17. ASSUME NEW i \in Requests, Adc!Request(i)
       PROVE  AdcTyped'
  <2>1. works' \in Queues
    BY <1>1, <1>17, SubmitIs DEF Adc!Request, AdcTyped
  <2>2. interval' \in {"never", "period"}
    BY <1>17 DEF Adc!Request, AdcConstants
  <2> QED
    BY <1>1, <1>17, <2>1, <2>2 DEF Adc!Request, AdcTyped
<1>18. CASE UNCHANGED Adc!vars
  BY <1>1, <1>18 DEF AdcTyped, Adc!vars
<1> QED
  BY <1>3, <1>5, <1>6, <1>7, <1>9, <1>10, <1>11, <1>12, <1>13, <1>14, <1>15, <1>16, <1>17, <1>18
     DEF Adc!Next, Adc!Step

(* Nobody refreshes while the lock is free.                                 *)
LEMMA FreeLock ==
  ASSUME AdcConstants, LockInv, mutex = NoOne
  PROVE  \A u \in Adc!Threads : pc[u] \notin {"wait", "restart", "finish"}
<1> SUFFICES ASSUME NEW u \in Adc!Threads, pc[u] \in {"wait", "restart", "finish"} PROVE FALSE
  OBVIOUS
<1>1. mutex = u
  BY DEF LockInv
<1> QED
  BY <1>1 DEF AdcConstants

LEMMA LockKept ==
  ASSUME AdcConstants, AdcInv, [Adc!Next]_(Adc!vars)
  PROVE  LockInv'
<1> DEFINE Quiet(l) == l \notin {"wait", "restart", "finish"}
<1>1. AdcTyped /\ LockInv /\ "workq" \in Adc!Threads
  BY DEF AdcInv, Adc!Threads, Adc!Workq
(* Who does not refresh does not matter.                                   *)
<1>2. ASSUME NEW t \in Adc!Threads, NEW l \in Labels, Adc!Goto(t, l), Quiet(l),
             mutex' = mutex, status' = status, conversion' = conversion
      PROVE  LockInv'
  BY <1>1, <1>2, GotoIs DEF LockInv
<1>3. ASSUME NEW t \in Adc!Threads, NEW l \in Labels, Adc!Goto(t, l), Quiet(l),
             mutex = NoOne, mutex' = NoOne
      PROVE  LockInv'
  <2>1. \A u \in Adc!Threads : Quiet(pc[u])
    BY <1>1, <1>3, FreeLock
  <2>2. \A u \in Adc!Threads : Quiet(pc'[u])
    BY <1>1, <1>3, <2>1, GotoIs
  <2> QED
    BY <1>3, <2>2 DEF LockInv
<1>4. ASSUME NEW t \in Adc!Threads, Adc!Call(t)
      PROVE  LockInv'
  <2>1. PICK f \in Calls \ {"unsafe"} : Adc!Goto(t, f)
    BY <1>4 DEF Adc!Call
  <2>2. f \in Labels /\ Quiet(f)
    BY DEF AdcConstants, Labels
  <2> QED
    BY <1>2, <1>4, <2>1, <2>2 DEF Adc!Call
<1>5. ASSUME NEW t \in Adc!Threads, Adc!Temperature(t) \/ Adc!Battery(t) \/ Adc!RefreshBattery(t)
      PROVE  LockInv'
  BY <1>3, <1>5 DEF Adc!Temperature, Adc!Battery, Adc!RefreshBattery, Labels
<1>6. CASE Adc!Unsafe
  <2>1. pc' = pc /\ mutex' = mutex
    BY <1>6 DEF Adc!Unsafe
  <2>2. CASE status = "idle"
    BY <1>1, <2>1, <2>2 DEF LockInv
  <2>3. CASE status # "idle"
    BY <1>1, <1>6, <2>1, <2>3 DEF LockInv, Adc!Unsafe, Adc!StartTemperature
  <2> QED
    BY <2>2, <2>3
<1>7. ASSUME NEW t \in Adc!Threads, Adc!Refresh(t)
      PROVE  LockInv'
  <2>1. mutex = NoOne /\ status' = status /\ conversion' = conversion
    BY <1>7 DEF Adc!Refresh
  <2>2. CASE Adc!Goto(t, "ready") /\ mutex' = mutex
    BY <1>2, <2>1, <2>2 DEF Labels
  <2>3. CASE status = "temperature" /\ mutex' = t /\ Adc!Goto(t, "wait")
    <3>1. pc'[t] = "wait" /\ \A u \in Adc!Threads \ {t} : pc'[u] = pc[u]
      BY <1>1, <2>3, GotoIs DEF Labels
    <3>2. \A u \in Adc!Threads : Quiet(pc[u])
      BY <1>1, <2>1, FreeLock
    <3>3. \A u \in Adc!Threads \ {t} : Quiet(pc'[u])
      BY <3>1, <3>2
    <3> QED
      BY <2>1, <2>3, <3>1, <3>3 DEF LockInv
  <2> QED
    BY <1>7, <2>2, <2>3 DEF Adc!Refresh
<1>8. ASSUME NEW t \in Adc!Threads, Adc!Wait(t) \/ Adc!Restart(t)
      PROVE  LockInv'
  <2>1. PICK l \in {"restart", "finish"} : Adc!Goto(t, l)
    BY <1>8 DEF Adc!Wait, Adc!Restart
  <2>2. pc'[t] \in {"restart", "finish"} /\ \A u \in Adc!Threads \ {t} : pc'[u] = pc[u]
    BY <1>1, <2>1, GotoIs DEF Labels
  <2>3. /\ pc[t] \in {"wait", "restart"} /\ conversion' = conversion /\ mutex' = mutex
        /\ status' = status /\ (pc[t] = "wait" => conversion = FALSE)
    BY <1>1, <1>8 DEF Adc!Wait, Adc!Restart, AdcTyped
  <2> QED
    BY <1>1, <2>2, <2>3 DEF LockInv
<1>9. ASSUME NEW t \in Adc!Threads, Adc!Finish(t)
      PROVE  LockInv'
  <2>1. pc'[t] = "ready" /\ \A u \in Adc!Threads \ {t} : pc'[u] = pc[u]
    BY <1>1, <1>9, GotoIs DEF Adc!Finish, Labels
  <2>2. \A u \in Adc!Threads \ {t} : Quiet(pc[u])
    <3>1. mutex = t
      BY <1>1, <1>9 DEF LockInv, Adc!Finish
    <3> QED
      BY <1>1, <3>1 DEF LockInv
  <2>3. mutex' = NoOne
    BY <1>9 DEF Adc!Finish
  <2> QED
    BY <2>1, <2>2, <2>3 DEF LockInv
<1>10. ASSUME pc' = pc, mutex' = mutex, status' = status, conversion' = conversion \/ conversion' = FALSE
       PROVE  LockInv'
  BY <1>1, <1>10 DEF LockInv
<1>11. CASE Adc!RunWork
  <2>1. mutex' = mutex /\ status' = status /\ conversion' = conversion
    BY <1>11 DEF Adc!RunWork
  <2>2. CASE \E l \in {"refresh", "temperature"} : Adc!Goto("workq", l)
    BY <1>1, <1>2, <2>1, <2>2 DEF Labels
  <2>3. CASE pc' = pc
    BY <1>10, <2>1, <2>3
  <2> QED
    BY <1>11, <2>2, <2>3 DEF Adc!RunWork, Adc!Workq
<1>12. CASE Adc!Converted \/ Adc!Expire \/ \E i \in Requests : Adc!Request(i)
  BY <1>10, <1>12 DEF Adc!Converted, Adc!Expire, Adc!Request
<1>13. CASE UNCHANGED Adc!vars
  BY <1>10, <1>13 DEF Adc!vars
<1> QED
  BY <1>4, <1>5, <1>6, <1>7, <1>8, <1>9, <1>11, <1>12, <1>13 DEF Adc!Next, Adc!Step

LEMMA HeldKept ==
  ASSUME AdcConstants, AdcInv, [Adc!Next]_(Adc!vars)
  PROVE  HeldInv'
<1> DEFINE Inside(l) == l \in {"restart", "finish"}
           Only == "battery" \notin Calls
<1>1. AdcTyped /\ LockInv /\ HeldInv /\ "workq" \in Adc!Threads /\ constraint \in Nat
  BY DEF AdcInv, AdcTyped, Adc!Threads, Adc!Workq
(* A step that neither begins nor ends anything.                           *)
<1>2. ASSUME NEW t \in Adc!Threads, NEW l \in Labels, Adc!Goto(t, l), ~Inside(l), ~Inside(pc[t]),
             Only => l # "battery", status' = status, constraint' = constraint
      PROVE  HeldInv'
  <2>1. pc'[t] = l /\ \A u \in Adc!Threads \ {t} : pc'[u] = pc[u]
    BY <1>1, <1>2, GotoIs
  <2>2. Measuring' = Measuring
    BY <1>2, <2>1 DEF Measuring
  <2>3. Only => \A u \in Adc!Threads : pc'[u] # "battery"
    BY <1>1, <1>2, <2>1 DEF HeldInv
  <2> QED
    BY <1>1, <1>2, <2>2, <2>3 DEF HeldInv
<1>3. ASSUME pc' = pc, status' = status, constraint' = constraint
      PROVE  HeldInv'
  BY <1>1, <1>3 DEF HeldInv, Measuring
<1>4. ASSUME NEW t \in Adc!Threads, Adc!Call(t)
      PROVE  HeldInv'
  <2>1. PICK f \in Calls \ {"unsafe"} : Adc!Goto(t, f)
    BY <1>4 DEF Adc!Call
  <2>2. f \in Labels /\ ~Inside(f) /\ (Only => f # "battery")
    BY DEF AdcConstants, Labels
  <2> QED
    BY <1>2, <1>4, <2>1, <2>2 DEF Adc!Call
<1>5. ASSUME Adc!StartTemperature, status = "idle", \A u \in Adc!Threads : ~Inside(pc'[u]),
             Only => \A u \in Adc!Threads : pc'[u] # "battery"
      PROVE  HeldInv'
  <2>1. status' = "temperature" /\ constraint' = constraint + 1
    BY <1>5 DEF Adc!StartTemperature
  <2>2. constraint' > 0
    BY <1>1, <2>1
  <2>3. Only => constraint = 0
    BY <1>1, <1>5 DEF HeldInv, Measuring
  <2>4. Measuring'
    BY <1>5, <2>1 DEF Measuring
  <2> QED
    BY <1>5, <2>1, <2>2, <2>3, <2>4 DEF HeldInv
<1>6. ASSUME NEW t \in Adc!Threads, Adc!Temperature(t)
      PROVE  HeldInv'
  <2>1. mutex = NoOne /\ Adc!Goto(t, "ready") /\ pc[t] = "temperature" /\ Adc!StartTemperature
    BY <1>6 DEF Adc!Temperature
  <2>2. CASE status = "idle"
    <3>1. pc'[t] = "ready" /\ \A u \in Adc!Threads \ {t} : pc'[u] = pc[u]
      BY <1>1, <2>1, GotoIs DEF Labels
    <3>2. \A u \in Adc!Threads : ~Inside(pc[u])
      BY <1>1, <2>1, FreeLock
    <3>3. \A u \in Adc!Threads : ~Inside(pc'[u])
      BY <3>1, <3>2
    <3>4. Only => \A u \in Adc!Threads : pc'[u] # "battery"
      BY <1>1, <3>1 DEF HeldInv
    <3> QED
      BY <1>5, <2>1, <2>2, <3>3, <3>4
  <2>3. CASE status # "idle"
    BY <1>2, <2>1, <2>3 DEF Adc!StartTemperature, Labels
  <2> QED
    BY <2>2, <2>3
<1>7. CASE Adc!Unsafe
  <2>1. Adc!StartTemperature /\ pc' = pc
    BY <1>7 DEF Adc!Unsafe
  <2>2. CASE status = "idle"
    <3>1. \A u \in Adc!Threads : ~Inside(pc'[u])
      BY <1>1, <2>1, <2>2 DEF LockInv
    <3>2. Only => \A u \in Adc!Threads : pc'[u] # "battery"
      BY <1>1, <2>1 DEF HeldInv
    <3> QED
      BY <1>5, <2>1, <2>2, <3>1, <3>2
  <2>3. CASE status # "idle"
    BY <1>3, <2>1, <2>3 DEF Adc!StartTemperature
  <2> QED
    BY <2>2, <2>3
<1>8. ASSUME NEW t \in Adc!Threads, Adc!Battery(t)
      PROVE  HeldInv'
  <2>1. ~Only
    BY <1>1, <1>8 DEF HeldInv, Adc!Battery
  <2>2. constraint' > 0
    BY <1>1, <1>8 DEF Adc!Battery
  <2> QED
    BY <2>1, <2>2 DEF HeldInv
<1>9. ASSUME NEW t \in Adc!Threads, Adc!RefreshBattery(t)
      PROVE  HeldInv'
  <2>1. CASE status = "battery"
    <3>1. status' = "idle"
      BY <1>9, <2>1 DEF Adc!RefreshBattery
    <3>2. ~Only
      BY <1>1, <2>1 DEF HeldInv
    <3> QED
      BY <3>1, <3>2 DEF HeldInv, Measuring
  <2>2. CASE status # "battery"
    BY <1>2, <1>9, <2>2 DEF Adc!RefreshBattery, Labels
  <2> QED
    BY <2>1, <2>2
<1>10. ASSUME NEW t \in Adc!Threads, Adc!Refresh(t)
       PROVE  HeldInv'
  <2>1. PICK l \in {"ready", "wait"} : Adc!Goto(t, l)
    BY <1>10 DEF Adc!Refresh
  <2> QED
    BY <1>2, <1>10, <2>1 DEF Adc!Refresh, Labels
(* The end of a refresh: nothing is measured.                              *)
<1>11. ASSUME NEW t \in Adc!Threads, Adc!Wait(t) \/ Adc!Restart(t) \/ Adc!Finish(t)
       PROVE  HeldInv'
  <2>1. PICK l \in {"restart", "finish", "ready"} : Adc!Goto(t, l)
    BY <1>11 DEF Adc!Wait, Adc!Restart, Adc!Finish
  <2>2. pc'[t] = l /\ \A u \in Adc!Threads \ {t} : pc'[u] = pc[u]
    BY <1>1, <2>1, GotoIs DEF Labels
  <2>3. ~Measuring'
    <3>1. CASE Adc!Finish(t)
      BY <3>1 DEF Measuring, Adc!Finish
    <3>2. CASE Adc!Wait(t)
      <4>1. pc'[t] = "restart"
        BY <1>1, <3>2, GotoIs DEF Labels, Adc!Wait
      <4> QED
        BY <4>1 DEF Measuring
    <3>3. CASE Adc!Restart(t)
      <4>1. pc'[t] = "finish"
        BY <1>1, <3>3, GotoIs DEF Labels, Adc!Restart
      <4> QED
        BY <4>1 DEF Measuring
    <3> QED
      BY <1>11, <3>1, <3>2, <3>3
  <2>4. Only => constraint' = 0
    <3>1. CASE Adc!Wait(t)
      <4>1. Measuring
        BY <3>1, WaitsAlone DEF Adc!Wait
      <4>2. Only => constraint = 1
        BY <1>1, <4>1 DEF HeldInv
      <4>3. constraint' = constraint - 1
        BY <3>1 DEF Adc!Wait
      <4> QED
        BY <4>2, <4>3
    <3>2. CASE Adc!Restart(t) \/ Adc!Finish(t)
      <4>1. Inside(pc[t]) /\ constraint' = constraint
        BY <3>2 DEF Adc!Restart, Adc!Finish
      <4>2. ~Measuring
        BY <4>1 DEF Measuring
      <4> QED
        BY <1>1, <4>1, <4>2 DEF HeldInv
    <3> QED
      BY <1>11, <3>1, <3>2
  <2>5. Only => status' # "battery" /\ \A u \in Adc!Threads : pc'[u] # "battery"
    <3>1. status' \in {"idle", status}
      BY <1>11 DEF Adc!Wait, Adc!Restart, Adc!Finish
    <3> QED
      BY <1>1, <2>2, <3>1 DEF HeldInv
  <2> QED
    BY <2>3, <2>4, <2>5 DEF HeldInv
<1>12. CASE Adc!RunWork
  <2>1. status' = status /\ constraint' = constraint /\ pc["workq"] = "ready"
    BY <1>12 DEF Adc!RunWork, Adc!Workq
  <2>2. CASE \E l \in {"refresh", "temperature"} : Adc!Goto("workq", l)
    BY <1>1, <1>2, <2>1, <2>2 DEF Labels
  <2>3. CASE pc' = pc
    BY <1>3, <2>1, <2>3
  <2> QED
    BY <1>12, <2>2, <2>3 DEF Adc!RunWork, Adc!Workq
<1>13. CASE Adc!Converted \/ Adc!Expire \/ \E i \in Requests : Adc!Request(i)
  BY <1>3, <1>13 DEF Adc!Converted, Adc!Expire, Adc!Request
<1>14. CASE UNCHANGED Adc!vars
  BY <1>3, <1>14 DEF Adc!vars
<1> QED
  BY <1>4, <1>6, <1>7, <1>8, <1>9, <1>10, <1>11, <1>12, <1>13, <1>14 DEF Adc!Next, Adc!Step

LEMMA EndsKept ==
  ASSUME AdcConstants, AdcInv, [Adc!Next]_(Adc!vars)
  PROVE  EndsInv'
<1> SUFFICES ASSUME "invalid" \notin Samples, status' = "temperature" PROVE Adc!Attended'
  BY DEF EndsInv, Adc!MeasurementEnds
<1> DEFINE Busy(l) == l \in {"refresh", "wait", "restart", "finish"}
<1>1. AdcTyped /\ LockInv /\ "workq" \in Adc!Threads /\ (status = "temperature" => Adc!Attended)
  BY DEF AdcInv, EndsInv, Adc!MeasurementEnds, Adc!Threads, Adc!Workq
(* Whoever goes on leaves the measurement attended.                        *)
<1>2. ASSUME NEW t \in Adc!Threads, NEW l \in Labels, Adc!Goto(t, l), Busy(pc[t]) => Busy(l),
             status = "temperature", conversion' = conversion, works' = works
      PROVE  Adc!Attended'
  <2>1. pc'[t] = l /\ \A u \in Adc!Threads \ {t} : pc'[u] = pc[u]
    BY <1>1, <1>2, GotoIs
  <2>2. CASE conversion \/ Adc!Contains(works, "ready")
    BY <1>2, <2>2 DEF Adc!Attended
  <2>3. CASE \E u \in Adc!Threads : Busy(pc[u])
    BY <1>2, <2>1, <2>3 DEF Adc!Attended
  <2> QED
    BY <1>1, <1>2, <2>2, <2>3 DEF Adc!Attended
<1>3. ASSUME pc' = pc, status = "temperature", conversion' = conversion,
             Adc!Contains(works, "ready") => Adc!Contains(works', "ready")
      PROVE  Adc!Attended'
  BY <1>1, <1>3 DEF Adc!Attended
<1>4. ASSUME NEW t \in Adc!Threads, Adc!Call(t)
      PROVE  Adc!Attended'
  <2>1. PICK f \in Calls \ {"unsafe"} : Adc!Goto(t, f)
    BY <1>4 DEF Adc!Call
  <2>2. f \in Labels
    BY DEF AdcConstants, Labels
  <2>3. ~Busy(pc[t]) /\ status = "temperature" /\ conversion' = conversion /\ works' = works
    BY <1>4 DEF Adc!Call
  <2> QED
    BY <1>2, <2>1, <2>2, <2>3
<1>5. ASSUME Adc!StartTemperature, status = "idle"
      PROVE  Adc!Attended'
  <2>1. conversion' = TRUE
    BY <1>5 DEF Adc!StartTemperature
  <2> QED
    BY <2>1 DEF Adc!Attended
<1>6. ASSUME NEW t \in Adc!Threads, Adc!Temperature(t)
      PROVE  Adc!Attended'
  <2>1. Adc!Goto(t, "ready") /\ pc[t] = "temperature" /\ Adc!StartTemperature /\ works' = works
    BY <1>6 DEF Adc!Temperature
  <2>2. CASE status # "idle"
    BY <1>2, <2>1, <2>2 DEF Adc!StartTemperature, Labels
  <2> QED
    BY <1>5, <2>1, <2>2
<1>7. CASE Adc!Unsafe
  <2>1. CASE status # "idle"
    BY <1>3, <1>7, <2>1 DEF Adc!Unsafe, Adc!StartTemperature
  <2> QED
    BY <1>5, <1>7, <2>1 DEF Adc!Unsafe
<1>8. ASSUME NEW t \in Adc!Threads, Adc!Battery(t)
      PROVE  FALSE
  BY <1>8 DEF Adc!Battery
<1>9. ASSUME NEW t \in Adc!Threads, Adc!RefreshBattery(t)
      PROVE  Adc!Attended'
  BY <1>2, <1>9 DEF Adc!RefreshBattery, Labels
<1>10. ASSUME NEW t \in Adc!Threads, Adc!Refresh(t)
       PROVE  Adc!Attended'
  BY <1>2, <1>10 DEF Adc!Refresh, Labels
<1>11. ASSUME NEW t \in Adc!Threads, Adc!Wait(t) \/ Adc!Restart(t)
       PROVE  Adc!Attended'
  <2>1. PICK l \in {"restart", "finish"} : Adc!Goto(t, l)
    BY <1>11 DEF Adc!Wait, Adc!Restart
  <2> QED
    BY <1>2, <1>11, <2>1 DEF Adc!Wait, Adc!Restart, Labels
<1>12. ASSUME NEW t \in Adc!Threads, Adc!Finish(t)
       PROVE  FALSE
  BY <1>12 DEF Adc!Finish
<1>13. CASE Adc!RunWork
  <2>1. status = "temperature" /\ conversion' = conversion /\ works' = Tail(works) /\ pc["workq"] = "ready"
    BY <1>13 DEF Adc!RunWork, Adc!Workq
  <2>2. works \in Queues \ {<<>>}
    BY <1>1, <1>13 DEF Adc!RunWork, AdcTyped
  <2>3. CASE Head(works) = "ready"
    <3>1. Adc!Goto("workq", "refresh")
      BY <1>13, <2>3 DEF Adc!RunWork, Adc!Workq
    <3>2. pc'["workq"] = "refresh"
      BY <1>1, <3>1, GotoIs DEF Labels
    <3> QED
      BY <1>1, <3>2 DEF Adc!Attended
  <2>4. CASE Head(works) # "ready"
    <3>1. Adc!Contains(works, "ready") => Adc!Contains(works', "ready")
      BY <2>1, <2>2, <2>4, TailIs
    <3>2. pc' = pc
      BY <1>13, <2>1, <2>4 DEF Adc!RunWork
    <3> QED
      BY <1>3, <2>1, <3>1, <3>2
  <2> QED
    BY <2>3, <2>4
<1>14. CASE Adc!Converted
  <2>1. Adc!Submit("ready")
    BY <1>14 DEF Adc!Converted
  <2>2. Adc!Contains(works', "ready")
    BY <1>1, <2>1, SubmitIs DEF AdcTyped
  <2> QED
    BY <2>2 DEF Adc!Attended
<1>15. CASE Adc!Expire \/ \E i \in Requests : Adc!Request(i)
  <2>1. Adc!Submit("trigger") /\ pc' = pc /\ status = "temperature" /\ conversion' = conversion
    BY <1>15 DEF Adc!Expire, Adc!Request
  <2>2. Adc!Contains(works, "ready") => Adc!Contains(works', "ready")
    BY <1>1, <2>1, SubmitIs DEF AdcTyped
  <2> QED
    BY <1>3, <2>1, <2>2
<1>16. CASE UNCHANGED Adc!vars
  BY <1>3, <1>16 DEF Adc!vars
<1> QED
  BY <1>4, <1>6, <1>7, <1>8, <1>9, <1>10, <1>11, <1>12, <1>13, <1>14, <1>15, <1>16
     DEF Adc!Next, Adc!Step

LEMMA AdcAlways == ASSUME AdcConstants PROVE Adc!Spec => []AdcInv
<1>1. Adc!Init => AdcInv
  <2> SUFFICES ASSUME Adc!Init PROVE AdcInv
    OBVIOUS
  <2>1. /\ status = "idle" /\ interval = "never" /\ timer = "off" /\ constraint = 0
        /\ conversion = FALSE /\ works = <<>> /\ mutex = NoOne /\ seen = FALSE
        /\ pc = [t \in Adc!Threads |-> "ready"]
    BY DEF Adc!Init, Adc!Never
  <2>2. AdcTyped
    <3>1. works \in Queues
      BY <2>1 DEF Queues
    <3>2. pc \in [Adc!Threads -> Labels]
      BY <2>1 DEF Labels
    <3>3. constraint \in Nat /\ constraint <= MaxConstraint
      BY <2>1 DEF AdcConstants
    <3> QED
      BY <2>1, <3>1, <3>2, <3>3 DEF AdcTyped
  <2>3. LockInv /\ HeldInv /\ EndsInv
    BY <2>1 DEF LockInv, HeldInv, EndsInv, Measuring, Adc!MeasurementEnds
  <2> QED
    BY <2>2, <2>3 DEF AdcInv
<1>2. AdcInv /\ [Adc!Next]_(Adc!vars) => AdcInv'
  BY AdcTypeKept, LockKept, HeldKept, EndsKept DEF AdcInv
<1> QED
  BY <1>1, <1>2, PTL DEF Adc!Spec

(* The types: the system work queue never has more than one of each of the  *)
(* two works, and no constraint is left that was not entered.              *)
THEOREM AdcTypes == ASSUME AdcConstants PROVE Adc!Spec => []Adc!TypeOK
<1>1. ASSUME AdcInv PROVE Adc!TypeOK
  <2>1. AdcTyped /\ mutex \in Adc!Threads \cup {NoOne}
    BY <1>1 DEF AdcInv, LockInv
  <2>2. works \in Seq(Adc!Work) /\ Len(works) <= 2
    <3>3. works = <<>> => works \in Seq(Adc!Work) /\ Len(works) = 0
      OBVIOUS
    <3>4. \/ works = <<>> \/ works = <<"trigger">> \/ works = <<"ready">>
          \/ works = <<"trigger", "ready">> \/ works = <<"ready", "trigger">>
      BY <2>1 DEF AdcTyped, Queues
    <3>5. CASE works = <<"trigger">>
      BY <3>5 DEF Adc!Work
    <3>6. CASE works = <<"ready">>
      BY <3>6 DEF Adc!Work
    <3>7. CASE works = <<"trigger", "ready">>
      BY <3>7 DEF Adc!Work
    <3>8. CASE works = <<"ready", "trigger">>
      BY <3>8 DEF Adc!Work
    <3> QED
      BY <3>3, <3>4, <3>5, <3>6, <3>7, <3>8
  <2>3. constraint \in 0 .. MaxConstraint
    BY <2>1 DEF AdcTyped, AdcConstants
  <2> QED
    BY <2>1, <2>2, <2>3 DEF AdcTyped, Labels, Adc!TypeOK, Adc!Never
<1>2. AdcInv => Adc!TypeOK
  BY <1>1
<1> QED
  BY <1>2, AdcAlways, PTL

(* Without battery measurements low power is constrained once while a       *)
(* temperature measurement is on, and not at all otherwise, whichever      *)
(* tasks, interrupts and works start and refresh it.                       *)
THEOREM ConstraintOnce ==
  ASSUME AdcConstants, "battery" \notin Calls PROVE Adc!Spec => []Adc!ConstrainedOnce
<1>1. AdcInv => Adc!ConstrainedOnce
  BY DEF AdcInv, HeldInv, Measuring, Adc!ConstrainedOnce, Adc!Refreshed
<1> QED
  BY <1>1, AdcAlways, PTL

(* A temperature measurement that is on has somebody who will end it, also  *)
(* when a battery measurement has taken the ADC over, as long as the       *)
(* readings are valid.                                                     *)
THEOREM MeasurementsEnd ==
  ASSUME AdcConstants, "invalid" \notin Samples PROVE Adc!Spec => []Adc!MeasurementEnds
<1>1. AdcInv => Adc!MeasurementEnds
  BY DEF AdcInv, EndsInv
<1> QED
  BY <1>1, AdcAlways, PTL

(* SENSORS_RefreshTemperatureValue takes the value of a conversion that has *)
(* ended, and none begins before it has returned, whoever calls what.      *)
THEOREM ValuesConverted == ASSUME AdcConstants PROVE Adc!Spec => []Adc!ValueConverted
<1>1. AdcInv => Adc!ValueConverted
  BY DEF AdcInv, LockInv, Adc!ValueConverted, Adc!Refreshed
<1> QED
  BY <1>1, AdcAlways, PTL

-----------------------------------------------------------------------------
(* HwParam: the invariant, in parts. Parameters are told from what is not   *)
(* valid, and both from nothing saved; legacy ones, if any, are parameters.*)
HwConstants == /\ NoSave \notin Values \cup {"blank", "torn", "ecc"}
               /\ Values \cap {"blank", "torn", "ecc"} = {}
               /\ Legacy \in Values \cup {NoSave} /\ MaxFaults \in Nat

Content == Values \cup {"blank", "torn", "ecc"}
HwTyped == /\ sector.prod \in Content /\ sector.app \in Content
           /\ sector.rsvd \in {Rsvd, "blank", "torn", "ecc"}
           /\ sector = [a \in {"rsvd", "prod", "app"} |-> sector[a]]
           /\ kept \in [{"prod", "app"} -> Content]
           /\ ram \in Values \cup {"blank"} /\ loaded \in BOOLEAN
           /\ pc \in {"idle", "erase", "program", "rsvd", "other"}
           /\ call \in {"prod", "app"} /\ want \in Values \cup {"blank"}
           /\ saved.other \in Values \cup {NoSave} /\ saved.rsvd \in {Rsvd, NoSave, "torn", "ecc"}
           /\ saved = [rsvd |-> saved.rsvd, other |-> saved.other]
           /\ result \in {"ok", "error"} /\ faults \in 0 .. MaxFaults

(* Whatever the caller knows of the area it does not write is there, or     *)
(* saved until it is programmed back.                                      *)
There(a) == Hw!Valid(kept[a]) => sector[a] = kept[a]
SavedInv ==
  LET o == Hw!Other(call)
  IN /\ pc \in {"idle", "erase"} => There("prod") /\ There("app")
     /\ pc = "erase" => (Hw!Valid(kept[o]) => saved.other = kept[o])
     /\ pc \in {"rsvd", "other"} => There(call)
     /\ pc \in {"program", "rsvd", "other"} =>
          (Hw!Valid(kept[o]) => saved.other = kept[o] \/ (saved.other = NoSave /\ sector[o] = kept[o]))

HwInv == HwTyped /\ SavedInv /\ Hw!BlankWhenInvalid

(* A write of prod that begins, with or without memory for the copies.      *)
LEMMA WriteProdKeeps ==
  ASSUME HwConstants, HwTyped, SavedInv, pc = "idle", NEW v \in Values \cup {"blank"},
         Hw!WriteProd(v), UNCHANGED <<sector, kept>>
  PROVE  /\ SavedInv'
         /\ pc' \in {"idle", "erase", "program", "rsvd", "other"} /\ call' = "prod" /\ want' = v
         /\ result' \in {"ok", "error"} /\ faults' \in 0 .. MaxFaults
         /\ saved'.other \in Values \cup {NoSave} /\ saved'.rsvd \in {Rsvd, NoSave, "torn", "ecc"}
         /\ saved' = [rsvd |-> saved'.rsvd, other |-> saved'.other]
<1>1. There("prod") /\ There("app") /\ Hw!Other("prod") = "app"
  BY DEF SavedInv, Hw!Other
<1>2. call' = "prod" /\ want' = v /\ sector' = sector /\ kept' = kept
  BY DEF Hw!WriteProd
<1>3. result \in {"ok", "error"} /\ faults \in 0 .. MaxFaults /\ MaxFaults \in Nat
  BY DEF HwTyped, HwConstants
<1>4. Hw!Saves("prod").rsvd \in {Rsvd, NoSave, "torn", "ecc"} /\ Hw!Saves("prod").other \in Values \cup {NoSave}
      /\ (Hw!Valid(sector.app) => Hw!Saves("prod").other = sector.app)
      /\ Hw!Saves("prod") = [rsvd |-> Hw!Saves("prod").rsvd, other |-> Hw!Saves("prod").other]
  BY <1>1 DEF Hw!Saves, HwTyped, Content, Hw!Valid, Hw!Bad
<1>5. faults' \in 0 .. MaxFaults
  BY <1>3 DEF Hw!WriteProd, Hw!Fault, Hw!NoFault
<1>6. CASE pc' = "idle" /\ saved' = Hw!NoneSaved /\ result' \in {"ok", "error"}
  BY <1>1, <1>2, <1>5, <1>6 DEF SavedInv, There, Hw!NoneSaved
<1>7. CASE pc' = "program" /\ saved' = Hw!NoneSaved /\ UNCHANGED result
  BY <1>1, <1>2, <1>3, <1>5, <1>7 DEF SavedInv, There, Hw!NoneSaved
<1>8. CASE pc' = "erase" /\ saved' = Hw!Saves("prod") /\ UNCHANGED result
  <2>1. Hw!Valid(kept.app) => saved'.other = kept.app
    BY <1>1, <1>4, <1>8 DEF There
  <2> QED
    BY <1>1, <1>2, <1>3, <1>4, <1>5, <1>8, <2>1 DEF SavedInv, There
<1>9. CASE pc' = "rsvd" /\ saved' = [Hw!Saves("prod") EXCEPT !.other = NoSave] /\ result' = "error"
  <2>1. saved'.other = NoSave /\ saved'.rsvd = Hw!Saves("prod").rsvd
        /\ saved' = [rsvd |-> saved'.rsvd, other |-> saved'.other]
    BY <1>4, <1>9
  <2> QED
    BY <1>1, <1>2, <1>4, <1>5, <1>9, <2>1 DEF SavedInv, There
<1> QED
  BY <1>6, <1>7, <1>8, <1>9 DEF Hw!WriteProd, Hw!Return

LEMMA HwStepKeeps ==
  ASSUME HwConstants, HwTyped, SavedInv, [Hw!Next]_(Hw!vars)
  PROVE  HwTyped' /\ SavedInv'
<1>t. /\ sector.prod \in Content /\ sector.app \in Content /\ sector.rsvd \in {Rsvd, "blank", "torn", "ecc"}
      /\ sector = [a \in {"rsvd", "prod", "app"} |-> sector[a]]
      /\ DOMAIN sector = {"rsvd", "prod", "app"}
      /\ kept \in [{"prod", "app"} -> Content] /\ call \in {"prod", "app"}
      /\ want \in Values \cup {"blank"} /\ faults \in 0 .. MaxFaults /\ MaxFaults \in Nat
      /\ result \in {"ok", "error"} /\ ram \in Values \cup {"blank"}
  BY DEF HwTyped, HwConstants
<1>o. Hw!Other(call) \in {"prod", "app"} \ {call} /\ Hw!Other("prod") = "app" /\ Hw!Other("app") = "prod"
  BY <1>t DEF Hw!Other
<1>b. Values \cup {"blank"} \subseteq Content /\ {"torn", "ecc", "blank"} \subseteq Content
      /\ ~Hw!Valid("blank") /\ ~Hw!Valid("torn") /\ ~Hw!Valid("ecc")
  BY DEF Content, Hw!Valid, Hw!Bad
<1>n. NoSave \notin Content /\ Legacy \in Values \cup {NoSave}
  BY DEF HwConstants, Content
<1>s. Hw!NoneSaved.other = NoSave /\ Hw!NoneSaved.rsvd = NoSave
      /\ Hw!NoneSaved = [rsvd |-> Hw!NoneSaved.rsvd, other |-> Hw!NoneSaved.other]
  BY DEF Hw!NoneSaved
<1>f. Hw!Fault \/ Hw!NoFault => faults' \in 0 .. MaxFaults
  BY <1>t DEF Hw!Fault, Hw!NoFault
<1>1. CASE UNCHANGED Hw!vars
  BY <1>1 DEF Hw!vars, HwTyped, SavedInv, There, Hw!Other
<1>2. CASE Hw!NV_ReadHWParameters
  <2>1. CASE Hw!MovesLegacy
    <3>1. Legacy \in Values /\ ram' = Legacy /\ Hw!WriteProd(Legacy) /\ pc = "idle"
          /\ UNCHANGED <<sector, loaded, kept>>
      BY <1>2, <1>n, <2>1 DEF Hw!NV_ReadHWParameters, Hw!MovesLegacy
    <3>2. SavedInv'
      BY <3>1, WriteProdKeeps
    <3> QED
      BY <3>1, <3>2, WriteProdKeeps DEF HwTyped
  <2>2. CASE ~Hw!MovesLegacy
    <3>1. pc = "idle" /\ pc' = "idle" /\ loaded' = TRUE /\ saved' = Hw!NoneSaved
          /\ result' \in {"ok", "error"} /\ UNCHANGED <<call, want, faults>>
      BY <1>2, <2>2 DEF Hw!NV_ReadHWParameters, Hw!Return
    <3>2. \/ UNCHANGED <<sector, kept>>
          \/ /\ sector' = [rsvd |-> "blank", prod |-> "blank", app |-> "blank"]
             /\ kept' = [prod |-> "blank", app |-> "blank"]
      BY <1>2, <2>2 DEF Hw!NV_ReadHWParameters
    <3>3. ram' \in Values \cup {"blank"}
      BY <1>2, <2>2, <1>t DEF Hw!NV_ReadHWParameters, Content, Hw!Valid, Hw!Bad
    <3>4. CASE UNCHANGED <<sector, kept>>
      <4>1. SavedInv'
        BY <3>1, <3>4 DEF SavedInv, There
      <4> QED
        BY <1>s, <3>1, <3>3, <3>4, <4>1 DEF HwTyped
    <3>5. CASE /\ sector' = [rsvd |-> "blank", prod |-> "blank", app |-> "blank"]
               /\ kept' = [prod |-> "blank", app |-> "blank"]
      <4>1. /\ sector'.prod = "blank" /\ sector'.app = "blank" /\ sector'.rsvd = "blank"
            /\ kept'.prod = "blank" /\ kept'.app = "blank"
            /\ kept' \in [{"prod", "app"} -> Content]
            /\ sector' = [a \in {"rsvd", "prod", "app"} |-> sector'[a]]
        BY <3>5, <1>b
      <4>2. SavedInv'
        BY <1>b, <3>1, <4>1 DEF SavedInv, There
      <4> QED
        BY <1>b, <1>s, <3>1, <3>3, <4>1, <4>2 DEF HwTyped
    <3> QED
      BY <3>2, <3>4, <3>5
  <2> QED
    BY <2>1, <2>2
<1>3. CASE Hw!NV_WriteHWParameters
  <2>1. CASE sector.prod = ram
    <3>1. pc = "idle" /\ pc' = "idle" /\ saved' = Hw!NoneSaved /\ result' = "ok"
          /\ UNCHANGED <<sector, ram, loaded, kept, call, want, faults>>
      BY <1>3, <2>1 DEF Hw!NV_WriteHWParameters, Hw!Return, Hw!NoFault
    <3>2. SavedInv'
      BY <3>1 DEF SavedInv, There
    <3> QED
      BY <1>s, <3>1, <3>2 DEF HwTyped
  <2>2. CASE sector.prod # ram
    <3>1. Hw!WriteProd(ram) /\ pc = "idle" /\ UNCHANGED <<sector, ram, loaded, kept>>
      BY <1>3, <2>2 DEF Hw!NV_WriteHWParameters
    <3>2. SavedInv'
      BY <1>t, <3>1, WriteProdKeeps
    <3> QED
      BY <1>t, <3>1, <3>2, WriteProdKeeps DEF HwTyped
  <2> QED
    BY <2>1, <2>2
<1>4. CASE Hw!HWParametersErase
  <2>1. Hw!WriteProd("blank") /\ pc = "idle" /\ ram' = "blank" /\ loaded' = TRUE /\ UNCHANGED <<sector, kept>>
    BY <1>4 DEF Hw!HWParametersErase
  <2>2. SavedInv'
    BY <2>1, WriteProdKeeps
  <2> QED
    BY <2>1, <2>2, WriteProdKeeps DEF HwTyped
<1>5. CASE Hw!HWParametersReset \/ \E v \in Values : Hw!Modify(v)
  <2>1. pc = "idle" /\ ram' \in Values \cup {"blank"} /\ loaded' \in BOOLEAN
        /\ UNCHANGED <<sector, pc, call, want, saved, result, faults, kept>>
    BY <1>5 DEF Hw!HWParametersReset, Hw!Modify, HwTyped
  <2>2. SavedInv'
    BY <2>1 DEF SavedInv, There
  <2> QED
    BY <2>1, <2>2 DEF HwTyped
<1>6. ASSUME NEW v \in Values, Hw!Nv_WriteAppFactoryData(v)
      PROVE  HwTyped' /\ SavedInv'
  <2>1. pc = "idle" /\ want' = v /\ call' = "app" /\ UNCHANGED <<sector, faults, kept>>
        /\ There("prod") /\ There("app")
    BY <1>6 DEF Hw!Nv_WriteAppFactoryData, SavedInv
  <2>2. Hw!Saves("app").rsvd = NoSave /\ Hw!Saves("app").other \in Values \cup {NoSave}
        /\ (Hw!Valid(sector.prod) => Hw!Saves("app").other = sector.prod)
        /\ (Hw!Saves("app").other # NoSave => sector.prod \in Values)
        /\ Hw!Saves("app") = [rsvd |-> Hw!Saves("app").rsvd, other |-> Hw!Saves("app").other]
    BY <1>o, <1>t DEF Hw!Saves, Content, Hw!Valid, Hw!Bad
  <2>3. CASE sector.app = v
    <3>1. Hw!Return("ok") /\ UNCHANGED <<ram, loaded>>
      <4>1. sector.app # "blank"
        BY <2>3 DEF HwConstants
      <4> QED
        BY <1>6, <2>3, <4>1 DEF Hw!Nv_WriteAppFactoryData
    <3>3. pc' = "idle" /\ saved' = Hw!NoneSaved /\ result' = "ok"
      BY <3>1 DEF Hw!Return
    <3>2. SavedInv'
      BY <2>1, <3>3 DEF SavedInv, There
    <3> QED
      BY <1>s, <2>1, <3>1, <3>2, <3>3 DEF HwTyped
  <2>4. CASE sector.app # v /\ sector.app = "blank"
    <3>1. pc' = "program" /\ saved' = Hw!NoneSaved /\ UNCHANGED <<result, ram, loaded>>
      BY <1>6, <2>4 DEF Hw!Nv_WriteAppFactoryData
    <3>2. SavedInv'
      BY <1>o, <1>s, <2>1, <3>1 DEF SavedInv, There
    <3> QED
      BY <1>s, <2>1, <3>1, <3>2 DEF HwTyped
  <2>5. CASE sector.app # v /\ sector.app # "blank"
    <3>1. pc' = "erase" /\ saved' = Hw!Saves("app") /\ UNCHANGED result
          /\ (IF Hw!Saves("app").other # NoSave THEN ram' = sector.prod /\ loaded' = TRUE
              ELSE UNCHANGED <<ram, loaded>>)
      BY <1>6, <2>5 DEF Hw!Nv_WriteAppFactoryData
    <3>2. ram' \in Values \cup {"blank"} /\ loaded' \in BOOLEAN
      BY <1>t, <2>2, <3>1 DEF HwTyped
    <3>3. SavedInv'
      BY <1>o, <2>1, <2>2, <3>1 DEF SavedInv, There
    <3> QED
      BY <2>1, <2>2, <3>1, <3>2, <3>3 DEF HwTyped
  <2> QED
    BY <2>3, <2>4, <2>5
<1>7. CASE Hw!Erase
  <2>1. pc = "erase" /\ UNCHANGED <<ram, loaded, call, want, saved, kept>>
        /\ There("prod") /\ There("app") /\ faults' \in 0 .. MaxFaults
    BY <1>7, <1>f DEF Hw!Erase, SavedInv
  <2>2. Hw!Valid(kept[Hw!Other(call)]) => saved.other = kept[Hw!Other(call)]
    BY <2>1 DEF SavedInv
  <2>3. CASE sector' = [a \in DOMAIN sector |-> "blank"] /\ pc' = "program" /\ UNCHANGED result
    <3>1. SavedInv'
      BY <2>1, <2>2, <2>3 DEF SavedInv, There
    <3>2. /\ sector'.prod = "blank" /\ sector'.app = "blank" /\ sector'.rsvd = "blank"
          /\ sector' = [a \in {"rsvd", "prod", "app"} |-> sector'[a]]
      BY <1>t, <2>3
    <3> QED
      BY <1>b, <2>1, <2>3, <3>1, <3>2 DEF HwTyped
  <2>4. CASE pc' = "rsvd" /\ result' = "error" /\ UNCHANGED sector
    <3>1. SavedInv'
      BY <1>t, <2>1, <2>2, <2>4 DEF SavedInv, There
    <3> QED
      BY <2>1, <2>4, <3>1 DEF HwTyped
  <2> QED
    BY <1>7, <2>3, <2>4 DEF Hw!Erase
<1>8. CASE Hw!Program
  <2>1. pc = "program" /\ pc' = "rsvd" /\ UNCHANGED <<ram, loaded, call, want, saved>>
        /\ faults' \in 0 .. MaxFaults
    BY <1>8, <1>f DEF Hw!Program
  <2>2. PICK x \in {want, "torn"} : /\ sector' = [sector EXCEPT ![call] = x] /\ result' \in {"ok", "error"}
                                    /\ kept' = [kept EXCEPT ![call] = x]
    BY <1>8 DEF Hw!Program
  <2>3. /\ sector'[call] = x /\ kept'[call] = x
        /\ sector'[Hw!Other(call)] = sector[Hw!Other(call)] /\ kept'[Hw!Other(call)] = kept[Hw!Other(call)]
        /\ sector' = [a \in {"rsvd", "prod", "app"} |-> sector'[a]] /\ sector'.rsvd = sector.rsvd
        /\ x \in Content
    BY <1>b, <1>o, <1>t, <2>2
  <2>4. /\ sector'.prod \in Content /\ sector'.app \in Content /\ kept' \in [{"prod", "app"} -> Content]
    BY <1>o, <1>t, <2>2, <2>3
  <2>5. SavedInv'
    BY <1>o, <2>1, <2>3 DEF SavedInv, There
  <2> QED
    BY <1>t, <2>1, <2>2, <2>3, <2>4, <2>5 DEF HwTyped
<1>9. CASE Hw!PutBackRsvd
  <2>1. pc = "rsvd" /\ pc' = "other" /\ UNCHANGED <<ram, loaded, call, want, saved, kept>>
        /\ faults' \in 0 .. MaxFaults /\ result' \in {"ok", "error"}
    BY <1>9, <1>f, <1>t DEF Hw!PutBackRsvd
  <2>2. /\ sector'.prod = sector.prod /\ sector'.app = sector.app
        /\ sector'.rsvd \in {Rsvd, "blank", "torn", "ecc"}
        /\ sector' = [a \in {"rsvd", "prod", "app"} |-> sector'[a]]
    <3>1. CASE sector' = sector
      BY <1>t, <3>1
    <3>2. CASE \E x \in {Rsvd, "torn", "ecc"} : sector' = [sector EXCEPT !.rsvd = x]
      BY <1>t, <3>2
    <3>3. saved.rsvd \in {Rsvd, NoSave, "torn", "ecc"}
      BY DEF HwTyped
    <3> QED
      BY <1>9, <3>1, <3>2, <3>3 DEF Hw!PutBackRsvd
  <2>3. SavedInv'
    BY <1>o, <1>t, <2>1, <2>2 DEF SavedInv, There
  <2> QED
    BY <1>t, <2>1, <2>2, <2>3 DEF HwTyped
<1>10. CASE Hw!PutBackOther
  <2> DEFINE o == Hw!Other(call)
  <2>1. pc = "other" /\ pc' = "idle" /\ saved' = Hw!NoneSaved /\ UNCHANGED <<ram, call, want>>
        /\ faults' \in 0 .. MaxFaults /\ result' \in {"ok", "error"} /\ loaded' \in BOOLEAN
    BY <1>10, <1>f, <1>t DEF Hw!PutBackOther, Hw!Return, HwTyped
  <2>2. There(call) /\ saved.other \in Values \cup {NoSave}
        /\ (Hw!Valid(kept[o]) => saved.other = kept[o] \/ (saved.other = NoSave /\ sector[o] = kept[o]))
    BY <2>1 DEF SavedInv, HwTyped
  <2>3. o \in {"prod", "app"} \ {call} /\ kept[o] \in Content /\ sector[o] \in Content /\ sector[call] \in Content
    BY <1>o, <1>t
  <2> HIDE DEF o
  <2>4. PICK x, y : /\ sector' = [sector EXCEPT ![o] = x] /\ kept' = [kept EXCEPT ![o] = y]
                    /\ x \in Content /\ y \in Content /\ (Hw!Valid(y) => x = y)
    <3>1. CASE saved.other = NoSave
      <4>1. sector' = sector /\ kept' = [kept EXCEPT ![o] = IF Hw!Valid(kept[o]) THEN kept[o] ELSE sector[o]]
        BY <1>10, <3>1 DEF Hw!PutBackOther, o
      <4>2. sector' = [sector EXCEPT ![o] = sector[o]]
        BY <1>t, <2>3, <4>1
      <4>3. Hw!Valid(kept[o]) => sector[o] = kept[o]
        BY <1>n, <2>2, <2>3, <3>1
      <4> QED
        BY <2>3, <4>1, <4>2, <4>3
    <3>2. CASE saved.other # NoSave
      <4>1. saved.other \in Content /\ (Hw!Valid(kept[o]) => saved.other = kept[o])
        BY <1>b, <2>2, <3>2
      <4>2. CASE sector' = [sector EXCEPT ![o] = saved.other] /\ kept' = kept
        <5>1. kept' = [kept EXCEPT ![o] = kept[o]]
          BY <1>t, <2>3, <4>2
        <5> QED
          BY <2>3, <4>1, <4>2, <5>1
      <4>3. CASE sector' = [sector EXCEPT ![o] = "torn"] /\ kept' = [kept EXCEPT ![o] = "torn"]
        BY <1>b, <4>3
      <4> QED
        BY <1>10, <3>2, <4>2, <4>3 DEF Hw!PutBackOther, o
    <3> QED
      BY <3>1, <3>2
  <2>5. /\ sector'[o] = x /\ kept'[o] = y /\ sector'[call] = sector[call] /\ kept'[call] = kept[call]
        /\ sector'.rsvd = sector.rsvd /\ sector' = [a \in {"rsvd", "prod", "app"} |-> sector'[a]]
        /\ kept' \in [{"prod", "app"} -> Content]
    BY <1>t, <2>3, <2>4
  <2>6. sector'.prod \in Content /\ sector'.app \in Content
    BY <1>t, <2>3, <2>4, <2>5
  <2>7. There("prod")' /\ There("app")'
    BY <1>t, <2>2, <2>3, <2>4, <2>5 DEF There
  <2>8. SavedInv'
    BY <2>1, <2>7 DEF SavedInv
  <2> QED
    BY <1>s, <1>t, <2>1, <2>5, <2>6, <2>8 DEF HwTyped
<1>11. CASE Hw!Reset
  <2>1. /\ pc' = "idle" /\ result' = "error" /\ saved' = Hw!NoneSaved /\ ram' = "blank" /\ loaded' = FALSE
        /\ UNCHANGED <<call, want>> /\ faults' \in 0 .. MaxFaults
        /\ kept' = [a \in DOMAIN kept |-> sector'[a]]
    BY <1>11, <1>f DEF Hw!Reset, Hw!Return
  <2>2. PICK bad \in {"torn", "ecc"} :
          \/ sector' = [a \in DOMAIN sector |-> bad]
          \/ \E d \in {"rsvd", "prod", "app"} : sector' = [sector EXCEPT ![d] = bad]
          \/ sector' = sector
    BY <1>11, <1>o, <1>t DEF Hw!Reset, Hw!Bad
  <2>3. /\ sector'.prod \in Content /\ sector'.app \in Content /\ sector'.rsvd \in {Rsvd, "blank", "torn", "ecc"}
        /\ sector' = [a \in {"rsvd", "prod", "app"} |-> sector'[a]]
    <3>1. CASE sector' = [a \in DOMAIN sector |-> bad]
      BY <1>t, <1>b, <3>1
    <3>2. ASSUME NEW d \in {"rsvd", "prod", "app"}, sector' = [sector EXCEPT ![d] = bad]
          PROVE  /\ sector'.prod \in Content /\ sector'.app \in Content
                 /\ sector'.rsvd \in {Rsvd, "blank", "torn", "ecc"}
                 /\ sector' = [a \in {"rsvd", "prod", "app"} |-> sector'[a]]
      <4>1. bad \in Content /\ \A a \in {"rsvd", "prod", "app"} : sector'[a] = IF a = d THEN bad ELSE sector[a]
        BY <1>t, <1>b, <3>2
      <4>2. sector' = [a \in {"rsvd", "prod", "app"} |-> sector'[a]]
        BY <1>t, <3>2
      <4> QED
        BY <1>t, <4>1, <4>2
    <3>3. CASE sector' = sector
      BY <1>t, <3>3
    <3> QED
      BY <2>2, <3>1, <3>2, <3>3
  <2>4. kept'.prod = sector'.prod /\ kept'.app = sector'.app /\ kept' \in [{"prod", "app"} -> Content]
    BY <1>t, <2>1, <2>3
  <2>5. SavedInv'
    BY <2>1, <2>4 DEF SavedInv, There
  <2> QED
    BY <1>s, <1>t, <2>1, <2>3, <2>4, <2>5 DEF HwTyped
<1> QED
  BY <1>1, <1>2, <1>3, <1>4, <1>5, <1>6, <1>7, <1>8, <1>9, <1>10, <1>11 DEF Hw!Next, Hw!Steps

LEMMA BlankKept == ASSUME Hw!BlankWhenInvalid, [Hw!Next]_(Hw!vars) PROVE Hw!BlankWhenInvalid'
<1>0. ~loaded => ram \in {"blank", Legacy}
  BY DEF Hw!BlankWhenInvalid
<1>1. CASE UNCHANGED <<loaded, ram>>
  BY <1>1 DEF Hw!BlankWhenInvalid
<1>2. CASE loaded' = TRUE
  BY <1>2 DEF Hw!BlankWhenInvalid
<1>3. CASE ram' \in {"blank", Legacy}
  BY <1>3 DEF Hw!BlankWhenInvalid
<1>4. CASE Hw!NV_ReadHWParameters
  BY <1>2, <1>3, <1>4 DEF Hw!NV_ReadHWParameters
<1>5. CASE Hw!NV_WriteHWParameters \/ Hw!HWParametersErase \/ Hw!HWParametersReset \/ Hw!Reset
  BY <1>1, <1>3, <1>5 DEF Hw!NV_WriteHWParameters, Hw!HWParametersErase, Hw!HWParametersReset, Hw!Reset
<1>6. ASSUME NEW v \in Values, Hw!Modify(v) \/ Hw!Nv_WriteAppFactoryData(v) PROVE Hw!BlankWhenInvalid'
  <2>1. CASE Hw!Modify(v)
    BY <1>0, <2>1 DEF Hw!Modify, Hw!BlankWhenInvalid
  <2>2. CASE Hw!Nv_WriteAppFactoryData(v)
    BY <1>1, <1>2, <2>2 DEF Hw!Nv_WriteAppFactoryData
  <2> QED
    BY <1>6, <2>1, <2>2
<1>7. CASE Hw!Erase \/ Hw!Program \/ Hw!PutBackRsvd
  BY <1>1, <1>7 DEF Hw!Erase, Hw!Program, Hw!PutBackRsvd
<1>8. CASE Hw!PutBackOther
  <2>1. ram' = ram /\ (~loaded' => ~loaded)
    BY <1>8 DEF Hw!PutBackOther
  <2> QED
    BY <1>0, <2>1 DEF Hw!BlankWhenInvalid
<1>9. CASE UNCHANGED Hw!vars
  BY <1>1, <1>9 DEF Hw!vars
<1> QED
  BY <1>4, <1>5, <1>6, <1>7, <1>8, <1>9 DEF Hw!Next, Hw!Steps

LEMMA HwAlways == ASSUME HwConstants PROVE Hw!Spec => []HwInv
<1>1. Hw!Init => HwInv
  <2> SUFFICES ASSUME Hw!Init PROVE HwInv
    OBVIOUS
  <2>1. /\ sector = [rsvd |-> Rsvd, prod |-> "blank", app |-> "blank"]
        /\ ram = "blank" /\ loaded = FALSE /\ pc = "idle" /\ call = "prod" /\ want = "blank"
        /\ saved = Hw!NoneSaved /\ result = "ok" /\ faults = 0
        /\ kept = [prod |-> "blank", app |-> "blank"]
    BY DEF Hw!Init
  <2>2. /\ sector.prod = "blank" /\ sector.app = "blank" /\ sector.rsvd = Rsvd
        /\ sector = [a \in {"rsvd", "prod", "app"} |-> sector[a]]
        /\ kept.prod = "blank" /\ kept.app = "blank"
        /\ "blank" \in Content /\ kept \in [{"prod", "app"} -> Content]
        /\ ~Hw!Valid("blank")
    BY <2>1 DEF Content, Hw!Valid, Hw!Bad
  <2>3. saved.other = NoSave /\ saved.rsvd = NoSave /\ saved = [rsvd |-> saved.rsvd, other |-> saved.other]
    BY <2>1 DEF Hw!NoneSaved
  <2>4. HwTyped
    <3>1. faults \in 0 .. MaxFaults
      BY <2>1 DEF HwConstants
    <3>2. loaded \in BOOLEAN /\ ram \in Values \cup {"blank"} /\ want \in Values \cup {"blank"}
          /\ saved.other \in Values \cup {NoSave} /\ saved.rsvd \in {Rsvd, NoSave, "torn", "ecc"}
      BY <2>1, <2>3
    <3>3. sector.prod \in Content /\ sector.app \in Content /\ sector.rsvd \in {Rsvd, "blank", "torn", "ecc"}
      BY <2>2
    <3>4. pc \in {"idle", "erase", "program", "rsvd", "other"} /\ call \in {"prod", "app"} /\ result \in {"ok", "error"}
      BY <2>1
    <3> QED
      BY <2>2, <2>3, <3>1, <3>2, <3>3, <3>4 DEF HwTyped
  <2>5. SavedInv
    BY <2>1, <2>2 DEF SavedInv, There
  <2> QED
    BY <2>1, <2>4, <2>5 DEF HwInv, Hw!BlankWhenInvalid
<1>2. HwInv /\ [Hw!Next]_(Hw!vars) => HwInv'
  BY HwStepKeeps, BlankKept DEF HwInv
<1> QED
  BY <1>1, <1>2, PTL DEF Hw!Spec

(* The types: what is saved of the other area is a value, never one that   *)
(* is not valid, and the faults stay within their bound.                   *)
THEOREM HwTypes == ASSUME HwConstants PROVE Hw!Spec => []Hw!TypeOK
<1>1. ASSUME HwInv PROVE Hw!TypeOK
  <2>1. HwTyped
    BY <1>1 DEF HwInv
  <2>2. sector \in [{"rsvd", "prod", "app"} -> Values \cup {Rsvd, "blank"} \cup Hw!Bad]
    BY <2>1 DEF HwTyped, Content, Hw!Bad
  <2>3. saved \in [rsvd : {Rsvd, NoSave} \cup Hw!Bad, other : Values \cup {NoSave}]
    BY <2>1 DEF HwTyped, Hw!Bad
  <2>4. kept \in [{"prod", "app"} -> Values \cup {"blank"} \cup Hw!Bad]
    BY <2>1 DEF HwTyped, Content, Hw!Bad
  <2> QED
    BY <2>1, <2>2, <2>3, <2>4 DEF HwTyped, Hw!TypeOK
<1> QED
  BY <1>1, HwAlways, PTL

(* A write of the hardware parameters or of the factory data leaves the     *)
(* other of the two as it was, whichever operation fails and wherever a    *)
(* reset comes (NvWriteProdData, Nv_WriteAppFactoryData).                  *)
THEOREM OtherAreaKept == ASSUME HwConstants PROVE Hw!Spec => []Hw!NothingElseLost
<1>1. ASSUME HwInv PROVE Hw!NothingElseLost
  BY <1>1 DEF HwInv, SavedInv, There, Hw!NothingElseLost
<1> QED
  BY <1>1, HwAlways, PTL

(* A copy that is not loaded is blank, or has the legacy parameters         *)
(* (NV_ReadHWParameters, HWParametersReset).                               *)
THEOREM NotLoadedBlank == ASSUME HwConstants PROVE Hw!Spec => []Hw!BlankWhenInvalid
<1>1. HwInv => Hw!BlankWhenInvalid
  BY DEF HwInv
<1> QED
  BY <1>1, HwAlways, PTL

-----------------------------------------------------------------------------
(* Files: the invariant, in parts.                                         *)
FsConstants == Texts \subseteq Seq(Nat) /\ MaxCount \in Nat \ {0} /\ MaxFaults \in Nat

Counted == {u \in Users : user[u] = "counted"}
Within(u) == call[u].op \in {"write", "close", "create"}
Mounting(u) == call[u].op \in {"mount", "remount"}

FsTyped == /\ stored \in [FileNames -> Fs!Contents] /\ kept \in [FileNames -> SUBSET Fs!Contents]
           /\ mounted \in BOOLEAN /\ initDone \in 0 .. MaxCount /\ faults \in 0 .. MaxFaults
           /\ user \in [Users -> {"none", "counted", "handle"}]
           /\ call \in [Users -> [op : {"none", "mount", "remount", "write", "close", "create"},
                                  file : FileNames \cup {"none"}, text : Fs!Contents]]
           /\ \A u \in Users : Within(u) => call[u].file \in FileNames

(* filesystem_init_done is the number of users counted; who is in a call    *)
(* has found it mounted, and one at most mounts it, before anybody counts. *)
CountInv == /\ IsFiniteSet(Counted) /\ initDone = Cardinality(Counted)
            /\ mounted = (initDone # 0)
            /\ \A u \in Users : Within(u) => mounted = TRUE
            /\ \A u \in Users : Mounting(u) => initDone = 0 /\ user[u] = "none"
            /\ \A u, v \in Users : Mounting(u) /\ Mounting(v) => u = v

(* A file is in one call at most; a file whose removal has failed, or that  *)
(* is removed, is as it was when it is made anew.                          *)
CallInv == /\ \A u, v \in Users : Within(u) /\ Within(v) /\ call[u].file = call[v].file => u = v
           /\ \A u \in Users : call[u].op = "create" =>
                Fs!OrEmpty(stored[call[u].file]) = Fs!OrEmpty(call[u].text)

FsInv == FsTyped /\ CountInv /\ CallInv /\ Fs!StoredIsWritten

(* A step of a call on a file: what it leaves of the call, r, of the file,   *)
(* x, and of what the file may be, k.                                      *)
FileCall == [op : {"none", "write", "close", "create"}, file : FileNames \cup {"none"}, text : Fs!Contents]
Changes(u, f, r, x, k) ==
  /\ u \in Users /\ f \in FileNames /\ r \in FileCall /\ x \in Fs!Contents /\ k \in SUBSET Fs!Contents
  /\ mounted = TRUE /\ UNCHANGED <<mounted, initDone, user>> /\ faults' \in 0 .. MaxFaults
  /\ Fs!Free(f) \/ (Within(u) /\ call[u].file = f)
  /\ call' = [call EXCEPT ![u] = r] /\ (r.op # "none" => r.file = f)
  /\ x \in k /\ stored' = [stored EXCEPT ![f] = x] /\ kept' = [kept EXCEPT ![f] = k]
  /\ (r.op = "create" => Fs!OrEmpty(x) = Fs!OrEmpty(r.text))

LEMMA FileStep ==
  ASSUME FsInv, NEW u, NEW f, NEW r, NEW x, NEW k, Changes(u, f, r, x, k) PROVE FsInv'
<1> USE DEF Changes, FileCall
<1>1. FsTyped /\ CountInv /\ CallInv /\ \A g \in FileNames : stored[g] \in kept[g]
  BY DEF FsInv, Fs!StoredIsWritten
<1>2. /\ call'[u] = r /\ \A v \in Users : v # u => call'[v] = call[v]
      /\ call' \in [Users -> [op : {"none", "mount", "remount", "write", "close", "create"},
                              file : FileNames \cup {"none"}, text : Fs!Contents]]
  BY <1>1 DEF FsTyped
<1>3. /\ stored' \in [FileNames -> Fs!Contents] /\ kept' \in [FileNames -> SUBSET Fs!Contents]
      /\ stored'[f] = x /\ kept'[f] = k
      /\ \A g \in FileNames : g # f => stored'[g] = stored[g] /\ kept'[g] = kept[g]
  BY <1>1 DEF FsTyped
<1>4. \A v \in Users : Within(v) /\ v # u => call[v].file # f
  BY <1>1 DEF CallInv, Fs!Free
<1>5. \A v \in Users : ~Mounting(v) /\ ~Mounting(v)'
  <2>1. \A v \in Users : ~Mounting(v)
    BY <1>1 DEF CountInv
  <2> QED
    BY <1>2, <2>1 DEF Mounting
<1>6. \A v \in Users : Within(v)' => \/ v # u /\ Within(v) /\ call'[v] = call[v]
                                     \/ v = u /\ call'[v].file = f
  BY <1>2 DEF Within
<1>7. FsTyped'
  BY <1>1, <1>2, <1>3, <1>6 DEF FsTyped
<1>8. CountInv'
  <2>1. Counted' = Counted
    BY DEF Counted
  <2> QED
    BY <1>1, <1>5, <2>1 DEF CountInv
<1>9. CallInv'
  <2>1. ASSUME NEW v \in Users, NEW w \in Users, Within(v)', Within(w)', call'[v].file = call'[w].file
        PROVE  v = w
    BY <1>1, <1>4, <1>6, <2>1 DEF CallInv
  <2>2. ASSUME NEW v \in Users, call'[v].op = "create"
        PROVE  Fs!OrEmpty(stored'[call'[v].file]) = Fs!OrEmpty(call'[v].text)
    <3>1. CASE v = u
      BY <1>2, <1>3, <2>2, <3>1
    <3>2. CASE v # u
      <4>1. call'[v] = call[v] /\ Within(v) /\ call[v].file \in FileNames /\ call[v].file # f
        BY <1>1, <1>2, <1>4, <2>2, <3>2 DEF Within, FsTyped
      <4> QED
        BY <1>1, <1>3, <2>2, <4>1 DEF CallInv
    <3> QED
      BY <3>1, <3>2
  <2> QED
    BY <2>1, <2>2 DEF CallInv, Fs!OrEmpty, Fs!Missing
<1>10. Fs!StoredIsWritten'
  BY <1>1, <1>3 DEF Fs!StoredIsWritten
<1> QED
  BY <1>7, <1>8, <1>9, <1>10 DEF FsInv

LEMMA EmptyIs == \A text \in Fs!Contents : Fs!OrEmpty(text) \in Fs!Contents
                   /\ Fs!OrEmpty(Fs!OrEmpty(text)) = Fs!OrEmpty(text)
BY DEF Fs!OrEmpty, Fs!Contents

LEMMA FilesKept ==
  ASSUME FsConstants, FsInv, NEW u \in Users,
         \/ Fs!WriteData(u) \/ Fs!WriteClose(u) \/ Fs!DeleteCreate(u)
         \/ \E f \in FileNames : \/ \E text \in Texts : Fs!WriteOpen(u, f, text)
                                 \/ Fs!DeleteFile(u, f) \/ Fs!ReadMissing(u, f)
  PROVE  FsInv'
<1> DEFINE c == call[u]
<1>1. FsTyped /\ CountInv /\ CallInv /\ \A g \in FileNames : stored[g] \in kept[g]
  BY DEF FsInv, Fs!StoredIsWritten
<1>2. /\ c \in [op : {"none", "mount", "remount", "write", "close", "create"}, file : FileNames \cup {"none"}, text : Fs!Contents]
      /\ call \in [Users -> [op : {"none", "mount", "remount", "write", "close", "create"}, file : FileNames \cup {"none"}, text : Fs!Contents]]
      /\ stored \in [FileNames -> Fs!Contents] /\ kept \in [FileNames -> SUBSET Fs!Contents]
      /\ faults \in 0 .. MaxFaults /\ MaxFaults \in Nat
      /\ (Within(u) => c.file \in FileNames /\ mounted = TRUE)
  BY <1>1 DEF FsTyped, CountInv, FsConstants
<1>3. Fs!NoCall \in FileCall /\ Fs!NoCall.op = "none"
  BY DEF Fs!NoCall, Fs!Contents, FileCall
<1>4. /\ <<>> \in Fs!Contents /\ Fs!Missing \in Fs!Contents /\ Texts \subseteq Fs!Contents
      /\ Fs!OrEmpty(Fs!Missing) = <<>> /\ Fs!OrEmpty(<<>>) = <<>>
  BY DEF Fs!Contents, Fs!OrEmpty
<1>5. \A g \in FileNames : /\ stored = [stored EXCEPT ![g] = stored[g]]
                           /\ kept = [kept EXCEPT ![g] = kept[g]] /\ stored[g] \in kept[g]
                           /\ stored[g] \in Fs!Contents /\ kept[g] \in SUBSET Fs!Contents
  BY <1>1, <1>2
<1>6. Fs!Works \/ Fs!Fails => faults' \in 0 .. MaxFaults
  BY <1>2 DEF Fs!Works, Fs!Fails
<1> HIDE DEF c
<1>7. CASE Fs!WriteData(u)
  <2>1. Within(u) /\ c.file \in FileNames /\ mounted = TRUE /\ faults' \in 0 .. MaxFaults
        /\ UNCHANGED <<stored, mounted, initDone, user>>
    BY <1>2, <1>6, <1>7 DEF Fs!WriteData, Within
  <2>2. CASE Fs!Enter(u, "close", c.file, c.text) /\ UNCHANGED kept
    <3> DEFINE r == [op |-> "close", file |-> c.file, text |-> c.text]
    <3>1. r \in FileCall /\ r.op = "close" /\ r.file = c.file /\ call' = [call EXCEPT ![u] = r]
      BY <1>2, <2>2 DEF Fs!Enter, FileCall
    <3> HIDE DEF r
    <3>9. Changes(u, c.file, r, stored[c.file], kept[c.file])
      BY <1>5, <2>1, <2>2, <3>1 DEF Changes, c, FileCall
    <3> QED
      BY <3>9, FileStep
  <2>3. CASE Fs!Return(u) /\ Fs!Keep(c.file, {stored[c.file]})
    <3>1. call' = [call EXCEPT ![u] = Fs!NoCall] /\ kept' = [kept EXCEPT ![c.file] = {stored[c.file]}]
      BY <2>3 DEF Fs!Return, Fs!Keep
    <3>2. {stored[c.file]} \in SUBSET Fs!Contents /\ stored[c.file] \in {stored[c.file]}
      BY <1>5, <2>1
    <3>9. Changes(u, c.file, Fs!NoCall, stored[c.file], {stored[c.file]})
      BY <1>3, <1>5, <2>1, <3>1, <3>2 DEF Changes, c, FileCall
    <3> QED
      BY <3>9, FileStep
  <2> QED
    BY <1>7, <2>2, <2>3 DEF Fs!WriteData, c
<1>8. CASE Fs!WriteClose(u)
  <2>1. Within(u) /\ c.file \in FileNames /\ mounted = TRUE /\ faults' \in 0 .. MaxFaults
        /\ UNCHANGED <<mounted, initDone, user>> /\ call' = [call EXCEPT ![u] = Fs!NoCall]
        /\ c.text \in Fs!Contents
    BY <1>2, <1>6, <1>8 DEF Fs!WriteClose, Within, Fs!Return
  <2>2. CASE Fs!Store(c.file, Fs!Written(stored[c.file], c.text)) /\ Fs!Keep(c.file, {c.text})
    <3>1. stored' = [stored EXCEPT ![c.file] = c.text] /\ kept' = [kept EXCEPT ![c.file] = {c.text}]
      BY <2>2 DEF Fs!Store, Fs!Written, Fs!Keep
    <3>2. {c.text} \in SUBSET Fs!Contents /\ c.text \in {c.text}
      BY <2>1
    <3>9. Changes(u, c.file, Fs!NoCall, c.text, {c.text})
      BY <1>3, <2>1, <3>1, <3>2 DEF Changes, c, FileCall
    <3> QED
      BY <3>9, FileStep
  <2>3. CASE UNCHANGED <<stored, kept>>
    <3>9. Changes(u, c.file, Fs!NoCall, stored[c.file], kept[c.file])
      BY <1>3, <1>5, <2>1, <2>3 DEF Changes, c, FileCall
    <3> QED
      BY <3>9, FileStep
  <2> QED
    BY <1>8, <2>2, <2>3 DEF Fs!WriteClose, c
<1>9. CASE Fs!DeleteCreate(u)
  <2>1. Within(u) /\ c.file \in FileNames /\ mounted = TRUE /\ faults' \in 0 .. MaxFaults
        /\ UNCHANGED <<mounted, initDone, user>> /\ call' = [call EXCEPT ![u] = Fs!NoCall]
        /\ c.text \in Fs!Contents /\ c.op = "create"
    BY <1>2, <1>9 DEF Fs!DeleteCreate, Within, Fs!Return, c
  <2>2. stored' = [stored EXCEPT ![c.file] = Fs!OrEmpty(stored[c.file])]
        /\ kept' = [kept EXCEPT ![c.file] = {Fs!OrEmpty(c.text)}]
    BY <1>9 DEF Fs!DeleteCreate, Fs!Store, Fs!Keep, c
  <2>3. Fs!OrEmpty(stored[c.file]) = Fs!OrEmpty(c.text)
    BY <1>1, <2>1 DEF CallInv, c
  <2>4. Fs!OrEmpty(stored[c.file]) \in Fs!Contents /\ {Fs!OrEmpty(c.text)} \in SUBSET Fs!Contents
        /\ Fs!OrEmpty(stored[c.file]) \in {Fs!OrEmpty(c.text)}
    BY <1>5, <2>1, <2>3, EmptyIs
  <2>9. Changes(u, c.file, Fs!NoCall, Fs!OrEmpty(stored[c.file]), {Fs!OrEmpty(c.text)})
    BY <1>3, <2>1, <2>2, <2>4 DEF Changes, c, FileCall
  <2> QED
    BY <2>9, FileStep
<1>10. ASSUME NEW f \in FileNames, NEW text \in Texts, Fs!WriteOpen(u, f, text) PROVE FsInv'
  <2>1. Fs!Free(f) /\ mounted = TRUE /\ UNCHANGED <<mounted, initDone, user>> /\ faults' \in 0 .. MaxFaults
        /\ c.op = "none"
    BY <1>1, <1>6, <1>10 DEF Fs!WriteOpen, Fs!Ready, Fs!Idle, c, FsTyped
  <2>2. CASE /\ Fs!Enter(u, "write", f, text) /\ Fs!Store(f, Fs!OrEmpty(stored[f]))
             /\ Fs!Keep(f, {Fs!OrEmpty(s) : s \in kept[f]} \cup {text})
    <3> DEFINE r == [op |-> "write", file |-> f, text |-> text]
               k == {Fs!OrEmpty(s) : s \in kept[f]} \cup {text}
    <3>1. r \in FileCall /\ r.op = "write" /\ r.file = f /\ call' = [call EXCEPT ![u] = r]
      BY <1>4, <2>2 DEF Fs!Enter, FileCall
    <3>2. stored' = [stored EXCEPT ![f] = Fs!OrEmpty(stored[f])] /\ kept' = [kept EXCEPT ![f] = k]
      BY <2>2 DEF Fs!Store, Fs!Keep
    <3>3. Fs!OrEmpty(stored[f]) \in Fs!Contents /\ Fs!OrEmpty(stored[f]) \in k /\ k \in SUBSET Fs!Contents
      <4>1. \A s \in kept[f] : Fs!OrEmpty(s) \in Fs!Contents
        BY <1>5, EmptyIs
      <4> QED
        BY <1>4, <1>5, <4>1
    <3> HIDE DEF r, k
    <3>9. Changes(u, f, r, Fs!OrEmpty(stored[f]), k)
      BY <2>1, <3>1, <3>2, <3>3 DEF Changes, FileCall
    <3> QED
      BY <3>9, FileStep
  <2>3. CASE UNCHANGED <<stored, call, kept>>
    <3>1. c \in FileCall /\ call' = [call EXCEPT ![u] = c]
      BY <1>2, <2>1, <2>3 DEF FileCall, c
    <3>9. Changes(u, f, c, stored[f], kept[f])
      BY <1>5, <2>1, <2>3, <3>1 DEF Changes, FileCall
    <3> QED
      BY <3>9, FileStep
  <2> QED
    BY <1>10, <2>2, <2>3 DEF Fs!WriteOpen
<1>11. ASSUME NEW f \in FileNames, Fs!DeleteFile(u, f) PROVE FsInv'
  <2>1. Fs!Free(f) /\ mounted = TRUE /\ UNCHANGED <<mounted, initDone, user>> /\ faults' \in 0 .. MaxFaults
    BY <1>1, <1>6, <1>11 DEF Fs!DeleteFile, Fs!Ready, FsTyped
  <2>2. CASE /\ Fs!Enter(u, "create", f, <<>>) /\ Fs!Store(f, Fs!Missing)
             /\ Fs!Keep(f, kept[f] \cup {Fs!Missing, <<>>})
    <3> DEFINE r == [op |-> "create", file |-> f, text |-> <<>>]
               k == kept[f] \cup {Fs!Missing, <<>>}
    <3>1. r \in FileCall /\ r.op = "create" /\ r.file = f /\ r.text = <<>> /\ call' = [call EXCEPT ![u] = r]
      BY <1>4, <2>2 DEF Fs!Enter, FileCall
    <3>2. stored' = [stored EXCEPT ![f] = Fs!Missing] /\ kept' = [kept EXCEPT ![f] = k]
      BY <2>2 DEF Fs!Store, Fs!Keep
    <3>3. Fs!Missing \in k /\ k \in SUBSET Fs!Contents
      BY <1>4, <1>5
    <3> HIDE DEF r, k
    <3>9. Changes(u, f, r, Fs!Missing, k)
      BY <1>4, <2>1, <3>1, <3>2, <3>3 DEF Changes, FileCall
    <3> QED
      BY <3>9, FileStep
  <2>3. CASE Fs!Enter(u, "create", f, stored[f]) /\ UNCHANGED <<stored, kept>>
    <3> DEFINE r == [op |-> "create", file |-> f, text |-> stored[f]]
    <3>1. r \in FileCall /\ r.op = "create" /\ r.file = f /\ r.text = stored[f] /\ call' = [call EXCEPT ![u] = r]
      BY <1>5, <2>3 DEF Fs!Enter, FileCall
    <3> HIDE DEF r
    <3>9. Changes(u, f, r, stored[f], kept[f])
      BY <1>5, <2>1, <2>3, <3>1 DEF Changes, FileCall
    <3> QED
      BY <3>9, FileStep
  <2> QED
    BY <1>11, <2>2, <2>3 DEF Fs!DeleteFile
<1>12. ASSUME NEW f \in FileNames, Fs!ReadMissing(u, f) PROVE FsInv'
  <2>1. Fs!Free(f) /\ mounted = TRUE /\ UNCHANGED <<mounted, initDone, user, call>> /\ faults' \in 0 .. MaxFaults
        /\ c.op = "none"
    BY <1>1, <1>6, <1>12 DEF Fs!ReadMissing, Fs!Ready, Fs!Idle, c, FsTyped
  <2>2. stored' = [stored EXCEPT ![f] = <<>>] /\ kept' = [kept EXCEPT ![f] = {<<>>}]
    BY <1>12 DEF Fs!ReadMissing, Fs!Store, Fs!Keep
  <2>3. c \in FileCall /\ call' = [call EXCEPT ![u] = c]
    BY <1>2, <2>1 DEF FileCall, c
  <2>4. {<<>>} \in SUBSET Fs!Contents /\ <<>> \in {<<>>}
    BY <1>4
  <2>9. Changes(u, f, c, <<>>, {<<>>})
    BY <1>4, <2>1, <2>2, <2>3, <2>4 DEF Changes, FileCall
  <2> QED
    BY <2>9, FileStep
<1> QED
  BY <1>7, <1>8, <1>9, <1>10, <1>11, <1>12

(* A step of the calls that count and mount: of the files only what is       *)
(* formatted, or known to be as it is stored, changes.                     *)
LEMMA FilesStay ==
  ASSUME FsTyped, CallInv, Fs!StoredIsWritten, NEW u \in Users, NEW op \in {"none", "mount", "remount"},
         NEW r, r = [op |-> op, file |-> "none", text |-> <<>>],
         call' = [call EXCEPT ![u] = r] \/ UNCHANGED call,
         UNCHANGED stored, kept' = kept \/ kept' = [f \in FileNames |-> {stored[f]}]
  PROVE  CallInv' /\ Fs!StoredIsWritten'
<1>1. r.op = op /\ \A v \in Users : call'[v] = call[v] \/ call'[v].op = op
  BY DEF FsTyped
<1>2. \A v \in Users : Within(v)' => Within(v) /\ call'[v] = call[v]
  BY <1>1 DEF Within
<1>3. ASSUME NEW v \in Users, call'[v].op = "create"
      PROVE  Fs!OrEmpty(stored'[call'[v].file]) = Fs!OrEmpty(call'[v].text)
  <2>1. call'[v] = call[v] /\ stored' = stored
    BY <1>2, <1>3 DEF Within
  <2> QED
    BY <1>3, <2>1 DEF CallInv
<1>4. \A v, w \in Users : Within(v)' /\ Within(w)' /\ call'[v].file = call'[w].file => v = w
  BY <1>2 DEF CallInv
<1>5. CallInv'
  BY <1>3, <1>4 DEF CallInv, Fs!OrEmpty, Fs!Missing
<1>6. Fs!StoredIsWritten'
  BY DEF Fs!StoredIsWritten
<1> QED
  BY <1>5, <1>6

LEMMA CountKept ==
  ASSUME FsConstants, FsInv, NEW u \in Users,
         \/ Fs!FsInit(u) \/ Fs!InitGetHandle(u) \/ Fs!Mounted(u)
         \/ Fs!Format(u) \/ Fs!FormatFails(u) \/ Fs!FsDeInit(u)
  PROVE  FsInv'
<1>1. FsTyped /\ CountInv /\ CallInv /\ Fs!StoredIsWritten
  BY DEF FsInv
<1>2. /\ IsFiniteSet(Counted) /\ initDone = Cardinality(Counted) /\ initDone \in 0 .. MaxCount
      /\ mounted = (initDone # 0) /\ MaxCount \in Nat \ {0} /\ MaxFaults \in Nat /\ faults \in 0 .. MaxFaults
      /\ \A v \in Users : Within(v) => mounted = TRUE
      /\ \A v \in Users : Mounting(v) => initDone = 0 /\ user[v] = "none"
      /\ \A v, w \in Users : Mounting(v) /\ Mounting(w) => v = w
      /\ \A v \in Users : Within(v) => call[v].file \in FileNames
  BY <1>1 DEF CountInv, FsTyped, FsConstants
<1>3. /\ stored \in [FileNames -> Fs!Contents] /\ kept \in [FileNames -> SUBSET Fs!Contents]
      /\ user \in [Users -> {"none", "counted", "handle"}]
      /\ call \in [Users -> [op : {"none", "mount", "remount", "write", "close", "create"},
                              file : FileNames \cup {"none"}, text : Fs!Contents]]
      /\ mounted \in BOOLEAN /\ <<>> \in Fs!Contents /\ Fs!Missing \in Fs!Contents
  BY <1>1 DEF FsTyped, Fs!Contents
<1>4. Fs!NoCall.op = "none" /\ Fs!NoCall = [op |-> "none", file |-> "none", text |-> <<>>]
  BY DEF Fs!NoCall
(* What a call of this kind becomes.                                        *)
<1>5. ASSUME NEW op \in {"none", "mount", "remount"}, NEW r, r = [op |-> op, file |-> "none", text |-> <<>>],
             call' = [call EXCEPT ![u] = r]
      PROVE  /\ call' \in [Users -> [op : {"none", "mount", "remount", "write", "close", "create"},
                                     file : FileNames \cup {"none"}, text : Fs!Contents]]
             /\ call'[u].op = op /\ \A v \in Users : v # u => call'[v] = call[v]
             /\ \A v \in Users : Within(v)' => v # u /\ Within(v) /\ call'[v] = call[v]
  <2>1. r \in [op : {"none", "mount", "remount", "write", "close", "create"},
               file : FileNames \cup {"none"}, text : Fs!Contents] /\ r.op = op
    BY <1>3, <1>5
  <2>2. call'[u] = r /\ \A v \in Users : v # u => call'[v] = call[v]
    BY <1>3, <1>5
  <2> QED
    BY <1>3, <1>5, <2>1, <2>2 DEF Within
<1>6. CASE Fs!FsInit(u)
  <2>1. /\ call[u].op = "none" /\ user[u] = "none" /\ \A v \in Users : ~Mounting(v)
        /\ UNCHANGED <<stored, mounted, kept, faults>>
    BY <1>6 DEF Fs!FsInit, Fs!Idle, Mounting
  <2>2. CASE initDone = 0
    <3> DEFINE r == [op |-> "mount", file |-> "none", text |-> <<>>]
    <3>1. r = [op |-> "mount", file |-> "none", text |-> <<>>] /\ call' = [call EXCEPT ![u] = r]
          /\ UNCHANGED <<initDone, user>>
      BY <1>6, <2>2 DEF Fs!FsInit, Fs!Enter
    <3> HIDE DEF r
    <3>2. CallInv' /\ Fs!StoredIsWritten'
      BY <1>1, <2>1, <3>1, FilesStay
    <3>3. FsTyped'
      BY <1>2, <1>3, <1>5, <2>1, <3>1 DEF FsTyped
    <3>4. Counted' = Counted
      BY <3>1 DEF Counted
    <3>5. \A v \in Users : Mounting(v)' => v = u
      BY <1>5, <2>1, <3>1 DEF Mounting
    <3>6. CountInv'
      BY <1>2, <1>5, <2>1, <2>2, <3>1, <3>4, <3>5 DEF CountInv
    <3> QED
      BY <3>2, <3>3, <3>6 DEF FsInv
  <2>3. CASE initDone # 0
    <3>1. /\ mounted = TRUE /\ initDone < MaxCount /\ initDone' = initDone + 1
          /\ user' = [user EXCEPT ![u] = "counted"] /\ UNCHANGED call
      BY <1>2, <1>6, <2>3 DEF Fs!FsInit, Fs!CountUp
    <3>2. CallInv' /\ Fs!StoredIsWritten'
      BY <1>1, <1>4, <2>1, <3>1, FilesStay
    <3>3. initDone' \in 0 .. MaxCount /\ user' \in [Users -> {"none", "counted", "handle"}]
      BY <1>2, <1>3, <3>1
    <3>4. FsTyped'
      BY <1>2, <1>3, <2>1, <3>1, <3>3 DEF FsTyped, Within
    <3>5. Counted' = Counted \cup {u} /\ u \notin Counted
      BY <1>3, <2>1, <3>1 DEF Counted
    <3>6. IsFiniteSet(Counted') /\ Cardinality(Counted') = initDone + 1
      BY <1>2, <3>5, FS_AddElement
    <3>7. CountInv'
      BY <1>2, <2>1, <2>3, <3>1, <3>6 DEF CountInv, Within, Mounting
    <3> QED
      BY <3>2, <3>4, <3>7 DEF FsInv
  <2> QED
    BY <2>2, <2>3
<1>7. CASE Fs!InitGetHandle(u)
  <2>1. /\ user[u] = "none" /\ initDone > 0 /\ user' = [user EXCEPT ![u] = "handle"]
        /\ UNCHANGED <<stored, mounted, initDone, call, kept, faults>>
    BY <1>7 DEF Fs!InitGetHandle
  <2>2. CallInv' /\ Fs!StoredIsWritten'
    BY <1>1, <1>4, <2>1, FilesStay
  <2>3. user' \in [Users -> {"none", "counted", "handle"}] /\ \A v \in Users : ~Mounting(v)
    BY <1>2, <1>3, <2>1
  <2>4. Counted' = Counted
    BY <1>3, <2>1 DEF Counted
  <2>5. FsTyped'
    BY <1>2, <1>3, <2>1, <2>3 DEF FsTyped, Within
  <2>6. CountInv'
    BY <1>2, <2>1, <2>3, <2>4 DEF CountInv, Within, Mounting
  <2> QED
    BY <2>2, <2>5, <2>6 DEF FsInv
<1>8. CASE Fs!Mounted(u)
  <2>1. /\ Mounting(u) /\ mounted' = TRUE /\ initDone' = initDone + 1 /\ user' = [user EXCEPT ![u] = "counted"]
        /\ call' = [call EXCEPT ![u] = Fs!NoCall] /\ kept' = [f \in FileNames |-> {stored[f]}]
        /\ UNCHANGED <<stored, faults>>
    BY <1>8 DEF Fs!Mounted, Fs!CountUp, Fs!Return, Fs!Works, Mounting
  <2>2. CallInv' /\ Fs!StoredIsWritten'
    BY <1>1, <1>4, <2>1, FilesStay
  <2>3. initDone = 0 /\ initDone' = 1 /\ user[u] = "none" /\ \A v \in Users : ~Mounting(v)'
    <3>1. initDone = 0 /\ user[u] = "none"
      BY <1>2, <2>1
    <3>2. \A v \in Users : Mounting(v) => v = u
      BY <1>2, <2>1
    <3>3. call'[u].op = "none" /\ \A v \in Users : v # u => call'[v] = call[v]
      BY <1>3, <1>4, <2>1
    <3>4. ASSUME NEW v \in Users, Mounting(v)' PROVE FALSE
      BY <3>2, <3>3, <3>4 DEF Mounting
    <3> QED
      BY <2>1, <3>1, <3>4
  <2>4. user' \in [Users -> {"none", "counted", "handle"}] /\ kept' \in [FileNames -> SUBSET Fs!Contents]
        /\ initDone' \in 0 .. MaxCount
    BY <1>2, <1>3, <2>1, <2>3
  <2>5. FsTyped'
    BY <1>2, <1>3, <1>4, <1>5, <2>1, <2>4 DEF FsTyped
  <2>6. Counted' = Counted \cup {u} /\ u \notin Counted
    BY <1>3, <2>1, <2>3 DEF Counted
  <2>7. IsFiniteSet(Counted') /\ Cardinality(Counted') = initDone + 1
    BY <1>2, <2>6, FS_AddElement
  <2>8. CountInv'
    <3>1. initDone' = Cardinality(Counted') /\ initDone' # 0
      BY <2>1, <2>3, <2>7
    <3>2. mounted' = TRUE
      BY <2>1
    <3>3. mounted' = (initDone' # 0)
      BY <3>1, <3>2, Zenon
    <3> QED
      BY <2>3, <2>7, <3>1, <3>2, <3>3 DEF CountInv
  <2> QED
    BY <2>2, <2>5, <2>8 DEF FsInv
<1>9. CASE Fs!Format(u)
  <2>1. /\ Mounting(u) /\ stored' = [f \in FileNames |-> Fs!Missing] /\ kept' = [f \in FileNames |-> {Fs!Missing}]
        /\ call' = [call EXCEPT ![u] = [op |-> "remount", file |-> "none", text |-> <<>>]]
        /\ UNCHANGED <<mounted, initDone, user>> /\ faults' \in 0 .. MaxFaults
    BY <1>2, <1>9 DEF Fs!Format, Fs!Enter, Fs!Fails, Mounting
  <2>2. initDone = 0 /\ mounted = FALSE /\ \A v \in Users : ~Within(v)
    BY <1>2, <2>1
  <2>3. \A v \in Users : ~Within(v)' /\ (Mounting(v)' => v = u)
    BY <1>2, <1>5, <2>1, <2>2 DEF Mounting
  <2>4. /\ stored' \in [FileNames -> Fs!Contents] /\ kept' \in [FileNames -> SUBSET Fs!Contents]
        /\ Fs!StoredIsWritten'
    BY <1>3, <2>1 DEF Fs!StoredIsWritten
  <2>5. FsTyped'
    BY <1>2, <1>3, <1>5, <2>1, <2>3, <2>4 DEF FsTyped
  <2>6. CallInv'
    BY <2>3 DEF CallInv, Within, Fs!OrEmpty, Fs!Missing
  <2>7. Counted' = Counted
    BY <2>1 DEF Counted
  <2>8. CountInv'
    BY <1>2, <2>1, <2>2, <2>3, <2>7 DEF CountInv
  <2> QED
    BY <2>4, <2>5, <2>6, <2>8 DEF FsInv
<1>10. CASE Fs!FormatFails(u)
  <2>1. /\ Mounting(u) /\ call' = [call EXCEPT ![u] = Fs!NoCall] /\ faults' \in 0 .. MaxFaults
        /\ UNCHANGED <<stored, mounted, initDone, user, kept>>
    BY <1>2, <1>10 DEF Fs!FormatFails, Fs!Return, Fs!Fails, Mounting
  <2>2. CallInv' /\ Fs!StoredIsWritten'
    BY <1>1, <1>4, <2>1, FilesStay
  <2>3. \A v \in Users : ~Mounting(v)'
    BY <1>2, <1>4, <1>5, <2>1 DEF Mounting
  <2>4. FsTyped'
    BY <1>2, <1>3, <1>4, <1>5, <2>1 DEF FsTyped
  <2>5. Counted' = Counted
    BY <2>1 DEF Counted
  <2>6. CountInv'
    BY <1>2, <1>4, <1>5, <2>1, <2>3, <2>5 DEF CountInv
  <2> QED
    BY <2>2, <2>4, <2>6 DEF FsInv
<1>11. CASE Fs!FsDeInit(u)
  <2>1. /\ user[u] = "counted" /\ initDone' = initDone - 1 /\ mounted' = (initDone # 1)
        /\ user' = [user EXCEPT ![u] = "none"] /\ UNCHANGED <<stored, call, kept, faults>>
        /\ (initDone = 1 => \A v \in Users : call[v].op = "none")
    BY <1>11 DEF Fs!FsDeInit, Fs!Idle
  <2>2. CallInv' /\ Fs!StoredIsWritten'
    BY <1>1, <1>4, <2>1, FilesStay
  <2>3. u \in Counted /\ Counted' = Counted \ {u}
    BY <1>3, <2>1 DEF Counted
  <2>4. IsFiniteSet(Counted') /\ Cardinality(Counted') = initDone - 1 /\ initDone - 1 \in Nat
    <3>1. IsFiniteSet(Counted') /\ Cardinality(Counted') = Cardinality(Counted) - 1
      BY <1>2, <2>3, FS_RemoveElement
    <3>2. Cardinality(Counted') \in Nat
      BY <3>1, FS_CardinalityType
    <3> QED
      BY <1>2, <3>1, <3>2
  <2>5. initDone' \in 0 .. MaxCount /\ initDone > 0 /\ mounted' = (initDone' # 0)
    BY <1>2, <2>1, <2>4
  <2>6. user' \in [Users -> {"none", "counted", "handle"}] /\ \A v \in Users : ~Mounting(v)
    BY <1>2, <1>3, <2>1, <2>5
  <2>7. FsTyped'
    BY <1>2, <1>3, <2>1, <2>5, <2>6 DEF FsTyped, Within
  <2>8. \A v \in Users : ~Mounting(v)' /\ (Within(v)' => mounted' = TRUE)
    BY <2>1, <2>6 DEF Mounting, Within
  <2>9. CountInv'
    BY <2>1, <2>4, <2>5, <2>8 DEF CountInv
  <2> QED
    BY <2>2, <2>7, <2>9 DEF FsInv
<1> QED
  BY <1>6, <1>7, <1>8, <1>9, <1>10, <1>11

LEMMA FsAlways == ASSUME FsConstants PROVE Fs!Spec => []FsInv
<1>0. <<>> \in Fs!Contents /\ Fs!Missing \in Fs!Contents
      /\ Fs!NoCall = [op |-> "none", file |-> "none", text |-> <<>>] /\ MaxCount \in Nat /\ MaxFaults \in Nat
  BY DEF Fs!Contents, Fs!NoCall, FsConstants
<1>1. ASSUME mounted = FALSE, initDone = 0, user = [u \in Users |-> "none"], call = [u \in Users |-> Fs!NoCall]
      PROVE  CountInv /\ CallInv /\ \A u \in Users : ~Within(u)
  <2>1. Counted = {}
    BY <1>1 DEF Counted
  <2>2. \A u \in Users : ~Within(u) /\ ~Mounting(u) /\ call[u].op # "create"
    BY <1>0, <1>1 DEF Within, Mounting
  <2>3. CountInv
    BY <1>1, <2>1, <2>2, FS_EmptySet DEF CountInv
  <2> QED
    BY <2>2, <2>3 DEF CallInv
<1>2. ASSUME NEW un, NEW cn, un = [u \in Users |-> "none"], cn = [u \in Users |-> Fs!NoCall]
      PROVE  /\ un \in [Users -> {"none", "counted", "handle"}]
             /\ cn \in [Users -> [op : {"none", "mount", "remount", "write", "close", "create"},
                                  file : FileNames \cup {"none"}, text : Fs!Contents]]
  BY <1>0, <1>2
<1>3. Fs!Init => FsInv
  <2> SUFFICES ASSUME Fs!Init PROVE FsInv
    OBVIOUS
  <2>1. /\ mounted = FALSE /\ initDone = 0 /\ user = [u \in Users |-> "none"]
        /\ call = [u \in Users |-> Fs!NoCall] /\ faults = 0
        /\ stored = [f \in FileNames |-> Fs!Missing] /\ kept = [f \in FileNames |-> {Fs!Missing}]
    BY DEF Fs!Init
  <2>2. /\ stored \in [FileNames -> Fs!Contents] /\ kept \in [FileNames -> SUBSET Fs!Contents]
        /\ \A f \in FileNames : stored[f] \in kept[f]
    BY <1>0, <2>1
  <2>3. FsTyped
    <3>1. mounted = FALSE /\ initDone = 0 /\ faults = 0
      BY <2>1
    <3>2. mounted \in BOOLEAN
      BY <3>1
    <3>3. initDone \in 0 .. MaxCount /\ faults \in 0 .. MaxFaults
      BY <1>0, <3>1
    <3>4. \A u \in Users : ~Within(u)
      BY <1>1, <2>1
    <3>5. /\ user \in [Users -> {"none", "counted", "handle"}]
          /\ call \in [Users -> [op : {"none", "mount", "remount", "write", "close", "create"},
                                  file : FileNames \cup {"none"}, text : Fs!Contents]]
      BY <1>2, <2>1
    <3> QED
      BY <2>2, <3>3, <3>4, <3>5, <3>2 DEF FsTyped
  <2> QED
    BY <1>1, <2>1, <2>2, <2>3 DEF FsInv, Fs!StoredIsWritten
<1>4. FsInv /\ [Fs!Next]_(Fs!vars) => FsInv'
  <2> SUFFICES ASSUME FsInv, [Fs!Next]_(Fs!vars) PROVE FsInv'
    OBVIOUS
  <2>1. CASE UNCHANGED Fs!vars
    BY <2>1 DEF Fs!vars, FsInv, FsTyped, CountInv, CallInv, Fs!StoredIsWritten, Counted, Within, Mounting,
                Fs!OrEmpty, Fs!Missing
  <2>2. CASE Fs!Reset
    <3>1. /\ mounted' = FALSE /\ initDone' = 0 /\ user' = [u \in Users |-> "none"]
          /\ call' = [u \in Users |-> Fs!NoCall] /\ UNCHANGED <<stored, kept, faults>>
      BY <2>2 DEF Fs!Reset
    <3>2. \A u \in Users : ~Within(u)' /\ ~Mounting(u)' /\ call'[u].op # "create"
      BY <1>0, <3>1 DEF Within, Mounting
    <3>3. Counted' = {}
      BY <3>1 DEF Counted
    <3>4. CountInv' /\ CallInv'
      BY <3>1, <3>2, <3>3, FS_EmptySet DEF CountInv, CallInv, Fs!OrEmpty, Fs!Missing
    <3>5. mounted' = FALSE /\ initDone' = 0
      BY <3>1
    <3>6. mounted' \in BOOLEAN
      BY <3>5
    <3>7. initDone' \in 0 .. MaxCount
      BY <1>0, <3>5
    <3>8. /\ user' \in [Users -> {"none", "counted", "handle"}]
          /\ call' \in [Users -> [op : {"none", "mount", "remount", "write", "close", "create"},
                                  file : FileNames \cup {"none"}, text : Fs!Contents]]
      BY <1>2, <3>1
    <3>9. FsTyped'
      BY <3>1, <3>2, <3>7, <3>8, <3>6 DEF FsInv, FsTyped
    <3> QED
      BY <3>1, <3>4, <3>9 DEF FsInv, Fs!StoredIsWritten
  <2> QED
    BY <2>1, <2>2, FilesKept, CountKept DEF Fs!Next
<1> QED
  BY <1>3, <1>4, PTL DEF Fs!Spec

(* The types: filesystem_init_done stays in its range.                      *)
THEOREM FsTypes == ASSUME FsConstants PROVE Fs!Spec => []Fs!TypeOK
<1>1. ASSUME FsInv PROVE Fs!TypeOK
  <2>1. FsTyped
    BY <1>1 DEF FsInv
  <2>2. Fs!Contents \subseteq Seq(Nat)
    <3>1. <<>> \in Seq(Nat) /\ <<0>> \in Seq(Nat)
      OBVIOUS
    <3> QED
      BY <3>1 DEF FsConstants, Fs!Contents, Fs!Missing
  <2>3. stored \in [FileNames -> Seq(Nat)]
    BY <2>1, <2>2 DEF FsTyped
  <2> QED
    BY <2>1, <2>3 DEF FsTyped, Fs!TypeOK
<1> QED
  BY <1>1, FsAlways, PTL

(* A file of littlefs is always what some call has written to it as a       *)
(* whole, what it was before, or empty, for any files and number of users  *)
(* (FS_WriteBufferToFile, FS_DeleteFile).                                  *)
THEOREM FilesWhole == ASSUME FsConstants PROVE Fs!Spec => []Fs!StoredIsWritten
<1>1. FsInv => Fs!StoredIsWritten
  BY DEF FsInv
<1> QED
  BY <1>1, FsAlways, PTL

(* The file system is mounted for whoever has initialised it, whoever else  *)
(* comes and goes (FS_Init, FS_DeInit).                                    *)
THEOREM UsersMounted == ASSUME FsConstants PROVE Fs!Spec => []Fs!MountedForUsers
<1>1. ASSUME FsInv, NEW u \in Users, user[u] = "counted" PROVE mounted
  <2>1. u \in Counted /\ IsFiniteSet(Counted) /\ initDone = Cardinality(Counted) /\ mounted = (initDone # 0)
    BY <1>1 DEF FsInv, CountInv, Counted
  <2>2. Cardinality(Counted) # 0
    BY <2>1, FS_EmptySet
  <2> QED
    BY <2>1, <2>2
<1>2. FsInv => Fs!MountedForUsers
  BY <1>1 DEF Fs!MountedForUsers
<1> QED
  BY <1>2, FsAlways, PTL

-----------------------------------------------------------------------------
(* Ics: what messages do to a constraint that was a and becomes b; along n *)
(* messages of the kinds k it goes from a to b.                            *)
Moves(kind, a, b) == /\ kind = "set" => a = 0 /\ b = 1
                     /\ kind = "release" => a = 1 /\ b = 0
                     /\ kind \notin {"set", "release"} => a = b
Path(k, n, a, b) == \E v \in [0 .. n -> 0 .. 1] :
                       /\ v[0] = a /\ v[n] = b
                       /\ \A i \in 1 .. n : Moves(k[i], v[i - 1], v[i])

LEMMA PathIs ==
  ASSUME NEW k, NEW n \in Nat, NEW a, NEW b, Path(k, n, a, b)
  PROVE  /\ a \in 0 .. 1 /\ b \in 0 .. 1
         /\ n = 0 => a = b
         /\ \A h : (\A i \in 1 .. n : h[i] = k[i]) => Path(h, n, a, b)
<1>1. PICK v \in [0 .. n -> 0 .. 1] : /\ v[0] = a /\ v[n] = b
                                      /\ \A i \in 1 .. n : Moves(k[i], v[i - 1], v[i])
  BY DEF Path
<1>2. ASSUME NEW h, \A i \in 1 .. n : h[i] = k[i] PROVE Path(h, n, a, b)
  BY <1>1, <1>2 DEF Path
<1> QED
  BY <1>1, <1>2

LEMMA PathAppend ==
  ASSUME NEW k, NEW n \in Nat, NEW a, NEW b, NEW c \in 0 .. 1, NEW h, Path(k, n, a, b),
         \A i \in 1 .. n : h[i] = k[i], Moves(h[n + 1], b, c)
  PROVE  Path(h, n + 1, a, c)
<1>1. PICK v \in [0 .. n -> 0 .. 1] : /\ v[0] = a /\ v[n] = b
                                      /\ \A i \in 1 .. n : Moves(k[i], v[i - 1], v[i])
  BY DEF Path
<1> DEFINE w == [i \in 0 .. n + 1 |-> IF i = n + 1 THEN c ELSE v[i]]
<1>2. /\ w \in [0 .. n + 1 -> 0 .. 1] /\ w[0] = a /\ w[n + 1] = c /\ w[n] = b
      /\ \A i \in 1 .. n : w[i - 1] = v[i - 1] /\ w[i] = v[i]
  BY <1>1
<1> HIDE DEF w
<1>3. ASSUME NEW i \in 1 .. n + 1 PROVE Moves(h[i], w[i - 1], w[i])
  <2>1. CASE i = n + 1
    BY <1>2, <2>1
  <2>2. CASE i # n + 1
    <3>1. i \in 1 .. n
      BY <2>2
    <3> QED
      BY <1>1, <1>2, <3>1
  <2> QED
    BY <2>1, <2>2
<1> QED
  BY <1>2, <1>3 DEF Path

(* Without the message at p, the first one or one that moves nothing.       *)
LEMMA PathWithout ==
  ASSUME NEW k, NEW n \in Nat, NEW a, NEW b, NEW h, NEW p \in 1 .. n, Path(k, n, a, b),
         \A i \in 1 .. n - 1 : h[i] = IF i < p THEN k[i] ELSE k[i + 1]
  PROVE  /\ p = 1 => \E c \in 0 .. 1 : Moves(k[1], a, c) /\ Path(h, n - 1, c, b)
         /\ k[p] \notin {"set", "release"} => Path(h, n - 1, a, b)
<1>1. PICK v \in [0 .. n -> 0 .. 1] : /\ v[0] = a /\ v[n] = b
                                      /\ \A i \in 1 .. n : Moves(k[i], v[i - 1], v[i])
  BY DEF Path
<1> DEFINE w == [i \in 0 .. n - 1 |-> IF i < p THEN v[i] ELSE v[i + 1]]
           u == [i \in 0 .. n - 1 |-> v[i + 1]]
<1>2. ASSUME p = 1 PROVE \E c \in 0 .. 1 : Moves(k[1], a, c) /\ Path(h, n - 1, c, b)
  <2>1. /\ u \in [0 .. n - 1 -> 0 .. 1] /\ u[0] = v[1] /\ u[n - 1] = b
        /\ \A i \in 1 .. n - 1 : u[i - 1] = v[i] /\ u[i] = v[i + 1]
    BY <1>1
  <2> HIDE DEF u
  <2>2. ASSUME NEW i \in 1 .. n - 1 PROVE Moves(h[i], u[i - 1], u[i])
    <3>1. i + 1 \in 1 .. n /\ h[i] = k[i + 1] /\ (i + 1) - 1 = i
      BY <1>2
    <3>2. Moves(k[i + 1], v[(i + 1) - 1], v[i + 1])
      BY <1>1, <3>1
    <3> QED
      BY <2>1, <3>1, <3>2
  <2>3. Path(h, n - 1, v[1], b)
    BY <2>1, <2>2 DEF Path
  <2>4. v[1] \in 0 .. 1 /\ Moves(k[1], a, v[1])
    <3>1. 1 \in 1 .. n /\ 1 - 1 = 0
      BY <1>2
    <3> QED
      BY <1>1, <3>1
  <2> QED
    BY <2>3, <2>4
<1>3. ASSUME k[p] \notin {"set", "release"} PROVE Path(h, n - 1, a, b)
  <2>1. v[p - 1] = v[p]
    BY <1>1, <1>3 DEF Moves
  <2>2. /\ w \in [0 .. n - 1 -> 0 .. 1] /\ w[0] = a
        /\ \A i \in 0 .. n - 1 : w[i] = IF i < p THEN v[i] ELSE v[i + 1]
    BY <1>1
  <2>3. w[n - 1] = b
    BY <1>1, <2>1, <2>2
  <2> HIDE DEF w
  <2>4. ASSUME NEW i \in 1 .. n - 1 PROVE Moves(h[i], w[i - 1], w[i])
    <3>1. CASE i < p
      <4>1. i \in 1 .. n /\ i - 1 \in 0 .. n - 1 /\ i - 1 < p /\ h[i] = k[i]
        BY <3>1
      <4>2. w[i - 1] = v[i - 1] /\ w[i] = v[i]
        BY <2>2, <3>1, <4>1
      <4> QED
        BY <1>1, <4>1, <4>2
    <3>2. CASE i >= p
      <4>1. i + 1 \in 1 .. n /\ i - 1 \in 0 .. n - 1 /\ h[i] = k[i + 1] /\ (i + 1) - 1 = i
        BY <3>2
      <4>2. w[i] = v[i + 1]
        BY <2>2, <3>2
      <4>3. w[i - 1] = v[i]
        <5>1. CASE i - 1 < p
          <6>1. i = p
            BY <3>2, <5>1
          <6> QED
            BY <2>1, <2>2, <4>1, <6>1
        <5>2. CASE ~(i - 1 < p)
          <6>1. (i - 1) + 1 = i
            OBVIOUS
          <6> QED
            BY <2>2, <4>1, <5>2, <6>1
        <5> QED
          BY <5>1, <5>2
      <4>4. Moves(k[i + 1], v[(i + 1) - 1], v[i + 1])
        BY <1>1, <4>1
      <4> QED
        BY <4>1, <4>2, <4>3, <4>4
    <3> QED
      BY <3>1, <3>2
  <2> QED
    BY <2>2, <2>3, <2>4 DEF Path
<1> QED
  BY <1>2, <1>3

(* The invariant. Along the messages the host has not served, deferred ones *)
(* first, its constraint becomes what the radio core wants.                *)
IcsConstants == NoCaller \notin Callers /\ Capacity \in Nat /\ MaxPending \in Nat /\ MaxFailures \in Nat

Unserved == Len(pending) + Len(toHost)
Kinds == [i \in 1 .. Unserved |-> IF i <= Len(pending) THEN pending[i] ELSE toHost[i - Len(pending)].type]
FollowInv == overtaken = FALSE => Path(Kinds, Unserved, constraint, wanted)

IcsTyped == /\ toHost \in Seq(Radio!Messages) /\ Len(toHost) <= Capacity
            /\ pending \in Seq(Radio!Deferred) /\ Len(pending) <= MaxPending
            /\ constraint \in Int /\ wanted \in 0 .. 1
            /\ failures \in 0 .. MaxFailures
            /\ toNbu \in Seq(Callers \cup {NoCaller}) /\ Len(toNbu) <= Capacity
            /\ answer \in Callers \cup {NoCaller}
            /\ callPc \in [Callers -> {"idle", "wait"}]
            /\ got \in [Callers -> Callers \cup {NoCaller}]
            /\ handling \in {"no", "yes", "ending"} /\ infoPc \in {"idle", "wait"}
Flags == submitted \in BOOLEAN /\ overtaken \in BOOLEAN /\ answered \in BOOLEAN /\ infoWanted \in BOOLEAN

(* An answer is taken only once one has come since the request.            *)
OwnInv == /\ answered = TRUE => answer \in Callers
          /\ \A c \in Callers : callPc[c] = "idle" => got[c] \in Callers

IcsInv == IcsTyped /\ Flags /\ FollowInv /\ OwnInv

LEMMA SendFollows ==
  ASSUME IcsTyped, FollowInv, NEW type, NEW c, Radio!SendToHost(type, c),
         UNCHANGED <<pending, constraint, overtaken>>, wanted' \in 0 .. 1, Moves(type, wanted, wanted')
  PROVE  FollowInv'
<1> DEFINE m == [type |-> type, for |-> c]
<1>1. toHost' = Append(toHost, m) /\ m.type = type
  BY DEF Radio!SendToHost
<1> HIDE DEF m
<1>2. /\ Len(toHost) \in Nat /\ Len(pending) \in Nat /\ Len(toHost') = Len(toHost) + 1
      /\ \A i \in 1 .. Len(toHost) : toHost'[i] = toHost[i]
      /\ toHost'[Len(toHost) + 1] = m
  BY <1>1 DEF IcsTyped
<1>3. Unserved \in Nat /\ Unserved' = Unserved + 1 /\ Unserved >= Len(pending)
      /\ Unserved - Len(pending) = Len(toHost)
  BY <1>2 DEF Unserved
<1>4. ASSUME NEW i \in 1 .. Unserved PROVE Kinds'[i] = Kinds[i]
  <2>1. i \in 1 .. Unserved' /\ (i > Len(pending) => i - Len(pending) \in 1 .. Len(toHost))
    BY <1>2, <1>3
  <2> QED
    BY <1>2, <2>1 DEF Kinds
<1>5. Kinds'[Unserved + 1] = type
  <2>1. /\ Unserved + 1 \in 1 .. Unserved' /\ ~(Unserved + 1 <= Len(pending))
        /\ (Unserved + 1) - Len(pending) = Len(toHost) + 1
    BY <1>2, <1>3
  <2> QED
    BY <1>1, <1>2, <2>1 DEF Kinds
<1>6. ASSUME overtaken' = FALSE PROVE Path(Kinds', Unserved', constraint', wanted')
  <2>1. Path(Kinds, Unserved, constraint, wanted)
    BY <1>6 DEF FollowInv
  <2>2. Path(Kinds', Unserved + 1, constraint, wanted')
    BY <1>3, <1>4, <1>5, <2>1, PathAppend
  <2> QED
    BY <1>3, <2>2
<1> QED
  BY <1>6 DEF FollowInv

(* A message that is served leaves the path of the ones after it.          *)
LEMMA ServeFollows ==
  ASSUME IcsTyped, FollowInv, Unserved \in Nat \ {0}, Unserved' = Unserved - 1, UNCHANGED wanted,
         NEW p \in 1 .. Unserved, overtaken' = FALSE => overtaken = FALSE,
         \A i \in 1 .. Unserved - 1 : Kinds'[i] = IF i < p THEN Kinds[i] ELSE Kinds[i + 1],
         overtaken' = FALSE => \/ p = 1 /\ Kinds[1] \in Radio!Deferred /\ Radio!Serve(Kinds[1])
                               \/ Kinds[p] \notin {"set", "release"} /\ constraint' = constraint
  PROVE  FollowInv'
<1> SUFFICES ASSUME overtaken' = FALSE PROVE Path(Kinds', Unserved', constraint', wanted')
  BY DEF FollowInv
<1>1. Path(Kinds, Unserved, constraint, wanted)
  BY DEF FollowInv
<1>2. CASE p = 1 /\ Kinds[1] \in Radio!Deferred /\ Radio!Serve(Kinds[1])
  <2>1. PICK c \in 0 .. 1 : Moves(Kinds[1], constraint, c) /\ Path(Kinds', Unserved - 1, c, wanted)
    BY <1>1, <1>2, PathWithout
  <2>2. constraint' = c
    BY <1>2, <2>1 DEF Moves, Radio!Serve, Radio!Deferred
  <2> QED
    BY <2>1, <2>2
<1>3. CASE Kinds[p] \notin {"set", "release"} /\ constraint' = constraint
  <2>1. Path(Kinds', Unserved - 1, constraint, wanted)
    BY <1>1, <1>3, PathWithout
  <2> QED
    BY <1>3, <2>1
<1> QED
  BY <1>2, <1>3

LEMMA FollowKept ==
  ASSUME IcsTyped, overtaken \in BOOLEAN, FollowInv, [Radio!Next]_(Radio!vars)
  PROVE  FollowInv'
<1>1. /\ toHost \in Seq(Radio!Messages) /\ pending \in Seq(Radio!Deferred) /\ wanted \in 0 .. 1
      /\ Len(toHost) \in Nat /\ Len(pending) \in Nat
  BY DEF IcsTyped
<1>2. CASE UNCHANGED <<toHost, pending, constraint, wanted, overtaken>>
  <2>1. Unserved' = Unserved /\ Kinds' = Kinds
    BY <1>2 DEF Unserved, Kinds
  <2> QED
    BY <1>2, <2>1 DEF FollowInv
<1>3. CASE Radio!SetConstraint
  BY <1>3, SendFollows DEF Radio!SetConstraint, Radio!rxVars, Moves
<1>4. CASE Radio!ReleaseConstraint
  BY <1>4, SendFollows DEF Radio!ReleaseConstraint, Radio!rxVars, Moves
<1>5. CASE Radio!Answer
  <2>1. UNCHANGED <<wanted, pending, constraint, overtaken>>
    BY <1>5 DEF Radio!Answer, Radio!rxVars
  <2>2. Moves("version", wanted, wanted) /\ Moves("answer", wanted, wanted)
    BY DEF Moves
  <2>3. CASE Radio!SendToHost("version", NoCaller)
    BY <1>1, <2>1, <2>2, <2>3, SendFollows
  <2>4. CASE Radio!SendToHost("answer", Head(toNbu))
    BY <1>1, <2>1, <2>2, <2>4, SendFollows
  <2> QED
    BY <1>5, <2>3, <2>4 DEF Radio!Answer
<1>6. CASE Radio!Receive
  <2> DEFINE m == Head(toHost)
             P == Len(pending)
  <2>1. /\ toHost # <<>> /\ toHost' = Tail(toHost) /\ UNCHANGED wanted
        /\ \/ m.type \in Radio!Deferred /\ (Radio!Defer(m.type) \/ Radio!ServeNow(m.type))
           \/ m.type = "answer" /\ UNCHANGED Radio!rxVars
           \/ m.type = "version" /\ UNCHANGED Radio!rxVars
    BY <1>6 DEF Radio!Receive, Radio!ServeAnswer, Radio!ServeVersion
  <2>2. /\ Len(toHost) > 0 /\ Len(toHost') = Len(toHost) - 1 /\ m = toHost[1]
        /\ \A i \in 1 .. Len(toHost) - 1 : toHost'[i] = toHost[i + 1]
    BY <1>1, <2>1
  <2> HIDE DEF m
  <2>3. CASE Radio!Defer(m.type)
    <3>1. pending' = Append(pending, m.type) /\ UNCHANGED <<constraint, overtaken>>
      BY <2>3 DEF Radio!Defer
    <3>2. /\ Len(pending') = P + 1 /\ pending'[P + 1] = m.type
          /\ \A i \in 1 .. P : pending'[i] = pending[i]
      BY <1>1, <3>1
    <3>3. Unserved' = Unserved /\ Unserved = P + Len(toHost) /\ Unserved \in Nat
      BY <1>1, <2>2, <3>2 DEF Unserved
    <3>4. ASSUME NEW i \in 1 .. Unserved PROVE Kinds'[i] = Kinds[i]
      <4>1. Kinds'[i] = (IF i <= P + 1 THEN pending'[i] ELSE toHost'[i - (P + 1)].type)
            /\ Kinds[i] = (IF i <= P THEN pending[i] ELSE toHost[i - P].type)
        BY <3>2, <3>3 DEF Kinds
      <4>2. CASE i <= P
        BY <1>1, <3>2, <4>1, <4>2
      <4>3. CASE i = P + 1
        <5>1. i - P = 1 /\ ~(i <= P)
          BY <1>1, <4>3
        <5> QED
          BY <2>2, <3>2, <4>1, <4>3, <5>1
      <4>4. CASE i > P + 1
        <5>1. i - (P + 1) \in 1 .. Len(toHost) - 1 /\ (i - (P + 1)) + 1 = i - P /\ ~(i <= P) /\ ~(i <= P + 1)
          BY <1>1, <3>3, <4>4
        <5> QED
          BY <2>2, <4>1, <5>1
      <4> QED
        BY <1>1, <4>2, <4>3, <4>4
    <3>5. ASSUME overtaken' = FALSE PROVE Path(Kinds', Unserved', constraint', wanted')
      <4>1. Path(Kinds, Unserved, constraint, wanted)
        BY <3>1, <3>5 DEF FollowInv
      <4>2. Path(Kinds', Unserved, constraint, wanted)
        BY <3>3, <3>4, <4>1, PathIs
      <4> QED
        BY <2>1, <3>1, <3>3, <4>2
    <3> QED
      BY <3>5 DEF FollowInv
  <2>4. CASE ~Radio!Defer(m.type)
    <3>1. pending' = pending /\ (overtaken' = FALSE => overtaken = FALSE)
          /\ (overtaken' = FALSE => \/ pending = <<>> /\ m.type \in Radio!Deferred /\ Radio!Serve(m.type)
                                    \/ m.type \notin {"set", "release"} /\ constraint' = constraint)
      <4>1. CASE m.type \in Radio!Deferred /\ Radio!ServeNow(m.type)
        <5>1. pending' = pending /\ overtaken' = (overtaken \/ pending # <<>>) /\ Radio!Serve(m.type)
          BY <4>1 DEF Radio!ServeNow
        <5>2. CASE overtaken = TRUE \/ pending # <<>>
          <6>1. overtaken' = TRUE
            BY <5>1, <5>2, Zenon
          <6> QED
            BY <5>1, <6>1
        <5>3. CASE overtaken = FALSE /\ pending = <<>>
          BY <4>1, <5>1, <5>3
        <5> QED
          BY <5>2, <5>3
      <4>2. CASE m.type \in {"answer", "version"} /\ UNCHANGED Radio!rxVars
        BY <4>2 DEF Radio!rxVars
      <4> QED
        BY <2>1, <2>4, <4>1, <4>2
    <3>2. Unserved' = Unserved - 1 /\ Unserved = P + Len(toHost) /\ Unserved \in Nat \ {0} /\ P + 1 \in 1 .. Unserved
      BY <1>1, <2>2, <3>1 DEF Unserved
    <3>3. ASSUME NEW i \in 1 .. Unserved - 1
          PROVE  Kinds'[i] = IF i < P + 1 THEN Kinds[i] ELSE Kinds[i + 1]
      <4>1. /\ Kinds'[i] = (IF i <= P THEN pending[i] ELSE toHost'[i - P].type)
            /\ Kinds[i] = (IF i <= P THEN pending[i] ELSE toHost[i - P].type)
            /\ Kinds[i + 1] = (IF i + 1 <= P THEN pending[i + 1] ELSE toHost[(i + 1) - P].type)
        BY <3>1, <3>2 DEF Kinds
      <4>2. CASE i <= P
        BY <1>1, <4>1, <4>2
      <4>3. CASE i > P
        <5>1. /\ i - P \in 1 .. Len(toHost) - 1 /\ (i - P) + 1 = (i + 1) - P
              /\ ~(i <= P) /\ ~(i + 1 <= P) /\ ~(i < P + 1)
          BY <1>1, <3>2, <4>3
        <5> QED
          BY <2>2, <4>1, <5>1
      <4> QED
        BY <1>1, <4>2, <4>3
    <3>4. Kinds[P + 1] = m.type
      <4>1. (P + 1) - P = 1 /\ ~(P + 1 <= P)
        BY <1>1
      <4> QED
        BY <2>2, <3>2, <4>1 DEF Kinds
    <3>5. overtaken' = FALSE => \/ P + 1 = 1 /\ Kinds[1] \in Radio!Deferred /\ Radio!Serve(Kinds[1])
                                \/ Kinds[P + 1] \notin {"set", "release"} /\ constraint' = constraint
      <4>1. pending = <<>> => P + 1 = 1
        OBVIOUS
      <4> QED
        BY <3>1, <3>4, <4>1
    <3> HIDE DEF P
    <3> QED
      BY <2>1, <3>1, <3>2, <3>3, <3>5, ServeFollows
  <2> QED
    BY <2>3, <2>4
<1>7. CASE Radio!Handle
  <2>1. /\ pending # <<>> /\ pending' = Tail(pending) /\ Radio!Serve(Head(pending))
        /\ UNCHANGED <<toHost, wanted, overtaken>>
    BY <1>7 DEF Radio!Handle
  <2>2. /\ Len(pending) > 0 /\ Len(pending') = Len(pending) - 1 /\ Head(pending) = pending[1]
        /\ pending[1] \in Radio!Deferred /\ \A i \in 1 .. Len(pending) - 1 : pending'[i] = pending[i + 1]
    BY <1>1, <2>1
  <2>3. Unserved' = Unserved - 1 /\ Unserved = Len(pending) + Len(toHost) /\ Unserved \in Nat \ {0} /\ 1 \in 1 .. Unserved
    BY <1>1, <2>1, <2>2 DEF Unserved
  <2>4. ASSUME NEW i \in 1 .. Unserved - 1
        PROVE  Kinds'[i] = Kinds[i + 1]
    <3>1. /\ Kinds'[i] = (IF i <= Len(pending) - 1 THEN pending'[i] ELSE toHost[i - (Len(pending) - 1)].type)
          /\ Kinds[i + 1] = (IF i + 1 <= Len(pending) THEN pending[i + 1] ELSE toHost[(i + 1) - Len(pending)].type)
      BY <2>1, <2>2, <2>3 DEF Kinds
    <3>2. i - (Len(pending) - 1) = (i + 1) - Len(pending) /\ (i <= Len(pending) - 1 <=> i + 1 <= Len(pending))
      BY <1>1
    <3> QED
      BY <1>1, <2>2, <3>1, <3>2
  <2>5. Kinds[1] = pending[1]
    BY <2>2, <2>3 DEF Kinds
  <2>6. \A i \in 1 .. Unserved - 1 : Kinds'[i] = IF i < 1 THEN Kinds[i] ELSE Kinds[i + 1]
    BY <2>4
  <2> QED
    BY <2>1, <2>2, <2>3, <2>5, <2>6, ServeFollows
<1>8. CASE Radio!StartHandler \/ Radio!EndHandler \/ Radio!GetNbuInfo
  BY <1>2, <1>8 DEF Radio!StartHandler, Radio!EndHandler, Radio!GetNbuInfo, Radio!rxVars
<1>9. ASSUME NEW c \in Callers, Radio!Request(c) \/ Radio!TakeAnswer(c) PROVE FollowInv'
  BY <1>2, <1>9 DEF Radio!Request, Radio!TakeAnswer, Radio!rxVars
<1>10. CASE UNCHANGED Radio!vars
  BY <1>2, <1>10 DEF Radio!vars
<1> QED
  BY <1>3, <1>4, <1>5, <1>6, <1>7, <1>8, <1>9, <1>10 DEF Radio!Next, Radio!System

LEMMA IcsTypeKept ==
  ASSUME IcsConstants, IcsTyped, Flags, [Radio!Next]_(Radio!vars)
  PROVE  IcsTyped' /\ Flags'
<1>1. /\ toHost \in Seq(Radio!Messages) /\ Len(toHost) <= Capacity /\ Len(toHost) \in Nat /\ Capacity \in Nat
      /\ pending \in Seq(Radio!Deferred) /\ Len(pending) <= MaxPending /\ Len(pending) \in Nat /\ MaxPending \in Nat
      /\ constraint \in Int /\ wanted \in 0 .. 1 /\ failures \in 0 .. MaxFailures /\ MaxFailures \in Nat
      /\ toNbu \in Seq(Callers \cup {NoCaller}) /\ Len(toNbu) <= Capacity /\ Len(toNbu) \in Nat
      /\ answer \in Callers \cup {NoCaller} /\ callPc \in [Callers -> {"idle", "wait"}]
      /\ got \in [Callers -> Callers \cup {NoCaller}]
      /\ handling \in {"no", "yes", "ending"} /\ infoPc \in {"idle", "wait"}
  BY DEF IcsTyped, IcsConstants
<1>2. submitted \in BOOLEAN /\ overtaken \in BOOLEAN /\ answered \in BOOLEAN /\ infoWanted \in BOOLEAN
  BY DEF Flags
<1>3. CASE UNCHANGED Radio!vars
  BY <1>3 DEF Radio!vars, IcsTyped, Flags
<1>4. ASSUME NEW type \in {"set", "release", "version", "answer"}, NEW c \in Callers \cup {NoCaller},
             type = "answer" => c \in Callers, type # "answer" => c = NoCaller, Radio!SendToHost(type, c)
      PROVE  toHost' \in Seq(Radio!Messages) /\ Len(toHost') <= Capacity
  <2> DEFINE m == [type |-> type, for |-> c]
  <2>1. m \in Radio!Messages
    BY <1>4 DEF IcsConstants, Radio!Messages, Radio!Deferred
  <2>2. toHost' = Append(toHost, m) /\ Len(toHost) < Capacity
    BY <1>4 DEF Radio!SendToHost
  <2> QED
    BY <1>1, <2>1, <2>2
<1>5. ASSUME NEW c \in Callers \cup {NoCaller}, Len(toNbu) < Capacity, toNbu' = Append(toNbu, c)
      PROVE  toNbu' \in Seq(Callers \cup {NoCaller}) /\ Len(toNbu') <= Capacity
  BY <1>1, <1>5
<1>6. \A k : Radio!Serve(k) => constraint' \in Int
  BY <1>1 DEF Radio!Serve
<1>7. CASE Radio!SetConstraint \/ Radio!ReleaseConstraint
  <2>1. PICK type \in {"set", "release"} : Radio!SendToHost(type, NoCaller)
    BY <1>7 DEF Radio!SetConstraint, Radio!ReleaseConstraint
  <2>3. toHost' \in Seq(Radio!Messages) /\ Len(toHost') <= Capacity
    BY <1>4, <2>1
  <2>4. wanted' \in 0 .. 1 /\ UNCHANGED <<Radio!rxVars, Radio!apiVars, Radio!infoVars>>
    BY <1>7 DEF Radio!SetConstraint, Radio!ReleaseConstraint
  <2> QED
    BY <1>1, <1>2, <2>3, <2>4 DEF IcsTyped, Flags, Radio!rxVars, Radio!apiVars, Radio!infoVars
<1>8. CASE Radio!Answer
  <2>1. toNbu # <<>> /\ toNbu' = Tail(toNbu) /\ Head(toNbu) \in Callers \cup {NoCaller}
    BY <1>1, <1>8 DEF Radio!Answer
  <2>2. toNbu' \in Seq(Callers \cup {NoCaller}) /\ Len(toNbu') <= Capacity
    BY <1>1, <2>1
  <2>3. toHost' \in Seq(Radio!Messages) /\ Len(toHost') <= Capacity
    <3>1. CASE Head(toNbu) = NoCaller
      <4>1. Radio!SendToHost("version", NoCaller)
        BY <1>8, <3>1 DEF Radio!Answer
      <4> QED
        BY <1>4, <4>1
    <3>2. CASE Head(toNbu) # NoCaller
      <4>1. Radio!SendToHost("answer", Head(toNbu)) /\ Head(toNbu) \in Callers
        BY <1>8, <2>1, <3>2 DEF Radio!Answer
      <4> QED
        BY <1>4, <4>1
    <3> QED
      BY <3>1, <3>2
  <2>4. UNCHANGED <<wanted, Radio!rxVars, answered, answer, callPc, got, Radio!infoVars>>
    BY <1>8 DEF Radio!Answer
  <2> QED
    BY <1>1, <1>2, <2>2, <2>3, <2>4 DEF IcsTyped, Flags, Radio!rxVars, Radio!infoVars
<1>9. CASE Radio!Receive
  <2> DEFINE m == Head(toHost)
  <2>1. toHost # <<>> /\ toHost' = Tail(toHost) /\ UNCHANGED wanted /\ m \in Radio!Messages
    BY <1>1, <1>9 DEF Radio!Receive
  <2>2. toHost' \in Seq(Radio!Messages) /\ Len(toHost') <= Capacity
    BY <1>1, <2>1
  <2>3. m.type = "answer" => m.for \in Callers
    BY <2>1 DEF Radio!Messages, Radio!Deferred
  <2> HIDE DEF m
  <2>4. CASE m.type \in Radio!Deferred /\ Radio!Defer(m.type) /\ UNCHANGED <<Radio!apiVars, Radio!infoVars>>
    <3>1. pending' = Append(pending, m.type) /\ Len(pending) < MaxPending /\ submitted' = TRUE
          /\ UNCHANGED <<handling, constraint, failures, overtaken>>
      BY <2>4 DEF Radio!Defer
    <3>2. pending' \in Seq(Radio!Deferred) /\ Len(pending') <= MaxPending
      BY <1>1, <2>4, <3>1
    <3>3. submitted' \in BOOLEAN
      BY <3>1
    <3> QED
      BY <1>1, <1>2, <2>1, <2>2, <2>4, <3>1, <3>2, <3>3 DEF IcsTyped, Flags, Radio!apiVars, Radio!infoVars
  <2>5. CASE m.type \in Radio!Deferred /\ Radio!ServeNow(m.type) /\ UNCHANGED <<Radio!apiVars, Radio!infoVars>>
    <3>1. failures < MaxFailures /\ failures' = failures + 1 /\ overtaken' = (overtaken \/ pending # <<>>)
          /\ Radio!Serve(m.type) /\ UNCHANGED <<pending, submitted, handling>>
      BY <2>5 DEF Radio!ServeNow
    <3>2. failures' \in 0 .. MaxFailures
      BY <1>1, <3>1
    <3>3. overtaken' \in BOOLEAN
      BY <3>1, Zenon
    <3> QED
      BY <1>1, <1>2, <1>6, <2>1, <2>2, <2>5, <3>1, <3>2, <3>3 DEF IcsTyped, Flags, Radio!apiVars, Radio!infoVars
  <2>6. CASE m.type = "answer" /\ Radio!ServeAnswer(m)
    <3>1. answered' = TRUE /\ answer' \in Callers /\ UNCHANGED <<toNbu, callPc, got, Radio!infoVars, Radio!rxVars>>
      BY <2>3, <2>6 DEF Radio!ServeAnswer
    <3>2. answered' \in BOOLEAN
      BY <3>1
    <3> QED
      BY <1>1, <1>2, <2>1, <2>2, <3>1, <3>2 DEF IcsTyped, Flags, Radio!rxVars, Radio!infoVars
  <2>7. CASE m.type = "version" /\ Radio!ServeVersion
    <3>1. /\ UNCHANGED <<Radio!apiVars, Radio!rxVars>>
          /\ (infoWanted' = FALSE /\ infoPc' = "idle") \/ UNCHANGED Radio!infoVars
      BY <2>7 DEF Radio!ServeVersion
    <3>2. infoWanted' \in BOOLEAN
      BY <1>2, <3>1 DEF Radio!infoVars
    <3>3. infoPc' \in {"idle", "wait"}
      BY <1>1, <3>1 DEF Radio!infoVars
    <3> QED
      BY <1>1, <1>2, <2>1, <2>2, <3>1, <3>2, <3>3 DEF IcsTyped, Flags, Radio!rxVars, Radio!apiVars
  <2> QED
    BY <1>9, <2>4, <2>5, <2>6, <2>7 DEF Radio!Receive, m
<1>10. CASE Radio!StartHandler \/ Radio!EndHandler
  <2>1. /\ UNCHANGED <<toHost, wanted, pending, constraint, failures, overtaken, Radio!apiVars, Radio!infoVars>>
        /\ submitted' = submitted \/ submitted' = FALSE
        /\ handling' \in {"no", "yes", "ending"}
    BY <1>1, <1>10 DEF Radio!StartHandler, Radio!EndHandler
  <2>2. submitted' \in BOOLEAN
    BY <1>2, <2>1
  <2> QED
    BY <1>1, <1>2, <2>1, <2>2 DEF IcsTyped, Flags, Radio!apiVars, Radio!infoVars
<1>11. CASE Radio!Handle
  <2>1. /\ pending # <<>> /\ pending' = Tail(pending) /\ constraint' \in Int
        /\ UNCHANGED <<toHost, wanted, submitted, handling, failures, overtaken, Radio!apiVars, Radio!infoVars>>
    BY <1>6, <1>11 DEF Radio!Handle
  <2>2. pending' \in Seq(Radio!Deferred) /\ Len(pending') <= MaxPending
    BY <1>1, <2>1
  <2> QED
    BY <1>1, <1>2, <2>1, <2>2 DEF IcsTyped, Flags, Radio!apiVars, Radio!infoVars
<1>12. CASE Radio!GetNbuInfo
  <2>1. /\ Len(toNbu) < Capacity /\ infoPc' = "wait" /\ infoWanted' = TRUE /\ toNbu' = Append(toNbu, NoCaller)
        /\ UNCHANGED <<toHost, wanted, answered, answer, callPc, got, Radio!rxVars>>
    BY <1>12 DEF Radio!GetNbuInfo
  <2>2. infoWanted' \in BOOLEAN
    BY <2>1
  <2> QED
    BY <1>1, <1>2, <1>5, <2>1, <2>2 DEF IcsTyped, Flags, Radio!rxVars
<1>13. ASSUME NEW c \in Callers, Radio!Request(c) PROVE IcsTyped' /\ Flags'
  <2>1. /\ Len(toNbu) < Capacity /\ toNbu' = Append(toNbu, c) /\ answered' = FALSE
        /\ callPc' = [callPc EXCEPT ![c] = "wait"] /\ got' = [got EXCEPT ![c] = NoCaller] /\ answer' = NoCaller
        /\ UNCHANGED <<toHost, wanted, Radio!rxVars, Radio!infoVars>>
    BY <1>13 DEF Radio!Request
  <2>2. answered' \in BOOLEAN
    BY <2>1
  <2>3. callPc' \in [Callers -> {"idle", "wait"}] /\ got' \in [Callers -> Callers \cup {NoCaller}]
    BY <1>1, <2>1
  <2> QED
    BY <1>1, <1>2, <1>5, <2>1, <2>2, <2>3 DEF IcsTyped, Flags, Radio!rxVars, Radio!infoVars
<1>14. ASSUME NEW c \in Callers, Radio!TakeAnswer(c) PROVE IcsTyped' /\ Flags'
  <2>1. /\ got' = [got EXCEPT ![c] = answer] /\ callPc' = [callPc EXCEPT ![c] = "idle"]
        /\ UNCHANGED <<toHost, wanted, toNbu, answered, answer, Radio!rxVars, Radio!infoVars>>
    BY <1>14 DEF Radio!TakeAnswer
  <2>2. callPc' \in [Callers -> {"idle", "wait"}] /\ got' \in [Callers -> Callers \cup {NoCaller}]
    BY <1>1, <2>1
  <2> QED
    BY <1>1, <1>2, <2>1, <2>2 DEF IcsTyped, Flags, Radio!rxVars, Radio!infoVars
<1> QED
  BY <1>3, <1>7, <1>8, <1>9, <1>10, <1>11, <1>12, <1>13, <1>14 DEF Radio!Next, Radio!System

LEMMA OwnKept ==
  ASSUME IcsTyped, OwnInv, [Radio!Next]_(Radio!vars)
  PROVE  OwnInv'
<1>1. /\ answered = TRUE => answer \in Callers
      /\ \A c \in Callers : callPc[c] = "idle" => got[c] \in Callers
  BY DEF OwnInv
<1>2. CASE UNCHANGED <<answered, answer, callPc, got>>
  BY <1>1, <1>2 DEF OwnInv
<1>3. CASE Radio!Receive
  <2>1. \/ UNCHANGED Radio!apiVars
        \/ /\ toHost # <<>> /\ Head(toHost).type = "answer"
           /\ answer' = Head(toHost).for /\ UNCHANGED <<callPc, got>>
    BY <1>3 DEF Radio!Receive, Radio!ServeAnswer, Radio!ServeVersion
  <2>2. toHost # <<>> => Head(toHost) \in Radio!Messages
    BY DEF IcsTyped
  <2>3. toHost # <<>> /\ Head(toHost).type = "answer" => Head(toHost).for \in Callers
    BY <2>2 DEF Radio!Messages, Radio!Deferred
  <2> QED
    BY <1>1, <1>2, <2>1, <2>3 DEF Radio!apiVars, OwnInv
<1>4. ASSUME NEW c \in Callers, Radio!Request(c) PROVE OwnInv'
  <2>1. answered' = FALSE /\ callPc' = [callPc EXCEPT ![c] = "wait"] /\ got' = [got EXCEPT ![c] = NoCaller]
    BY <1>4 DEF Radio!Request
  <2>2. \A d \in Callers : callPc'[d] = "idle" => d # c /\ callPc[d] = "idle" /\ got'[d] = got[d]
    BY <2>1 DEF IcsTyped
  <2> QED
    BY <1>1, <2>1, <2>2 DEF OwnInv
<1>5. ASSUME NEW c \in Callers, Radio!TakeAnswer(c) PROVE OwnInv'
  <2>1. answered /\ got' = [got EXCEPT ![c] = answer] /\ callPc' = [callPc EXCEPT ![c] = "idle"]
        /\ UNCHANGED <<answered, answer>>
    BY <1>5 DEF Radio!TakeAnswer
  <2>2. got'[c] = answer /\ \A d \in Callers : d # c => callPc'[d] = callPc[d] /\ got'[d] = got[d]
    BY <2>1 DEF IcsTyped
  <2> QED
    BY <1>1, <2>1, <2>2 DEF OwnInv
<1>6. CASE \/ Radio!SetConstraint \/ Radio!ReleaseConstraint \/ Radio!Answer \/ Radio!StartHandler
           \/ Radio!Handle \/ Radio!EndHandler \/ Radio!GetNbuInfo \/ UNCHANGED Radio!vars
  BY <1>2, <1>6 DEF Radio!SetConstraint, Radio!ReleaseConstraint, Radio!Answer, Radio!StartHandler,
                    Radio!Handle, Radio!EndHandler, Radio!GetNbuInfo, Radio!apiVars, Radio!vars
<1> QED
  BY <1>3, <1>4, <1>5, <1>6 DEF Radio!Next, Radio!System

LEMMA IcsAlways == ASSUME IcsConstants PROVE Radio!FairSpec => []IcsInv
<1>1. Radio!Init => IcsInv
  <2> SUFFICES ASSUME Radio!Init PROVE IcsInv
    OBVIOUS
  <2>1. /\ toHost = <<>> /\ pending = <<>> /\ handling = "no" /\ constraint = 0 /\ wanted = 0 /\ failures = 0
        /\ toNbu = <<>> /\ answer = NoCaller /\ callPc = [c \in Callers |-> "idle"]
        /\ got = [c \in Callers |-> c] /\ infoPc = "idle"
        /\ submitted = FALSE /\ overtaken = FALSE /\ answered = FALSE /\ infoWanted = FALSE
    BY DEF Radio!Init
  <2>2. Flags
    <3>1. submitted \in BOOLEAN /\ overtaken \in BOOLEAN
      BY <2>1
    <3>2. answered \in BOOLEAN /\ infoWanted \in BOOLEAN
      BY <2>1
    <3> QED
      BY <3>1, <3>2 DEF Flags
  <2>3. /\ toHost \in Seq(Radio!Messages) /\ Len(toHost) = 0 /\ pending \in Seq(Radio!Deferred) /\ Len(pending) = 0
        /\ toNbu \in Seq(Callers \cup {NoCaller}) /\ Len(toNbu) = 0
        /\ callPc \in [Callers -> {"idle", "wait"}] /\ got \in [Callers -> Callers \cup {NoCaller}]
    BY <2>1
  <2>4. IcsTyped
    BY <2>1, <2>3 DEF IcsTyped, IcsConstants
  <2>5. Path(Kinds, 0, 0, 0)
    <3> DEFINE v == [i \in 0 .. 0 |-> 0]
    <3>1. v \in [0 .. 0 -> 0 .. 1] /\ v[0] = 0 /\ 1 .. 0 = {}
      OBVIOUS
    <3> HIDE DEF v
    <3> QED
      BY <3>1 DEF Path
  <2>6. FollowInv
    BY <2>1, <2>3, <2>5 DEF FollowInv, Unserved
  <2>7. OwnInv
    BY <2>1 DEF OwnInv
  <2> QED
    BY <2>2, <2>4, <2>6, <2>7 DEF IcsInv
<1>2. IcsInv /\ [Radio!Next]_(Radio!vars) => IcsInv'
  <2> SUFFICES ASSUME IcsInv, [Radio!Next]_(Radio!vars) PROVE IcsInv'
    OBVIOUS
  <2>1. IcsTyped /\ Flags /\ FollowInv /\ OwnInv /\ overtaken \in BOOLEAN
    BY DEF IcsInv, Flags
  <2> QED
    BY <2>1, IcsTypeKept, FollowKept, OwnKept DEF IcsInv
<1> QED
  BY <1>1, <1>2, PTL DEF Radio!FairSpec

(* The types: the messages of both directions and the pending list stay     *)
(* within their bounds, and an answer is for a caller.                     *)
THEOREM IcsTypes == ASSUME IcsConstants PROVE Radio!FairSpec => []Radio!TypeOK
<1>1. IcsInv => Radio!TypeOK
  BY DEF IcsInv, IcsTyped, Flags, Radio!TypeOK
<1> QED
  BY <1>1, IcsAlways, PTL

(* When the host has served every message of the radio core, it holds the   *)
(* low-power constraint just if the radio core wants it, whatever was       *)
(* deferred and whenever the handler ran, unless a message went past others *)
(* for want of memory (PLATFORM_FwkSrv_RxCallBack, PLATFORM_RxWorkHandler).  *)
THEOREM ConstraintFollowed == ASSUME IcsConstants PROVE Radio!FairSpec => []Radio!ConstraintFollows
<1>1. ASSUME IcsInv, toHost = <<>>, pending = <<>>, ~overtaken PROVE constraint = wanted
  <2>1. overtaken = FALSE /\ FollowInv
    BY <1>1 DEF IcsInv, Flags
  <2>2. Unserved = 0
    BY <1>1 DEF Unserved
  <2>3. Path(Kinds, 0, constraint, wanted)
    BY <2>1, <2>2 DEF FollowInv
  <2> QED
    BY <2>3, PathIs
<1>2. IcsInv => Radio!ConstraintFollows
  BY <1>1 DEF Radio!ConstraintFollows
<1> QED
  BY <1>2, IcsAlways, PTL

(* With one task that calls the radio core, what it takes as the answer is  *)
(* one, and its own: none is taken that came before the request            *)
(* (PLATFORM_NbuApiReq).                                                   *)
THEOREM AnswersOwn ==
  ASSUME IcsConstants, \A c, d \in Callers : c = d PROVE Radio!FairSpec => []Radio!AnswerIsOwn
<1>1. IcsInv => Radio!AnswerIsOwn
  BY DEF IcsInv, OwnInv, Radio!AnswerIsOwn
<1> QED
  BY <1>1, IcsAlways, PTL

-----------------------------------------------------------------------------
(* RngSource: the invariant, in parts. The thread of the work queue and    *)
(* nobody are no tasks.                                                    *)
RngConstants == /\ Source!Work \notin Tasks /\ Source!None \notin Source!Threads
                /\ MaxRequests \in Nat

RngTyped == /\ key \in Nat /\ requests \in Nat /\ pc \in [Source!Threads -> Source!Steps]
            /\ read \in [Source!Threads -> Nat] /\ given \in [Source!Threads -> Nat]
            /\ \A t \in Tasks : pc[t] \notin {"seed", "seeding"}

(* No two tasks have drawn at once from the generator of RNG.c.            *)
Apart == ~(Source!Soft /\ "seed" \in clashed)

(* One draws at a time: at RNG.c as long as no two have drawn at once, and  *)
(* at the other back ends because they and their seeding hold the mutex.   *)
OneDraws == /\ Source!Soft /\ Apart =>
                 \A s, t \in Tasks : pc[s] = "drawing" /\ pc[t] = "drawing" => s = t
            /\ ~Source!Soft => \A t \in Tasks : pc[t] = "drawing" => lock = t
            /\ pc[Source!Work] = "seeding" => lock = Source!Work /\ ~Source!Soft

(* What was given was drawn from earlier states than the present one, and   *)
(* than the one a task is drawing from, which seeding may have left since.  *)
GivenInv == Apart =>
  /\ \A s \in Tasks : given[s] = 0 \/ given[s] < key
  /\ \A t \in Tasks : pc[t] = "drawing" =>
       read[t] <= key /\ \A s \in Tasks : given[s] = 0 \/ given[s] < read[t]
  /\ \A s, t \in Tasks : given[s] = given[t] => s = t \/ given[s] = 0

RngInv == RngTyped /\ OneDraws /\ GivenInv

LEMMA GotoKeeps ==
  ASSUME RngTyped, NEW t \in Source!Threads, NEW step \in Source!Steps,
         t \in Tasks => step \notin {"seed", "seeding"}, Source!Goto(t, step)
  PROVE  /\ pc' \in [Source!Threads -> Source!Steps]
         /\ pc'[t] = step /\ \A s \in Source!Threads : s # t => pc'[s] = pc[s]
         /\ \A s \in Tasks : pc'[s] \notin {"seed", "seeding"}
<1>1. pc' = [pc EXCEPT ![t] = step] /\ Tasks \subseteq Source!Threads
  BY DEF Source!Goto, Source!Threads
<1> QED
  BY <1>1 DEF RngTyped

(* Numbers are forgotten, and no task begins to draw: what is known stays.  *)
(* A clash is only forgotten with every number, while nobody draws.        *)
LEMMA NoDrawKeeps ==
  ASSUME RngInv, UNCHANGED backend, key' \in Nat, key' >= key, requests' \in Nat,
         \/ given' = given
         \/ given' = [t \in Source!Threads |-> 0]
         \/ \E t \in Source!Threads : given' = [given EXCEPT ![t] = 0],
         pc' \in [Source!Threads -> Source!Steps], read' \in [Source!Threads -> Nat],
         \A t \in Tasks : /\ pc'[t] \notin {"seed", "seeding"}
                          /\ pc'[t] = "drawing" => pc[t] = "drawing" /\ read'[t] = read[t],
         \/ clashed \subseteq clashed'
         \/ given' = [t \in Source!Threads |-> 0] /\ \A t \in Tasks : pc'[t] # "drawing",
         OneDraws'
  PROVE  RngInv'
<1>1. RngTyped /\ GivenInv /\ Tasks \subseteq Source!Threads
  BY DEF RngInv, Source!Threads
<1>2. given' \in [Source!Threads -> Nat] /\ \A t \in Tasks : given'[t] = given[t] \/ given'[t] = 0
  BY <1>1 DEF RngTyped
<1>3. RngTyped'
  BY <1>1, <1>2 DEF RngTyped
<1>4. \A t \in Tasks : given[t] \in Nat /\ read[t] \in Nat
  BY <1>1 DEF RngTyped
<1>5. CASE given' = [t \in Source!Threads |-> 0] /\ \A t \in Tasks : pc'[t] # "drawing"
  <2>1. \A t \in Tasks : given'[t] = 0
    BY <1>1, <1>5
  <2>2. GivenInv'
    BY <1>5, <2>1 DEF GivenInv
  <2> QED
    BY <1>3, <2>2 DEF RngInv
<1>6. CASE clashed \subseteq clashed'
  <2>1. SUFFICES ASSUME Apart' PROVE GivenInv'
    BY <1>3 DEF RngInv, GivenInv
  <2>2. Apart
    BY <1>6, <2>1 DEF Apart, Source!Soft
  <2>3. \A s \in Tasks : given'[s] = 0 \/ given'[s] < key'
    BY <1>1, <1>2, <1>4, <2>2 DEF GivenInv, RngTyped
  <2>4. ASSUME NEW t \in Tasks, pc'[t] = "drawing"
        PROVE  read'[t] <= key' /\ \A s \in Tasks : given'[s] = 0 \/ given'[s] < read'[t]
    BY <1>1, <1>2, <1>4, <2>2, <2>4 DEF GivenInv, RngTyped
  <2>5. \A s, t \in Tasks : given'[s] = given'[t] => s = t \/ given'[s] = 0
    BY <1>1, <1>2, <2>2 DEF GivenInv
  <2> QED
    BY <2>3, <2>4, <2>5 DEF GivenInv
<1> QED
  BY <1>5, <1>6

(* A thread goes to a step at which it does not use the generator.         *)
LEMMA MoveKeeps ==
  ASSUME RngConstants, RngInv, NEW t \in Source!Threads,
         NEW step \in Source!Steps \ {"drawing", "seeding"}, t \in Tasks => step # "seed",
         Source!Goto(t, step), UNCHANGED <<backend, lock>>,
         key' \in Nat, key' >= key, requests' \in Nat,
         read' = read \/ read' = [read EXCEPT ![t] = requests],
         given' = given \/ given' = [given EXCEPT ![t] = 0], clashed \subseteq clashed'
  PROVE  RngInv'
<1>1. /\ RngTyped /\ OneDraws /\ Tasks \subseteq Source!Threads /\ Source!Work \in Source!Threads
      /\ requests \in Nat /\ read \in [Source!Threads -> Nat]
  BY DEF RngInv, RngTyped, Source!Threads
<1>2. /\ pc' \in [Source!Threads -> Source!Steps]
      /\ pc'[t] = step /\ \A s \in Source!Threads : s # t => pc'[s] = pc[s]
      /\ \A s \in Tasks : pc'[s] \notin {"seed", "seeding"}
  BY <1>1, GotoKeeps
<1>3. \A s \in Source!Threads : pc'[s] \in {"drawing", "seeding"} => s # t /\ pc'[s] = pc[s]
  BY <1>2
<1>4. OneDraws'
  <2>1. Source!Soft' <=> Source!Soft
    BY DEF Source!Soft
  <2>2. Apart' => Apart
    BY <2>1 DEF Apart
  <2>3. Source!Soft /\ Apart => \A r, s \in Tasks : pc'[r] = "drawing" /\ pc'[s] = "drawing" => r = s
    BY <1>1, <1>3 DEF OneDraws
  <2>4. ~Source!Soft => \A s \in Tasks : pc'[s] = "drawing" => lock' = s
    BY <1>1, <1>3 DEF OneDraws
  <2>5. pc'[Source!Work] = "seeding" => lock' = Source!Work /\ ~Source!Soft
    BY <1>1, <1>3 DEF OneDraws
  <2> QED
    BY <2>1, <2>2, <2>3, <2>4, <2>5 DEF OneDraws
<1>5. /\ read' \in [Source!Threads -> Nat]
      /\ \A s \in Tasks : pc'[s] = "drawing" => pc[s] = "drawing" /\ read'[s] = read[s]
  BY <1>1, <1>3
<1> QED
  BY <1>2, <1>4, <1>5, NoDrawKeeps

LEMMA RngStepKeeps ==
  ASSUME RngConstants, RngInv, [Source!Next]_(Source!vars)
  PROVE  RngInv'
<1>1. /\ RngTyped /\ OneDraws /\ GivenInv /\ Tasks \subseteq Source!Threads /\ Source!Work \in Source!Threads
      /\ Source!Work \notin Tasks
  BY DEF RngInv, RngConstants, Source!Threads
<1>2. /\ key \in Nat /\ requests \in Nat /\ pc \in [Source!Threads -> Source!Steps]
      /\ read \in [Source!Threads -> Nat] /\ given \in [Source!Threads -> Nat]
      /\ \A t \in Tasks : pc[t] \notin {"seed", "seeding"}
  BY <1>1 DEF RngTyped
(* Steps of no thread, with which the mutex is left alone.                 *)
<1>3. ASSUME UNCHANGED <<backend, lock, read, pc>>, key' \in Nat, key' >= key, requests' \in Nat,
             \/ clashed \subseteq clashed' /\ given' = given
             \/ clashed \subseteq clashed' /\ given' = [t \in Source!Threads |-> 0]
             \/ given' = [t \in Source!Threads |-> 0] /\ \A t \in Source!Threads : pc[t] = "idle"
      PROVE  RngInv'
  <2>1. OneDraws'
    <3>1. CASE clashed \subseteq clashed'
      BY <1>1, <1>3, <3>1 DEF OneDraws, Apart, Source!Soft
    <3>2. CASE \A t \in Source!Threads : pc[t] = "idle"
      BY <1>1, <1>3, <3>2 DEF OneDraws
    <3> QED
      BY <1>3, <3>1, <3>2
  <2>2. \/ clashed \subseteq clashed'
        \/ given' = [t \in Source!Threads |-> 0] /\ \A t \in Tasks : pc'[t] # "drawing"
    BY <1>1, <1>3
  <2>3. /\ pc' \in [Source!Threads -> Source!Steps] /\ read' \in [Source!Threads -> Nat]
        /\ \A t \in Tasks : /\ pc'[t] \notin {"seed", "seeding"}
                            /\ pc'[t] = "drawing" => pc[t] = "drawing" /\ read'[t] = read[t]
    BY <1>2, <1>3
  <2>4. given' = given \/ given' = [t \in Source!Threads |-> 0]
    BY <1>3
  <2> QED
    BY <1>3, <2>1, <2>2, <2>3, <2>4, NoDrawKeeps
<1>4. CASE Source!InitRng \/ Source!InitMbed
  <2>1. /\ UNCHANGED <<backend, lock, read, pc>> /\ key' = key + 1
        /\ given' = [t \in Source!Threads |-> 0] /\ \A t \in Source!Threads : pc[t] = "idle"
    BY <1>4 DEF Source!InitRng, Source!InitMbed, Source!Idle
  <2>2. requests' \in Nat
    BY <1>2, <1>4 DEF Source!InitRng, Source!InitMbed, RngConstants
  <2>3. key' \in Nat /\ key' >= key
    BY <1>2, <2>1
  <2> QED
    BY <1>3, <2>1, <2>2, <2>3
<1>5. CASE \/ Source!InitPsa \/ Source!DeInit \/ Source!Isr \/ UNCHANGED Source!vars
           \/ \E t \in Tasks : Source!Unseeded(t)
  <2>1. /\ UNCHANGED <<backend, lock, read, pc, clashed>> /\ key' \in {key, key + 1}
        /\ requests' \in {requests, MaxRequests}
        /\ given' = given \/ given' = [t \in Source!Threads |-> 0]
    BY <1>5 DEF Source!InitPsa, Source!DeInit, Source!Isr, Source!Unseeded, Source!vars,
                Source!taskVars, Source!ctxVars, Source!trngVars
  <2>2. key' \in Nat /\ key' >= key /\ requests' \in Nat
    BY <1>2, <2>1 DEF RngConstants
  <2> QED
    BY <1>3, <2>1, <2>2
<1>6. ASSUME NEW t \in Tasks, \/ \E n : Source!GetPseudoRandomData(t, n)
                              \/ Source!GetTrueRandomNumber(t)
                              \/ Source!Count(t)
      PROVE  RngInv'
  <2>1. /\ \E step \in {"count", "draw", "drawn"} : Source!Goto(t, step)
        /\ UNCHANGED <<backend, lock, key>> /\ clashed \subseteq clashed'
        /\ read' = read \/ read' = [read EXCEPT ![t] = requests]
        /\ given' = given \/ given' = [given EXCEPT ![t] = 0]
    BY <1>6 DEF Source!GetPseudoRandomData, Source!GetTrueRandomNumber, Source!Count, Source!Ask
  <2>2. requests' \in Nat
    <3>1. requests' = requests \/ \E n \in {requests, read[t]} : requests' \in {n, n + 1}
      BY <1>6 DEF Source!GetPseudoRandomData, Source!GetTrueRandomNumber, Source!Count, Source!ctxVars
    <3>2. read[t] \in Nat
      BY <1>1, <1>2
    <3> QED
      BY <1>2, <3>1, <3>2
  <2>3. PICK step \in {"count", "draw", "drawn"} : Source!Goto(t, step)
    BY <2>1
  <2>4. step \in Source!Steps \ {"drawing", "seeding"} /\ step # "seed" /\ t \in Source!Threads
    BY <1>1 DEF Source!Steps, Source!Sleeping
  <2>5. key' \in Nat /\ key' >= key
    BY <1>2, <2>1
  <2> QED
    BY <2>1, <2>2, <2>3, <2>4, <2>5, MoveKeeps
<1>7. CASE \E t \in Source!Threads : Source!TestEntropy(t) \/ Source!GoToSleep(t)
  <2>1. PICK t \in Source!Threads : Source!TestEntropy(t) \/ Source!GoToSleep(t)
    BY <1>7
  <2>2. /\ \E step \in {"allow", "forbid", "idle"} : Source!Goto(t, step)
        /\ UNCHANGED <<backend, lock, read, key, given, requests, clashed>>
    BY <2>1 DEF Source!TestEntropy, Source!GoToSleep, Source!ctxVars
  <2>3. PICK step \in {"allow", "forbid", "idle"} : Source!Goto(t, step)
    BY <2>2
  <2>4. step \in Source!Steps \ {"drawing", "seeding"} /\ step # "seed"
    BY DEF Source!Steps, Source!Sleeping
  <2>5. key' \in Nat /\ key' >= key /\ requests' \in Nat
    BY <1>2, <2>2
  <2> QED
    BY <2>2, <2>3, <2>4, <2>5, MoveKeeps
<1>8. ASSUME NEW t \in Tasks, Source!Draw(t) PROVE RngInv'
  <2>1. /\ pc[t] = "draw" /\ Source!MayLock(t) /\ Source!Locked(t) /\ read' = [read EXCEPT ![t] = key]
        /\ Source!Goto(t, "drawing") /\ UNCHANGED <<backend, key, given, requests>>
        /\ clashed \subseteq clashed'
        /\ Source!Soft => clashed' = clashed \cup Source!Clash(t, {"drawing"}, "seed")
    BY <1>8 DEF Source!Draw, Source!ctxVars
  <2>2. /\ pc' \in [Source!Threads -> Source!Steps]
        /\ pc'[t] = "drawing" /\ \A s \in Source!Threads : s # t => pc'[s] = pc[s]
        /\ \A s \in Tasks : pc'[s] \notin {"seed", "seeding"}
    <3>1. "drawing" \in Source!Steps
      BY DEF Source!Steps
    <3> QED
      BY <1>1, <2>1, <3>1, GotoKeeps
  <2>3. OneDraws'
    <3>1. CASE Source!Soft
      <4>1. Source!Soft' /\ pc'[Source!Work] # "seeding"
        BY <1>1, <2>1, <2>2, <3>1 DEF OneDraws, Source!Soft
      <4>2. ASSUME Apart' PROVE \A s \in Tasks : s # t => pc[s] # "drawing"
        <5>1. "seed" \notin Source!Clash(t, {"drawing"}, "seed")
          BY <2>1, <3>1, <4>1, <4>2 DEF Apart
        <5> QED
          BY <1>1, <5>1 DEF Source!Clash
      <4> QED
        BY <1>1, <2>2, <4>1, <4>2 DEF OneDraws
    <3>2. CASE ~Source!Soft
      <4>1. lock = Source!None /\ lock' = t
        BY <2>1, <3>2 DEF Source!MayLock, Source!Locked
      <4>2. pc[Source!Work] # "seeding" /\ \A s \in Tasks : pc[s] # "drawing"
        BY <1>1, <3>2, <4>1 DEF OneDraws, RngConstants
      <4> QED
        BY <1>1, <2>1, <2>2, <3>2, <4>1, <4>2 DEF OneDraws, Source!Soft
    <3> QED
      BY <3>1, <3>2
  <2>4. read' \in [Source!Threads -> Nat] /\ read'[t] = key /\ \A s \in Tasks : s # t => read'[s] = read[s]
    BY <1>1, <1>2, <2>1
  <2>5. RngTyped'
    BY <1>2, <2>1, <2>2, <2>4 DEF RngTyped
  <2>6. Apart' => Apart
    BY <2>1 DEF Apart, Source!Soft
  <2>7. GivenInv'
    BY <1>1, <1>2, <2>1, <2>2, <2>4, <2>6 DEF GivenInv
  <2> QED
    BY <2>3, <2>5, <2>7 DEF RngInv
<1>9. ASSUME NEW t \in Tasks, Source!Drawn(t) PROVE RngInv'
  <2>1. /\ pc[t] = "drawing" /\ (key' = key + 1 \/ (Source!Soft /\ key' = read[t] + 1))
        /\ given' = [given EXCEPT ![t] = read[t]]
        /\ read' = [read EXCEPT ![t] = requests] \/ read' = [read EXCEPT ![t] = 0]
        /\ lock' = (IF Source!Soft THEN lock ELSE Source!None)
        /\ \E step \in {"count", "draw", "idle"} : Source!Goto(t, step)
        /\ UNCHANGED <<backend, requests>> /\ clashed \subseteq clashed'
    BY <1>9 DEF Source!Drawn, Source!Ask
  <2>2. PICK step \in {"count", "draw", "idle"} : Source!Goto(t, step)
    BY <2>1
  <2>3. /\ pc' \in [Source!Threads -> Source!Steps]
        /\ pc'[t] = step /\ \A s \in Source!Threads : s # t => pc'[s] = pc[s]
        /\ \A s \in Tasks : pc'[s] \notin {"seed", "seeding"}
    <3>1. step \in Source!Steps \ {"drawing", "seed", "seeding"}
      BY DEF Source!Steps
    <3> QED
      BY <1>1, <2>2, <3>1, GotoKeeps
  <2>4. pc[t] = "drawing"
    BY <1>9 DEF Source!Drawn
  <2>5. Apart' => Apart
    BY <2>1 DEF Apart, Source!Soft
  <2>6. ASSUME Apart PROVE \A s \in Tasks : pc[s] = "drawing" => s = t
    BY <1>1, <2>4, <2>6 DEF OneDraws
  <2>7. ~Source!Soft => pc[Source!Work] # "seeding" /\ \A s \in Tasks : pc[s] = "drawing" => s = t
    BY <1>1, <2>4 DEF OneDraws
  <2>8. \A s \in Tasks : pc'[s] = "drawing" => s # t /\ pc[s] = "drawing"
    BY <1>1, <2>3
  <2>9. pc'[Source!Work] = pc[Source!Work]
    BY <1>1, <2>3
  <2>10. OneDraws'
    <3>1. (Source!Soft' <=> Source!Soft) /\ (Source!Soft => lock' = lock)
      BY <2>1 DEF Source!Soft
    <3> QED
      BY <1>1, <2>5, <2>6, <2>7, <2>8, <2>9, <3>1 DEF OneDraws
  <2>11. /\ read' \in [Source!Threads -> Nat] /\ given' \in [Source!Threads -> Nat]
         /\ given'[t] = read[t] /\ \A s \in Tasks : s # t => given'[s] = given[s]
    BY <1>1, <1>2, <2>1
  <2>12. key' \in Nat /\ read[t] \in Nat /\ key' \in {key + 1, read[t] + 1}
    BY <1>1, <1>2, <2>1
  <2>13. RngTyped'
    BY <1>2, <2>1, <2>3, <2>11, <2>12 DEF RngTyped
  <2>14. ASSUME Apart' PROVE GivenInv'
    <3>1. \A s \in Tasks : pc'[s] # "drawing"
      BY <2>5, <2>6, <2>8, <2>14
    <3>2. /\ read[t] <= key
          /\ \A s \in Tasks : given[s] \in Nat /\ (given[s] = 0 \/ (given[s] < read[t] /\ given[s] < key))
      BY <1>1, <1>2, <2>4, <2>5, <2>14 DEF GivenInv
    <3>3. \A s \in Tasks : given'[s] = 0 \/ given'[s] < key'
      BY <1>2, <2>11, <2>12, <3>2
    <3>4. ASSUME NEW r \in Tasks, NEW s \in Tasks, given'[r] = given'[s] PROVE r = s \/ given'[r] = 0
      <4>1. CASE r # t /\ s # t
        BY <1>1, <2>5, <2>11, <2>14, <3>4, <4>1 DEF GivenInv
      <4>2. CASE r = t /\ s # t
        <5>1. given[s] = read[t]
          BY <2>11, <3>4, <4>2
        <5> QED
          BY <2>11, <3>2, <4>2, <5>1
      <4>3. CASE r # t /\ s = t
        <5>1. given[r] = read[t]
          BY <2>11, <3>4, <4>3
        <5> QED
          BY <2>11, <3>2, <4>3, <5>1
      <4> QED
        BY <4>1, <4>2, <4>3
    <3> QED
      BY <3>1, <3>3, <3>4 DEF GivenInv
  <2> QED
    BY <2>10, <2>13, <2>14 DEF RngInv, GivenInv
<1>10. ASSUME NEW t \in Tasks, Source!DrawFails(t) PROVE RngInv'
  <2>1. /\ pc[t] = "drawing" /\ ~Source!Soft /\ read' = [read EXCEPT ![t] = 0] /\ lock' = Source!None
        /\ Source!Goto(t, "idle") /\ UNCHANGED <<backend, key, given, requests, clashed>>
    BY <1>10 DEF Source!DrawFails, Source!ctxVars
  <2>2. /\ pc' \in [Source!Threads -> Source!Steps]
        /\ pc'[t] = "idle" /\ \A s \in Source!Threads : s # t => pc'[s] = pc[s]
        /\ \A s \in Tasks : pc'[s] \notin {"seed", "seeding"}
    <3>1. "idle" \in Source!Steps
      BY DEF Source!Steps
    <3> QED
      BY <1>1, <2>1, <3>1, GotoKeeps
  <2>3. lock = t /\ pc[Source!Work] # "seeding" /\ \A s \in Tasks : pc[s] = "drawing" => s = t
    BY <1>1, <2>1 DEF OneDraws
  <2>4. OneDraws'
    BY <1>1, <2>1, <2>2, <2>3 DEF OneDraws, Source!Soft
  <2>5. read' \in [Source!Threads -> Nat] /\ \A s \in Tasks : pc'[s] # "drawing"
    BY <1>1, <1>2, <2>1, <2>2, <2>3
  <2>6. key' \in Nat /\ key' >= key /\ requests' \in Nat
    BY <1>2, <2>1
  <2> QED
    BY <2>1, <2>2, <2>4, <2>5, <2>6, NoDrawKeeps
<1>11. CASE Source!SeedNeeded \/ Source!SetSeed
  <2>1. /\ UNCHANGED <<backend, lock, read, given>> /\ key' \in {key, key + 1}
        /\ requests' \in {requests, 1} /\ clashed \subseteq clashed'
        /\ UNCHANGED pc \/ \E step \in {"seed", "idle", "drawn"} : Source!Goto(Source!Work, step)
    BY <1>11 DEF Source!SeedNeeded, Source!SetSeed, Source!ctxVars
  <2>2. key' \in Nat /\ key' >= key /\ requests' \in Nat
    BY <1>2, <2>1
  <2>3. CASE UNCHANGED pc
    BY <1>3, <2>1, <2>2, <2>3
  <2>4. ASSUME NEW step \in {"seed", "idle", "drawn"}, Source!Goto(Source!Work, step) PROVE RngInv'
    <3>1. step \in Source!Steps \ {"drawing", "seeding"}
      BY DEF Source!Steps, Source!Sleeping
    <3> QED
      BY <1>1, <2>1, <2>2, <2>4, <3>1, MoveKeeps
  <2> QED
    BY <2>1, <2>3, <2>4
<1>12. CASE Source!SeedMbed \/ Source!SeededMbed
  <2>1. /\ UNCHANGED <<backend, read, given>> /\ key' \in {key, key + 1}
        /\ requests' \in {requests, 1} /\ clashed \subseteq clashed'
        /\ \/ /\ Source!Goto(Source!Work, "seeding") /\ lock = Source!None /\ lock' = Source!Work
              /\ backend = "mbedtls"
           \/ Source!Goto(Source!Work, "idle") /\ lock' = lock
           \/ Source!Goto(Source!Work, "idle") /\ pc[Source!Work] = "seeding" /\ lock' = Source!None
    BY <1>12 DEF Source!SeedMbed, Source!SeededMbed, Source!ctxVars
  <2>2. key' \in Nat /\ key' >= key /\ requests' \in Nat
    BY <1>2, <2>1
  <2>3. ASSUME Source!Goto(Source!Work, "idle"), lock' = lock PROVE RngInv'
    <3>1. "idle" \in Source!Steps \ {"drawing", "seeding"}
      BY DEF Source!Steps
    <3> QED
      BY <1>1, <2>1, <2>2, <2>3, <3>1, MoveKeeps
  <2>4. ASSUME NEW step \in {"seeding", "idle"}, Source!Goto(Source!Work, step), OneDraws' PROVE RngInv'
    <3>1. step \in Source!Steps
      BY DEF Source!Steps
    <3>2. /\ pc' \in [Source!Threads -> Source!Steps]
          /\ \A s \in Source!Threads : s # Source!Work => pc'[s] = pc[s]
          /\ \A s \in Tasks : pc'[s] \notin {"seed", "seeding"}
      BY <1>1, <2>4, <3>1, GotoKeeps
    <3>3. \A s \in Tasks : pc'[s] = "drawing" => pc[s] = "drawing" /\ read'[s] = read[s]
      BY <1>1, <2>1, <3>2
    <3>4. read' \in [Source!Threads -> Nat]
      BY <1>2, <2>1
    <3> QED
      BY <2>1, <2>2, <2>4, <3>2, <3>3, <3>4, NoDrawKeeps
  <2>5. ASSUME NEW step \in {"seeding", "idle"}, Source!Goto(Source!Work, step),
               ~Source!Soft, \A s \in Tasks : pc[s] # "drawing",
               step = "seeding" => lock' = Source!Work
        PROVE  RngInv'
    <3>1. step \in Source!Steps
      BY DEF Source!Steps
    <3>2. /\ pc'[Source!Work] = step
          /\ \A s \in Source!Threads : s # Source!Work => pc'[s] = pc[s]
      BY <1>1, <2>5, <3>1, GotoKeeps
    <3>3. \A s \in Tasks : pc'[s] # "drawing"
      BY <1>1, <2>5, <3>2
    <3>4. OneDraws'
      BY <2>1, <2>5, <3>2, <3>3 DEF OneDraws, Source!Soft
    <3> QED
      BY <2>4, <2>5, <3>4
  <2>6. CASE Source!Goto(Source!Work, "seeding") /\ lock = Source!None /\ lock' = Source!Work /\ backend = "mbedtls"
    <3>1. ~Source!Soft /\ \A s \in Tasks : pc[s] # "drawing"
      BY <1>1, <2>6 DEF OneDraws, RngConstants, Source!Soft
    <3> QED
      BY <2>5, <2>6, <3>1
  <2>7. CASE Source!Goto(Source!Work, "idle") /\ pc[Source!Work] = "seeding" /\ lock' = Source!None
    <3>1. ~Source!Soft /\ \A s \in Tasks : pc[s] # "drawing"
      BY <1>1, <2>7 DEF OneDraws
    <3> QED
      BY <2>5, <2>7, <3>1
  <2> QED
    BY <2>1, <2>3, <2>6, <2>7
<1> QED
  BY <1>4, <1>5, <1>6, <1>7, <1>8, <1>9, <1>10, <1>11, <1>12 DEF Source!Next, Source!GetWithContext

(* No two tasks are given the same number, for any tasks and back end and   *)
(* however long a number drawn through a context is, although the work     *)
(* queue may seed the generator again between a task's steps; at RNG.c,    *)
(* which takes no lock, only until two tasks have drawn at the same time   *)
(* (RNG_GetPseudoRandomData, RNG_SetSeed).                                 *)
THEOREM NumbersDistinct == ASSUME RngConstants PROVE Source!Spec => []Source!NumbersDiffer
<1>1. Source!Init => RngInv
  <2> SUFFICES ASSUME Source!Init PROVE RngInv
    OBVIOUS
  <2>1. /\ key = 0 /\ pc = [t \in Source!Threads |-> "idle"] /\ read = [t \in Source!Threads |-> 0]
        /\ given = [t \in Source!Threads |-> 0] /\ Tasks \subseteq Source!Threads
        /\ Source!Work \in Source!Threads /\ requests = MaxRequests /\ "idle" \in Source!Steps
    BY DEF Source!Init, Source!Threads, Source!Steps
  <2> QED
    BY <2>1 DEF RngInv, RngTyped, OneDraws, GivenInv, RngConstants
<1>2. RngInv /\ [Source!Next]_(Source!vars) => RngInv'
  BY RngStepKeeps
<1>3. RngInv => Source!NumbersDiffer
  BY DEF RngInv, GivenInv, Apart, Source!NumbersDiffer
<1> QED
  BY <1>1, <1>2, <1>3, PTL DEF Source!Spec
=============================================================================
