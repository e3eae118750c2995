--------------------------- MODULE LowPower_proofs ---------------------------
(***************************************************************************)
(* Proofs about the two ways to stay out of low power: Pwr, where users    *)
(* forbid the chip to sleep, and RemoteActive, where users of the host     *)
(* hold the radio domain active; for any users, number of their calls,     *)
(* length of a tick and of a timeout, and times of radio events and        *)
(* wake-ups.                                                               *)
(***************************************************************************)
EXTENDS Pwr, FiniteSetTheorems, TLAPS

CONSTANT MaxRequests
VARIABLES held, active_request_nb, hostPc, caller, bleWkup, keepAwake,
          wkupTime, nbuPc, domain
Remote == INSTANCE RemoteActive WITH radio <- domain

(* What users hold, f[u] times each and n times at most, one by one.       *)
Units(f, n) == {x \in Users \X (1 .. n) : x[2] <= f[x[1]]}

LEMMA UnitsAre ==
  ASSUME IsFiniteSet(Users), NEW n \in Nat, NEW f \in [Users -> 0 .. n]
  PROVE  /\ IsFiniteSet(Units(f, n)) /\ Cardinality(Units(f, n)) \in Nat
         /\ Cardinality(Units(f, n)) <= n * Cardinality(Users)
         /\ \A u \in Users : f[u] <= Cardinality(Units(f, n))
<1>1. IsFiniteSet(1 .. n) /\ Cardinality(1 .. n) = n
  BY FS_Interval
<1>2. /\ IsFiniteSet(Users \X (1 .. n))
      /\ Cardinality(Users \X (1 .. n)) = Cardinality(Users) * n
  BY <1>1, FS_Product
<1>3. Units(f, n) \subseteq Users \X (1 .. n)
  BY DEF Units
<1>4. /\ IsFiniteSet(Units(f, n)) /\ Cardinality(Units(f, n)) \in Nat
      /\ Cardinality(Units(f, n)) <= Cardinality(Users) * n
  BY <1>2, <1>3, FS_Subset, FS_CardinalityType
<1>5. Cardinality(Users) * n = n * Cardinality(Users)
  BY FS_CardinalityType
<1>6. ASSUME NEW u \in Users
      PROVE  f[u] <= Cardinality(Units(f, n))
  <2>1. f[u] \in Nat /\ f[u] <= n
    OBVIOUS
  <2>2. IsFiniteSet(1 .. f[u]) /\ Cardinality(1 .. f[u]) = f[u]
    BY <2>1, FS_Interval
  <2>3. IsFiniteSet({u}) /\ Cardinality({u}) = 1
    BY FS_Singleton
  <2>4. Cardinality({u} \X (1 .. f[u])) = 1 * f[u]
    <3>1. PICK A : A = {u}
      OBVIOUS
    <3>2. PICK B : B = 1 .. f[u]
      OBVIOUS
    <3>3. IsFiniteSet(A) /\ Cardinality(A) = 1 /\ IsFiniteSet(B) /\ Cardinality(B) = f[u]
      BY <2>2, <2>3, <3>1, <3>2
    <3>4. Cardinality(A \X B) = Cardinality(A) * Cardinality(B)
      BY <3>3, FS_Product
    <3> QED
      BY <3>1, <3>2, <3>3, <3>4
  <2>5. {u} \X (1 .. f[u]) \subseteq Units(f, n)
    BY <2>1 DEF Units
  <2> QED
    BY <1>4, <2>1, <2>4, <2>5, FS_Subset
<1> QED
  BY <1>4, <1>5, <1>6

LEMMA OneMore ==
  ASSUME IsFiniteSet(Users), NEW n \in Nat, NEW f \in [Users -> 0 .. n], NEW u \in Users, f[u] < n,
         NEW g, g = [f EXCEPT ![u] = @ + 1]
  PROVE  g \in [Users -> 0 .. n] /\ Cardinality(Units(g, n)) = Cardinality(Units(f, n)) + 1
<1>1. /\ g \in [Users -> 0 .. n] /\ g[u] = f[u] + 1 /\ f[u] + 1 \in 1 .. n
      /\ \A v \in Users : v # u => g[v] = f[v]
  OBVIOUS
<1>2. <<u, f[u] + 1>> \notin Units(f, n)
  BY <1>1 DEF Units
<1>3. Units(g, n) = Units(f, n) \cup {<<u, f[u] + 1>>}
  <2>1. ASSUME NEW v \in Users, NEW k \in 1 .. n
        PROVE  <<v, k>> \in Units(g, n) <=> <<v, k>> \in Units(f, n) \cup {<<u, f[u] + 1>>}
    <3>1. <<v, k>> \in Units(g, n) <=> k <= g[v]
      BY DEF Units
    <3>2. <<v, k>> \in Units(f, n) <=> k <= f[v]
      BY DEF Units
    <3>3. k \in Int /\ f[u] \in Int
      BY <1>1
    <3>4. CASE v = u
      BY <1>1, <3>1, <3>2, <3>3, <3>4
    <3>5. CASE v # u
      BY <1>1, <3>1, <3>2, <3>5
    <3> QED
      BY <3>4, <3>5
  <2>2. /\ Units(g, n) \subseteq Users \X (1 .. n)
        /\ Units(f, n) \cup {<<u, f[u] + 1>>} \subseteq Users \X (1 .. n)
    BY <1>1 DEF Units
  <2>3. ASSUME NEW x \in Users \X (1 .. n)
        PROVE  x \in Units(g, n) <=> x \in Units(f, n) \cup {<<u, f[u] + 1>>}
    <3>1. PICK v \in Users, k \in 1 .. n : x = <<v, k>>
      OBVIOUS
    <3> QED
      BY <2>1, <3>1
  <2> QED
    BY <2>2, <2>3
<1>4. IsFiniteSet(Units(f, n))
  BY UnitsAre
<1>5. Cardinality(Units(f, n) \cup {<<u, f[u] + 1>>}) = Cardinality(Units(f, n)) + 1
  BY <1>2, <1>4, FS_AddElement
<1> QED
  BY <1>1, <1>3, <1>5

LEMMA OneLess ==
  ASSUME IsFiniteSet(Users), NEW n \in Nat, NEW f \in [Users -> 0 .. n], NEW u \in Users, f[u] > 0,
         NEW g, g = [f EXCEPT ![u] = @ - 1]
  PROVE  g \in [Users -> 0 .. n] /\ Cardinality(Units(g, n)) = Cardinality(Units(f, n)) - 1
<1>1. /\ g \in [Users -> 0 .. n] /\ g[u] < n
      /\ f = [g EXCEPT ![u] = @ + 1]
  <2>1. f[u] \in Nat /\ f[u] <= n
    OBVIOUS
  <2>2. g \in [Users -> 0 .. n] /\ g[u] = f[u] - 1 /\ \A v \in Users : v # u => g[v] = f[v]
    BY <2>1
  <2>3. PICK k : k = [g EXCEPT ![u] = @ + 1]
    OBVIOUS
  <2>4. k \in [Users -> Int] /\ f \in [Users -> Int] /\ \A v \in Users : k[v] = f[v]
    BY <2>1, <2>2, <2>3
  <2>5. k = f
    BY <2>4
  <2> QED
    BY <2>1, <2>2, <2>3, <2>5
<1>2. Cardinality(Units(f, n)) = Cardinality(Units(g, n)) + 1
  BY <1>1, OneMore
<1> QED
  BY <1>1, <1>2, UnitsAre
-----------------------------------------------------------------------------
(* Pwr: the invariant, in parts.                                           *)

Constants == /\ IsFiniteSet(Users) /\ MaxCount \in Nat
             /\ Tick \in Nat \ {0} /\ MaxIdle \in Nat
             /\ Wakes \subseteq Nat /\ 0 \in Wakes /\ Latency \in Nat /\ MaxLag \in Nat

Typed == /\ initialized \in BOOLEAN /\ lpDisallowCount \in 0 .. MaxCount
         /\ forbids \in [Users -> 0 .. MaxCount]
         /\ timebase \in {"freertos", "bm"} /\ pc \in {"run", "enter", "asleep", "post"}
         /\ lag \in 0 .. MaxLag /\ error \in Nat /\ remaining \in 0 .. MaxIdle
         /\ expected \in Nat /\ timer \in Nat /\ radio \in Wakes /\ slept \in Nat

CountInv == lpDisallowCount = Cardinality(Units(forbids, MaxCount))

(* What the ticks are behind: the error, and after a sleep its time.       *)
LagInv == lag = IF pc = "post" THEN error + slept ELSE error

(* The idle time is that of the tasks, whose timeouts do not change while  *)
(* the idle task works.                                                    *)
IdleInv == expected = IF pc = "run" THEN 0 ELSE remaining * Tick

(* The timer runs only while the chip sleeps, which nobody forbids then.   *)
SleepInv == /\ pc # "asleep" => timer = 0 /\ radio = 0
            /\ pc = "asleep" => lpDisallowCount = 0 /\ timer \in {0, expected}
            /\ TimeoutWakes

(* A sleep is not longer than the last event can be away, and late.        *)
Near == Wakes \subseteq 0 .. MaxIdle * Tick
SleptInv == Near => slept <= MaxIdle * Tick + Latency

IInv == Typed /\ CountInv /\ LagInv /\ IdleInv /\ SleepInv /\ SleptInv
-----------------------------------------------------------------------------
(* Numbers.                                                                *)

LEMMA Division ==
  ASSUME NEW a \in Nat, NEW p \in Nat \ {0}
  PROVE  /\ a \div p \in Nat /\ a % p \in Nat
         /\ a = (a \div p) * p + (a % p) /\ (a \div p) * p \in Nat
  OBVIOUS

LEMMA MinOfTwo ==
  ASSUME NEW a \in Int, NEW b \in Int
  PROVE  Min({a, b}) = IF a <= b THEN a ELSE b
<1> DEFINE Least(x) == x \in {a, b} /\ \A y \in {a, b} : x <= y
<1>1. \E x : Least(x)
  <2>1. CASE a <= b
    BY <2>1
  <2>2. CASE ~(a <= b)
    BY <2>2
  <2> QED
    BY <2>1, <2>2
<1>2. Least(CHOOSE x : Least(x))
  BY <1>1
<1>3. Min({a, b}) = CHOOSE x \in {a, b} : \A y \in {a, b} : x <= y
  BY DEF Min
<1>4. PICK m : m = Min({a, b})
  OBVIOUS
<1>5. m \in {a, b} /\ m <= a /\ m <= b
  BY <1>1, <1>3, <1>4
<1> QED
  BY <1>4, <1>5

LEMMA NotMore ==
  ASSUME NEW m \in Nat, NEW n \in Nat, NEW p \in Nat \ {0}, m * p <= n * p
  PROVE  m <= n
<1> SUFFICES ASSUME n + 1 <= m PROVE FALSE
  OBVIOUS
<1>1. PICK k \in Nat : m = n + 1 + k
  <2>1. m - (n + 1) \in Nat /\ m = n + 1 + (m - (n + 1))
    OBVIOUS
  <2> QED
    BY <2>1
<1>2. m * p = n * p + p + k * p /\ k * p \in Nat /\ n * p \in Nat
  BY <1>1
<1> QED
  BY <1>2
-----------------------------------------------------------------------------
(* The invariant.                                                          *)

LEMMA InitHolds == ASSUME Constants PROVE Init => IInv
<1> SUFFICES ASSUME Init PROVE IInv
  OBVIOUS
<1>1. forbids \in [Users -> 0 .. MaxCount] /\ 0 \in 0 .. MaxCount /\ 0 \in 0 .. MaxLag /\ 0 \in 0 .. MaxIdle
  BY DEF Init, Constants
<1>2. Typed
  BY <1>1 DEF Init, Typed, Constants
<1>3. Units(forbids, MaxCount) = {}
  BY DEF Init, Units, Constants
<1>4. CountInv
  BY <1>3, FS_EmptySet DEF CountInv, Init
<1>5. MaxIdle * Tick + Latency \in Nat
  BY DEF Constants
<1> QED
  BY <1>2, <1>4, <1>5 DEF Init, IInv, LagInv, IdleInv, SleepInv, TimeoutWakes, SleptInv

(* The counter, and what forbids low power.                                *)
LEMMA CountsKept ==
  ASSUME Constants, IInv, [Next]_vars
  PROVE  /\ CountInv' /\ lpDisallowCount' \in 0 .. MaxCount /\ forbids' \in [Users -> 0 .. MaxCount]
         /\ pc # "run" => lpDisallowCount' = lpDisallowCount
<1>1. /\ forbids \in [Users -> 0 .. MaxCount] /\ lpDisallowCount \in 0 .. MaxCount /\ MaxCount \in Nat
      /\ lpDisallowCount = Cardinality(Units(forbids, MaxCount))
  BY DEF IInv, Typed, CountInv, Constants
<1>2. ASSUME NEW u \in Users, Disallow(u)
      PROVE  CountInv' /\ lpDisallowCount' \in 0 .. MaxCount /\ forbids' \in [Users -> 0 .. MaxCount] /\ pc = "run"
  <2>1. PICK g : g = forbids' /\ g = [forbids EXCEPT ![u] = @ + 1]
    BY <1>2 DEF Disallow
  <2>2. lpDisallowCount # MaxCount /\ lpDisallowCount' = lpDisallowCount + 1 /\ pc = "run"
    BY <1>2 DEF Disallow
  <2>3. forbids[u] \in Nat /\ forbids[u] <= lpDisallowCount
    BY <1>1, UnitsAre DEF Constants
  <2>4. forbids[u] < MaxCount
    BY <1>1, <2>2, <2>3
  <2>5. g \in [Users -> 0 .. MaxCount] /\ Cardinality(Units(g, MaxCount)) = Cardinality(Units(forbids, MaxCount)) + 1
    BY <1>1, <2>1, <2>4, OneMore DEF Constants
  <2> QED
    BY <1>1, <2>1, <2>2, <2>5 DEF CountInv
<1>3. ASSUME NEW u \in Users, Allow(u)
      PROVE  CountInv' /\ lpDisallowCount' \in 0 .. MaxCount /\ forbids' \in [Users -> 0 .. MaxCount] /\ pc = "run"
  <2>1. PICK g : g = forbids' /\ g = [forbids EXCEPT ![u] = @ - 1]
    BY <1>3 DEF Allow
  <2>2. forbids[u] > 0 /\ lpDisallowCount > 0 /\ lpDisallowCount' = lpDisallowCount - 1 /\ pc = "run"
    BY <1>3 DEF Allow
  <2>3. g \in [Users -> 0 .. MaxCount] /\ Cardinality(Units(g, MaxCount)) = Cardinality(Units(forbids, MaxCount)) - 1
    BY <1>1, <2>1, <2>2, OneLess DEF Constants
  <2> QED
    BY <1>1, <2>1, <2>2, <2>3 DEF CountInv
<1>4. ASSUME lpDisallowCount' = lpDisallowCount, forbids' = forbids
      PROVE  CountInv' /\ lpDisallowCount' \in 0 .. MaxCount /\ forbids' \in [Users -> 0 .. MaxCount]
  BY <1>1, <1>4 DEF CountInv
<1>5. CASE PWR_Init \/ Delay \/ TickInterrupt \/ Idle \/ UNCHANGED vars
  <2>1. lpDisallowCount' = lpDisallowCount /\ forbids' = forbids
    BY <1>5 DEF PWR_Init, Delay, TickInterrupt, Idle, Compensate, PreProcess, PreProcessBm,
       EnterLowPower,
         NotAllowed, WakeUp, PostProcess, PostProcessBm, countVars, vars
  <2> QED
    BY <1>4, <2>1
<1> QED
  BY <1>2, <1>3, <1>5 DEF Next

(* The rest of the state.                                                  *)
Rest == Typed /\ LagInv /\ IdleInv /\ SleepInv /\ SleptInv

LEMMA Numbers ==
  ASSUME Constants, IInv
  PROVE  /\ Tick \in Nat \ {0} /\ MaxIdle \in Nat /\ MaxLag \in Nat /\ Latency \in Nat
         /\ remaining \in Nat /\ remaining <= MaxIdle /\ error \in Nat /\ slept \in Nat /\ expected \in Nat
         /\ lag \in Nat /\ lag <= MaxLag /\ error <= lag
         /\ remaining * Tick \in Nat /\ remaining * Tick <= MaxIdle * Tick /\ MaxIdle * Tick \in Nat
<1>1. /\ Tick \in Nat \ {0} /\ MaxIdle \in Nat /\ MaxLag \in Nat /\ Latency \in Nat
      /\ remaining \in Nat /\ remaining <= MaxIdle /\ error \in Nat /\ slept \in Nat /\ expected \in Nat
      /\ lag \in Nat /\ lag <= MaxLag
  BY DEF Constants, IInv, Typed
<1>2. error <= lag
  BY <1>1 DEF IInv, LagInv
<1>3. remaining * Tick \in Nat /\ MaxIdle * Tick \in Nat /\ (MaxIdle - remaining) * Tick \in Nat
      /\ MaxIdle * Tick = remaining * Tick + (MaxIdle - remaining) * Tick
  BY <1>1
<1> QED
  BY <1>1, <1>2, <1>3

(* Calls of the tasks, and their timeouts.                                 *)
LEMMA TasksKeep ==
  ASSUME Constants, IInv, lpDisallowCount' \in 0 .. MaxCount, forbids' \in [Users -> 0 .. MaxCount],
         PWR_Init \/ Delay \/ TickInterrupt \/ \E u \in Users : Disallow(u) \/ Allow(u)
  PROVE  Rest'
<1>1. /\ pc = "run" /\ pc' = pc /\ timebase' = timebase /\ lag' = lag /\ error' = error
      /\ expected' = expected /\ timer' = timer /\ radio' = radio /\ slept' = slept
  BY DEF PWR_Init, Delay, TickInterrupt, Disallow, Allow, countVars, sleepVars
<1>2. initialized' \in BOOLEAN
  BY DEF PWR_Init, Delay, TickInterrupt, Disallow, Allow, countVars, sleepVars, IInv, Typed
<1>3. remaining' \in 0 .. MaxIdle
  <2>1. remaining \in 0 .. MaxIdle /\ MaxIdle \in Nat
    BY DEF IInv, Typed, Constants
  <2> QED
    BY <2>1 DEF PWR_Init, Delay, TickInterrupt, Disallow, Allow, countVars, sleepVars
<1> QED
  BY <1>1, <1>2, <1>3 DEF Rest, IInv, Typed, LagInv, IdleInv, SleepInv, SleptInv, TimeoutWakes

(* What the idle task leaves alone.                                        *)
LEMMA IdleCounts ==
  ASSUME IInv, Idle
  PROVE  /\ initialized' = initialized /\ initialized \in BOOLEAN
         /\ timebase' = timebase /\ timebase \in {"freertos", "bm"}
         /\ lpDisallowCount' = lpDisallowCount /\ lpDisallowCount \in 0 .. MaxCount
         /\ forbids' = forbids /\ forbids \in [Users -> 0 .. MaxCount]
BY DEF Idle, Compensate, PreProcess, PreProcessBm, EnterLowPower, NotAllowed, WakeUp,
   PostProcess,
       PostProcessBm, countVars, IInv, Typed

LEMMA CompensateKeeps == ASSUME Constants, IInv, Compensate PROVE Rest'
<1>1. /\ pc = "run" /\ pc' = pc /\ expected' = expected /\ timer' = timer /\ radio' = radio /\ slept' = slept
  BY DEF Compensate, sleepVars
<1>2. PICK q \in Nat : q = error \div Tick /\ q * Tick <= error /\ q * Tick \in Nat
  <2>1. error \in Nat /\ Tick \in Nat \ {0}
    BY Numbers
  <2>2. PICK q, r : q = error \div Tick /\ r = error % Tick
    OBVIOUS
  <2>3. q \in Nat /\ r \in Nat /\ error = q * Tick + r /\ q * Tick \in Nat
    BY <2>1, <2>2, Division
  <2> QED
    BY <2>1, <2>2, <2>3
<1>3. PICK n \in Nat : /\ n <= q /\ (remaining # 0 => n <= remaining)
                       /\ StepTick(n) /\ error' = error - n * Tick
  <2>1. Min({q, remaining}) = IF q <= remaining THEN q ELSE remaining
    BY <1>2, Numbers, MinOfTwo
  <2>2. PICK n : n = (IF remaining = 0 THEN q ELSE Min({q, remaining}))
    OBVIOUS
  <2>3. n \in Nat /\ n <= q /\ (remaining # 0 => n <= remaining)
    BY <1>2, <2>1, <2>2, Numbers
  <2>4. StepTick(n) /\ error' = error - n * Tick
    BY <1>2, <2>2 DEF Compensate
  <2> QED
    BY <2>3, <2>4
<1>4. PICK x \in Nat : x = n * Tick /\ x <= error
  <2>1. n * Tick \in Nat /\ (q - n) * Tick \in Nat /\ q * Tick = n * Tick + (q - n) * Tick
    BY <1>2, <1>3, Numbers
  <2> QED
    BY <1>2, <2>1, Numbers
<1>5. lag = error /\ lag' = lag - x /\ error' = error - x
  BY <1>1, <1>3, <1>4 DEF StepTick, IInv, LagInv
<1>6. lag' = error' /\ error' \in Nat /\ lag' \in 0 .. MaxLag
  BY <1>4, <1>5, Numbers
<1>7. remaining' \in 0 .. MaxIdle
  BY <1>3, Numbers DEF StepTick
<1> QED
  BY <1>1, <1>6, <1>7, IdleCounts DEF Rest, Idle, IInv, Typed, LagInv, IdleInv, SleepInv,
     SleptInv, TimeoutWakes

LEMMA PreProcessKeeps == ASSUME Constants, IInv, PreProcess \/ PreProcessBm PROVE Rest'
<1>1. /\ pc = "run" /\ pc' = "enter" /\ expected' = remaining * Tick /\ lag' = lag /\ error' = error
      /\ remaining' = remaining /\ timer' = timer /\ radio' = radio /\ slept' = slept
  BY DEF PreProcess, PreProcessBm
<1>2. expected' \in Nat
  BY <1>1, Numbers
<1> QED
  BY <1>1, <1>2, IdleCounts DEF Rest, Idle, IInv, Typed, LagInv, IdleInv, SleepInv,
     SleptInv, TimeoutWakes

LEMMA EnterKeeps == ASSUME Constants, IInv, EnterLowPower PROVE Rest'
<1>1. PICK air \in Wakes : radio' = air /\ WakeUpTimer(air)
  BY DEF EnterLowPower
<1>2. /\ pc = "enter" /\ pc' = "asleep" /\ slept' = 0 /\ lpDisallowCount = 0 /\ lag' = lag /\ error' = error
      /\ remaining' = remaining /\ expected' = expected
  BY DEF EnterLowPower
<1>3. air \in Nat /\ expected \in Nat
  BY Numbers DEF Constants
<1>4. timer' \in {0, expected} /\ (expected > 0 => timer' = expected \/ (air > 0 /\ air < expected))
  <2>1. timer' = IF MinTimeout(expected, air) = expected THEN expected ELSE 0
    BY <1>1 DEF WakeUpTimer
  <2>2. expected = 0 \/ air = 0 \/ MinTimeout(expected, air) = (IF expected <= air THEN expected ELSE air)
    BY <1>3, MinOfTwo DEF MinTimeout
  <2>3. expected # 0 /\ air = 0 => MinTimeout(expected, air) = expected
    BY DEF MinTimeout
  <2> QED
    BY <1>3, <2>1, <2>2, <2>3
<1>5. MaxIdle * Tick + Latency \in Nat
  BY DEF Constants
<1> QED
  BY <1>1, <1>2, <1>3, <1>4, <1>5, IdleCounts
     DEF Rest, Idle, IInv, Typed, LagInv, IdleInv, SleepInv, SleptInv, TimeoutWakes

LEMMA NotAllowedKeeps == ASSUME Constants, IInv, NotAllowed PROVE Rest'
<1>1. /\ pc = "enter" /\ pc' = "post" /\ slept' = 0 /\ lag' = lag /\ error' = error
      /\ remaining' = remaining /\ expected' = expected /\ timer' = timer /\ radio' = radio
  BY DEF NotAllowed
<1>2. MaxIdle * Tick + Latency \in Nat
  BY DEF Constants
<1>3. lag' = error' + slept'
  BY <1>1, Numbers DEF IInv, LagInv
<1> QED
  BY <1>1, <1>2, <1>3, IdleCounts
     DEF Rest, Idle, IInv, Typed, LagInv, IdleInv, SleepInv, SleptInv, TimeoutWakes

LEMMA WakeUpKeeps == ASSUME Constants, IInv, WakeUp PROVE Rest'
<1>1. PICK event : event = MinTimeout(timer, radio)
  OBVIOUS
<1>2. PICK limit : limit = IF event = 0 THEN MaxIdle * Tick ELSE event
  OBVIOUS
<1>3. PICK t \in 0 .. limit + Latency : slept' = t /\ lag' = lag + t /\ lag' <= MaxLag
  BY <1>1, <1>2 DEF WakeUp
<1>4. /\ pc = "asleep" /\ pc' = "post" /\ timer' = 0 /\ radio' = 0 /\ error' = error
      /\ remaining' = remaining /\ expected' = expected
  BY DEF WakeUp
<1>5. timer \in Nat /\ radio \in Wakes /\ radio \in Nat /\ 0 \in Wakes
  BY DEF IInv, Typed, Constants
<1>6. event \in {timer, radio}
  <2>1. Min({timer, radio}) \in {timer, radio}
    BY <1>5, MinOfTwo
  <2> QED
    BY <1>1, <2>1 DEF MinTimeout
<1>7. limit \in Nat
  BY <1>2, <1>5, <1>6, Numbers
<1>8. t \in Nat /\ t <= limit + Latency
  BY <1>3, <1>7, Numbers
<1>9. SleptInv'
  <2> SUFFICES ASSUME Near PROVE t <= MaxIdle * Tick + Latency
    BY <1>3 DEF SleptInv, Near
  <2>1. timer <= MaxIdle * Tick
    <3>1. timer \in {0, expected} /\ expected = remaining * Tick
      BY <1>4 DEF IInv, SleepInv, IdleInv
    <3> QED
      BY <3>1, Numbers
  <2>2. radio <= MaxIdle * Tick
    BY <1>5, Numbers DEF Near
  <2>3. limit <= MaxIdle * Tick
    BY <1>2, <1>6, <2>1, <2>2, Numbers
  <2> QED
    BY <1>7, <1>8, <2>3, Numbers
<1>10. lag' = error' + slept' /\ lag' \in 0 .. MaxLag
  <2>1. lag = error
    BY <1>4 DEF IInv, LagInv
  <2> QED
    BY <1>3, <1>4, <1>8, <2>1, Numbers
<1>11. Typed'
  BY <1>3, <1>4, <1>5, <1>8, <1>10, IdleCounts DEF Idle, IInv, Typed
<1>12. LagInv' /\ IdleInv' /\ SleepInv'
  BY <1>4, <1>10 DEF IInv, LagInv, IdleInv, SleepInv, TimeoutWakes
<1> QED
  BY <1>9, <1>11, <1>12 DEF Rest

(* The ticks catch up with what was slept, and the rest is the error.      *)
LEMMA PostKeeps == ASSUME Constants, IInv, PostProcess \/ PostProcessBm PROVE Rest'
<1>1. /\ pc = "post" /\ pc' = "run" /\ expected' = 0 /\ slept' = 0 /\ timer' = timer /\ radio' = radio
  BY DEF PostProcess, PostProcessBm
<1>2. lag = error + slept /\ expected = remaining * Tick
  BY <1>1 DEF IInv, LagInv, IdleInv
<1>3. lag' = error' /\ error' \in Nat /\ error' <= MaxLag /\ remaining' \in 0 .. MaxIdle
  <2>1. CASE PostProcess /\ slept > expected /\ expected > 0
    <3>1. error' = error + slept - expected /\ StepTick(expected \div Tick)
      BY <2>1 DEF PostProcess
    <3>2. expected \div Tick = remaining
      <4>1. PICK d \in Nat, r \in Nat : d = expected \div Tick /\ r = expected % Tick /\ r < Tick
        BY Numbers, Division
      <4>2. expected = d * Tick + r
        BY <4>1, Numbers, Division
      <4>3. d <= remaining
        BY <1>2, <4>1, <4>2, Numbers, NotMore
      <4>4. remaining <= d
        <5>1. (d + 1) * Tick = d * Tick + Tick /\ d * Tick \in Nat
          BY Numbers
        <5>2. ~(d + 1 <= remaining)
          <6> SUFFICES ASSUME d + 1 <= remaining PROVE FALSE
            OBVIOUS
          <6>1. (remaining - (d + 1)) * Tick \in Nat /\ remaining * Tick = (d + 1) * Tick + (remaining - (d + 1)) * Tick
            BY Numbers
          <6> QED
            BY <1>2, <4>1, <4>2, <5>1, <6>1, Numbers
        <5> QED
          BY <5>2, Numbers
      <4> QED
        BY <4>1, <4>3, <4>4, Numbers
    <3>3. lag' = lag - remaining * Tick /\ remaining' = (IF remaining = 0 THEN 0 ELSE remaining - remaining)
      BY <3>1, <3>2 DEF StepTick
    <3> QED
      BY <1>2, <2>1, <3>1, <3>3, Numbers
  <2>2. CASE PostProcess /\ ~(slept > expected /\ expected > 0)
    <3>1. PICK d \in Nat, r \in Nat : d = slept \div Tick /\ r = slept % Tick
      BY Numbers, Division
    <3>2. slept = d * Tick + r /\ d * Tick \in Nat
      BY <3>1, Numbers, Division
    <3>3. error' = error + r /\ lag' = lag - d * Tick /\ remaining' = IF remaining = 0 THEN 0 ELSE remaining - d
      BY <2>2, <3>1 DEF PostProcess, StepTick
    <3>4. remaining # 0 => d <= remaining
      <4> SUFFICES ASSUME remaining # 0 PROVE d <= remaining
        OBVIOUS
      <4>1. expected > 0
        <5>1. (remaining - 1) * Tick \in Nat /\ remaining * Tick = (remaining - 1) * Tick + Tick
          BY Numbers
        <5> QED
          BY <1>2, <5>1, Numbers
      <4>2. d * Tick <= remaining * Tick
        BY <1>2, <2>2, <3>1, <3>2, <4>1, Numbers
      <4> QED
        BY <3>1, <4>2, Numbers, NotMore
    <3>8. PICK x \in Nat : x = d * Tick /\ slept = x + r /\ lag' = lag - x
      BY <3>2, <3>3
    <3>5. lag' = error' /\ error' \in Nat
      <4>1. error \in Nat /\ lag = error + slept /\ error' = error + r /\ r \in Nat
        BY <1>2, <3>1, <3>3, Numbers
      <4> QED
        BY <3>8, <4>1
    <3>6. error' <= MaxLag
      <4>1. lag' <= lag
        BY <3>8, Numbers
      <4> QED
        BY <3>5, <4>1, Numbers
    <3>7. remaining' \in 0 .. MaxIdle
      BY <3>1, <3>3, <3>4, Numbers
    <3> QED
      BY <3>5, <3>6, <3>7
  <2>3. CASE PostProcessBm
    <3>1. PICK a \in Nat : a = error + slept
      BY Numbers
    <3>2. PICK n \in Nat, x \in Nat : n = a \div Tick /\ x = n * Tick /\ x <= a
      <4>1. Tick \in Nat \ {0}
        BY Numbers
      <4>2. PICK n, r : n = a \div Tick /\ r = a % Tick
        OBVIOUS
      <4>3. n \in Nat /\ r \in Nat /\ a = n * Tick + r /\ n * Tick \in Nat
        BY <4>1, <4>2, Division
      <4> QED
        BY <4>2, <4>3
    <3>3. lag' = lag - x /\ error' = a - x /\ remaining' = IF n > remaining THEN 0 ELSE remaining - n
      BY <2>3, <3>1, <3>2 DEF PostProcessBm
    <3> QED
      BY <1>2, <3>1, <3>2, <3>3, Numbers
  <2> QED
    BY <2>1, <2>2, <2>3
<1>4. lag' \in 0 .. MaxLag /\ MaxIdle * Tick + Latency \in Nat
  BY <1>3, Numbers
<1> QED
  BY <1>1, <1>3, <1>4, IdleCounts DEF Rest, Idle, IInv, Typed, LagInv, IdleInv, SleepInv,
     SleptInv, TimeoutWakes

LEMMA StepKeeps == ASSUME Constants, IInv, [Next]_vars PROVE IInv'
<1>1. CountInv' /\ lpDisallowCount' \in 0 .. MaxCount /\ forbids' \in [Users -> 0 .. MaxCount]
  BY CountsKept
<1>2. ASSUME PWR_Init \/ Delay \/ TickInterrupt \/ \E u \in Users : Disallow(u) \/ Allow(u)
      PROVE  Rest'
  BY <1>1, <1>2, TasksKeep
<1>3. ASSUME Idle
      PROVE  Rest'
  BY <1>3, CompensateKeeps, PreProcessKeeps, EnterKeeps, NotAllowedKeeps, WakeUpKeeps,
     PostKeeps DEF Idle
<1>4. ASSUME UNCHANGED vars
      PROVE  Rest'
  BY <1>4 DEF vars, Rest, IInv, Typed, LagInv, IdleInv, SleepInv, SleptInv, TimeoutWakes
<1>5. Rest'
  BY <1>2, <1>3, <1>4 DEF Next
<1> QED
  BY <1>1, <1>5 DEF Rest, IInv

LEMMA InvariantHolds == ASSUME Constants PROVE Spec => []IInv
<1>1. Init => IInv
  BY InitHolds
<1>2. IInv /\ [Next]_vars => IInv'
  BY StepKeeps
<1> QED
  BY <1>1, <1>2, PTL DEF Spec

(* Counters and times stay in their ranges, if no radio event is further   *)
(* away than the longest timeout of a task.                                *)
THEOREM TypeCorrect == ASSUME Constants, Near PROVE Spec => []TypeOK
<1>1. ASSUME IInv
      PROVE  TypeOK
  <2>1. error \in 0 .. MaxLag /\ expected \in 0 .. MaxIdle * Tick
    BY <1>1, Numbers DEF IInv, IdleInv
  <2>2. slept \in 0 .. MaxIdle * Tick + Latency
    BY <1>1, Numbers DEF IInv, SleptInv
  <2>3. timer \in {0, expected}
    BY <1>1 DEF IInv, SleepInv
  <2> QED
    BY <1>1, <2>1, <2>2, <2>3 DEF IInv, Typed, TypeOK
<1> QED
  BY <1>1, InvariantHolds, PTL

(* The error that is kept for the next idle times is what the ticks are    *)
(* behind real time, in both time bases (PWR_SysticksPreProcess,           *)
(* PWR_SysticksPostProcess).                                               *)
THEOREM ErrorIsAlwaysLag == ASSUME Constants PROVE Spec => []ErrorIsLag
<1>1. IInv => ErrorIsLag
  BY Numbers DEF IInv, Typed, LagInv, ErrorIsLag
<1> QED
  BY <1>1, InvariantHolds, PTL

(* The chip sleeps only when every user that forbade it has allowed it     *)
(* (PWR_DisallowDeviceToSleep, PWR_AllowDeviceToSleep, PWR_EnterLowPower). *)
THEOREM SleepsAllowed == ASSUME Constants PROVE Spec => []SleepAllowed
<1>1. ASSUME IInv, pc = "asleep", NEW u \in Users
      PROVE  forbids[u] = 0
  <2>1. forbids \in [Users -> 0 .. MaxCount] /\ Cardinality(Units(forbids, MaxCount)) = 0
    BY <1>1 DEF IInv, Typed, SleepInv, CountInv
  <2>2. forbids[u] <= 0
    BY <2>1, UnitsAre DEF Constants
  <2> QED
    BY <2>1, <2>2 DEF Constants
<1>2. IInv => SleepAllowed
  BY <1>1 DEF SleepAllowed
<1> QED
  BY <1>2, InvariantHolds, PTL

(* While the chip sleeps, the timer or an earlier radio event wakes it up  *)
(* for the next timeout of a task (PWR_EnterLowPower, PWR_GetMinValue).    *)
THEOREM TimeoutsWake == ASSUME Constants PROVE Spec => []TimeoutWakes
<1>1. IInv => TimeoutWakes
  BY DEF IInv, SleepInv
<1> QED
  BY <1>1, InvariantHolds, PTL
-----------------------------------------------------------------------------
(* RemoteActive, of whose fairness nothing here makes use: the invariant,  *)
(* in parts.                                                               *)
RemoteSpec == Remote!Init /\ [][Remote!Next]_(Remote!vars)

RemoteConstants == IsFiniteSet(Users) /\ Users # {} /\ MaxRequests \in Nat

RemoteTyped ==
         /\ held \in [Users -> 0 .. MaxRequests] /\ active_request_nb \in Nat
         /\ hostPc \in {"out", "sync", "wait"} /\ caller \in Users
         /\ bleWkup \in BOOLEAN /\ keepAwake \in BOOLEAN /\ wkupTime \in BOOLEAN
         /\ nbuPc \in {"run", "indicated", "sleeping", "awake", "idle"}
         /\ domain \in {"active", "expiring", "entering", "low", "waking"}

(* active_request_nb counts the requests, and the one that is never        *)
(* released.                                                               *)
RequestInv == active_request_nb = Cardinality(Units(held, MaxRequests)) + (IF keepAwake THEN 1 ELSE 0)

(* The host: BLE_WKUP is set while there is a request, and before the      *)
(* first one is granted.                                                   *)
HostInv == /\ hostPc = "out" => (bleWkup <=> active_request_nb > 0)
           /\ hostPc = "out" /\ active_request_nb > 0 => domain \in {"active", "expiring"}
           /\ hostPc # "out" => /\ active_request_nb = 0 /\ held[caller] < MaxRequests
                                /\ bleWkup <=> hostPc = "wait"

(* The radio core: it tells before the radio leaves the active state, and  *)
(* takes it back only when the radio is active again.                      *)
NbuInv == /\ wkupTime <=> nbuPc \in {"indicated", "sleeping", "awake"}
          /\ domain \notin {"active", "expiring"} => nbuPc = "sleeping"

RemoteInv == RemoteTyped /\ RequestInv /\ HostInv /\ NbuInv

LEMMA RemoteInitHolds == ASSUME RemoteConstants PROVE Remote!Init => RemoteInv
<1> SUFFICES ASSUME Remote!Init PROVE RemoteInv
  OBVIOUS
<1>1. RemoteTyped
  <2>1. (CHOOSE u \in Users : TRUE) \in Users
    BY DEF RemoteConstants
  <2>2. caller \in Users
    BY <2>1 DEF Remote!Init
  <2>3. held \in [Users -> 0 .. MaxRequests]
    BY DEF Remote!Init, RemoteConstants
  <2> QED
    BY <2>2, <2>3 DEF Remote!Init, RemoteTyped
<1>2. Units(held, MaxRequests) = {}
  BY DEF Remote!Init, Units, RemoteConstants
<1>3. RequestInv
  BY <1>2, FS_EmptySet DEF RequestInv, Remote!Init
<1> QED
  BY <1>1, <1>3 DEF Remote!Init, RemoteInv, HostInv, NbuInv

LEMMA RemoteStepKeeps ==
  ASSUME RemoteConstants, RemoteInv, [Remote!Next]_(Remote!vars)
  PROVE  RemoteInv'
<1>1. RemoteTyped /\ RequestInv /\ HostInv /\ NbuInv /\ held \in [Users -> 0 .. MaxRequests] /\ active_request_nb \in Nat
  BY DEF RemoteInv, RemoteTyped
<1>2. Cardinality(Units(held, MaxRequests)) \in Nat
  BY <1>1, UnitsAre DEF RemoteConstants
<1>3. ASSUME NEW u \in Users, held[u] > 0
      PROVE  active_request_nb > 0
  BY <1>1, <1>2, <1>3, UnitsAre DEF RemoteConstants, RequestInv
<1>4. ASSUME held' = held, active_request_nb' = active_request_nb, keepAwake' = keepAwake
      PROVE  RequestInv'
  BY <1>1, <1>4 DEF RequestInv
<1>5. ASSUME NEW u \in Users, held[u] < MaxRequests, held' = [held EXCEPT ![u] = @ + 1],
             active_request_nb' = active_request_nb + 1, keepAwake' = keepAwake
      PROVE  RequestInv' /\ held' \in [Users -> 0 .. MaxRequests] /\ active_request_nb' \in Nat
  <2>1. PICK g : g = held'
    OBVIOUS
  <2>2. g \in [Users -> 0 .. MaxRequests] /\ Cardinality(Units(g, MaxRequests)) = Cardinality(Units(held, MaxRequests)) + 1
    BY <1>1, <1>5, <2>1, OneMore DEF RemoteConstants
  <2> QED
    BY <1>1, <1>2, <1>5, <2>1, <2>2 DEF RequestInv
<1>6. ASSUME NEW u \in Users, Remote!RemoteActiveReq(u)
      PROVE  RemoteInv'
  <2>1. /\ hostPc = "out" /\ held[u] < MaxRequests /\ caller' = u
        /\ bleWkup' = bleWkup /\ keepAwake' = keepAwake
        /\ wkupTime' = wkupTime /\ nbuPc' = nbuPc /\ domain' = domain
    BY <1>6 DEF Remote!RemoteActiveReq, Remote!nbuVars
  <2>2. CASE active_request_nb = 0
    <3>1. hostPc' = "sync" /\ held' = held /\ active_request_nb' = active_request_nb
      BY <1>6, <2>2 DEF Remote!RemoteActiveReq
    <3> QED
      BY <1>1, <1>4, <2>1, <2>2, <3>1 DEF RemoteInv, RemoteTyped, HostInv, NbuInv
  <2>3. CASE active_request_nb # 0
    <3>1. hostPc' = hostPc /\ active_request_nb' = active_request_nb + 1 /\ held' = [held EXCEPT ![u] = @ + 1]
      BY <1>6, <2>1, <2>3 DEF Remote!RemoteActiveReq, Remote!Granted
    <3>2. RequestInv' /\ held' \in [Users -> 0 .. MaxRequests] /\ active_request_nb' \in Nat
      BY <1>5, <2>1, <3>1
    <3> QED
      BY <1>1, <2>1, <2>3, <3>1, <3>2 DEF RemoteInv, RemoteTyped, HostInv, NbuInv
  <2> QED
    BY <2>2, <2>3
<1>7. ASSUME NEW u \in Users, Remote!RemoteActiveRel(u)
      PROVE  RemoteInv'
  <2>1. /\ hostPc = "out" /\ held[u] > 0 /\ active_request_nb' = active_request_nb - 1
        /\ hostPc' = hostPc /\ caller' = caller
        /\ keepAwake' = keepAwake /\ wkupTime' = wkupTime /\ nbuPc' = nbuPc /\ domain' = domain
    BY <1>7 DEF Remote!RemoteActiveRel, Remote!nbuVars
  <2>7. (bleWkup' <=> active_request_nb > 1) /\ bleWkup' \in BOOLEAN
    <3>1. bleWkup' = (active_request_nb > 1)
      BY <1>7, Zenon DEF Remote!RemoteActiveRel
    <3>2. CASE active_request_nb > 1
      <4>1. bleWkup' = TRUE
        BY <3>1, <3>2, Zenon
      <4> QED
        BY <3>2, <4>1
    <3>3. CASE ~(active_request_nb > 1)
      <4>0. (active_request_nb > 1) = FALSE
        BY <3>3
      <4>1. bleWkup' = FALSE
        BY <3>1, <4>0, Zenon
      <4> QED
        BY <3>3, <4>1
    <3> QED
      BY <3>2, <3>3
  <2>2. active_request_nb > 0
    BY <1>3, <2>1
  <2>3. PICK g : g = held' /\ g = [held EXCEPT ![u] = @ - 1]
    BY <1>7 DEF Remote!RemoteActiveRel
  <2>4. g \in [Users -> 0 .. MaxRequests] /\ Cardinality(Units(g, MaxRequests)) = Cardinality(Units(held, MaxRequests)) - 1
    BY <1>1, <2>1, <2>3, OneLess DEF RemoteConstants
  <2>5. RequestInv'
    BY <1>1, <1>2, <2>1, <2>3, <2>4 DEF RequestInv
  <2>6. active_request_nb' \in Nat /\ (active_request_nb' > 0 <=> active_request_nb > 1)
    BY <1>1, <2>1, <2>2
  <2> QED
    BY <1>1, <2>1, <2>2, <2>3, <2>4, <2>5, <2>6, <2>7
       DEF RemoteInv, RemoteTyped, HostInv, NbuInv
<1>8. ASSUME NEW u \in Users, Remote!DisableControllerLowPower(u)
      PROVE  RemoteInv'
  <2>1. /\ hostPc = "out" /\ held[u] > 0 /\ ~keepAwake /\ keepAwake' = TRUE
        /\ active_request_nb' = active_request_nb + 1
        /\ held' = held /\ hostPc' = hostPc /\ caller' = caller /\ bleWkup' = bleWkup
        /\ wkupTime' = wkupTime /\ nbuPc' = nbuPc /\ domain' = domain
    BY <1>8 DEF Remote!DisableControllerLowPower, Remote!nbuVars
  <2>2. active_request_nb > 0
    BY <1>3, <2>1
  <2>3. RequestInv'
    BY <1>1, <1>2, <2>1 DEF RequestInv
  <2> QED
    BY <1>1, <2>1, <2>2, <2>3 DEF RemoteInv, RemoteTyped, HostInv, NbuInv
<1>9. CASE Remote!Sync
  BY <1>1, <1>4, <1>9 DEF Remote!Sync, Remote!nbuVars, RemoteInv, RemoteTyped, HostInv, NbuInv
<1>10. CASE Remote!Woken
  <2>1. /\ hostPc = "wait" /\ domain \in {"active", "expiring"} /\ hostPc' = "out" /\ caller' = caller
        /\ active_request_nb' = active_request_nb + 1 /\ held' = [held EXCEPT ![caller] = @ + 1]
        /\ bleWkup' = bleWkup /\ keepAwake' = keepAwake
        /\ wkupTime' = wkupTime /\ nbuPc' = nbuPc /\ domain' = domain
    BY <1>10 DEF Remote!Woken, Remote!Granted, Remote!nbuVars
  <2>2. caller \in Users /\ active_request_nb = 0
    BY <1>1, <2>1 DEF RemoteTyped, HostInv
  <2>3. held[caller] < MaxRequests
    BY <1>1, <2>1 DEF HostInv
  <2>4. RequestInv' /\ held' \in [Users -> 0 .. MaxRequests] /\ active_request_nb' \in Nat
    BY <1>5, <2>1, <2>2, <2>3
  <2> QED
    BY <1>1, <2>1, <2>2, <2>4 DEF RemoteInv, RemoteTyped, HostInv, NbuInv
<1>11. CASE \/ Remote!NoSleep \/ Remote!Wfi \/ Remote!Entered \/ Remote!Active \/ Remote!Exit
            \/ Remote!Waking \/ Remote!Indicate \/ Remote!HandleWFI \/ Remote!Interrupt
            \/ Remote!Expiring \/ Remote!Expired
  <2> USE DEF Remote!NoSleep, Remote!Wfi, Remote!Entered, Remote!Active, Remote!Exit,
          Remote!Waking, Remote!Indicate, Remote!HandleWFI, Remote!Interrupt,
          Remote!Expiring, Remote!Expired
  <2>1. /\ held' = held /\ active_request_nb' = active_request_nb /\ hostPc' = hostPc /\ caller' = caller
        /\ bleWkup' = bleWkup /\ keepAwake' = keepAwake
    BY <1>11 DEF Remote!hostVars
  <2>2. RequestInv'
    BY <1>4, <2>1
  <2>3. NbuInv'
    BY <1>1, <1>11 DEF NbuInv
  <2>4. RemoteTyped'
    <3>1. /\ wkupTime' \in BOOLEAN /\ nbuPc' \in {"run", "indicated", "sleeping", "awake", "idle"}
          /\ domain' \in {"active", "expiring", "entering", "low", "waking"}
      BY <1>1, <1>11 DEF RemoteTyped
    <3> QED
      BY <1>1, <2>1, <3>1 DEF RemoteTyped
  <2>5. HostInv'
    <3>1. domain \in {"active", "expiring"} /\ bleWkup => domain' \in {"active", "expiring"}
      BY <1>1, <1>11 DEF NbuInv
    <3> QED
      BY <1>1, <2>1, <3>1 DEF HostInv, RemoteTyped
  <2> QED
    BY <2>2, <2>3, <2>4, <2>5 DEF RemoteInv
<1>12. CASE UNCHANGED Remote!vars
  BY <1>1, <1>4, <1>12 DEF Remote!vars, RemoteInv, RemoteTyped, HostInv, NbuInv
<1> QED
  BY <1>6, <1>7, <1>8, <1>9, <1>10, <1>11, <1>12 DEF Remote!Next, Remote!Host, Remote!Nbu
LEMMA RemoteHolds == ASSUME RemoteConstants PROVE RemoteSpec => []RemoteInv
<1>1. Remote!Init => RemoteInv
  BY RemoteInitHolds
<1>2. RemoteInv /\ [Remote!Next]_(Remote!vars) => RemoteInv'
  BY RemoteStepKeeps
<1> QED
  BY <1>1, <1>2, PTL DEF RemoteSpec

(* The counter of requests is never more than those of the users and the   *)
(* one that is kept for good.                                              *)
THEOREM RemoteTypeCorrect == ASSUME RemoteConstants PROVE RemoteSpec => []Remote!TypeOK
<1>1. ASSUME RemoteInv
      PROVE  Remote!TypeOK
  <2>1. /\ Cardinality(Units(held, MaxRequests)) \in Nat
        /\ Cardinality(Units(held, MaxRequests)) <= MaxRequests * Cardinality(Users)
    BY <1>1, UnitsAre DEF RemoteConstants, RemoteInv, RemoteTyped
  <2>2. MaxRequests * Cardinality(Users) \in Nat
    BY FS_CardinalityType DEF RemoteConstants
  <2>3. active_request_nb \in 0 .. MaxRequests * Cardinality(Users) + 1
    BY <1>1, <2>1, <2>2 DEF RemoteInv, RemoteTyped, RequestInv
  <2>4. Remote!Cardinality(Users) = Cardinality(Users)
    BY Zenon DEF Remote!Cardinality, Cardinality
  <2> QED
    BY <1>1, <2>3, <2>4 DEF RemoteInv, RemoteTyped, Remote!TypeOK
<1> QED
  BY <1>1, RemoteHolds, PTL

(* While a user holds a request, the radio domain is active, whatever the  *)
(* radio core and the other users do (PLATFORM_RemoteActiveReq,            *)
(* PLATFORM_RemoteActiveRel, PLATFORM_HandleLowPowerEntry).                *)
THEOREM HeldIsAlwaysActive == ASSUME RemoteConstants PROVE RemoteSpec => []Remote!HeldIsActive
<1>1. ASSUME RemoteInv, hostPc = "out", NEW u \in Users, held[u] > 0
      PROVE  domain \in {"active", "expiring"}
  <2>1. Cardinality(Units(held, MaxRequests)) \in Nat /\ Cardinality(Units(held, MaxRequests)) > 0
    BY <1>1, UnitsAre DEF RemoteConstants, RemoteInv, RemoteTyped
  <2>2. active_request_nb > 0
    BY <1>1, <2>1 DEF RemoteInv, RequestInv
  <2> QED
    BY <1>1, <2>2 DEF RemoteInv, HostInv
<1>2. RemoteInv => Remote!HeldIsActive
  BY <1>1 DEF Remote!HeldIsActive
<1> QED
  BY <1>2, RemoteHolds, PTL

(* The host never wakes up a radio that is about to enter low power, which *)
(* the hardware cannot handle (fwk_platform.c:848).                        *)
THEOREM NeverWokenEntering == ASSUME RemoteConstants PROVE RemoteSpec => Remote!NotWokenEntering
<1>1. ASSUME RemoteInv, [Remote!Next]_(Remote!vars), bleWkup', ~bleWkup
      PROVE  domain # "entering"
  <2>1. RemoteTyped /\ HostInv /\ NbuInv
    BY <1>1 DEF RemoteInv
  <2>2. CASE Remote!Sync
    BY <2>1, <2>2 DEF Remote!Sync, NbuInv
  <2>3. CASE \E u \in Users : Remote!RemoteActiveRel(u)
    BY <1>1, <2>1, <2>3 DEF Remote!RemoteActiveRel, HostInv, RemoteTyped
  <2> QED
    BY <1>1, <2>2, <2>3 DEF Remote!Next, Remote!Host, Remote!Nbu, Remote!RemoteActiveReq,
       Remote!DisableControllerLowPower, Remote!Woken,
         Remote!NoSleep, Remote!Wfi, Remote!Entered, Remote!Active, Remote!Exit,
         Remote!Waking, Remote!Indicate, Remote!HandleWFI, Remote!Interrupt,
         Remote!Expiring, Remote!Expired, Remote!hostVars, Remote!vars
<1>2. RemoteInv /\ [Remote!Next]_(Remote!vars) => [bleWkup' /\ ~bleWkup => domain # "entering"]_(Remote!vars)
  BY <1>1
<1> QED
  BY <1>2, RemoteHolds, PTL DEF RemoteSpec, Remote!NotWokenEntering
=============================================================================
