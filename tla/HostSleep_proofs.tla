--------------------------- MODULE HostSleep_proofs ---------------------------
(***************************************************************************)
(* Proofs about the low power of the host core of the wireless MCUs, for   *)
(* any number of RAM banks, whichever of them have ECC, are used and can   *)
(* be switched off, any range of the time stamps and any durations.        *)
(***************************************************************************)
EXTENDS HostSleep, FiniteSetTheorems, TLAPS

CONSTANTS Unit, MaxCount, Timeouts, Events, Latency
VARIABLES platform, pc, start, stop, wasPowerDown, boardSleep, sleeps, entry, timed, down,
          timeout, event, slept, off, stale
Timed == INSTANCE SleepTime WITH error <- off

(* Either all banks the program uses can be switched off, or, where those   *)
(* with ECC are left on (gPlatformShutdownEccRamInLowPower is 0), only     *)
(* banks without ECC. A duration fits in a time stamp.                     *)
Constants == /\ Banks \in Nat /\ FirstBank \in Bank
             /\ EccBanks \subseteq Bank /\ Selectable \subseteq Bank
             /\ FirstBank .. Banks - 1 \subseteq Selectable \/ Selectable \cap EccBanks = {}
             /\ Allowed \subseteq WFI .. PowerDown
             /\ Moments \in Nat \ {0, 1}
             /\ Stamps \subseteq 0 .. MaxStamp /\ Spans \subseteq 0 .. MaxStamp

Used == FirstBank .. Banks - 1       \* the banks from the first one used
Upper == IF dynamic THEN limit ELSE 2 * Banks

-----------------------------------------------------------------------------
(* The invariant, in parts: what of the RAM is kept.                       *)
RamTyped == /\ dynamic \in BOOLEAN /\ limit \in Static .. 2 * Banks
            /\ ram \in [Half -> {"data", "blank", "lost", "fault"}]
            /\ lastMask \subseteq Bank /\ power \in Modes \cup {Running}

(* A used bank below the limit is on whenever the chip is asleep; one with  *)
(* ECC stays recorded as on, or written anew, until the next sleep too.    *)
MaskInv == /\ Bank \ Selectable \subseteq lastMask
           /\ \A i \in Used : 2 * i < Upper /\ (i \in EccBanks \/ power >= DeepSleep \/ ~ dynamic)
                                => i \in lastMask

(* Content of ECC banks is lost only where the mask still says so.          *)
LostInv == \A h \in Half : h >= 2 * FirstBank /\ BankOf(h) \in EccBanks /\ ram[h] = "lost"
                          => BankOf(h) \notin lastMask

RamInv == RamTyped /\ MaskInv /\ LostInv /\ RamKept

(* The constraints: each holder has set one for the mode it allows.        *)
Holds(h, m) == IF held[h] < DeepPowerDown /\ StateOf(held[h]) = m THEN 1 ELSE 0
HoldInv == /\ held \in [Holders -> Modes] /\ power \in Modes \cup {Running}
           /\ pm = [m \in Modes |-> Holds("app", m) + Holds("radio", m)]
           /\ NotDeeper

(* The radio core: once told, it has been initialised for good.            *)
NbuInv == /\ nbuInit \in BOOLEAN /\ told \in BOOLEAN /\ lowPowerFlag \in BOOLEAN
          /\ told => nbuInit /\ lowPowerFlag
          /\ power = PowerDown => told

(* The FRO: the ratio is always that of the frequency it has locked on.    *)
TimeInv == fro \in {1, 3} /\ ratio = fro /\ error \in Int /\ TimesRight

(* A bank with ECC that the heap grows into is written anew, or has been    *)
(* on.                                                                     *)
LEMMA Reinitialised ==
  ASSUME Constants, Bank \ Selectable \subseteq lastMask,
         NEW s \in Half, NEW e \in Half, s >= 2 * FirstBank, s <= e,
         NEW i \in EccBanks, BankOf(s) <= i, i <= BankOf(e)
  PROVE  i \in lastMask \cup ReinitRamBank(s, e)
<1>1. BankOf(s) \in Used /\ BankOf(e) \in Used /\ i \in Bank
  BY DEF Constants, Used, BankOf, Half, Bank
<1>2. CASE i \notin Selectable
  BY <1>1, <1>2
<1>3. CASE i \in Selectable
  <2>1. BankOf(s) \in Selectable /\ BankOf(e) \in Selectable
    BY <1>1, <1>3 DEF Constants, Used
  <2> QED
    BY <2>1 DEF ReinitRamBank
<1> QED
  BY <1>2, <1>3

-----------------------------------------------------------------------------
LEMMA RamInit == Constants /\ Init => RamInv
<1> SUFFICES ASSUME Constants, Init PROVE RamInv
  OBVIOUS
<1> USE DEF Constants, Init
<1>1. RamTyped
  BY DEF RamTyped, Static, Bank, Half, Fresh, Modes, WFI, Running, DeepPowerDown
<1>2. MaskInv
  BY DEF MaskInv, Used, Bank
<1>3. LostInv
  BY DEF LostInv, Fresh, Half
<1>4. RamKept
  BY DEF RamKept, Fresh, Half, Static, Bank
<1> QED
  BY <1>1, <1>2, <1>3, <1>4 DEF RamInv

LEMMA RamGrow ==
  ASSUME Constants, RamInv, NEW n \in 1 .. 3, Grow(n)
  PROVE  RamInv'
<1> DEFINE again == ReinitRamBank(limit, limit + n - 1)
<1>1. /\ power = Running /\ power' = power /\ dynamic' = dynamic /\ dynamic \in BOOLEAN
      /\ limit' = limit + n /\ limit \in Int /\ Static <= limit /\ limit + n <= 2 * Banks
      /\ Banks \in Nat /\ FirstBank \in Nat /\ Static = 2 * FirstBank + 1
      /\ lastMask' = lastMask \cup again
      /\ ram' = [h \in Half |->
            LET now == IF BankOf(h) \in again THEN "blank" ELSE ram[h]
            IN IF h \in limit .. limit + n - 1
               THEN IF now = "lost" /\ BankOf(h) \in EccBanks THEN "fault" ELSE "data"
               ELSE now]
  BY DEF Grow, RamInv, RamTyped, Constants, Static, ramVars, MaskAfter, Bank
<1>2. again \subseteq EccBanks \ lastMask /\ EccBanks \subseteq Bank
  BY DEF ReinitRamBank, Constants
<1>3. ASSUME NEW i \in EccBanks, BankOf(limit) <= i, i <= BankOf(limit + n - 1)
      PROVE  i \in lastMask \cup again
  <2>1. limit \in Half /\ limit + n - 1 \in Half /\ limit >= 2 * FirstBank /\ limit <= limit + n - 1
    BY <1>1 DEF Half
  <2> QED
    BY <1>3, <2>1, Reinitialised DEF RamInv, MaskInv
<1> HIDE DEF again
<1>4. RamTyped'
  <2>1. limit' \in Static .. 2 * Banks
    BY <1>1
  <2>2. ram' \in [Half -> {"data", "blank", "lost", "fault"}]
    BY <1>1 DEF RamInv, RamTyped
  <2>3. lastMask' \subseteq Bank
    BY <1>1, <1>2 DEF RamInv, RamTyped
  <2> QED
    BY <1>1, <2>1, <2>2, <2>3 DEF RamInv, RamTyped
<1>5. MaskInv'
  <2>1. Bank \ Selectable \subseteq lastMask'
    BY <1>1 DEF RamInv, MaskInv
  <2>2. ASSUME NEW i \in Used, 2 * i < Upper', i \in EccBanks \/ power' >= DeepSleep \/ ~ dynamic'
        PROVE  i \in lastMask'
    <3>1. i \in EccBanks \/ ~ dynamic
      BY <1>1, <2>2 DEF Running, DeepSleep
    <3>2. CASE 2 * i < Upper
      BY <1>1, <3>1, <3>2 DEF RamInv, MaskInv
    <3>3. CASE ~(2 * i < Upper)
      <4>1. i \in Int /\ dynamic /\ limit <= 2 * i /\ 2 * i < limit + n
        BY <1>1, <2>2, <3>3 DEF Upper, Used
      <4>2. BankOf(limit) <= i /\ i <= BankOf(limit + n - 1)
        BY <1>1, <4>1 DEF BankOf
      <4> QED
        BY <1>1, <1>3, <3>1, <4>1, <4>2
    <3> QED
      BY <3>2, <3>3
  <2> QED
    BY <2>1, <2>2 DEF MaskInv
<1>6. LostInv'
  <2> SUFFICES ASSUME NEW h \in Half, h >= 2 * FirstBank, BankOf(h) \in EccBanks, ram'[h] = "lost"
               PROVE  BankOf(h) \notin lastMask'
    BY DEF LostInv
  <2>1. BankOf(h) \notin again /\ ram[h] = "lost"
    BY <1>1
  <2> QED
    BY <1>1, <2>1 DEF RamInv, LostInv
<1>7. RamKept'
  <2> SUFFICES ASSUME NEW h \in 2 * FirstBank .. limit + n - 1
               PROVE  ram'[h] = "data"
    BY <1>1 DEF RamKept
  <2>1. h \in Half /\ 2 * BankOf(h) <= h /\ BankOf(h) \in Used
    BY <1>1 DEF Half, BankOf, Used
  <2>2. CASE h < limit
    <3>1. ram[h] = "data"
      BY <1>1, <2>2 DEF RamInv, RamKept
    <3>2. 2 * BankOf(h) < Upper
      BY <1>1, <2>1, <2>2 DEF Upper, Used
    <3>3. BankOf(h) \notin again
      BY <1>2, <2>1, <3>2 DEF RamInv, MaskInv
    <3> QED
      BY <1>1, <2>1, <2>2, <3>1, <3>3
  <2>3. CASE h >= limit
    <3>1. h \in limit .. limit + n - 1 /\ BankOf(limit) <= BankOf(h) /\ BankOf(h) <= BankOf(limit + n - 1)
      BY <1>1, <2>3 DEF BankOf
    <3>2. ~(BankOf(h) \notin again /\ ram[h] = "lost" /\ BankOf(h) \in EccBanks)
      BY <1>1, <1>3, <2>1, <3>1 DEF RamInv, LostInv
    <3> QED
      BY <1>1, <2>1, <3>1, <3>2
  <2> QED
    BY <1>1, <2>2, <2>3
<1> QED
  BY <1>4, <1>5, <1>6, <1>7 DEF RamInv

LEMMA RamShrink ==
  ASSUME Constants, RamInv, Shrink
  PROVE  RamInv'
<1>1. /\ Banks \in Nat /\ FirstBank \in Nat /\ Static = 2 * FirstBank + 1
      /\ limit \in Int /\ limit <= 2 * Banks /\ dynamic \in BOOLEAN
  BY DEF RamInv, RamTyped, Constants, Static, Bank
<1>2. PICK l \in Static .. limit - 1 :
        /\ limit' = l
        /\ ram' = [h \in Half |-> IF h \in l .. limit - 1 THEN "blank" ELSE ram[h]]
  BY DEF Shrink
<1>3. power = Running /\ power' = power /\ dynamic' = dynamic /\ lastMask' = lastMask
  BY DEF Shrink
<1>4. RamTyped'
  <2>1. limit' \in Static .. 2 * Banks
    BY <1>1, <1>2
  <2>2. ram' \in [Half -> {"data", "blank", "lost", "fault"}]
    BY <1>2 DEF RamInv, RamTyped
  <2> QED
    BY <1>3, <2>1, <2>2 DEF RamInv, RamTyped
<1>5. MaskInv'
  <2>1. ASSUME NEW i \in Used, 2 * i < Upper'
        PROVE  2 * i < Upper
    BY <1>1, <1>2, <1>3, <2>1 DEF Upper, Used
  <2> QED
    BY <1>3, <2>1 DEF RamInv, MaskInv
<1>6. LostInv'
  BY <1>2, <1>3 DEF RamInv, LostInv
<1>7. RamKept'
  BY <1>1, <1>2 DEF RamInv, RamKept, Half
<1> QED
  BY <1>4, <1>5, <1>6, <1>7 DEF RamInv

LEMMA RamSleeps ==
  ASSUME Constants, RamInv, NEW mode \in Modes, EnterLowPower(mode)
  PROVE  RamInv'
<1>1. /\ Banks \in Nat /\ FirstBank \in Nat /\ dynamic \in BOOLEAN /\ power = Running
      /\ power' = mode /\ limit' = limit /\ ram' = ram /\ dynamic' = dynamic
      /\ lastMask' = IF mode >= DeepSleep THEN DefaultRamBanksRetained ELSE lastMask
      /\ Upper' = Upper
  BY DEF EnterLowPower, RamInv, RamTyped, Constants, Bank, Upper
<1>2. DefaultRamBanksRetained = Bank \ {i \in Selectable : 2 * i >= Upper \/ i < FirstBank}
  BY DEF DefaultRamBanksRetained, Upper
<1>3. Upper \in Int /\ (~ dynamic => \A i \in Used : 2 * i < Upper)
  BY <1>1 DEF Upper, Used, RamInv, RamTyped, Static
<1>4. RamTyped'
  BY <1>1, <1>2 DEF RamInv, RamTyped
<1>5. Bank \ Selectable \subseteq lastMask'
  BY <1>1, <1>2 DEF RamInv, MaskInv
<1>6. CASE mode >= DeepSleep
  <2>1. ASSUME NEW i \in Used, 2 * i < Upper
        PROVE  i \in lastMask'
    BY <1>1, <1>2, <1>3, <1>6, <2>1 DEF Used, Bank
  <2>2. MaskInv'
    BY <1>1, <1>5, <2>1 DEF MaskInv
  <2>3. LostInv'
    <3> SUFFICES ASSUME NEW h \in Half, h >= 2 * FirstBank, BankOf(h) \in EccBanks, ram[h] = "lost",
                        BankOf(h) \in lastMask'
                 PROVE  FALSE
      BY <1>1 DEF LostInv
    <3>1. BankOf(h) \notin lastMask
      BY DEF RamInv, LostInv
    <3>2. BankOf(h) \in Used
      BY <1>1 DEF Used, BankOf, Half
    <3>3. BankOf(h) \in Bank /\ (BankOf(h) \in Selectable => 2 * BankOf(h) < Upper)
      BY <1>1, <1>2, <1>3, <1>6, <3>2 DEF Used, Bank
    <3> QED
      BY <3>1, <3>2, <3>3 DEF RamInv, MaskInv
  <2> QED
    BY <1>1, <1>4, <2>2, <2>3 DEF RamInv, RamKept
<1>7. CASE ~(mode >= DeepSleep)
  <2>1. MaskInv'
    BY <1>1, <1>5, <1>7 DEF RamInv, MaskInv
  <2> QED
    BY <1>1, <1>4, <1>7, <2>1 DEF RamInv, RamKept, LostInv
<1> QED
  BY <1>6, <1>7

LEMMA RamWakes ==
  ASSUME Constants, RamInv, NEW real \in WFI .. PowerDown, NEW froCut \in BOOLEAN, WakeUp(real, froCut)
  PROVE  RamInv'
<1>1. /\ Banks \in Nat /\ FirstBank \in Nat /\ power \in WFI .. PowerDown /\ real <= power
      /\ power' = Running /\ limit' = limit /\ lastMask' = lastMask /\ dynamic' = dynamic
      /\ ram' = RamAfter(real)
      /\ Upper' = Upper /\ real \in Int
  BY DEF WakeUp, RamInv, RamTyped, Constants, Bank, Upper, WFI, PowerDown
<1>2. ram' = IF real < DeepSleep THEN ram
             ELSE [h \in Half |-> IF BankOf(h) \in lastMask THEN ram[h] ELSE "lost"]
  BY <1>1 DEF RamAfter
<1>3. RamTyped'
  <2>1. ram' \in [Half -> {"data", "blank", "lost", "fault"}]
    BY <1>2 DEF RamInv, RamTyped
  <2> QED
    BY <1>1, <2>1 DEF RamInv, RamTyped
<1>4. MaskInv'
  BY <1>1 DEF RamInv, MaskInv, Running, DeepSleep
<1>5. LostInv'
  BY <1>1, <1>2 DEF RamInv, LostInv
<1>6. RamKept'
  <2> SUFFICES ASSUME NEW h \in 2 * FirstBank .. limit - 1
               PROVE  ram'[h] = "data"
    BY <1>1 DEF RamKept
  <2>1. ram[h] = "data"
    BY DEF RamInv, RamKept
  <2>2. CASE real < DeepSleep
    BY <1>2, <2>1, <2>2
  <2>3. CASE ~(real < DeepSleep)
    <3>1. power >= DeepSleep
      BY <1>1, <2>3 DEF DeepSleep, WFI, PowerDown
    <3>2. h \in Half /\ BankOf(h) \in Used /\ 2 * BankOf(h) < Upper
      BY <1>1 DEF RamInv, RamTyped, Half, BankOf, Used, Upper, Static
    <3>3. BankOf(h) \in lastMask
      BY <3>1, <3>2 DEF RamInv, MaskInv
    <3> QED
      BY <1>2, <2>1, <2>3, <3>2, <3>3
  <2> QED
    BY <2>2, <2>3
<1> QED
  BY <1>3, <1>4, <1>5, <1>6 DEF RamInv

LEMMA RamReset == ASSUME Constants, RamInv, Reset PROVE RamInv'
<1>1. /\ dynamic' = dynamic /\ dynamic \in BOOLEAN /\ limit' = Static /\ ram' = Fresh /\ lastMask' = Bank
      /\ power' = Running
  BY DEF Reset, RamInv, RamTyped
<1>2. RamTyped'
  BY <1>1 DEF Constants, RamTyped, Static, Bank, Half, Fresh, Modes, WFI, Running, DeepPowerDown
<1>3. MaskInv'
  BY <1>1 DEF Constants, MaskInv, Used, Bank
<1>4. LostInv'
  BY <1>1 DEF Constants, LostInv, Fresh, Half
<1>5. RamKept'
  BY <1>1 DEF Constants, RamKept, Fresh, Half, Static, Bank
<1> QED
  BY <1>2, <1>3, <1>4, <1>5 DEF RamInv

LEMMA RamStep == Constants /\ RamInv /\ [Next]_vars => RamInv'
<1> SUFFICES ASSUME Constants, RamInv, [Next]_vars PROVE RamInv'
  OBVIOUS
<1>1. CASE UNCHANGED <<ramVars, power>>
  BY <1>1 DEF RamInv, RamTyped, MaskInv, LostInv, RamKept, Upper, ramVars
<1>2. CASE \E n \in 1 .. 3 : Grow(n)
  BY <1>2, RamGrow
<1>3. CASE Shrink
  BY <1>3, RamShrink
<1>4. CASE \E mode \in Modes : EnterLowPower(mode)
  BY <1>4, RamSleeps
<1>5. CASE \E real \in WFI .. PowerDown, froCut \in BOOLEAN : WakeUp(real, froCut)
  BY <1>5, RamWakes
<1>6. CASE Reset
  BY <1>6, RamReset
<1>7. CASE \/ \E ready \in BOOLEAN : InitNbu(ready)
           \/ InitNbuAgain
           \/ \E h \in Holders, mode \in Allowed : SetLowPowerConstraint(h, mode)
           \/ \E h \in Holders : ReleaseLowPowerConstraint(h)
  BY <1>1, <1>7 DEF InitNbu, InitNbuAgain, SetLowPowerConstraint, ReleaseLowPowerConstraint
<1>8. CASE \E t0 \in Stamps, e \in Spans : Measure(t0, e) \/ Delay(t0, e) \/ Measure32k(t0, e)
  BY <1>1, <1>8 DEF Measure, Delay, Measure32k
<1>9. CASE UNCHANGED vars
  BY <1>1, <1>9 DEF vars
<1> QED
  BY <1>2, <1>3, <1>4, <1>5, <1>6, <1>7, <1>8, <1>9 DEF Next, Holders
-----------------------------------------------------------------------------
LEMMA HoldInit == Constants /\ Init => HoldInv
  BY DEF Constants, Init, HoldInv, Holds, Free, Holders, Modes, WFI, Running, DeepPowerDown,
         NotDeeper, StateOf, Sleep

LEMMA StateIs == \A m \in Modes : StateOf(m) \in Modes /\ (m < DeepPowerDown <=> StateOf(m) < DeepPowerDown)
  BY DEF StateOf, Modes, WFI, Sleep, DeepPowerDown

LEMMA HoldSet ==
  ASSUME HoldInv, NEW h \in Holders, NEW mode \in WFI .. PowerDown, SetLowPowerConstraint(h, mode)
  PROVE  HoldInv'
<1>1. /\ power = Running /\ power' = power /\ held[h] = DeepPowerDown
      /\ held' = [held EXCEPT ![h] = mode]
      /\ pm' = [pm EXCEPT ![StateOf(mode)] = @ + 1]
      /\ mode \in Modes /\ mode < DeepPowerDown
  BY DEF SetLowPowerConstraint, Modes, WFI, PowerDown, DeepPowerDown
<1>2. held' \in [Holders -> Modes] /\ \A g \in Holders : held'[g] = IF g = h THEN mode ELSE held[g]
  BY <1>1 DEF HoldInv
<1>3. ASSUME NEW m \in Modes
      PROVE  pm'[m] = IF m = StateOf(mode) THEN pm[m] + 1 ELSE pm[m]
  BY <1>1, StateIs DEF HoldInv
<1>4. ASSUME NEW m \in Modes, NEW g \in Holders
      PROVE  Holds(g, m)' = IF g = h THEN IF m = StateOf(mode) THEN 1 ELSE 0 ELSE Holds(g, m)
  BY <1>1, <1>2 DEF Holds
<1>5. \A m \in Modes : Holds(h, m) = 0
  BY <1>1 DEF Holds, DeepPowerDown
<1>6. "app" \in Holders /\ "radio" \in Holders /\ h \in {"app", "radio"}
  BY DEF Holders
<1>7. ASSUME NEW m \in Modes
      PROVE  pm'[m] = Holds("app", m)' + Holds("radio", m)'
  <2>1. pm[m] = Holds("app", m) + Holds("radio", m) /\ Holds("app", m) \in Int /\ Holds("radio", m) \in Int
    BY DEF HoldInv, Holds
  <2> QED
    BY <1>3, <1>4, <1>5, <1>6, <2>1
<1>8. pm' = [m \in Modes |-> Holds("app", m)' + Holds("radio", m)']
  <2>1. pm' = [m \in Modes |-> pm'[m]]
    BY <1>1 DEF HoldInv
  <2> QED
    BY <1>7, <2>1
<1>9. NotDeeper'
  <2>1. ASSUME NEW g \in Holders
        PROVE  StateOf(held'[g]) \in Modes
    BY <1>2, StateIs
  <2> QED
    BY <1>1, <2>1 DEF NotDeeper, Running, Modes, WFI, DeepPowerDown
<1> QED
  BY <1>1, <1>2, <1>8, <1>9 DEF HoldInv

LEMMA HoldRelease ==
  ASSUME HoldInv, NEW h \in Holders, ReleaseLowPowerConstraint(h)
  PROVE  HoldInv'
<1> DEFINE mode == StateOf(held[h])
<1>1. /\ power = Running /\ power' = power /\ held[h] < DeepPowerDown
      /\ held' = [held EXCEPT ![h] = DeepPowerDown]
      /\ pm' = IF pm[mode] > 0 THEN [pm EXCEPT ![mode] = @ - 1] ELSE pm
  BY DEF ReleaseLowPowerConstraint, Released
<1>2. held' \in [Holders -> Modes] /\ \A g \in Holders : held'[g] = IF g = h THEN DeepPowerDown ELSE held[g]
  BY <1>1 DEF HoldInv, Modes, WFI, DeepPowerDown
<1>3. mode \in Modes
  BY StateIs DEF HoldInv
<1>4. \A m \in Modes : Holds(h, m) = IF m = mode THEN 1 ELSE 0
  BY <1>1 DEF Holds
<1>5. "app" \in Holders /\ "radio" \in Holders /\ h \in {"app", "radio"}
  BY DEF Holders
<1>6. \A m \in Modes : /\ pm[m] = Holds("app", m) + Holds("radio", m)
                       /\ Holds("app", m) \in {0, 1} /\ Holds("radio", m) \in {0, 1}
  BY DEF HoldInv, Holds
<1>7. ASSUME NEW m \in Modes, NEW g \in Holders
      PROVE  Holds(g, m)' = IF g = h THEN 0 ELSE Holds(g, m)
  BY <1>1, <1>2 DEF Holds, DeepPowerDown
<1> HIDE DEF mode
<1>8. ASSUME NEW m \in Modes
      PROVE  pm'[m] = Holds("app", m)' + Holds("radio", m)'
  <2>1. pm[mode] > 0
    BY <1>3, <1>4, <1>5, <1>6
  <2>2. pm'[m] = IF m = mode THEN pm[m] - 1 ELSE pm[m]
    BY <1>1, <1>3, <2>1 DEF HoldInv
  <2> QED
    BY <1>4, <1>5, <1>6, <1>7, <2>2
<1>9. pm' = [m \in Modes |-> Holds("app", m)' + Holds("radio", m)']
  <2>1. pm' = [m \in Modes |-> pm'[m]]
    BY <1>1 DEF HoldInv
  <2> QED
    BY <1>8, <2>1
<1>10. NotDeeper'
  <2>1. ASSUME NEW g \in Holders
        PROVE  StateOf(held'[g]) \in Modes
    BY <1>2, StateIs
  <2> QED
    BY <1>1, <2>1 DEF NotDeeper, Running, Modes, WFI, DeepPowerDown
<1> QED
  BY <1>1, <1>2, <1>9, <1>10 DEF HoldInv

LEMMA HoldSleeps ==
  ASSUME HoldInv, NEW mode \in Modes, EnterLowPower(mode)
  PROVE  HoldInv'
<1>1. power' = mode /\ held' = held /\ pm' = pm /\ \A m \in Modes : pm[m] > 0 => mode <= m
  BY DEF EnterLowPower, holdVars
<1>2. ASSUME NEW h \in Holders
      PROVE  mode <= StateOf(held[h])
  <2>1. held[h] \in Modes /\ StateOf(held[h]) \in Modes /\ mode \in 0 .. 4
    BY StateIs DEF HoldInv, Modes, WFI, DeepPowerDown
  <2>2. CASE held[h] < DeepPowerDown
    <3>1. Holds(h, StateOf(held[h])) = 1 /\ h \in {"app", "radio"}
      BY <2>2 DEF Holds, Holders
    <3>2. \A g : Holds(g, StateOf(held[h])) \in {0, 1}
      BY DEF Holds
    <3>3. pm[StateOf(held[h])] > 0
      BY <2>1, <3>1, <3>2 DEF HoldInv
    <3> QED
      BY <1>1, <2>1, <3>3
  <2>3. CASE ~(held[h] < DeepPowerDown)
    BY <2>1, <2>3 DEF StateOf, Modes, WFI, Sleep, DeepPowerDown
  <2> QED
    BY <2>2, <2>3
<1> QED
  BY <1>1, <1>2 DEF HoldInv, NotDeeper, Holds

LEMMA HoldStep == Constants /\ HoldInv /\ [Next]_vars => HoldInv'
<1> SUFFICES ASSUME Constants, HoldInv, [Next]_vars PROVE HoldInv'
  OBVIOUS
<1>1. CASE UNCHANGED <<holdVars, power>>
  BY <1>1 DEF HoldInv, NotDeeper, Holds, holdVars
<1>2. CASE \/ \E n \in 1 .. 3 : Grow(n)
           \/ Shrink
           \/ \E ready \in BOOLEAN : InitNbu(ready)
           \/ InitNbuAgain
           \/ \E t0 \in Stamps, e \in Spans : Measure(t0, e) \/ Delay(t0, e) \/ Measure32k(t0, e)
           \/ UNCHANGED vars
  BY <1>1, <1>2 DEF Grow, Shrink, InitNbu, InitNbuAgain, Measure, Delay, Measure32k, vars
<1>3. CASE \E h \in Holders, mode \in Allowed : SetLowPowerConstraint(h, mode)
  BY <1>3, HoldSet DEF Constants
<1>4. CASE \E h \in Holders : ReleaseLowPowerConstraint(h)
  BY <1>4, HoldRelease
<1>5. CASE \E mode \in Modes : EnterLowPower(mode)
  BY <1>5, HoldSleeps
<1>6. CASE \E real \in WFI .. PowerDown, froCut \in BOOLEAN : WakeUp(real, froCut)
  <2>1. power' = Running /\ held' = held /\ pm' = pm
    BY <1>6 DEF WakeUp, holdVars
  <2>2. \A h \in Holders : StateOf(held[h]) \in 0 .. 4
    BY StateIs DEF HoldInv, Modes, WFI, DeepPowerDown
  <2> QED
    BY <2>1, <2>2 DEF HoldInv, NotDeeper, Holds, Running
<1>7. CASE Reset
  BY <1>7 DEF Reset, HoldInv, Holds, Free, Holders, Modes, WFI, Running, DeepPowerDown,
              NotDeeper, StateOf, Sleep
<1> QED
  BY <1>2, <1>3, <1>4, <1>5, <1>6, <1>7 DEF Next, Holders
-----------------------------------------------------------------------------
LEMMA NbuStep == NbuInv /\ [Next]_vars => NbuInv'
<1> SUFFICES ASSUME NbuInv, [Next]_vars PROVE NbuInv'
  OBVIOUS
<1>1. CASE UNCHANGED <<nbuVars, power>>
  BY <1>1 DEF NbuInv, nbuVars
<1>2. CASE \/ \E n \in 1 .. 3 : Grow(n)
           \/ Shrink
           \/ InitNbuAgain
           \/ \E h \in Holders, mode \in Allowed : SetLowPowerConstraint(h, mode)
           \/ \E h \in Holders : ReleaseLowPowerConstraint(h)
           \/ \E t0 \in Stamps, e \in Spans : Measure(t0, e) \/ Delay(t0, e) \/ Measure32k(t0, e)
           \/ UNCHANGED vars
  BY <1>1, <1>2 DEF Grow, Shrink, InitNbuAgain, SetLowPowerConstraint, ReleaseLowPowerConstraint,
                    Measure, Delay, Measure32k, vars, nbuVars
<1>3. CASE \E ready \in BOOLEAN : InitNbu(ready)
  <2>1. PICK ready \in BOOLEAN : InitNbu(ready)
    BY <1>3
  <2>2. /\ ~ nbuInit /\ power' = Running
        /\ nbuInit' = ready /\ told' = told /\ lowPowerFlag' = FALSE
    BY <2>1 DEF InitNbu
  <2>3. ~ told /\ told \in BOOLEAN /\ nbuInit' \in BOOLEAN /\ lowPowerFlag' \in BOOLEAN
    BY <2>2 DEF NbuInv
  <2>4. power' # PowerDown
    BY <2>2 DEF Running, PowerDown
  <2> QED
    BY <2>2, <2>3, <2>4, Zenon DEF NbuInv
<1>4. CASE \E mode \in Modes : EnterLowPower(mode)
  <2>1. PICK mode \in Modes : EnterLowPower(mode)
    BY <1>4
  <2>2. CASE mode = PowerDown
    BY <2>1, <2>2 DEF EnterLowPower, EnterPowerDown, NbuInv
  <2>3. CASE mode # PowerDown
    BY <2>1, <2>3 DEF EnterLowPower, NbuInv
  <2> QED
    BY <2>2, <2>3
<1>5. CASE \E real \in WFI .. PowerDown, froCut \in BOOLEAN : WakeUp(real, froCut)
  <2>1. power' = Running /\ UNCHANGED nbuVars
    BY <1>5 DEF WakeUp
  <2>2. power' # PowerDown
    BY <2>1 DEF Running, PowerDown
  <2> QED
    BY <2>1, <2>2 DEF NbuInv, nbuVars
<1>6. CASE Reset
  <2>1. nbuInit' = FALSE /\ told' = FALSE /\ lowPowerFlag' = FALSE /\ power' # PowerDown
    BY <1>6 DEF Reset, Running, PowerDown
  <2> QED
    BY <2>1 DEF NbuInv
<1> QED
  BY <1>2, <1>3, <1>4, <1>5, <1>6 DEF Next, Holders
-----------------------------------------------------------------------------
(* A time stamp taken k ticks after another, k less than it counts, is k     *)
(* ticks from it, whether or not the time stamp has passed its end.        *)
LEMMA DeltaIs ==
  ASSUME Constants, NEW t \in 0 .. MaxStamp, NEW k \in 0 .. MaxStamp
  PROVE  TimeStampDeltaTicks(t, (t + k) % Moments) = k
<1>1. (t + k) % Moments = IF t + k < Moments THEN t + k ELSE t + k - Moments
  BY DEF Constants, MaxStamp
<1> QED
  BY <1>1 DEF Constants, MaxStamp, TimeStampDeltaTicks

LEMMA TicksAre ==
  ASSUME fro \in {1, 3}, NEW e \in Nat, NEW p \in 0 .. fro - 1
  PROVE  /\ Ticks(e, p) \in Nat
         /\ fro = 1 => Ticks(e, p) = e
         /\ fro = 3 => Ticks(e, p) <= e + 1 /\ e - 2 <= 3 * Ticks(e, p) - p /\ 3 * Ticks(e, p) <= p + e
<1>1. CASE fro = 1
  BY <1>1 DEF Ticks
<1>2. CASE fro = 3
  BY <1>2 DEF Ticks
<1> QED
  BY <1>1, <1>2

(* What is measured of e microseconds.                                     *)
LEMMA DurationIs ==
  ASSUME Constants, fro \in {1, 3}, ratio = fro, NEW t \in Stamps,
         NEW e \in Nat, NEW p \in 0 .. fro - 1, Ticks(e, p) <= MaxStamp
  PROVE  DurationAfter(t, e, p) = fro * Ticks(e, p)
<1>1. t \in 0 .. MaxStamp /\ Ticks(e, p) \in 0 .. MaxStamp
  BY TicksAre DEF Constants, MaxStamp
<1>2. TimeStampDeltaTicks(t, (t + Ticks(e, p)) % Moments) = Ticks(e, p)
  BY <1>1, DeltaIs
<1>3. DurationAfter(t, e, p) = IF ratio > 1 THEN 3 * Ticks(e, p) ELSE Ticks(e, p)
  BY <1>2 DEF DurationAfter, TimeStampDeltaUs
<1>4. Ticks(e, p) \in Nat
  BY TicksAre
<1> QED
  BY <1>3, <1>4

LEMMA TimeMeasure ==
  ASSUME Constants, TimeInv, NEW t \in Stamps, NEW e \in Spans, Measure(t, e)
  PROVE  TimeInv'
<1>1. e \in Nat /\ e <= MaxStamp /\ MaxStamp \in Nat /\ MaxStamp > 0
  <2>1. MaxStamp \in Nat /\ MaxStamp > 0
    BY DEF Constants, MaxStamp
  <2>2. e \in 0 .. MaxStamp
    BY DEF Constants
  <2> QED
    BY <2>1, <2>2
<1>2. fro \in {1, 3} /\ ratio = fro /\ fro' = fro /\ ratio' = ratio
  BY DEF Measure, TimeInv
<1>3. PICK p \in 0 .. fro - 1 : error' = DurationAfter(t, e, p) - e
  BY DEF Measure
<1>4. /\ Ticks(e, p) \in Nat /\ p \in Int /\ 0 <= p /\ p < fro
      /\ fro = 1 => Ticks(e, p) = e
      /\ fro = 3 => Ticks(e, p) <= e + 1 /\ e - 2 <= 3 * Ticks(e, p) - p /\ 3 * Ticks(e, p) <= p + e
  BY <1>1, <1>2, TicksAre
<1>5. Ticks(e, p) <= MaxStamp
  BY <1>1, <1>2, <1>4
<1>6. error' = fro * Ticks(e, p) - e
  BY <1>1, <1>2, <1>3, <1>5, DurationIs
<1>7. CASE fro = 1
  BY <1>2, <1>4, <1>6, <1>7 DEF TimeInv, TimesRight
<1>8. CASE fro = 3
  BY <1>1, <1>2, <1>4, <1>6, <1>8 DEF TimeInv, TimesRight
<1> QED
  BY <1>2, <1>7, <1>8

LEMMA TimeDelay ==
  ASSUME Constants, TimeInv, NEW t \in Stamps, NEW d \in Spans, Delay(t, d)
  PROVE  TimeInv'
<1>1. d \in Nat /\ d <= MaxStamp /\ MaxStamp \in Nat /\ MaxStamp > 0
  <2>1. MaxStamp \in Nat /\ MaxStamp > 0
    BY DEF Constants, MaxStamp
  <2>2. d \in 0 .. MaxStamp
    BY DEF Constants
  <2> QED
    BY <2>1, <2>2
<1>2. fro \in {1, 3} /\ ratio = fro /\ fro' = fro /\ ratio' = ratio
  BY DEF Delay, TimeInv
<1>3. PICK p \in 0 .. fro - 1, e \in 0 .. 3 * d + 3 :
        /\ DurationAfter(t, e, p) >= d
        /\ \A earlier \in 0 .. e - 1 : DurationAfter(t, earlier, p) < d
        /\ error' = e - d
  BY DEF Delay
<1>4. e \in Nat /\ d + fro - 1 \in Nat /\ d + fro - 1 \in 0 .. 3 * d + 3
  BY <1>1, <1>2
(* By then it has come: so it has not been later.                          *)
<1>5. Ticks(d + fro - 1, p) <= MaxStamp /\ fro * Ticks(d + fro - 1, p) >= d
  <2>1. CASE fro = 1
    BY <1>1, <1>4, <2>1, TicksAre
  <2>2. CASE fro = 3
    <3>1. Ticks(d + 2, p) = (p + d + 2) \div 3 /\ p \in 0 .. 2
      BY <1>1, <2>2 DEF Ticks
    <3> QED
      BY <1>1, <2>2, <3>1
  <2> QED
    BY <1>2, <2>1, <2>2
<1>6. e <= d + fro - 1
  <2>1. DurationAfter(t, d + fro - 1, p) = fro * Ticks(d + fro - 1, p)
    BY <1>2, <1>4, <1>5, DurationIs
  <2>2. Ticks(d + fro - 1, p) \in Nat
    BY <1>2, <1>4, TicksAre
  <2>3. ~(DurationAfter(t, d + fro - 1, p) < d)
    BY <1>1, <1>2, <1>5, <2>1, <2>2
  <2>4. d + fro - 1 \notin 0 .. e - 1
    BY <1>3, <2>3
  <2> QED
    BY <1>4, <2>4
<1>7. /\ Ticks(e, p) \in Nat /\ p \in Int /\ 0 <= p /\ p < fro
      /\ fro = 1 => Ticks(e, p) = e
      /\ fro = 3 => Ticks(e, p) <= e + 1 /\ e - 2 <= 3 * Ticks(e, p) - p /\ 3 * Ticks(e, p) <= p + e
  <2>1. p \in Int /\ 0 <= p /\ p < fro
    BY <1>2
  <2> QED
    BY <1>2, <1>4, <2>1, TicksAre
<1>8. Ticks(e, p) <= MaxStamp
  <2>1. CASE fro = 1
    BY <1>1, <1>4, <1>6, <1>7, <2>1
  <2>2. CASE fro = 3
    <3>1. 3 * Ticks(e, p) <= d + 4
      BY <1>1, <1>4, <1>6, <1>7, <2>2
    <3> QED
      BY <1>1, <1>7, <3>1
  <2> QED
    BY <1>2, <2>1, <2>2
<1>9. fro * Ticks(e, p) >= d
  BY <1>2, <1>3, <1>4, <1>8, DurationIs
<1>10. CASE fro = 1
  BY <1>1, <1>2, <1>3, <1>4, <1>6, <1>7, <1>9, <1>10 DEF TimeInv, TimesRight
<1>11. CASE fro = 3
  BY <1>1, <1>2, <1>3, <1>4, <1>6, <1>7, <1>9, <1>11 DEF TimeInv, TimesRight
<1> QED
  BY <1>2, <1>10, <1>11

(* No product overflows the register, and rounding twice loses little.      *)
LEMMA Us32kIs ==
  ASSUME Constants, NEW d \in 0 .. MaxStamp
  PROVE  (d * 15625) \div 512 - Us32k(d) \in 0 .. 16
<1> DEFINE w == 256 * Moments
<1>1. d \in Nat /\ Moments \in Nat /\ d < Moments
  BY DEF Constants, MaxStamp
<1>2. w \in Nat /\ d * 125 \in 0 .. w - 1
  BY <1>1
<1>3. PICK a \in Nat : a = d * 125
  BY <1>1
<1>4. PICK b \in Nat : b = a \div 64
  BY <1>3
<1>5. b * 125 \in 0 .. w - 1 /\ b \in 0 .. w - 1
  BY <1>1, <1>3, <1>4
<1> HIDE DEF w
<1>6. \A x \in 0 .. w - 1 : x % w = x
  BY <1>2
<1>7. Register(d * 125) = a /\ Register(a \div 64) = b /\ Register(b * 125) = b * 125
  <2>1. \A x : Register(x) = x % w
    BY DEF Register, w
  <2>2. a \in 0 .. w - 1 /\ a % w = a
    BY <1>2, <1>3, <1>6
  <2>3. b % w = b /\ (b * 125) % w = b * 125
    BY <1>5, <1>6
  <2> QED
    BY <1>3, <1>4, <2>1, <2>2, <2>3
<1>8. Us32k(d) = (b * 125) \div 8
  BY <1>3, <1>4, <1>7 DEF Us32k
<1>9. (d * 15625) \div 512 - (((d * 125) \div 64) * 125) \div 8 \in 0 .. 16
  BY <1>1
<1> QED
  BY <1>3, <1>4, <1>8, <1>9

LEMMA TimeMeasure32k ==
  ASSUME Constants, TimeInv, NEW t \in Stamps, NEW n \in Spans, Measure32k(t, n)
  PROVE  TimeInv'
<1>1. t \in 0 .. MaxStamp /\ n \in 0 .. MaxStamp
  BY DEF Constants, MaxStamp
<1>2. TimeStampDeltaTicks(t, (t + n) % Moments) = n
  BY <1>1, DeltaIs
<1>3. (n * 15625) \div 512 - Us32k(n) \in 0 .. 16
  BY <1>1, Us32kIs
<1>4. error' = 0
  BY <1>2, <1>3 DEF Measure32k
<1> QED
  BY <1>4 DEF Measure32k, TimeInv, TimesRight

LEMMA TimeWakes ==
  ASSUME TimeInv, NEW real \in WFI .. PowerDown, NEW froCut \in BOOLEAN, WakeUp(real, froCut)
  PROVE  TimeInv'
<1>1. error' = 0
  BY DEF WakeUp
<1>2. CASE froCut
  <2>1. fro' \in {1, 3} /\ EndFro6MCalibration
    BY <1>2 DEF WakeUp
  <2>2. PICK e \in 6 .. 9, p \in 0 .. 2, more \in 0 .. 1 :
          p < fro' /\ ratio' = CalibratedRatio(e, (p + e + more) \div fro')
    BY <2>1 DEF EndFro6MCalibration
  <2>3. ratio' = fro'
    <3>1. CASE fro' = 1
      <4>1. p = 0 /\ (p + e + more) \div fro' = e + more
        BY <2>2, <3>1
      <4>2. (10 * e) \div (e + more) < 20
        <5>1. e \in {6, 7, 8, 9} /\ more \in {0, 1}
          OBVIOUS
        <5> QED
          BY <5>1
      <4> QED
        BY <2>2, <3>1, <4>1, <4>2 DEF CalibratedRatio
    <3>2. CASE fro' = 3
      <4>1. PICK n \in 2 .. 4 : n = (p + e + more) \div 3 /\ 2 * n <= e
        BY <2>2
      <4>2. ~((10 * e) \div n < 20)
        <5>1. n \in {2, 3, 4}
          OBVIOUS
        <5> QED
          BY <4>1, <5>1
      <4> QED
        BY <2>2, <3>2, <4>1, <4>2 DEF CalibratedRatio
    <3> QED
      BY <2>1, <3>1, <3>2
  <2>4. TimesRight'
    <3>1. fro' \in {1, 3} /\ error' = 0
      BY <1>1, <2>1
    <3>2. CASE fro' = 1
      BY <3>1, <3>2 DEF TimesRight
    <3>3. CASE fro' = 3
      BY <3>1, <3>3 DEF TimesRight
    <3> QED
      BY <3>1, <3>2, <3>3
  <2> QED
    BY <1>1, <2>1, <2>3, <2>4 DEF TimeInv
<1>3. CASE ~ froCut
  BY <1>1, <1>3 DEF WakeUp, TimeInv, TimesRight
<1> QED
  BY <1>2, <1>3

LEMMA TimeStep == Constants /\ TimeInv /\ [Next]_vars => TimeInv'
<1> SUFFICES ASSUME Constants, TimeInv, [Next]_vars PROVE TimeInv'
  OBVIOUS
<1>1. CASE Unmeasured
  BY <1>1 DEF Unmeasured, TimeInv, TimesRight
<1>2. CASE \/ \E n \in 1 .. 3 : Grow(n)
           \/ Shrink
           \/ \E ready \in BOOLEAN : InitNbu(ready)
           \/ InitNbuAgain
           \/ \E h \in Holders, mode \in Allowed : SetLowPowerConstraint(h, mode)
           \/ \E h \in Holders : ReleaseLowPowerConstraint(h)
           \/ \E mode \in Modes : EnterLowPower(mode)
  BY <1>1, <1>2 DEF Grow, Shrink, InitNbu, InitNbuAgain, SetLowPowerConstraint,
                    ReleaseLowPowerConstraint, EnterLowPower
<1>3. CASE \E real \in WFI .. PowerDown, froCut \in BOOLEAN : WakeUp(real, froCut)
  BY <1>3, TimeWakes
<1>4. CASE Reset
  BY <1>4 DEF Reset, TimeInv, TimesRight
<1>5. CASE \E t0 \in Stamps, e \in Spans : Measure(t0, e) \/ Delay(t0, e) \/ Measure32k(t0, e)
  BY <1>5, TimeMeasure, TimeDelay, TimeMeasure32k
<1>6. CASE UNCHANGED vars
  BY <1>6 DEF vars, timeVars, TimeInv, TimesRight
<1> QED
  BY <1>2, <1>3, <1>4, <1>5, <1>6 DEF Next, Holders
-----------------------------------------------------------------------------
SleepInv == RamInv /\ HoldInv /\ NbuInv /\ TimeInv

LEMMA SleepStart == Constants /\ Init => SleepInv
<1> SUFFICES ASSUME Constants, Init PROVE SleepInv
  OBVIOUS
<1>1. NbuInv
  <2>1. power # PowerDown /\ nbuInit = FALSE /\ told = FALSE /\ lowPowerFlag = FALSE
    BY DEF Init, Running, PowerDown
  <2> QED
    BY <2>1 DEF NbuInv
<1>2. TimeInv
  BY DEF Init, TimeInv, TimesRight
<1> QED
  BY <1>1, <1>2, RamInit, HoldInit DEF SleepInv

LEMMA SleepAlways == ASSUME Constants PROVE Spec => []SleepInv
<1>1. Init => SleepInv
  BY SleepStart
<1>2. SleepInv /\ [Next]_vars => SleepInv'
  BY RamStep, HoldStep, NbuStep, TimeStep DEF SleepInv
<1> QED
  BY <1>1, <1>2, PTL DEF Spec

LEMMA SleepTyped == Constants /\ SleepInv => TypeOK
<1> SUFFICES ASSUME Constants, SleepInv PROVE TypeOK
  OBVIOUS
<1>1. Cardinality(Holders) = 2
  <2>1. IsFiniteSet({"app"}) /\ Cardinality({"app"}) = 1
    BY FS_Singleton
  <2>2. Cardinality({"app"} \cup {"radio"}) = Cardinality({"app"}) + 1
    <3>1. "radio" \notin {"app"}
      OBVIOUS
    <3> QED
      BY <2>1, <3>1, FS_AddElement
  <2>3. Holders = {"app"} \cup {"radio"}
    BY DEF Holders
  <2> QED
    BY <2>1, <2>2, <2>3
<1>2. pm \in [Modes -> 0 .. 2]
  <2>1. ASSUME NEW m \in Modes
        PROVE  Holds("app", m) + Holds("radio", m) \in 0 .. 2
    BY DEF Holds
  <2> QED
    BY <2>1 DEF SleepInv, HoldInv
<1>3. /\ dynamic \in BOOLEAN /\ limit \in Static .. 2 * Banks
      /\ ram \in [Half -> {"data", "blank", "lost", "fault"}]
      /\ lastMask \subseteq Bank /\ power \in Modes \cup {Running}
  BY DEF SleepInv, RamInv, RamTyped
<1>4. nbuInit \in BOOLEAN /\ told \in BOOLEAN /\ lowPowerFlag \in BOOLEAN
  BY DEF SleepInv, NbuInv
<1>5. held \in [Holders -> Modes] /\ fro \in {1, 3} /\ ratio \in {1, 3} /\ error \in Int
  BY DEF SleepInv, HoldInv, TimeInv
<1> QED
  BY <1>1, <1>2, <1>3, <1>4, <1>5 DEF TypeOK

(* The types, and no more constraints in the power manager than holders.   *)
THEOREM HostTypes == ASSUME Constants PROVE Spec => []TypeOK
<1>1. SleepInv => TypeOK
  BY SleepTyped
<1> QED
  BY <1>1, SleepAlways, PTL

(* Static data and the heap are kept over every sleep, and are readable     *)
(* after the heap has grown into banks that have been off                  *)
(* (PLATFORM_GetDefaultRamBanksRetained, MEM_ReinitRamBank).               *)
THEOREM HostRamKept == ASSUME Constants PROVE Spec => []RamKept
<1>1. SleepInv => RamKept
  BY DEF SleepInv, RamInv
<1> QED
  BY <1>1, SleepAlways, PTL

(* The host is in power down only with the radio core told, however often   *)
(* the radio core is initialised (PLATFORM_EnterPowerDown,                 *)
(* PLATFORM_InitNbu).                                                      *)
THEOREM HostPowerDownTold == ASSUME Constants PROVE Spec => []PowerDownTold
<1>1. SleepInv => PowerDownTold
  BY DEF SleepInv, NbuInv, PowerDownTold
<1> QED
  BY <1>1, SleepAlways, PTL

(* No sleep is deeper than any holder of a constraint allows, whatever is   *)
(* set and released in between (PLATFORM_SetLowPowerConstraint,            *)
(* PLATFORM_ReleaseLowPowerConstraint).                                    *)
THEOREM HostNotDeeper == ASSUME Constants PROVE Spec => []NotDeeper
<1>1. SleepInv => NotDeeper
  BY DEF SleepInv, HoldInv
<1> QED
  BY <1>1, SleepAlways, PTL

(* Durations and delays are right to one tick of the FRO, also when the     *)
(* time stamp wraps or the FRO has locked on a third of its frequency, and *)
(* no product overflows on the way to microseconds                         *)
(* (PLATFORM_GetTimeStampDeltaUs, PLATFORM_Delay,                          *)
(* PLATFORM_EndFro6MCalibration, PLATFORM_Get32kTimeStampDeltaUs).         *)
THEOREM HostTimesRight == ASSUME Constants PROVE Spec => []TimesRight
<1>1. SleepInv => TimesRight
  BY DEF SleepInv, TimeInv
<1> QED
  BY <1>1, SleepAlways, PTL
-----------------------------------------------------------------------------
(* SleepTime: the invariant, in parts.                                     *)
TimedConstants == /\ Unit \in Nat /\ Unit > 1 /\ MaxCount \in Nat /\ MaxCount > 0 /\ Latency \in Nat
                  /\ Moments \in Nat \ {0} /\ Stamps \subseteq 0 .. Moments - 1 /\ Stamps # {}
                  /\ Timeouts \subseteq Nat /\ 0 \in Timeouts
                  /\ Events \subseteq Nat /\ 0 \in Events

(* A power down of the RW61x is noted for as long as it lasts.              *)
DownInv == wasPowerDown <=> pc = "asleep" /\ platform = "rw61x" /\ down

(* The timer runs for no longer than the timeout; the wireless MCUs leave   *)
(* it alone.                                                               *)
TimerInv == /\ platform = "wireless" => start = 0
            /\ pc = "asleep" => /\ slept = 0 /\ off = 0
                                /\ timed /\ platform # "wireless" => start \in 1 .. timeout

(* The controller has been told of the sleep it has allowed, and no other.  *)
PairInv == sleeps = IF platform = "rt595" /\ pc = "asleep" /\ boardSleep THEN 1 ELSE 0

TimedInv == Timed!TypeOK /\ DownInv /\ TimerInv /\ PairInv /\ Timed!WokenInTime /\ Timed!DurationRight

LEMMA TimedNumbers ==
  ASSUME TimedConstants, Timed!TypeOK
  PROVE  /\ Unit \in Nat /\ Unit > 1 /\ Latency \in Nat /\ MaxCount \in Nat /\ MaxCount > 0
         /\ Moments \in Nat /\ Moments > 0 /\ Timed!MaxTimeStamp = Moments - 1
         /\ timeout \in Nat /\ event \in Nat /\ start \in Nat /\ slept \in Nat /\ off \in Int
         /\ entry \in 0 .. Moments - 1
<1>1. /\ Unit \in Nat /\ Unit > 1 /\ Latency \in Nat /\ MaxCount \in Nat /\ MaxCount > 0
      /\ Moments \in Nat /\ Moments > 0 /\ Timed!MaxTimeStamp = Moments - 1
  BY DEF TimedConstants, Timed!MaxTimeStamp
<1>2. timeout \in Nat /\ event \in Nat /\ entry \in 0 .. Moments - 1
  BY DEF TimedConstants, Timed!TypeOK
<1>3. start \in Nat /\ slept \in Nat /\ off \in Int
  BY <1>1 DEF Timed!TypeOK
<1> QED
  BY <1>1, <1>2, <1>3

(* Products of what is not known are kept out of the provers' sight.       *)
LEMMA ProductIs == \A a, b \in Nat : a * b \in Nat
  OBVIOUS

LEMMA ProductGrows ==
  ASSUME NEW a \in Nat, NEW b \in Nat, NEW u \in Nat, a <= b
  PROVE  a * u <= b * u
<1>1. PICK c \in Nat : b = a + c
  <2>1. b - a \in Nat /\ b = a + (b - a)
    OBVIOUS
  <2> QED
    BY <2>1
<1>2. b * u = a * u + c * u /\ c * u \in Nat /\ a * u \in Nat
  BY <1>1
<1> QED
  BY <1>2

LEMMA HalfIs ==
  ASSUME NEW c \in Nat
  PROVE  (61 * c) \div 2 \in Nat /\ 61 * c - 1 <= 2 * ((61 * c) \div 2) /\ 2 * ((61 * c) \div 2) <= 61 * c
  OBVIOUS

LEMMA HalvesSum ==
  ASSUME NEW m \in Nat, NEW a \in Nat, NEW n \in Nat, NEW e \in Nat, e = a + n - m,
         NEW w \in Nat, NEW y \in Nat, NEW x \in Nat,
         61 * e - 1 <= 2 * x, 2 * x <= 61 * e, 61 * a - 1 <= 2 * y, 2 * y <= 61 * a,
         61 * (m - 1) - 1 <= 2 * w, 2 * w <= 61 * (m - 1)
  PROVE  2 * (w - y + x) - 61 * n \in -63 .. 1
  OBVIOUS

(* The microseconds between time stamps a and e of m values.               *)
StampUs(a, e, m) ==
  IF (61 * e) \div 2 < (61 * a) \div 2
  THEN (61 * (m - 1)) \div 2 - (61 * a) \div 2 + (61 * e) \div 2
  ELSE (61 * e) \div 2 - (61 * a) \div 2

(* Two time stamps measure n counts but for one.                           *)
LEMMA StampError ==
  ASSUME NEW m \in Nat \ {0}, NEW a \in 0 .. m - 1, NEW n \in 0 .. m - 1
  PROVE  2 * StampUs(a, (a + n) % m, m) - 61 * n \in -63 .. 1
<1>e. PICK e : e = (a + n) % m
  OBVIOUS
<1>u. PICK u : u = StampUs(a, e, m)
  OBVIOUS
<1>s. SUFFICES 2 * u - 61 * n \in -63 .. 1
  BY <1>e, <1>u
<1>0. u = IF (61 * e) \div 2 < (61 * a) \div 2
          THEN (61 * (m - 1)) \div 2 - (61 * a) \div 2 + (61 * e) \div 2
          ELSE (61 * e) \div 2 - (61 * a) \div 2
  BY <1>u DEF StampUs
<1>1. e = IF a + n < m THEN a + n ELSE a + n - m
  BY <1>e
<1>2. CASE a + n < m
  <2>1. e = a + n /\ e \in Nat /\ a \in Nat /\ n \in Nat
    BY <1>1, <1>2
  <2>2. ~((61 * e) \div 2 < (61 * a) \div 2)
    BY <2>1
  <2>3. PICK x \in Nat, y \in Nat : x = (61 * e) \div 2 /\ y = (61 * a) \div 2
    BY <2>1, HalfIs
  <2>4. 61 * e - 1 <= 2 * x /\ 2 * x <= 61 * e /\ 61 * a - 1 <= 2 * y /\ 2 * y <= 61 * a
    BY <2>1, <2>3, HalfIs
  <2>5. u = x - y
    <3>1. ~(x < y)
      BY <2>2, <2>3
    <3>2. u = IF x < y THEN (61 * (m - 1)) \div 2 - y + x ELSE x - y
      BY <1>0, <2>3
    <3> QED
      BY <3>1, <3>2
  <2> QED
    BY <2>1, <2>4, <2>5
<1>3. CASE ~(a + n < m)
  <2>1. e = a + n - m /\ e \in Nat /\ a \in Nat /\ n \in Nat /\ e < a
    BY <1>1, <1>3
  <2>2. (61 * e) \div 2 < (61 * a) \div 2
    BY <2>1
  <2>3. PICK top \in Nat : top = m - 1
    OBVIOUS
  <2>4. PICK x \in Nat, y \in Nat, w \in Nat :
          x = (61 * e) \div 2 /\ y = (61 * a) \div 2 /\ w = (61 * top) \div 2
    BY <2>1, HalfIs
  <2>5. 61 * e - 1 <= 2 * x /\ 2 * x <= 61 * e /\ 61 * a - 1 <= 2 * y /\ 2 * y <= 61 * a
    BY <2>1, <2>4, HalfIs
  <2>6. 61 * top - 1 <= 2 * w /\ 2 * w <= 61 * top
    BY <2>4, HalfIs
  <2>7. u = w - y + x
    <3>1. u = IF x < y THEN w - y + x ELSE x - y
      BY <1>0, <2>3, <2>4
    <3> QED
      BY <2>2, <2>4, <3>1
  <2>8. 2 * (w - y + x) - 61 * n \in -63 .. 1
    BY <2>1, <2>3, <2>5, <2>6, HalvesSum
  <2> QED
    BY <2>7, <2>8
<1> QED
  BY <1>2, <1>3

(* A timer that is read at the end of a sleep measures it but for a tick    *)
(* and the time to wake up.                                                *)
LEMMA TimerError ==
  ASSUME NEW u \in Nat, u > 1, NEW l \in Nat, NEW s \in Nat, s > 0, NEW f \in 1 .. u,
         NEW n \in Nat, n <= f + (s - 1) * u + l,
         NEW k \in Nat, k = (IF n < f THEN 0 ELSE 1 + (n - f) \div u),
         NEW z, z = IF k >= s THEN 0 ELSE s - k
  PROVE  2 * ((61 * u * s) \div 2 - (61 * u * z) \div 2) - 61 * n \in 1 - 61 * (u + l) .. 61 * (u + l) - 1
<1>1. PICK c \in Nat : c = k * u /\ (n < f => c = 0) /\ (n >= f => c <= n - f + u /\ n - f < c)
  <2>1. CASE n < f
    BY <2>1
  <2>2. CASE n >= f
    <3>1. PICK q \in Nat, r \in 0 .. u - 1 : q = (n - f) \div u /\ n - f = q * u + r
      <4>1. PICK g \in Nat : g = n - f
        BY <2>2
      <4>2. g \div u \in Nat /\ g % u \in 0 .. u - 1 /\ g = (g \div u) * u + (g % u)
        BY <4>1
      <4> QED
        BY <4>1, <4>2
    <3>2. k = 1 + q /\ (1 + q) * u = u + q * u /\ q * u \in Nat
      BY <2>2, <3>1
    <3>3. PICK w \in Nat : w = q * u /\ k * u = u + w
      BY <3>2
    <3>4. n - f = w + r /\ 0 <= r /\ r < u
      BY <3>1, <3>3
    <3>5. w + u \in Nat /\ w + u = k * u /\ ~(n < f) /\ w + u <= n - f + u /\ n - f < w + u
      BY <2>2, <3>3, <3>4
    <3> QED
      BY <3>5
  <2> QED
    BY <2>1, <2>2
<1>2. PICK x \in Nat : x = u * s /\ (s - 1) * u = x - u
  <2>1. u * s \in Nat /\ (s - 1) * u = u * s - u
    OBVIOUS
  <2> QED
    BY <2>1
<1>3. PICK y \in Nat : y = u * z
  <2>1. z \in Nat
    OBVIOUS
  <2> QED
    BY <2>1, ProductIs
<1>4. (61 * u * s) \div 2 = (61 * x) \div 2 /\ (61 * u * z) \div 2 = (61 * y) \div 2
  BY <1>2, <1>3
(* What has been counted differs from n by less than a tick or the latency. *)
<1>5. x - y - n \in -(u - 1) - l .. u - 1
  <2>1. CASE k >= s
    <3>1. y = 0
      BY <1>3, <2>1
    <3>2. x <= c
      <4>1. s * u <= k * u
        BY <2>1, ProductGrows
      <4> QED
        BY <1>1, <1>2, <4>1
    <3>3. n >= f
      BY <2>1
    <3> QED
      BY <1>1, <1>2, <3>1, <3>2, <3>3
  <2>2. CASE k < s
    <3>1. y = x - c
      <4>1. u * (s - k) = u * s - k * u
        BY <2>2
      <4> QED
        BY <1>1, <1>2, <1>3, <2>2, <4>1
    <3> QED
      BY <1>1, <3>1
  <2> QED
    BY <2>1, <2>2
<1>6. PICK g \in Nat, h \in Nat : g = (61 * x) \div 2 /\ h = (61 * y) \div 2
  BY <1>2, <1>3, HalfIs
<1>7. 61 * x - 1 <= 2 * g /\ 2 * g <= 61 * x /\ 61 * y - 1 <= 2 * h /\ 2 * h <= 61 * y
  BY <1>2, <1>3, <1>6, HalfIs
<1>8. 2 * (g - h) - 61 * n \in 1 - 61 * (u + l) .. 61 * (u + l) - 1
  BY <1>2, <1>3, <1>5, <1>7
<1> QED
  BY <1>4, <1>6, <1>8

-----------------------------------------------------------------------------
LEMMA TimedInit == ASSUME TimedConstants PROVE Timed!Init => TimedInv
<1> SUFFICES ASSUME Timed!Init PROVE TimedInv
  OBVIOUS
<1>1. Timed!None \in Stamps
  BY DEF Timed!None, TimedConstants
<1>2. Timed!TypeOK
  <2>1. /\ platform \in {"rw61x", "rt595", "wireless"} /\ pc \in {"awake", "asleep"}
        /\ start \in 0 .. MaxCount /\ stop \in 0 .. MaxCount + 1 /\ sleeps \in {0, 1}
        /\ entry \in Stamps /\ timeout \in Timeouts /\ event \in Events
        /\ slept \in Nat /\ off \in Int
    BY <1>1 DEF Timed!Init, TimedConstants
  <2>2. wasPowerDown = FALSE /\ boardSleep = FALSE /\ timed = FALSE /\ down = FALSE /\ stale = FALSE
    BY DEF Timed!Init
  <2> QED
    BY <2>1, <2>2 DEF Timed!TypeOK
<1>3. pc = "awake" /\ wasPowerDown = FALSE /\ sleeps = 0 /\ timed = FALSE /\ off = 0 /\ start = 0
  BY DEF Timed!Init
<1>4. DownInv
  BY <1>3 DEF DownInv
<1>5. TimerInv /\ PairInv
  BY <1>3 DEF TimerInv, PairInv
<1>6. Timed!WokenInTime
  BY <1>3 DEF Timed!WokenInTime
<1>7. Timed!DurationRight
  BY <1>2, <1>3, TimedNumbers DEF Timed!DurationRight
<1> QED
  BY <1>2, <1>4, <1>5, <1>6, <1>7 DEF TimedInv

LEMMA TimedEnter ==
  ASSUME TimedConstants, TimedInv, NEW stamp \in Stamps, NEW t \in Timeouts, NEW e \in Events,
         NEW deep \in BOOLEAN, Timed!EnterLowPower(stamp, t, e, deep)
  PROVE  TimedInv'
<1>1. Timed!TypeOK /\ DownInv /\ TimerInv /\ PairInv
  BY DEF TimedInv
<1>2. /\ pc = "awake" /\ pc' = "asleep" /\ platform' = platform /\ stop' = stop
      /\ entry' = stamp /\ timeout' = t /\ event' = e /\ down' = deep
      /\ wasPowerDown' = (wasPowerDown \/ (platform = "rw61x" /\ deep))
      /\ slept' = 0 /\ off' = 0 /\ stale' = FALSE
  BY DEF Timed!EnterLowPower
<1>3. t \in Nat /\ e \in Nat
  BY DEF TimedConstants
<1>4. /\ timed' \in BOOLEAN /\ start' \in 0 .. MaxCount
      /\ timed' /\ platform # "wireless" => start' \in 1 .. t
  <2>1. CASE Timed!TimeoutIsNext(t, e)
    <3>1. /\ timed' = TRUE /\ t > 0
          /\ platform = "rt595" => Timed!StartCount(t) > 0
          /\ start' = IF platform = "wireless" THEN start ELSE Timed!StartCount(t)
      BY <2>1 DEF Timed!EnterLowPower, Timed!StartWakeUpTimer, Timed!TimeoutIsNext
    <3>2. Timed!StartCount(t) \in 0 .. MaxCount /\ Timed!StartCount(t) <= t
      <4>1. t % (MaxCount + 1) \in 0 .. MaxCount /\ t % (MaxCount + 1) <= t
        <5>1. PICK m \in Nat : m = MaxCount + 1 /\ m > 0
          BY <1>1, TimedNumbers
        <5>2. t % m \in 0 .. m - 1 /\ (t < m => t % m = t)
          BY <1>3, <5>1
        <5> QED
          BY <1>1, <1>3, <5>1, <5>2, TimedNumbers
      <4>2. CASE platform = "rt595"
        BY <4>1, <4>2 DEF Timed!StartCount
      <4>3. CASE platform # "rt595"
        BY <1>1, <1>3, <4>3, TimedNumbers DEF Timed!StartCount
      <4> QED
        BY <4>2, <4>3
    <3>3. platform # "rt595" => Timed!StartCount(t) > 0
      BY <1>1, <1>3, <3>1, TimedNumbers DEF Timed!StartCount
    <3>4. start \in 0 .. MaxCount
      BY <1>1 DEF Timed!TypeOK
    <3>5. timed' \in BOOLEAN /\ start' \in 0 .. MaxCount
      BY <3>1, <3>2, <3>4
    <3>6. platform # "wireless" => start' \in 1 .. t
      BY <1>1, <1>3, <3>1, <3>2, <3>3, TimedNumbers
    <3> QED
      BY <3>5, <3>6
  <2>2. CASE ~ Timed!TimeoutIsNext(t, e)
    <3>1. timed' = FALSE /\ start' = start
      BY <2>2 DEF Timed!EnterLowPower, Timed!StartWakeUpTimer
    <3> QED
      BY <1>1, <3>1 DEF Timed!TypeOK
  <2> QED
    BY <2>1, <2>2
<1>5. /\ boardSleep' \in BOOLEAN
      /\ sleeps' = IF platform = "rt595" /\ boardSleep' THEN 1 ELSE 0
  <2>1. sleeps = 0 /\ boardSleep \in BOOLEAN
    BY <1>1, <1>2 DEF PairInv, Timed!TypeOK
  <2>2. CASE platform = "rt595"
    <3>1. PICK allowed \in BOOLEAN : boardSleep' = allowed /\ sleeps' = IF allowed THEN sleeps + 1 ELSE sleeps
      BY <2>2 DEF Timed!EnterLowPower, Timed!AskController
    <3> QED
      BY <2>1, <2>2, <3>1
  <2>3. CASE platform # "rt595"
    BY <2>1, <2>3 DEF Timed!EnterLowPower
  <2> QED
    BY <2>2, <2>3
<1>6. wasPowerDown' = (platform = "rw61x" /\ deep)
  <2>1. ~ wasPowerDown
    BY <1>1, <1>2 DEF DownInv
  <2> QED
    BY <1>2, <2>1
<1>7. Timed!TypeOK'
  <2>1. wasPowerDown' \in BOOLEAN
    BY <1>6
  <2>2. sleeps' \in {0, 1}
    BY <1>5
  <2>3. /\ platform' \in {"rw61x", "rt595", "wireless"} /\ stop' \in 0 .. MaxCount + 1
    BY <1>1, <1>2 DEF Timed!TypeOK
  <2>4. /\ pc' \in {"awake", "asleep"} /\ entry' \in Stamps /\ timeout' \in Timeouts /\ event' \in Events
        /\ slept' \in Nat /\ off' \in Int
    BY <1>2
  <2>5. down' \in BOOLEAN /\ stale' \in BOOLEAN
    BY <1>2
  <2> QED
    BY <1>4, <1>5, <2>1, <2>2, <2>3, <2>4, <2>5 DEF Timed!TypeOK
<1>8. DownInv'
  BY <1>2, <1>6 DEF DownInv
<1>9. TimerInv'
  <2>1. platform = "wireless" => start' = start
    BY DEF Timed!EnterLowPower, Timed!StartWakeUpTimer
  <2> QED
    BY <1>1, <1>2, <1>4, <2>1 DEF TimerInv
<1>10. PairInv'
  BY <1>2, <1>5 DEF PairInv
<1>11. Timed!WokenInTime'
  <2>1. PICK x \in Nat : x = t * Unit
    BY <1>1, <1>3, TimedNumbers, ProductIs
  <2> QED
    BY <1>1, <1>2, <2>1, TimedNumbers DEF Timed!WokenInTime
<1>12. Timed!DurationRight'
  BY <1>1, <1>2, TimedNumbers DEF Timed!DurationRight
<1> QED
  BY <1>7, <1>8, <1>9, <1>10, <1>11, <1>12 DEF TimedInv

LEMMA TimedExit ==
  ASSUME TimedConstants, TimedInv, NEW n \in 0 .. Timed!MaxTimeStamp, NEW f \in 1 .. Unit,
         Timed!ExitLowPower(n, f)
  PROVE  TimedInv'
<1>1. Timed!TypeOK /\ DownInv /\ TimerInv /\ PairInv
  BY DEF TimedInv
<1>2. n \in 0 .. Moments - 1 /\ n \in Nat /\ f \in Nat
  BY <1>1, TimedNumbers
<1>3. /\ pc = "asleep" /\ Timed!MayWake(n, f) /\ pc' = "awake" /\ slept' = n /\ start' = start
      /\ platform' = platform /\ boardSleep' = boardSleep /\ entry' = entry /\ timed' = timed
      /\ down' = down /\ timeout' = timeout /\ event' = event
      /\ Timed!StopWakeUpTimer(n, f) /\ Timed!GetLowPowerDuration(n) /\ Timed!LeaveController
  BY DEF Timed!ExitLowPower, Timed!sleepVars
<1>4. /\ wasPowerDown' = FALSE /\ stale' = (platform = "rw61x" /\ down /\ ~ timed)
      /\ off' = 2 * Timed!Duration((entry + n) % Moments) - 61 * n
  BY <1>3 DEF Timed!GetLowPowerDuration, Timed!Forgotten
<1>5. timed /\ platform # "wireless" => start \in Nat /\ start > 0 /\ start <= timeout
  BY <1>1, <1>3, TimedNumbers DEF TimerInv
(* The timer ends the sleep that has one.                                  *)
<1>6. timed /\ platform # "wireless" => n <= f + (start - 1) * Unit + Latency
  BY <1>3, <1>5 DEF Timed!MayWake, Timed!Fires
<1>7. stop' \in 0 .. MaxCount + 1 /\ (timed /\ platform # "wireless" =>
        stop' = IF Timed!Decrements(n, f) >= start THEN 0 ELSE start - Timed!Decrements(n, f))
  <2>1. CASE timed /\ platform # "wireless"
    <3>1. stop' = IF Timed!Decrements(n, f) >= start THEN 0 ELSE start - Timed!Decrements(n, f)
      BY <1>3, <2>1 DEF Timed!StopWakeUpTimer, Timed!ReadStopCount
    <3>2. PICK k \in Nat : k = Timed!Decrements(n, f)
      BY <1>1, <1>2, TimedNumbers DEF Timed!Decrements
    <3>3. start \in 0 .. MaxCount
      BY <1>1 DEF Timed!TypeOK
    <3> QED
      BY <1>1, <3>1, <3>2, <3>3, TimedNumbers
  <2>2. CASE ~(timed /\ platform # "wireless")
    <3>1. stop' = stop
      BY <1>3, <2>2 DEF Timed!StopWakeUpTimer
    <3> QED
      BY <1>1, <2>2, <3>1 DEF Timed!TypeOK
  <2> QED
    BY <2>1, <2>2
<1>8. ASSUME ~ wasPowerDown
      PROVE  off' \in Int /\ Timed!DurationRight'
  <2>1. Timed!Duration((entry + n) % Moments) = StampUs(entry, (entry + n) % Moments, Moments)
    BY <1>8 DEF Timed!Duration, Timed!Us, Timed!MaxTimeStamp, StampUs
  <2>2. Moments \in Nat \ {0} /\ entry \in 0 .. Moments - 1
    BY <1>1, TimedNumbers
  <2>3. 2 * StampUs(entry, (entry + n) % Moments, Moments) - 61 * n \in -63 .. 1
    BY <1>2, <2>2, StampError
  <2>5. off' \in -63 .. 1
    BY <1>4, <2>1, <2>3
  <2>6. off' \in Int /\ off' \in 1 - 122 .. 122 - 1
    BY <2>5
  <2>7. off' \in 1 - 61 * (Unit + Latency) .. 61 * (Unit + Latency) - 1
    BY <1>1, <2>5, TimedNumbers
  <2> QED
    BY <2>6, <2>7 DEF Timed!DurationRight
<1>9. ASSUME wasPowerDown
      PROVE  off' \in Int /\ Timed!DurationRight'
  <2>1. platform = "rw61x" /\ down
    BY <1>1, <1>9 DEF DownInv
  <2>2. PICK k \in Nat : k = Timed!Decrements(n, f)
    BY <1>1, <1>2, TimedNumbers DEF Timed!Decrements
  <2>3. Timed!Duration((entry + n) % Moments) = (61 * Unit * start) \div 2 - (61 * Unit * stop') \div 2
    BY <1>3, <1>9 DEF Timed!Duration, Timed!TimerUs
  <2>4. off' \in Int
    <3>1. PICK x \in Nat, y \in Nat : x = 61 * Unit * start /\ y = 61 * Unit * stop'
      <4>1. start \in Nat /\ stop' \in Nat /\ 61 * Unit \in Nat
        BY <1>1, <1>7, TimedNumbers
      <4> QED
        BY <4>1, ProductIs
    <3> QED
      BY <1>2, <1>4, <2>3, <3>1
  <2>5. CASE timed
    <3>1. k = IF n < f THEN 0 ELSE 1 + (n - f) \div Unit
      BY <2>2 DEF Timed!Decrements
    <3>2. stop' = IF k >= start THEN 0 ELSE start - k
      BY <1>7, <2>1, <2>2, <2>5
    <3>3. start \in Nat /\ start > 0 /\ n <= f + (start - 1) * Unit + Latency
      BY <1>5, <1>6, <2>1, <2>5
    <3>4. 2 * ((61 * Unit * start) \div 2 - (61 * Unit * stop') \div 2) - 61 * n
            \in 1 - 61 * (Unit + Latency) .. 61 * (Unit + Latency) - 1
      BY <1>1, <1>2, <2>2, <3>1, <3>2, <3>3, TimedNumbers, TimerError
    <3> QED
      BY <1>3, <1>4, <2>1, <2>3, <2>4, <2>5, <3>4 DEF Timed!DurationRight
  <2>6. CASE ~ timed
    BY <1>4, <2>1, <2>4, <2>6 DEF Timed!DurationRight
  <2> QED
    BY <2>5, <2>6
<1>10. sleeps' = 0
  BY <1>1, <1>3 DEF PairInv, Timed!LeaveController
<1>11. Timed!TypeOK'
  <2>1. wasPowerDown' \in BOOLEAN /\ stale' \in BOOLEAN
    BY <1>4
  <2>2. off' \in Int
    BY <1>8, <1>9
  <2>3. slept' \in Nat /\ pc' \in {"awake", "asleep"}
    BY <1>2, <1>3
  <2> QED
    BY <1>1, <1>3, <1>7, <1>10, <2>1, <2>2, <2>3 DEF Timed!TypeOK
<1>12. DownInv' /\ TimerInv' /\ PairInv'
  <2>1. pc' # "asleep"
    BY <1>3
  <2> QED
    BY <1>1, <1>3, <1>4, <1>10, <2>1 DEF DownInv, TimerInv, PairInv
<1>13. Timed!WokenInTime'
  <2>1. ASSUME timed
        PROVE  n <= timeout * Unit + Latency
    <3>1. CASE platform = "wireless"
      <4>1. start = 0 /\ ~(start > 0)
        BY <1>1, <3>1 DEF TimerInv
      <4> QED
        BY <1>3, <2>1, <3>1, <4>1 DEF Timed!MayWake
    <3>2. CASE platform # "wireless"
      <4>1. start * Unit <= timeout * Unit
        BY <1>1, <1>5, <2>1, <3>2, TimedNumbers, ProductGrows
      <4>2. (start - 1) * Unit = start * Unit - Unit
        BY <1>1, <1>5, <2>1, <3>2, TimedNumbers
      <4>3. PICK x \in Nat, y \in Nat : x = start * Unit /\ y = timeout * Unit
        BY <1>1, TimedNumbers, ProductIs
      <4>4. x <= y /\ n <= f + (x - Unit) + Latency /\ f <= Unit
        BY <1>6, <2>1, <3>2, <4>1, <4>2, <4>3
      <4> QED
        BY <1>1, <1>2, <4>3, <4>4, TimedNumbers
    <3> QED
      BY <3>1, <3>2
  <2> QED
    BY <1>3, <2>1 DEF Timed!WokenInTime
<1> QED
  BY <1>8, <1>9, <1>11, <1>12, <1>13 DEF TimedInv

LEMMA TimedAlways == ASSUME TimedConstants PROVE Timed!Spec => []TimedInv
<1>1. Timed!Init => TimedInv
  BY TimedInit
<1>2. TimedInv /\ [Timed!Next]_(Timed!vars) => TimedInv'
  <2> SUFFICES ASSUME TimedInv, [Timed!Next]_(Timed!vars) PROVE TimedInv'
    OBVIOUS
  <2>1. CASE UNCHANGED Timed!vars
    BY <2>1 DEF Timed!vars, Timed!timerVars, Timed!sleepVars, Timed!resultVars, TimedInv, DownInv,
                TimerInv, PairInv, Timed!TypeOK, Timed!WokenInTime, Timed!DurationRight
  <2>2. CASE \E stamp \in Stamps, t \in Timeouts, e \in Events, deep \in BOOLEAN :
               Timed!EnterLowPower(stamp, t, e, deep)
    BY <2>2, TimedEnter
  <2>3. CASE \E n \in 0 .. Timed!MaxTimeStamp, f \in 1 .. Unit : Timed!ExitLowPower(n, f)
    BY <2>3, TimedExit
  <2> QED
    BY <2>1, <2>2, <2>3 DEF Timed!Next
<1> QED
  BY <1>1, <1>2, PTL DEF Timed!Spec

(* The types of the wake-up timer and of what is measured.                 *)
THEOREM TimedTypes == ASSUME TimedConstants PROVE Timed!Spec => []Timed!TypeOK
<1>1. TimedInv => Timed!TypeOK
  BY DEF TimedInv
<1> QED
  BY <1>1, TimedAlways, PTL

(* The duration PLATFORM_GetLowPowerDurationUs gives of a sleep is right to *)
(* one count of the time stamps, or, after a power down of the RW61x, to a *)
(* tick of the timer and the time to wake up, wherever time stamp and      *)
(* timer stand.                                                            *)
THEOREM DurationsRight == ASSUME TimedConstants PROVE Timed!Spec => []Timed!DurationRight
<1>1. TimedInv => Timed!DurationRight
  BY DEF TimedInv
<1> QED
  BY <1>1, TimedAlways, PTL

(* PLATFORM_StartWakeUpTimer wakes the chip no later than the tasks have     *)
(* asked for, however long the timeout is that the timer has to hold.      *)
THEOREM SleepersWoken == ASSUME TimedConstants PROVE Timed!Spec => []Timed!WokenInTime
<1>1. TimedInv => Timed!WokenInTime
  BY DEF TimedInv
<1> QED
  BY <1>1, TimedAlways, PTL

(* The radio controller of the MIMXRT595S is told the end of the sleeps it   *)
(* has let the host enter, and of no other.                                *)
THEOREM ControllersPaired == ASSUME TimedConstants PROVE Timed!Spec => []Timed!ControllerPaired
<1>1. TimedInv => Timed!ControllerPaired
  BY DEF TimedInv, PairInv, Timed!TypeOK, Timed!ControllerPaired
<1> QED
  BY <1>1, TimedAlways, PTL
===============================================================================
