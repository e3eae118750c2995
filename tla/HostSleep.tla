------------------------------ MODULE HostSleep ------------------------------
(***************************************************************************)
(* The low power of the host core of the wireless MCUs: which RAM banks    *)
(* keep their content, ECC banks written anew when the heap grows into     *)
(* them, the radio core warned of the first power down, constraints set    *)
(* for the radio core, and the time stamps, whose FRO may lock on a third  *)
(* of its frequency at a wake-up.                                          *)
(*                                                                         *)
(* RAM is an array of half banks: static data ends and the heap begins     *)
(* inside the bank FirstBank, the banks below are not used. The memory     *)
(* manager, the power manager and the board's callback are external.       *)
(***************************************************************************)
EXTENDS Integers, FiniteSets

CONSTANTS Banks,       \* number of RAM banks
          EccBanks,    \* TCM_IS_ECC
          FirstBank,   \* the bank of firmware_ram_lower_limit
          Selectable,  \* PLATFORM_SELECT_RAM_RET_START_IDX .. _END_IDX
          Allowed,     \* modes constraints allow
          Moments,     \* values a time stamp has (2 ^ 56 in the code)
          Stamps,      \* time stamps at which a measurement may begin
          Spans        \* durations measured or waited for, in microseconds

Bank == 0 .. Banks - 1
Half == 0 .. 2 * Banks - 1
BankOf(h) == h \div 2
Static == 2 * FirstBank + 1      \* the heap begins here

WFI == 0   Sleep == 1   DeepSleep == 2   PowerDown == 3   DeepPowerDown == 4
Modes == WFI .. DeepPowerDown
Running == -1
Holders == {"app", "radio"}
Free == [h \in Holders |-> DeepPowerDown]   \* no constraint

VARIABLES dynamic,      \* the linker's RAM limit is the end of the heap
          limit,        \* MEM_GetHeapUpperLimit, in half banks
          ram,          \* what reading a half bank gives
          lastMask,     \* last_bank_mask: the banks retained, or written anew
          power,        \* the mode the chip is in
          held,         \* deepest mode the application (PWR) and the radio core allow
          pm,           \* of each mode the constraints the power manager has
          nbuInit, told, lowPowerFlag,
          fro,          \* microseconds for each tick of the FRO: 1, or 3
          ratio,        \* fwk_platform_FRO6MHz_ratio
          error         \* of the last measurement, in microseconds

ramVars == <<dynamic, limit, ram, lastMask>>
holdVars == <<held, pm>>
nbuVars == <<nbuInit, told, lowPowerFlag>>
timeVars == <<fro, ratio, error>>
vars == <<ramVars, power, holdVars, nbuVars, timeVars>>

TypeOK == /\ dynamic \in BOOLEAN /\ limit \in Static .. 2 * Banks
          /\ ram \in [Half -> {"data", "blank", "lost", "fault"}]
          /\ lastMask \subseteq Bank
          /\ power \in Modes \cup {Running}
          /\ held \in [Holders -> Modes] /\ pm \in [Modes -> 0 .. Cardinality(Holders)]
          /\ nbuInit \in BOOLEAN /\ told \in BOOLEAN /\ lowPowerFlag \in BOOLEAN
          /\ fro \in {1, 3} /\ ratio \in {1, 3} /\ error \in Int

Fresh == [h \in Half |-> IF h \in 2 * FirstBank .. Static - 1 THEN "data" ELSE "blank"]

Init == /\ dynamic \in BOOLEAN
        /\ limit = Static /\ ram = Fresh
        /\ lastMask = Bank /\ power = Running
        /\ held = Free /\ pm = [m \in Modes |-> 0]
        /\ nbuInit = FALSE /\ told = FALSE /\ lowPowerFlag = FALSE
        /\ fro = 1 /\ ratio = 1 /\ error = 0

(* Every step but a measurement leaves none to look at.                    *)
Unmeasured == UNCHANGED <<fro, ratio>> /\ error' = 0
------------------------------------------------------------------------------
(* RAM banks *)

(* A bank is off when it lies above the limit or below the first used one.  *)
DefaultRamBanksRetained ==
  LET upper == IF dynamic THEN limit ELSE 2 * Banks
  IN Bank \ {i \in Selectable : 2 * i >= upper \/ i < FirstBank}

(* Banks with ECC that have been off are written before the heap uses them. *)
ReinitRamBank(start, end) ==
  LET i == {j \in Selectable : BankOf(start) = j}
      k == {j \in Selectable : BankOf(end) = j}
  IN IF i = {} \/ k = {} THEN {}
     ELSE {j \in EccBanks \ lastMask : BankOf(start) <= j /\ j <= BankOf(end)}

(* Mutant: a bank written anew is not remembered.                          *)
MaskForgets(again) == lastMask

(* The set of the mask after it.                                           *)
MaskAfter(again) == lastMask \cup again

(* The memory manager gives out n more half banks. A write to a part of a  *)
(* word with ECC that is not valid is a fault.                             *)
Grow(n) ==
  /\ power = Running /\ limit + n <= 2 * Banks
  /\ limit' = limit + n
  /\ \E again \in {ReinitRamBank(limit, limit + n - 1)} :
       /\ lastMask' = MaskAfter(again)
       /\ ram' = [h \in Half |->
            LET now == IF BankOf(h) \in again THEN "blank" ELSE ram[h]
            IN IF h \in limit .. limit + n - 1
               THEN IF now = "lost" /\ BankOf(h) \in EccBanks THEN "fault" ELSE "data"
               ELSE now]
  /\ Unmeasured /\ UNCHANGED <<dynamic, power, holdVars, nbuVars>>

Shrink ==
  /\ power = Running /\ limit > Static
  /\ \E l \in Static .. limit - 1 :
       /\ limit' = l
       /\ ram' = [h \in Half |-> IF h \in l .. limit - 1 THEN "blank" ELSE ram[h]]
  /\ Unmeasured /\ UNCHANGED <<dynamic, lastMask, power, holdVars, nbuVars>>

(* The content of the banks that were off in deep sleep or deeper is lost.  *)
RamAfter(real) ==
  IF real < DeepSleep THEN ram
  ELSE [h \in Half |-> IF BankOf(h) \in lastMask THEN ram[h] ELSE "lost"]
------------------------------------------------------------------------------
(* Entering and leaving low power *)

InitNbu(ready) ==
  /\ power = Running /\ ~ nbuInit
  /\ lowPowerFlag' = FALSE
  /\ nbuInit' = ready
  /\ Unmeasured /\ UNCHANGED <<ramVars, power, holdVars, told>>

(* Mutant: the flag is cleared at each initialisation of the radio core.   *)
InitNbuClears ==
  /\ power = Running /\ nbuInit
  /\ lowPowerFlag' = FALSE
  /\ Unmeasured /\ UNCHANGED <<ramVars, power, holdVars, nbuInit, told>>

(* Every stack initialises the radio core; only the first does something.  *)
InitNbuAgain ==
  /\ power = Running /\ nbuInit
  /\ Unmeasured /\ UNCHANGED <<ramVars, power, holdVars, nbuVars>>

(* The radio core is warned once: the flag stays.                          *)
EnterPowerDown ==
  /\ lowPowerFlag' = (lowPowerFlag \/ ~ told)
  /\ told' = TRUE

(* WFI and sleep are one mode for the power manager.                        *)
StateOf(mode) == IF mode = WFI THEN Sleep ELSE mode

SetLowPowerConstraint(holder, mode) ==
  /\ power = Running /\ held[holder] = DeepPowerDown
  /\ held' = [held EXCEPT ![holder] = mode]
  /\ pm' = [pm EXCEPT ![StateOf(mode)] = @ + 1]
  /\ Unmeasured /\ UNCHANGED <<ramVars, power, nbuVars>>

(* Mutant: the constraint of the light mode is released for deep sleep.     *)
ReleaseSlips(mode) == IF mode = DeepSleep THEN Sleep ELSE StateOf(mode)

(* What is released is what has been set.                                  *)
Released(mode) == StateOf(mode)

ReleaseLowPowerConstraint(holder) ==
  /\ power = Running /\ held[holder] < DeepPowerDown
  /\ \E mode \in {Released(held[holder])} :
       pm' = IF pm[mode] > 0 THEN [pm EXCEPT ![mode] = @ - 1] ELSE pm
  /\ held' = [held EXCEPT ![holder] = DeepPowerDown]
  /\ Unmeasured /\ UNCHANGED <<ramVars, power, nbuVars>>

(* The power manager enters a mode no constraint forbids; the callbacks of  *)
(* the board and the platform act from deep sleep on.                      *)
EnterLowPower(mode) ==
  /\ power = Running /\ nbuInit
  /\ \A m \in Modes : pm[m] > 0 => mode <= m
  /\ power' = mode
  /\ lastMask' = IF mode >= DeepSleep THEN DefaultRamBanksRetained ELSE lastMask
  /\ IF mode = PowerDown THEN EnterPowerDown ELSE UNCHANGED <<told, lowPowerFlag>>
  /\ Unmeasured /\ UNCHANGED <<dynamic, limit, ram, holdVars, nbuInit>>

(* Ticks counted in e microseconds, when p of the first one are over.       *)
Ticks(e, p) == (p + e) \div fro

(* Mutant: the limit between 6 and 2 MHz is off by one.                    *)
RatioAbove(e, n) == IF (10 * e) \div n <= 20 THEN 1 ELSE 3

(* What the calibration makes of n ticks while the core counts e            *)
(* microseconds: 6 MHz, or 2 MHz.                                          *)
CalibratedRatio(e, n) == IF (10 * e) \div n < 20 THEN 1 ELSE 3

(* The calibration lasts for six microseconds or more; the last of them may *)
(* be incomplete for the core, not for the time stamp.                     *)
EndFro6MCalibration ==
  \E e \in 6 .. 9, p \in 0 .. 2, more \in 0 .. 1 :
    /\ p < fro'
    /\ ratio' = CalibratedRatio(e, (p + e + more) \div fro')

(* The chip has been in a lighter mode than asked for, if a wake-up came    *)
(* at once. The FRO is off, and may lock on another frequency, if the       *)
(* wake-up domain has been in low power.                                   *)
WakeUp(real, froCut) ==
  /\ power \in WFI .. PowerDown /\ real <= power
  /\ power' = Running
  /\ ram' = RamAfter(real)
  /\ IF froCut THEN fro' \in {1, 3} /\ EndFro6MCalibration ELSE UNCHANGED <<fro, ratio>>
  /\ error' = 0
  /\ UNCHANGED <<dynamic, limit, lastMask, holdVars, nbuVars>>

(* A wake-up from deep power down, where the radio is off too, is a reset.  *)
Reset ==
  /\ power = DeepPowerDown
  /\ UNCHANGED dynamic
  /\ limit' = Static /\ ram' = Fresh
  /\ lastMask' = Bank /\ power' = Running
  /\ held' = Free /\ pm' = [m \in Modes |-> 0]
  /\ nbuInit' = FALSE /\ told' = FALSE /\ lowPowerFlag' = FALSE
  /\ fro' = 1 /\ ratio' = 1 /\ error' = 0
------------------------------------------------------------------------------
(* Time stamps *)

MaxStamp == Moments - 1

TimeStampDeltaTicks(t0, t1) == IF t1 >= t0 THEN t1 - t0 ELSE MaxStamp - t0 + t1 + 1

TimeStampDeltaUs(t0, t1) ==
  LET d == TimeStampDeltaTicks(t0, t1) IN IF ratio > 1 THEN 3 * d ELSE d

(* The duration read e microseconds after a time stamp has been taken.      *)
DurationAfter(t0, e, p) == TimeStampDeltaUs(t0, (t0 + Ticks(e, p)) % Moments)

Measure(t0, e) ==
  /\ power = Running
  /\ \E p \in 0 .. fro - 1 : error' = DurationAfter(t0, e, p) - e
  /\ UNCHANGED <<ramVars, power, holdVars, nbuVars, fro, ratio>>

(* PLATFORM_Delay polls until the duration has come.                       *)
Delay(t0, d) ==
  /\ power = Running
  /\ \E p \in 0 .. fro - 1 :
       \E e \in 0 .. 3 * d + 3 :
         /\ DurationAfter(t0, e, p) >= d
         /\ \A earlier \in 0 .. e - 1 : DurationAfter(t0, earlier, p) < d
         /\ error' = e - d
  /\ UNCHANGED <<ramVars, power, holdVars, nbuVars, fro, ratio>>

(* A count of the 32 kHz clock in microseconds, in a register eight bits    *)
(* wider than the stamps, as 64 are to 56.                                 *)
Register(x) == x % (256 * Moments)
Us32k(d) == Register(Register(Register(d * 125) \div 64) * 125) \div 8

(* The exact duration is d * 15625 / 512.                                  *)
Measure32k(t0, n) ==
  /\ power = Running
  /\ \E d \in {TimeStampDeltaTicks(t0, (t0 + n) % Moments)} :
       error' = IF (n * 15625) \div 512 - Us32k(d) \in 0 .. 16 THEN 0 ELSE n + 1
  /\ UNCHANGED <<ramVars, power, holdVars, nbuVars, fro, ratio>>
------------------------------------------------------------------------------
Next == \/ \E n \in 1 .. 3 : Grow(n)
        \/ Shrink
        \/ \E ready \in BOOLEAN : InitNbu(ready)
        \/ InitNbuAgain
        \/ \E mode \in Allowed : SetLowPowerConstraint("app", mode)
        \/ \E mode \in Allowed : SetLowPowerConstraint("radio", mode)
        \/ ReleaseLowPowerConstraint("app")
        \/ ReleaseLowPowerConstraint("radio")
        \/ \E mode \in Modes : EnterLowPower(mode)
        \/ \E real \in WFI .. PowerDown, froCut \in BOOLEAN : WakeUp(real, froCut)
        \/ Reset
        \/ \E t0 \in Stamps, e \in Spans : Measure(t0, e)
        \/ \E t0 \in Stamps, d \in Spans : Delay(t0, d)
        \/ \E t0 \in Stamps, n \in Spans : Measure32k(t0, n)

Spec == Init /\ [][Next]_vars
------------------------------------------------------------------------------
(* What the program uses is there and can be read, whatever banks have been *)
(* off and whatever has been written anew.                                 *)
RamKept == \A h \in 2 * FirstBank .. limit - 1 : ram[h] = "data"

(* The radio core has been told that the host uses power down before the    *)
(* host is in it, also when the radio core is initialised more than once.  *)
PowerDownTold == power = PowerDown => lowPowerFlag

(* The chip does not sleep deeper than any of those allow that have set a    *)
(* constraint, although one of them may allow the same mode, or another.    *)
NotDeeper == \A h \in Holders : power <= StateOf(held[h])

(* A duration is measured, and a delay lasts, with an error of less than    *)
(* one tick of the FRO, whichever frequency it has locked on.              *)
TimesRight == -fro < error /\ error < fro
==============================================================================
