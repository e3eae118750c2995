---------------------------------- MODULE Pwr ----------------------------------
(***************************************************************************)
(* services/LowPower/PWR.c with PWR_systicks.c (FreeRTOS) or               *)
(* PWR_systicks_bm.c (no operating system): the idle task puts the chip to *)
(* sleep and corrects the ticks of the operating system afterwards.        *)
(*                                                                         *)
(* The absolute times are left out: lag is how far the ticks are behind    *)
(* real time, remaining the ticks to the next timeout of a task. The idle  *)
(* task works with interrupts off, so tasks run only when pc is "run".     *)
(***************************************************************************)
EXTENDS Integers, FiniteSets, FiniteSetsExt

CONSTANTS Users,       \* tasks that forbid low power
          MaxCount,    \* limit of lpDisallowCount (255 in the code)
          Tick,        \* microseconds (counts) of a tick
          MaxIdle,     \* largest timeout of a task, in ticks
          Wakes,       \* times of the next radio event, 0 is none
          Latency,     \* how much later than planned the chip can wake up
          MaxLag       \* bound on the time that the ticks are behind

VARIABLES initialized, lpDisallowCount,
          forbids,    \* how often each user forbids low power
          timebase,   \* "freertos" or "bm"
          lag, remaining,
          error,      \* cumulatedErrorUs, accumulatedError
          pc,         \* run, enter, asleep, post
          expected,   \* expectedIdleTimeUs, 0 is no timeout
          timer,      \* wake-up timer, 0 is stopped
          radio,      \* next radio event, 0 is none
          slept       \* time spent in low power
vars == <<initialized, lpDisallowCount, forbids, timebase, lag, remaining, error,
          pc, expected, timer, radio, slept>>
sleepVars == <<expected, timer, radio, slept>>
countVars == <<initialized, lpDisallowCount, forbids, timebase>>

Init == /\ initialized = FALSE /\ lpDisallowCount = 0
        /\ forbids = [u \in Users |-> 0]
        /\ timebase \in {"freertos", "bm"}
        /\ lag = 0 /\ remaining = 0 /\ error = 0
        /\ pc = "run" /\ expected = 0 /\ timer = 0 /\ radio = 0 /\ slept = 0

PWR_Init == /\ pc = "run" /\ ~ initialized /\ initialized' = TRUE
            /\ UNCHANGED <<lpDisallowCount, forbids, timebase, lag, remaining, error, pc, sleepVars>>
--------------------------------------------------------------------------------
(* Mutant: the counter wraps at its limit.                                 *)
DisallowWrapping(u) ==
  /\ pc = "run" /\ forbids[u] < MaxCount
  /\ lpDisallowCount' = (lpDisallowCount + 1) % (MaxCount + 1)
  /\ forbids' = [forbids EXCEPT ![u] = @ + 1]
  /\ UNCHANGED <<initialized, timebase, lag, remaining, error, pc, sleepVars>>

(* PWR_DisallowDeviceToSleep: past the limit an assertion stops.           *)
Disallow(u) == /\ pc = "run" /\ lpDisallowCount # MaxCount
               /\ lpDisallowCount' = lpDisallowCount + 1
               /\ forbids' = [forbids EXCEPT ![u] = @ + 1]
               /\ UNCHANGED <<initialized, timebase, lag, remaining, error, pc, sleepVars>>

(* PWR_AllowDeviceToSleep by a user that has forbidden it.                 *)
Allow(u) == /\ pc = "run" /\ forbids[u] > 0 /\ lpDisallowCount > 0
            /\ lpDisallowCount' = lpDisallowCount - 1
            /\ forbids' = [forbids EXCEPT ![u] = @ - 1]
            /\ UNCHANGED <<initialized, timebase, lag, remaining, error, pc, sleepVars>>

(* A task that waits until a timeout, and a tick of the running chip; the  *)
(* time of the tick and its count go together.                             *)
Delay == /\ pc = "run" /\ remaining = 0
         /\ \E n \in 1 .. MaxIdle : remaining' = n
         /\ UNCHANGED <<countVars, lag, error, pc, sleepVars>>
TickInterrupt == /\ pc = "run" /\ remaining > 0
                 /\ remaining' = remaining - 1
                 /\ UNCHANGED <<countVars, lag, error, pc, sleepVars>>

(* vTaskStepTick, OSA_UpdateSysTickCounter: n ticks at once.               *)
StepTick(n) == /\ lag' = lag - n * Tick
               /\ remaining' = IF remaining = 0 THEN 0 ELSE remaining - n

(* PWR_SysticksPreProcess compensates the whole ticks of the error, as far *)
(* as the idle time allows, and then does not sleep.                       *)
Compensate == /\ pc = "run" /\ timebase = "freertos" /\ error >= Tick
              /\ LET n == IF remaining = 0 THEN error \div Tick
                         ELSE Min({error \div Tick, remaining})
                 IN StepTick(n) /\ error' = error - n * Tick
              /\ UNCHANGED <<countVars, pc, sleepVars>>

(* PWR_SysticksPreProcess stops the ticks; without a timeout the idle time *)
(* is without end.                                                         *)
PreProcess == /\ pc = "run" /\ timebase = "freertos" /\ error < Tick
              /\ expected' = remaining * Tick
              /\ pc' = "enter"
              /\ UNCHANGED <<countVars, lag, remaining, error, timer, radio, slept>>

(* Without an operating system the idle loop sleeps with the time to its   *)
(* next timer; a pending tick is counted before the ticks stop.            *)
PreProcessBm == /\ pc = "run" /\ timebase = "bm"
                /\ expected' = remaining * Tick
                /\ pc' = "enter"
                /\ UNCHANGED <<countVars, lag, remaining, error, timer, radio, slept>>

(* PWR_GetMinValue: 0 is no timeout.                                       *)
MinTimeout(os, air) == IF os = 0 THEN air ELSE IF air = 0 THEN os ELSE Min({os, air})

(* Mutant: the timer is left to the radio whenever that has an event.      *)
SleepNoTimer(air) == timer' = IF air = 0 THEN expected ELSE 0

(* The timer is started only when the next event is one of the tasks.      *)
WakeUpTimer(air) == timer' = IF MinTimeout(expected, air) = expected THEN expected ELSE 0

(* PWR_EnterLowPower, up to PM_EnterLowPower; low power may be forbidden.  *)
EnterLowPower ==
  /\ pc = "enter" /\ initialized /\ lpDisallowCount = 0
  /\ \E air \in Wakes : radio' = air /\ WakeUpTimer(air)
  /\ pc' = "asleep" /\ slept' = 0
  /\ UNCHANGED <<countVars, lag, remaining, error, expected>>
NotAllowed == /\ pc = "enter" /\ ~ (initialized /\ lpDisallowCount = 0)
              /\ pc' = "post" /\ slept' = 0
              /\ UNCHANGED <<countVars, lag, remaining, error, expected, timer, radio>>

(* The chip wakes up for the event or for an interrupt before it, later    *)
(* by what it needs to wake up; the timer is stopped.                      *)
WakeUp ==
  LET event == MinTimeout(timer, radio)
      limit == IF event = 0 THEN MaxIdle * Tick ELSE event
  IN /\ pc = "asleep"
     /\ \E t \in 0 .. limit + Latency : /\ slept' = t /\ lag' = lag + t
                                        /\ lag' <= MaxLag
     /\ timer' = 0 /\ radio' = 0 /\ pc' = "post"
     /\ UNCHANGED <<countVars, remaining, error, expected>>

(* Mutant: the time that is not a whole tick is dropped.                   *)
PostProcessTruncating ==
  /\ pc = "post" /\ timebase = "freertos"
  /\ IF slept > expected /\ expected > 0
     THEN error' = error + slept - expected /\ StepTick(expected \div Tick)
     ELSE UNCHANGED error /\ StepTick(slept \div Tick)
  /\ pc' = "run" /\ expected' = 0 /\ slept' = 0
  /\ UNCHANGED <<countVars, timer, radio>>

(* PWR_SysticksPostProcess: the ticks advance by the time slept, but not   *)
(* past the idle time; what is left is an error of the next idle times.    *)
PostProcess ==
  /\ pc = "post" /\ timebase = "freertos"
  /\ IF slept > expected /\ expected > 0
     THEN error' = error + slept - expected /\ StepTick(expected \div Tick)
     ELSE error' = error + (slept % Tick) /\ StepTick(slept \div Tick)
  /\ pc' = "run" /\ expected' = 0 /\ slept' = 0
  /\ UNCHANGED <<countVars, timer, radio>>

(* Without an operating system: whole ticks of the time and of the error;  *)
(* the timers it serves are looked at afterwards.                          *)
PostProcessBm ==
  /\ pc = "post" /\ timebase = "bm"
  /\ LET n == (error + slept) \div Tick
     IN /\ lag' = lag - n * Tick
        /\ remaining' = IF n > remaining THEN 0 ELSE remaining - n
        /\ error' = (error + slept) - n * Tick
  /\ pc' = "run" /\ expected' = 0 /\ slept' = 0
  /\ UNCHANGED <<countVars, timer, radio>>

Idle == \/ Compensate \/ PreProcess \/ PreProcessBm \/ EnterLowPower \/ NotAllowed
        \/ WakeUp \/ PostProcess \/ PostProcessBm
Next == \/ PWR_Init \/ Delay \/ TickInterrupt \/ Idle
        \/ \E u \in Users : Disallow(u) \/ Allow(u)

Spec == Init /\ [][Next]_vars
--------------------------------------------------------------------------------
TypeOK == /\ initialized \in BOOLEAN /\ lpDisallowCount \in 0 .. MaxCount
          /\ forbids \in [Users -> 0 .. MaxCount]
          /\ timebase \in {"freertos", "bm"}
          /\ lag \in 0 .. MaxLag /\ error \in 0 .. MaxLag
          /\ remaining \in 0 .. MaxIdle
          /\ pc \in {"run", "enter", "asleep", "post"}
          /\ expected \in 0 .. MaxIdle * Tick /\ timer \in {0, expected}
          /\ radio \in Wakes /\ slept \in 0 .. MaxIdle * Tick + Latency

(* The error that is kept for the next idle times is what the ticks are    *)
(* behind real time: no sleep is lost and none is counted twice, and a     *)
(* wake-up that is late does not step the ticks past the next timeout.     *)
ErrorIsLag == /\ pc # "post" => lag = error
              /\ remaining >= 0

(* The chip sleeps only when every user that forbade it has allowed it.    *)
SleepAllowed == pc = "asleep" => \A u \in Users : forbids[u] = 0

(* While the chip sleeps, the timer or an earlier radio event wakes it up  *)
(* for the next timeout.                                                   *)
TimeoutWakes == pc = "asleep" /\ expected > 0 =>
                  timer = expected \/ (radio > 0 /\ radio < expected)
================================================================================
