------------------------------ MODULE SleepTime ------------------------------
(***************************************************************************)
(* The wake-up timer and the duration of a sleep on the RW61x, whose timer *)
(* also measures the sleeps that stop the time stamps, on the MIMXRT595S,  *)
(* whose radio controller may refuse the sleep, and on the wireless MCUs,  *)
(* which leave the timer to the timer manager (external).                  *)
(*                                                                         *)
(* Time is in counts of 30.5 microseconds, that of the clock of the time   *)
(* stamps; the wake-up timer counts down once every Unit of them. Errors   *)
(* are in half microseconds.                                               *)
(***************************************************************************)
EXTENDS Integers

CONSTANTS Unit,      \* counts of a tick of the timer (32.8)
          MaxCount,  \* of the timer (65535)
          Moments,   \* values of a time stamp (2 ^ 44; 2 ^ 32 on the wireless MCUs)
          Stamps,    \* time stamps at which the chip may go to sleep
          Timeouts,  \* of the tasks, in ticks of the timer, 0 is none
          Events,    \* next radio event, in counts, 0 is none
          Latency    \* counts it takes to wake up

VARIABLES platform, pc,
          start, stop,    \* wakeUpTimerStartCount, wakeUpTimerStopCount
          wasPowerDown,
          boardSleep,     \* s_boardSleep: the controller lets the host sleep
          sleeps,         \* enterings less leavings the controller is told
          entry,          \* time stamp before the sleep
          timed,          \* the timer has been started for this sleep
          down,           \* it is a power down
          timeout, event, \* that end this sleep
          slept,          \* counts the chip has slept
          error,          \* of the duration measured
          stale           \* it comes from the timer of an earlier sleep

timerVars == <<start, stop>>
sleepVars == <<entry, timed, down, timeout, event>>
resultVars == <<slept, error, stale>>
vars == <<platform, pc, timerVars, wasPowerDown, boardSleep, sleeps, sleepVars, resultVars>>

TypeOK == /\ platform \in {"rw61x", "rt595", "wireless"} /\ pc \in {"awake", "asleep"}
          /\ start \in 0 .. MaxCount /\ stop \in 0 .. MaxCount + 1
          /\ wasPowerDown \in BOOLEAN /\ boardSleep \in BOOLEAN /\ sleeps \in {0, 1}
          /\ entry \in Stamps /\ timed \in BOOLEAN /\ down \in BOOLEAN
          /\ timeout \in Timeouts /\ event \in Events
          /\ slept \in Nat /\ error \in Int /\ stale \in BOOLEAN

None == CHOOSE s \in Stamps : TRUE

Init == /\ platform \in {"rw61x", "rt595", "wireless"} /\ pc = "awake"
        /\ start = 0 /\ stop = 0 /\ wasPowerDown = FALSE
        /\ boardSleep = FALSE /\ sleeps = 0
        /\ entry = None /\ timed = FALSE /\ down = FALSE /\ timeout = 0 /\ event = 0
        /\ slept = 0 /\ error = 0 /\ stale = FALSE
------------------------------------------------------------------------------
(* Mutant: a count too large for the timer is cut, on the RW61x too.        *)
CountCut(ticks) == ticks % (MaxCount + 1)

(* What the timer is started with: the largest count, or the low bits.      *)
StartCount(ticks) ==
  IF platform = "rt595" THEN ticks % (MaxCount + 1)
  ELSE IF ticks >= MaxCount THEN MaxCount ELSE ticks

(* The timer is started when the tasks' timeout is the next event. The      *)
(* MIMXRT595S cannot start it with a timeout whose low bits are 0.          *)
TimeoutIsNext(t, e) == t > 0 /\ (e = 0 \/ t * Unit <= e)
StartWakeUpTimer(t, e) ==
  IF TimeoutIsNext(t, e)
  THEN /\ timed' = TRUE
       /\ platform = "rt595" => StartCount(t) > 0
       /\ start' = IF platform = "wireless" THEN start ELSE StartCount(t)
  ELSE timed' = FALSE /\ UNCHANGED start

(* Mutant: a refusal does not clear what the last sleep has left.          *)
AskForgetful(allowed) ==
  /\ boardSleep' = (boardSleep \/ allowed)
  /\ sleeps' = IF allowed THEN sleeps + 1 ELSE sleeps

(* The controller of the MIMXRT595S is asked; a host it lets sleep tells it. *)
AskController(allowed) ==
  /\ boardSleep' = allowed
  /\ sleeps' = IF allowed THEN sleeps + 1 ELSE sleeps

(* PWR_EnterLowPower with the callback of the platform; the RW61x takes note *)
(* of a power down when it is to enter it.                                 *)
EnterLowPower(stamp, t, e, deep) ==
  /\ pc = "awake" /\ pc' = "asleep"
  /\ StartWakeUpTimer(t, e)
  /\ entry' = stamp /\ timeout' = t /\ event' = e /\ down' = deep
  /\ wasPowerDown' = (wasPowerDown \/ (platform = "rw61x" /\ deep))
  /\ IF platform = "rt595" THEN \E allowed \in BOOLEAN : AskController(allowed)
     ELSE UNCHANGED <<boardSleep, sleeps>>
  /\ slept' = 0 /\ error' = 0 /\ stale' = FALSE
  /\ UNCHANGED <<platform, stop>>
------------------------------------------------------------------------------
(* Decrements of the timer in n counts, when the first comes after f.       *)
Decrements(n, f) == IF n < f THEN 0 ELSE 1 + (n - f) \div Unit

(* When it reaches 0; one started with 0 never does.                       *)
Fires(f) == f + (start - 1) * Unit

(* Mutant: the timer is read once; the first value may be wrong.            *)
ReadOnce(n, f) ==
  stop' \in {IF Decrements(n, f) >= start THEN 0 ELSE start - Decrements(n, f), start + 1}

(* PLATFORM_StopWakeUpTimer reads again while it gets more than the start.  *)
ReadStopCount(n, f) ==
  stop' = IF Decrements(n, f) >= start THEN 0 ELSE start - Decrements(n, f)

StopWakeUpTimer(n, f) ==
  IF timed /\ platform # "wireless" THEN ReadStopCount(n, f) ELSE UNCHANGED stop

Us(counts) == (61 * counts) \div 2
TimerUs(ticks) == (61 * Unit * ticks) \div 2
MaxTimeStamp == Moments - 1

(* Mutant: the power down is not forgotten when it has been measured.       *)
Remembered == wasPowerDown' = wasPowerDown

Forgotten == wasPowerDown' = FALSE

(* PLATFORM_GetLowPowerDurationUs: the timer's ticks after a power down of   *)
(* the RW61x, else the difference of the stamps, that may have wrapped.      *)
Duration(exit) ==
  IF wasPowerDown THEN TimerUs(start') - TimerUs(stop')
  ELSE IF Us(exit) < Us(entry) THEN Us(MaxTimeStamp) - Us(entry) + Us(exit)
  ELSE Us(exit) - Us(entry)

GetLowPowerDuration(n) ==
  /\ error' = 2 * Duration((entry + n) % Moments) - 61 * n
  /\ stale' = (platform = "rw61x" /\ down /\ ~ timed)
  /\ Forgotten

(* The timer, a radio event or another interrupt ends the sleep.            *)
MayWake(n, f) ==
  /\ event > 0 => n <= event + Latency
  /\ timed => CASE platform = "wireless" -> n <= timeout * Unit + Latency
                [] start > 0 -> n <= Fires(f) + Latency
                [] OTHER -> TRUE
  /\ (platform = "rt595" /\ ~ boardSleep) => n = 0

(* The controller of the MIMXRT595S is told only of a sleep it has allowed.  *)
LeaveController ==
  sleeps' = IF platform = "rt595" /\ boardSleep THEN sleeps - 1 ELSE sleeps

ExitLowPower(n, f) ==
  /\ pc = "asleep" /\ MayWake(n, f)
  /\ pc' = "awake" /\ slept' = n
  /\ UNCHANGED start
  /\ StopWakeUpTimer(n, f)
  /\ GetLowPowerDuration(n)
  /\ LeaveController
  /\ UNCHANGED <<platform, boardSleep, sleepVars>>

Next == \/ \E stamp \in Stamps, t \in Timeouts, e \in Events, deep \in BOOLEAN :
             EnterLowPower(stamp, t, e, deep)
        \/ \E n \in 0 .. MaxTimeStamp, f \in 1 .. Unit : ExitLowPower(n, f)

Spec == Init /\ [][Next]_vars
------------------------------------------------------------------------------
(* A sleep is measured right but for a count of the time stamps, or, on the *)
(* RW61x after a power down, a tick of the timer and the time to wake up;   *)
(* a power down without the timer is not measured at all.                  *)
DurationRight ==
  LET bound == IF platform = "rw61x" /\ timed THEN 61 * (Unit + Latency) ELSE 61 * 2
  IN ~ stale => error \in 1 - bound .. bound - 1

(* A sleep that the timer is to end does not last past the timeout.         *)
WokenInTime == timed => slept <= timeout * Unit + Latency

(* The controller of the radio is told of the end of exactly the sleeps it  *)
(* has been told of, whichever of them it refuses.                         *)
ControllerPaired == sleeps >= 0 /\ (pc = "awake" => sleeps = 0)
==============================================================================
