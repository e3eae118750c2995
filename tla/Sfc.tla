---------------------------------- MODULE Sfc ----------------------------------
(***************************************************************************)
(* services/SFC/fwk_rf_sfc.c: the radio core measures the error of the     *)
(* 32 kHz clock, filters and trims it. The idle task runs SFC_Process, the *)
(* measurement unit (SFA) interrupts it when a measurement is complete. An *)
(* armed measurement starts at the next wake-up from low power and, as in  *)
(* PLATFORM_LowPowerModeAllowed, is not busy before that.                  *)
(*                                                                         *)
(* The error counts in steps of the trimming value. Whether the time of    *)
(* the last calibration is long ago, and whether the host keeps the radio  *)
(* core awake, is left open.                                               *)
(***************************************************************************)
EXTENDS Integers

CONSTANTS MaxDrift,   \* largest error the clock drifts to
          Target,     \* ppmTarget
          Shift,      \* log2 of the filter's size
          Configs     \* values of trigSampleNumber that the host sets

VARIABLES error,      \* of the clock, as a measurement finds it
          drifting,   \* the error may still change by itself
          radio,      \* the link layer has an event scheduled
          oscReady, osc32kUsed, osc32kSwitchPending,
          enable, hostLpConstraintCount, measureAvailable, ppm, ppmTargetReached,
          sampleNumber, sum,   \* filterState
          trigSampleNumber,
          sfa,        \* idle, armed, measuring, off
          pc          \* of the idle task: run, disable, restart, switch
vars == <<error, drifting, radio, oscReady, osc32kUsed, osc32kSwitchPending, enable,
          hostLpConstraintCount, measureAvailable, ppm, ppmTargetReached, sampleNumber, sum,
          trigSampleNumber, sfa, pc>>
clockVars == <<drifting, radio, oscReady, trigSampleNumber>>
oscVars == <<osc32kUsed, osc32kSwitchPending>>
filterVars == <<sampleNumber, sum>>

FilterSize == 2 ^ Shift
Abs(n) == IF n < 0 THEN - n ELSE n
Errors == - (MaxDrift + 1) .. MaxDrift + 1

TypeOK == /\ error \in Errors /\ drifting \in BOOLEAN /\ radio \in BOOLEAN
          /\ oscReady \in BOOLEAN /\ osc32kUsed \in BOOLEAN /\ osc32kSwitchPending \in BOOLEAN
          /\ enable \in BOOLEAN /\ hostLpConstraintCount \in Nat
          /\ measureAvailable \in BOOLEAN /\ ppm \in Errors /\ ppmTargetReached \in BOOLEAN
          /\ sampleNumber \in 0 .. FilterSize /\ sum \in - FilterSize * (MaxDrift + 1) .. FilterSize * (MaxDrift + 1)
          /\ trigSampleNumber \in 1 .. FilterSize
          /\ sfa \in {"idle", "armed", "measuring", "off"}
          /\ pc \in {"run", "disable", "restart", "switch"}

(* SFC_Init has measured and trimmed until the error was in the target.    *)
Init == /\ error \in - Target .. Target /\ ppm = error /\ drifting = TRUE /\ radio = TRUE
        /\ oscReady = FALSE /\ osc32kUsed = FALSE /\ osc32kSwitchPending \in BOOLEAN
        /\ enable = TRUE /\ hostLpConstraintCount = 1 /\ measureAvailable = FALSE
        /\ ppmTargetReached = TRUE /\ sampleNumber = 0 /\ sum = 0
        /\ trigSampleNumber \in Configs /\ sfa = "measuring" /\ pc = "run"
--------------------------------------------------------------------------------
(* The clock, the link layer and the crystal oscillator.                   *)
Drift == /\ drifting
         /\ \E d \in {-1, 1} : Abs(error + d) <= MaxDrift /\ error' = error + d
         /\ UNCHANGED <<clockVars, oscVars, enable, hostLpConstraintCount, measureAvailable, ppm,
                        ppmTargetReached, filterVars, sfa, pc>>
Environment == /\ \/ drifting' = FALSE /\ UNCHANGED <<radio, oscReady>>
                  \/ radio' = ~ radio /\ UNCHANGED <<drifting, oscReady>>
                  \/ oscReady' = TRUE /\ UNCHANGED <<drifting, radio>>
               /\ UNCHANGED <<error, oscVars, enable, hostLpConstraintCount, measureAvailable, ppm,
                              ppmTargetReached, filterVars, trigSampleNumber, sfa, pc>>

(* SFC_UpdateConfig with another number of samples; it is at most the size *)
(* of the filter, which stays.                                             *)
SFC_UpdateConfig == /\ \E n \in Configs : trigSampleNumber' = IF n >= FilterSize THEN FilterSize ELSE n
                    /\ UNCHANGED <<error, drifting, radio, oscReady, oscVars, enable, hostLpConstraintCount,
                                   measureAvailable, ppm, ppmTargetReached, filterVars, sfa, pc>>

(* The radio core sleeps unless a measurement is on or waits to be used; a *)
(* wake-up starts the armed one.                                           *)
LowPower == /\ pc = "run" /\ sfa = "armed" /\ ~ measureAvailable
            /\ sfa' = "measuring"
            /\ UNCHANGED <<error, clockVars, oscVars, enable, hostLpConstraintCount, measureAvailable, ppm,
                           ppmTargetReached, filterVars, pc>>

(* SFC_MeasureCallback and SFC_ComputeMMA, at any time.                    *)
Average(sample) == IF sampleNumber = 0 THEN sample * FilterSize
                   ELSE sum - (sum \div FilterSize) + sample
MeasureCallback == /\ sfa = "measuring" /\ sfa' = "idle"
                   /\ sum' = Average(error)
                   /\ sampleNumber' = IF sampleNumber < FilterSize THEN sampleNumber + 1 ELSE sampleNumber
                   /\ ppm' = sum' \div FilterSize
                   /\ measureAvailable' = TRUE
                   /\ UNCHANGED <<error, clockVars, oscVars, enable, hostLpConstraintCount,
                                  ppmTargetReached, pc>>

(* The measurement has failed: its result is dropped.                      *)
MeasureFails == /\ sfa = "measuring" /\ sfa' = "idle"
                /\ UNCHANGED <<error, clockVars, oscVars, enable, hostLpConstraintCount, measureAvailable,
                               ppm, ppmTargetReached, filterVars, pc>>
--------------------------------------------------------------------------------
(* SFC_StartCalibration: at the next wake-up when the target is reached,   *)
(* enough samples are in the filter and the host lets the core sleep.      *)
Start(reached, samples) ==
  \E awake \in BOOLEAN : sfa' = IF reached /\ ~ awake /\ samples >= trigSampleNumber THEN "armed" ELSE "measuring"

(* Mutant: the host is constrained again each time.                        *)
EnableAgain == enable' = TRUE /\ hostLpConstraintCount' = hostLpConstraintCount + 1

(* SFC_Enable(true), and SFC_HandleHostLowPowerConstraint.                 *)
Enable == /\ enable' = TRUE
          /\ hostLpConstraintCount' = IF enable THEN hostLpConstraintCount ELSE hostLpConstraintCount + 1

(* SFC_Enable(false) up to its last assignments, which an interrupt may    *)
(* come in front of; a measurement is aborted when it is on.               *)
Disable(after) ==
  IF enable
  THEN /\ hostLpConstraintCount' = hostLpConstraintCount - 1 /\ measureAvailable' = FALSE
       /\ pc' = after /\ UNCHANGED <<enable, sfa>>
  ELSE /\ sfa' = (IF sfa = "measuring" THEN "idle" ELSE sfa)
       /\ UNCHANGED <<hostLpConstraintCount, measureAvailable, enable, pc>>

EndDisable == /\ pc = "disable"
              /\ enable' = FALSE /\ sfa' = (IF sfa = "measuring" THEN "idle" ELSE sfa)
              /\ pc' = "run"
              /\ UNCHANGED <<error, clockVars, oscVars, hostLpConstraintCount, measureAvailable, ppm,
                             ppmTargetReached, filterVars>>

(* SFC_Process without an event of the link layer.                         *)
ProcessIdle == /\ pc = "run" /\ ~ radio
               /\ Disable("disable")
               /\ UNCHANGED <<error, clockVars, oscVars, ppm, ppmTargetReached, filterVars>>

(* Enabled again, a measurement is started.                                *)
ProcessEnable == /\ pc = "run" /\ radio /\ ~ osc32kUsed /\ ~ enable /\ ~ measureAvailable
                 /\ Enable /\ Start(ppmTargetReached, sampleNumber)
                 /\ UNCHANGED <<error, clockVars, oscVars, measureAvailable, ppm, ppmTargetReached, filterVars, pc>>

(* Mutant: the trimming value only goes one way.                           *)
TrimDown == error' = IF ppm > 0 THEN error - 1 ELSE error
Trim == error' = IF ppm > 0 THEN error - 1 ELSE error + 1

(* SFC_Calibrate trims by a step and empties the filter; then the next     *)
(* measurement is started. The clock source is still this clock.           *)
Calibrate == /\ pc = "run" /\ radio /\ ~ osc32kUsed /\ measureAvailable
             /\ Enable
             /\ IF Abs(ppm) > Target
                THEN /\ Trim /\ ppmTargetReached' = FALSE
                     /\ sampleNumber' = 0 /\ sum' = 0
                ELSE ppmTargetReached' = TRUE /\ UNCHANGED <<error, filterVars>>
             /\ IF enable THEN UNCHANGED sfa ELSE Start(ppmTargetReached, sampleNumber)
             /\ pc' = "restart"
             /\ UNCHANGED <<clockVars, oscVars, measureAvailable, ppm>>
Restart == /\ pc = "restart"
           /\ measureAvailable' = FALSE /\ Start(ppmTargetReached, sampleNumber) /\ pc' = "run"
           /\ UNCHANGED <<error, clockVars, oscVars, enable, hostLpConstraintCount, ppm, ppmTargetReached, filterVars>>

(* The last calibration is long ago: at once, and with an empty filter.    *)
Overdue == /\ pc = "run" /\ radio /\ ~ osc32kUsed /\ enable /\ ~ measureAvailable
           /\ sfa # "measuring"
           /\ sampleNumber' = 0 /\ sum' = 0 /\ Start(ppmTargetReached, 0)
           /\ UNCHANGED <<error, clockVars, oscVars, enable, hostLpConstraintCount, measureAvailable,
                          ppm, ppmTargetReached, pc>>

(* The crystal is ready and becomes the clock; the measurement unit stops. *)
Switch == /\ pc = "run" /\ osc32kSwitchPending /\ oscReady
          /\ osc32kSwitchPending' = FALSE /\ osc32kUsed' = TRUE
          /\ pc' = "switch"
          /\ IF enable THEN hostLpConstraintCount' = hostLpConstraintCount - 1 /\ measureAvailable' = FALSE
             ELSE UNCHANGED <<hostLpConstraintCount, measureAvailable>>
          /\ UNCHANGED <<error, clockVars, ppm, ppmTargetReached, filterVars, enable, sfa>>
EndSwitch == /\ pc = "switch"
             /\ enable' = FALSE /\ sfa' = "off" /\ pc' = "run"
             /\ UNCHANGED <<error, clockVars, oscVars, hostLpConstraintCount, measureAvailable, ppm,
                            ppmTargetReached, filterVars>>

Process == \/ ProcessIdle \/ EndDisable \/ ProcessEnable \/ Calibrate \/ Restart
           \/ Switch \/ EndSwitch
Next == \/ Drift \/ Environment \/ SFC_UpdateConfig \/ LowPower \/ MeasureCallback \/ MeasureFails
        \/ Process \/ Overdue
Spec == Init /\ [][Next]_vars

(* The idle task runs, measurements that are started again and again       *)
(* succeed at last, and a calibration that is long ago is repeated at last, *)
(* also when no wake-up starts the armed one.                              *)
Fairness == SF_vars(MeasureCallback) /\ WF_vars(Process) /\ WF_vars(Overdue)
FairSpec == Spec /\ Fairness
--------------------------------------------------------------------------------
(* The host's low power is constrained exactly while the clock is measured *)
(* and trimmed.                                                            *)
ConstrainedWhileEnabled == pc \in {"run", "restart"} => hostLpConstraintCount = IF enable THEN 1 ELSE 0

(* A clock that does not drift any more, with a radio that goes on working *)
(* and no crystal to replace it, gets into the target and stays there.     *)
Calibrated == <>[](~ drifting /\ radio /\ ~ osc32kUsed) => <>[](Abs(error) <= Target)
================================================================================
