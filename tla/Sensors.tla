------------------------------- MODULE Sensors -------------------------------
(***************************************************************************)
(* services/Sensors/sensors.c and platform/wireless_mcu/                   *)
(* fwk_platform_sensors.c: temperature and battery measurements of several *)
(* tasks, of the radio core (NBU) and of a periodic timer, on one ADC.     *)
(*                                                                         *)
(* The system work queue runs the two work items of the sensors; the ADC   *)
(* interrupt, the timer and the request of the radio core come at any      *)
(* time. Measured values are left out. The ADC is initialised, so that a   *)
(* measurement does not wait for its calibration.                          *)
(***************************************************************************)
EXTENDS Integers, Sequences, SequencesExt

CONSTANTS Tasks,         \* application tasks
          Calls,         \* the functions they call
          Requests,      \* intervals the radio core asks for
          Samples,       \* what the ADC interrupt reads
          MaxConstraint, \* bound on the constraints entered and not left
          NoOne          \* not a thread

Never == "never"    \* VALUE_NOT_AVAILABLE_32: no interval, or a timer of 2^32 - 1 ms
Workq == "workq"    \* the thread of the system work queue
Threads == Tasks \cup {Workq}

VARIABLES status,     \* measurement_status
          interval,   \* CurrentTemperatureMeasIntervalMs
          timer,      \* mTempSensorTimer: not running, or what it was started with
          constraint, \* low-power constraints entered and not left
          conversion, \* temperature_status is TEMPERATURE_REQ_ONGOING
          works,      \* works in the system work queue
          mutex,      \* who holds mADCMutexId
          pc,         \* where each thread is
          seen        \* a refresh has found an interval to wait for
vars == <<status, interval, timer, constraint, conversion, works, mutex, pc, seen>>

Work == {"trigger", "ready"}

TypeOK == /\ status \in {"idle", "temperature", "battery"}
          /\ interval \in {Never, "period"}
          /\ timer \in {"off", "retry", "period", Never}
          /\ constraint \in 0 .. MaxConstraint
          /\ conversion \in BOOLEAN
          /\ works \in Seq(Work) /\ Len(works) <= 2
          /\ mutex \in Threads \cup {NoOne}
          /\ pc \in [Threads -> {"ready", "temperature", "battery", "refresh",
                                 "refreshBattery", "wait", "restart", "finish"}]
          /\ seen \in BOOLEAN

Init == /\ status = "idle" /\ interval = Never /\ timer = "off"
        /\ constraint = 0 /\ conversion = FALSE
        /\ works = <<>>
        /\ mutex = NoOne
        /\ pc = [t \in Threads |-> "ready"]
        /\ seen = FALSE
-----------------------------------------------------------------------------
Goto(t, label) == pc' = [pc EXCEPT ![t] = label]

(* Mutant: one flag for the works, not one each.                           *)
SubmitOne(w) == works' = IF works # <<>> THEN works ELSE Append(works, w)

(* WORKQ_Submit: a work already queued stays where it is.                  *)
Submit(w) == works' = IF Contains(works, w) THEN works ELSE Append(works, w)

(* A call of a task, up to the lock: the measurements look at the status.  *)
Call(t) == /\ t \in Tasks /\ pc[t] = "ready"
           /\ \E f \in Calls \ {"unsafe"} :
                /\ f \in {"temperature", "battery"} => status = "idle"
                /\ Goto(t, f)
           /\ UNCHANGED <<status, interval, timer, constraint, conversion, works, mutex, seen>>

(* Mutant: the status is not looked at again.                              *)
StartTemperatureBlind == /\ constraint < MaxConstraint
                         /\ status' = "temperature"
                         /\ constraint' = constraint + 1
                         /\ conversion' = TRUE

(* SENSORS_TriggerTemperatureMeasurementUnsafe.                            *)
StartTemperature == \/ /\ status = "idle" /\ constraint < MaxConstraint
                       /\ status' = "temperature"
                       /\ constraint' = constraint + 1
                       /\ conversion' = TRUE
                    \/ status # "idle" /\ UNCHANGED <<status, constraint, conversion>>

Temperature(t) == /\ pc[t] = "temperature" /\ mutex = NoOne
                  /\ StartTemperature
                  /\ Goto(t, "ready")
                  /\ UNCHANGED <<interval, timer, works, mutex, seen>>

(* The unsafe call, made with interrupts masked, takes no lock.            *)
Unsafe == /\ "unsafe" \in Calls
          /\ StartTemperature
          /\ UNCHANGED <<interval, timer, works, mutex, pc, seen>>

(* SENSORS_TriggerBatteryMeasurement, locked, does not look again.         *)
Battery(t) == /\ pc[t] = "battery" /\ mutex = NoOne /\ constraint < MaxConstraint
              /\ status' = "battery"
              /\ constraint' = constraint + 1
              /\ Goto(t, "ready")
              /\ UNCHANGED <<interval, timer, conversion, works, mutex, seen>>

RefreshBattery(t) ==
  /\ pc[t] = "refreshBattery" /\ mutex = NoOne
  /\ \/ status = "battery" /\ status' = "idle" /\ constraint' = constraint - 1
     \/ status # "battery" /\ UNCHANGED <<status, constraint>>
  /\ Goto(t, "ready")
  /\ UNCHANGED <<interval, timer, conversion, works, mutex, seen>>
-----------------------------------------------------------------------------
(* SENSORS_RefreshTemperatureValue.                                        *)

(* Mutant: the status is not looked at.                                    *)
RefreshAlways(t) == /\ pc[t] = "refresh" /\ mutex = NoOne
                    /\ mutex' = t
                    /\ Goto(t, "wait")
                    /\ UNCHANGED <<status, interval, timer, constraint, conversion, works, seen>>

(* Nothing to refresh, or the lock is taken and the conversion waited for. *)
Refresh(t) == /\ pc[t] = "refresh" /\ mutex = NoOne
              /\ \/ /\ status # "temperature"
                    /\ Goto(t, "ready")
                    /\ UNCHANGED mutex
                 \/ /\ status = "temperature"
                    /\ mutex' = t
                    /\ Goto(t, "wait")
              /\ UNCHANGED <<status, interval, timer, constraint, conversion, works, seen>>

(* Mutant: the value is taken while the conversion is still going on.      *)
TakesEarly(t) == /\ pc[t] = "wait"
                 /\ constraint' = constraint - 1
                 /\ seen' = (interval # Never)
                 /\ Goto(t, "restart")
                 /\ UNCHANGED <<status, interval, timer, conversion, works, mutex>>

Wait(t) == /\ pc[t] = "wait" /\ ~conversion
           /\ constraint' = constraint - 1
           /\ seen' = (interval # Never)
           /\ Goto(t, "restart")
           /\ UNCHANGED <<status, interval, timer, conversion, works, mutex>>

(* Mutant: the timer is not started again.                                 *)
NotRestarted(t) == /\ pc[t] = "restart"
                   /\ timer' = "off"
                   /\ Goto(t, "finish")
                   /\ UNCHANGED <<status, interval, constraint, conversion, works, mutex, seen>>

(* The interval is read a second time to start the timer.                  *)
Restart(t) == /\ pc[t] = "restart"
              /\ timer' = IF seen THEN interval ELSE "off"
              /\ Goto(t, "finish")
              /\ UNCHANGED <<status, interval, constraint, conversion, works, mutex, seen>>

(* Mutant: the lock is not given back.                                     *)
FinishLocked(t) == /\ pc[t] = "finish"
                   /\ status' = "idle"
                   /\ Goto(t, "ready")
                   /\ UNCHANGED <<interval, timer, constraint, conversion, works, mutex, seen>>

Finish(t) == /\ pc[t] = "finish"
             /\ status' = "idle"
             /\ mutex' = NoOne
             /\ Goto(t, "ready")
             /\ UNCHANGED <<interval, timer, constraint, conversion, works, seen>>
-----------------------------------------------------------------------------
(* The thread of the work queue.                                           *)

(* Sensors_PeriodicTempWorkHandler measures, or tries again in 1 ms;       *)
(* PLATFORM_TemperatureReadyWorkHandler refreshes.                         *)
RunWork == /\ pc[Workq] = "ready" /\ works # <<>>
           /\ works' = Tail(works)
           /\ \/ /\ Head(works) = "ready"
                 /\ Goto(Workq, "refresh")
                 /\ UNCHANGED timer
              \/ /\ Head(works) = "trigger" /\ status = "idle"
                 /\ Goto(Workq, "temperature")
                 /\ UNCHANGED timer
              \/ /\ Head(works) = "trigger" /\ status # "idle"
                 /\ timer' = "retry"
                 /\ UNCHANGED pc
           /\ UNCHANGED <<status, interval, constraint, conversion, mutex, seen>>
-----------------------------------------------------------------------------
(* Interrupts, timer and radio core.                                       *)

(* ADC0_IRQHandler: a value that is no temperature is not reported.        *)
Converted == /\ conversion
             /\ conversion' = FALSE
             /\ \/ "valid" \in Samples /\ Submit("ready")
                \/ "invalid" \in Samples /\ UNCHANGED works
             /\ UNCHANGED <<status, interval, timer, constraint, mutex, pc, seen>>

Expire == /\ timer \in {"retry", "period"}
          /\ timer' = "off"
          /\ Submit("trigger")
          /\ UNCHANGED <<status, interval, constraint, conversion, mutex, pc, seen>>

(* Sensors_TemperatureReqCb: one measurement, or one every interval. The   *)
(* message of the radio core is a work of its own, or handled at once in   *)
(* the interrupt when no buffer is left: it may come at any time.          *)
Request(i) == /\ i \in Requests
              /\ interval' = i
              /\ Submit("trigger")
              /\ UNCHANGED <<status, timer, constraint, conversion, mutex, pc, seen>>
-----------------------------------------------------------------------------
Step(t) == \/ Temperature(t) \/ Battery(t) \/ RefreshBattery(t)
           \/ Refresh(t) \/ Wait(t) \/ Restart(t) \/ Finish(t)

Next == \/ \E t \in Threads : Call(t) \/ Step(t)
        \/ Unsafe
        \/ RunWork \/ Converted \/ Expire
        \/ \E i \in Requests : Request(i)

Spec == Init /\ [][Next]_vars

(* Threads go on with the calls they make, the work queue serves, the ADC  *)
(* converts and the timer expires.                                         *)
FairSpec == /\ Spec
            /\ \A t \in Threads : WF_vars(Step(t))
            /\ WF_vars(RunWork) /\ WF_vars(Converted) /\ WF_vars(Expire)
-----------------------------------------------------------------------------
Refreshed == \E t \in Threads : pc[t] \in {"restart", "finish"}

(* Low power is constrained once while a measurement is on and not at all  *)
(* otherwise, whoever starts and ends it: a constraint entered twice is    *)
(* left once and keeps the chip out of low power for good.                 *)
ConstrainedOnce == constraint = IF status = "idle" \/ Refreshed THEN 0 ELSE 1

(* Somebody will end the temperature measurement.                          *)
Attended == \/ conversion \/ Contains(works, "ready")
            \/ \E t \in Threads : pc[t] \in {"refresh", "wait", "restart", "finish"}

(* A temperature measurement has somebody who will end it: the conversion  *)
(* still to come, its work, or a thread that refreshes. Otherwise it would *)
(* stay ongoing and every later measurement would be ignored. (An invalid  *)
(* reading does that: the interrupt then submits no work.)                 *)
MeasurementEnds == status = "temperature" => Attended

(* The value is taken from a finished conversion, and none begins before   *)
(* the measurement has ended.                                              *)
ValueConverted == Refreshed => ~conversion

(* Again and again, no temperature measurement is on: it ends, whatever is *)
(* requested meanwhile, unless its reading is discarded.                   *)
MeasurementDone == status = "temperature" => ~Attended

(* Again and again, a temperature asked for periodically is being          *)
(* measured, until the radio core asks for something else. (sensors.c:131, *)
(* of a request with an interval: the refresh "will be called once the     *)
(* measurement is ready and will schedule the next measurement to be done  *)
(* after interval time".)                                                  *)
NextScheduled == interval = "period" => status = "temperature"
=============================================================================
