---------------------------------- MODULE Cpu2 ----------------------------------
(***************************************************************************)
(* platform/rw61x/fwk_platform_ble.c, _ot.c, _hdlc.c, _zb.c, _coex.c: the  *)
(* start, end and reset of CPU2, which runs the controllers of BLE and     *)
(* 802.15.4, its sleep, and the messages to it.                            *)
(*                                                                         *)
(* The image loader, the channels of the IMU (IMUMC) and CPU2 are external *)
(* and taken as the code uses them: CPU2 sleeps by itself when auto sleep  *)
(* is on, not while PMU holds it awake; it tells the host of its sleep,    *)
(* and when it wakes sends something. Starts and resets come from one      *)
(* task while no message is being sent (PLATFORM_InitBle creates its mutex *)
(* at each call, so that it keeps no other caller out). PLATFORM_IsBleAwake *)
(* is one step. The retries for the link are left out, it is up.           *)
(***************************************************************************)
EXTENDS Integers, Sequences

CONSTANTS Chunks,      \* parts of the longest HDLC message
          MaxPackets,  \* bound on the packets under way to the host
          MaxFailures  \* bound on the calls of the loader and of the IMU that fail

VARIABLES host,        \* what the start and reset functions keep, see Hosts
          failures,
          power,       \* of CPU2: off, on, asleep
          autoSleep,   \* CPU2 may sleep by itself
          wakeup,      \* the wake-up bit of PMU
          event,       \* ble_awake_event in wakeUpEventGroup
          toHost,      \* packets of CPU2 under way
          mutex,       \* who has bleMutexHandle
          pc, left,    \* of each sender: where it is, chunks left to send
          how,         \* how its request has ended: woken, or anything else
          released     \* another sender has cleared the bit since
vars == <<host, failures, power, autoSleep, wakeup, event, toHost, mutex, pc, left, how, released>>
senderVars == <<wakeup, event, mutex, pc, left, how, released>>

Senders == {"ble", "hdlc"}
Packets == {"data", "asleep", "awake"}
Hosts == [cpu2 : {"off", "ble", "combo"}, running : SUBSET {"ble", "802.15.4"},
          ble : BOOLEAN, ot : BOOLEAN, hci : BOOLEAN,  \* initialized, initialized, hciInitialized
          channels : SUBSET Senders, link : BOOLEAN,   \* of IMUMC; the IMU is initialised
          half : BOOLEAN,      \* an end has failed, CPU2 being off already
          bleFirst : BOOLEAN,  \* 802.15.4 was started with the firmware of BLE running
          blePowerState : {"on", "asleep"},
          ok : BOOLEAN,        \* the call under way has succeeded so far
          fresh : BOOLEAN,     \* it has loaded CPU2
          auto : BOOLEAN]      \* it has sent PLATFORM_EnableBleLowPower

TypeOK == /\ host \in Hosts /\ failures \in 0 .. MaxFailures
          /\ power \in {"off", "on", "asleep"} /\ autoSleep \in BOOLEAN
          /\ wakeup \in BOOLEAN /\ event \in BOOLEAN
          /\ toHost \in Seq(Packets) /\ Len(toHost) <= MaxPackets
          /\ mutex \in Senders \cup {"nobody"}
          /\ pc \in [Senders -> {"idle", "check", "clear", "wait", "send", "release"}]
          /\ left \in [Senders -> 0 .. Chunks]
          /\ how \in [Senders -> {"other", "woken"}]
          /\ released \in [Senders -> BOOLEAN]

Init == /\ host = [cpu2 |-> "off", running |-> {}, ble |-> FALSE, ot |-> FALSE, hci |-> FALSE,
                   channels |-> {}, link |-> FALSE, half |-> FALSE, bleFirst |-> FALSE,
                   blePowerState |-> "on", ok |-> TRUE, fresh |-> FALSE, auto |-> FALSE]
        /\ failures = 0 /\ power = "off" /\ autoSleep = FALSE
        /\ wakeup = FALSE /\ event = FALSE /\ toHost = <<>> /\ mutex = "nobody"
        /\ pc = [t \in Senders |-> "idle"] /\ left = [t \in Senders |-> 0]
        /\ how = [t \in Senders |-> "other"] /\ released = [t \in Senders |-> FALSE]
--------------------------------------------------------------------------------
(* The functions map what the host keeps, h, to what they leave. f is the  *)
(* call that fails, if any: of the loader, or of a channel's start or end. *)
Failed(h) == [h EXCEPT !.ok = FALSE]

(* What remains to be done of a function, if what was done has succeeded.  *)
InitControllers(h, protocols, f) ==
    IF h.running # {} THEN h
    ELSE IF f = "load" THEN Failed(h)
    ELSE IF protocols = {"ble"} THEN [h EXCEPT !.cpu2 = "ble", !.running = {"ble"}, !.fresh = TRUE]
    ELSE [h EXCEPT !.cpu2 = "combo", !.running = {"ble", "802.15.4"}, !.fresh = TRUE]
TerminateControllers(h) == [h EXCEPT !.cpu2 = "off", !.running = {}]

InitImumc(h, channel, f) ==
    IF f = "start of " \o channel THEN Failed(h)
    ELSE [h EXCEPT !.channels = @ \cup {channel}, !.link = TRUE]
DeinitImumc(h, channel, f) ==
    IF f = "end of " \o channel \/ channel \notin h.channels
    THEN [Failed(h) EXCEPT !.half = TRUE] ELSE [h EXCEPT !.channels = @ \ {channel}]

InitBle(h, f) ==
    LET loaded == InitControllers(h, {"ble"}, f)
        linked == InitImumc(loaded, "ble", f)
    IN  CASE h.ble -> h
          [] ~h.ble /\ ~loaded.ok -> loaded
          [] OTHER -> IF linked.ok THEN [linked EXCEPT !.ble = TRUE, !.blePowerState = "on"] ELSE linked

TerminateBle(h, f) ==
    LET off == DeinitImumc([TerminateControllers(h) EXCEPT !.link = FALSE], "ble", f)
    IN  IF h.ble /\ off.ok THEN [off EXCEPT !.ble = FALSE, !.hci = FALSE]
        ELSE IF h.ble THEN off ELSE h

(* The vendor commands are sent while auto sleep is off: CPU2 is awake.    *)
StartHci(h) == IF h.hci THEN h ELSE [h EXCEPT !.hci = TRUE, !.auto = TRUE]

InitOt(h, f) ==
    LET loaded == InitControllers(h, {"802.15.4"}, f)
        ble == InitBle(loaded, f)
    IN  CASE h.ot -> h
          [] ~h.ot /\ ~loaded.ok -> loaded
          [] OTHER -> IF ble.ok THEN [StartHci(ble) EXCEPT !.ot = TRUE, !.bleFirst = ble.cpu2 = "ble"] ELSE ble

InitHdlcInterface(h, f) == LET ot == InitOt(h, f) IN IF ot.ok THEN InitImumc(ot, "hdlc", f) ELSE ot

TerminateHdlcInterface(h, f) ==
    LET off == [TerminateControllers(h) EXCEPT !.link = FALSE]
    IN  IF h.link THEN DeinitImumc(off, "hdlc", f) ELSE [Failed(off) EXCEPT !.half = TRUE]

TerminateOt(h, f) == LET hdlc == TerminateHdlcInterface(h, f) IN IF hdlc.ok THEN TerminateBle(hdlc, f) ELSE hdlc

ResetOt(h, f) ==
    LET off == TerminateOt([h EXCEPT !.ot = FALSE], f)
        on == InitOt(off, f)
    IN  IF ~off.ok THEN off ELSE IF on.ok THEN InitImumc(on, "hdlc", f) ELSE on

(* Mutant: the reset of BLE does not look which firmware runs.             *)
ResetAlone(h, f) == LET off == TerminateBle(h, f) IN IF off.ok THEN InitBle(off, f) ELSE off

ResetBle(h, f) ==
    LET off == TerminateBle(h, f)
    IN  IF "802.15.4" \in h.running THEN ResetOt(h, f) ELSE IF off.ok THEN InitBle(off, f) ELSE off
--------------------------------------------------------------------------------
Faults == {"none", "load"} \cup {e \o t : e \in {"start of ", "end of "}, t \in Senders}

(* A call that leaves h, by the task that starts and resets.               *)
Call(h, f) ==
    /\ \A t \in Senders : pc[t] = "idle"
    /\ f = "none" \/ (failures < MaxFailures /\ ~h.ok)
    /\ failures' = IF f = "none" THEN failures ELSE failures + 1
    /\ host' = [h EXCEPT !.ok = TRUE, !.fresh = FALSE, !.auto = FALSE]
    /\ power' = IF h.cpu2 = "off" THEN "off" ELSE IF h.fresh THEN "on" ELSE power
    /\ toHost' = IF h.cpu2 = "off" \/ h.fresh THEN <<>> ELSE toHost
    /\ autoSleep' = (h.cpu2 # "off" /\ (h.auto \/ (autoSleep /\ ~h.fresh)))
    /\ UNCHANGED senderVars

CallInitBle == \E f \in Faults : \E h \in {InitBle(host, f)} : Call(h, f)
CallInitOt == \E f \in Faults : \E h \in {InitOt(host, f)} : Call(h, f)
CallInitHdlcInterface == /\ "hdlc" \notin host.channels
                         /\ \E f \in Faults : \E h \in {InitHdlcInterface(host, f)} : Call(h, f)
CallStartHci == host.ble /\ host.cpu2 # "off" /\ host.link /\ Call(StartHci(host), "none")
(* 802.15.4 needs the firmware that this switches off.                     *)
CallTerminateBle == ~host.ot /\ \E f \in Faults : \E h \in {TerminateBle(host, f)} : Call(h, f)
CallResetBle == host.ble /\ \E f \in Faults : \E h \in {ResetBle(host, f)} : Call(h, f)
CallResetOt == host.ot /\ \E f \in Faults : \E h \in {ResetOt(host, f)} : Call(h, f)
--------------------------------------------------------------------------------
(* PLATFORM_SendHciMessage, PLATFORM_SendHdlcMessage, PLATFORM_SendZbMessage. *)
Send(t) ==
    /\ pc[t] = "idle" /\ host.ble /\ host.hci /\ t \in host.channels /\ power # "off"
    /\ mutex = "nobody" /\ mutex' = t
    /\ pc' = [pc EXCEPT ![t] = "check"]
    /\ left' = [left EXCEPT ![t] = 1] \/ (t = "hdlc" /\ left' = [left EXCEPT ![t] = Chunks])
    /\ UNCHANGED <<host, failures, power, autoSleep, wakeup, event, toHost, how, released>>

(* PLATFORM_RequestBleWakeUp.                                              *)
IsBleAwake(t) ==
    LET state == IF power # "on" THEN "asleep" ELSE host.blePowerState
    IN  /\ pc[t] = "check"
        /\ host' = [host EXCEPT !.blePowerState = state]
        /\ IF state = "on"
           THEN /\ mutex' = "nobody"
                /\ pc' = [pc EXCEPT ![t] = "send"]
           ELSE mutex' = mutex /\ pc' = [pc EXCEPT ![t] = "clear"]
        /\ UNCHANGED <<failures, power, autoSleep, wakeup, event, toHost, left, how, released>>

EnableBleWakeup(t) ==
    /\ pc[t] = "clear"
    /\ event' = FALSE /\ wakeup' = TRUE
    /\ pc' = [pc EXCEPT ![t] = "wait"] /\ released' = [released EXCEPT ![t] = FALSE]
    /\ UNCHANGED <<host, failures, power, autoSleep, toHost, mutex, left, how>>

(* Mutant: the bit is set, nothing is waited for.                          *)
GoOn(t) ==
    /\ pc[t] = "wait"
    /\ mutex' = "nobody" /\ pc' = [pc EXCEPT ![t] = "send"]
    /\ how' = [how EXCEPT ![t] = "woken"]
    /\ UNCHANGED <<host, failures, power, autoSleep, wakeup, event, toHost, left, released>>

AwakeEvent(t) ==
    /\ pc[t] = "wait" /\ event
    /\ mutex' = "nobody" /\ pc' = [pc EXCEPT ![t] = "send"]
    /\ how' = [how EXCEPT ![t] = IF power = "on" THEN "woken" ELSE "other"]
    /\ UNCHANGED <<host, failures, power, autoSleep, wakeup, event, toHost, left, released>>

(* After PLATFORM_BLE_WAKE_UP_TIMEOUT_MS: nothing will come. The bit stays *)
(* set when an HCI message is given up; the others are sent all the same.  *)
WakeUpTimeout(t) ==
    /\ pc[t] = "wait" /\ ~event /\ toHost = <<>> /\ (power = "on" \/ ~wakeup)
    /\ mutex' = "nobody"
    /\ IF t = "ble" THEN pc' = [pc EXCEPT ![t] = "idle"] /\ left' = [left EXCEPT ![t] = 0]
                    ELSE pc' = [pc EXCEPT ![t] = "send"] /\ left' = left
    /\ UNCHANGED <<host, failures, power, autoSleep, wakeup, event, toHost, how, released>>

(* A chunk goes to CPU2, which loses it when it is asleep; one of HCI may  *)
(* be the command of PLATFORM_EnableBleLowPower or of its counterpart.     *)
SendChunk(t) ==
    /\ pc[t] = "send"
    /\ left' = [left EXCEPT ![t] = @ - 1]
    /\ pc' = [pc EXCEPT ![t] = IF left[t] = 1 THEN "release" ELSE "send"]
    /\ autoSleep' = autoSleep \/ (t = "ble" /\ power = "on" /\ autoSleep' = ~autoSleep)
    /\ UNCHANGED <<host, failures, power, wakeup, event, toHost, mutex, how, released>>

ReleaseBleWakeUp(t) ==
    /\ pc[t] = "release"
    /\ wakeup' = FALSE /\ pc' = [pc EXCEPT ![t] = "idle"]
    /\ released' = [u \in Senders |-> u # t /\ pc[u] \in {"wait", "send", "release"}]
    /\ how' = [how EXCEPT ![t] = "other"]
    /\ UNCHANGED <<host, failures, power, autoSleep, event, toHost, mutex, left>>
--------------------------------------------------------------------------------
(* CPU2, external.                                                         *)
Tell(p) == Len(toHost) < MaxPackets /\ toHost' = Append(toHost, p)

FallAsleep == /\ power = "on" /\ autoSleep /\ ~wakeup /\ power' = "asleep" /\ Tell("asleep")
              /\ UNCHANGED <<host, failures, autoSleep, senderVars>>
WakeUp == /\ power = "asleep" /\ power' = "on" /\ (Tell("data") \/ (wakeup /\ Tell("awake")))
          /\ UNCHANGED <<host, failures, autoSleep, senderVars>>
Data == /\ power = "on" /\ host.hci /\ Tell("data")
        /\ UNCHANGED <<host, failures, power, autoSleep, senderVars>>

PowerStateAfter(p) == IF p = "asleep" THEN "asleep" ELSE "on"

(* Mutant: the packet is looked at first.                                  *)
SignOfLife ==
    /\ toHost # <<>> /\ toHost' = Tail(toHost)
    /\ event' = TRUE
    /\ host' = [host EXCEPT !.blePowerState = "on"]
    /\ UNCHANGED <<failures, power, autoSleep, wakeup, mutex, pc, left, how, released>>

(* PLATFORM_HciImumcRxCallback, PLATFORM_HdlcImumcRxCallback: any packet   *)
(* counts as a sign of life before the one of the sleep is looked at.      *)
ImumcRxCallback ==
    /\ toHost # <<>> /\ toHost' = Tail(toHost)
    /\ event' = TRUE
    /\ host' = [host EXCEPT !.blePowerState = PowerStateAfter(Head(toHost))]
    /\ UNCHANGED <<failures, power, autoSleep, wakeup, mutex, pc, left, how, released>>
--------------------------------------------------------------------------------
Next == \/ CallInitBle \/ CallInitOt \/ CallInitHdlcInterface \/ CallStartHci
        \/ CallTerminateBle \/ CallResetBle \/ CallResetOt
        \/ \E t \in Senders : \/ Send(t) \/ IsBleAwake(t) \/ EnableBleWakeup(t)
                              \/ AwakeEvent(t) \/ WakeUpTimeout(t) \/ SendChunk(t) \/ ReleaseBleWakeUp(t)
        \/ FallAsleep \/ WakeUp \/ Data \/ ImumcRxCallback

Spec == Init /\ [][Next]_vars
--------------------------------------------------------------------------------
(* Where BLE counts as started CPU2 runs a firmware with its channel open, *)
(* and where 802.15.4 does it is the combined one, with HCI set up,        *)
(* whatever calls have failed on the way and whichever of the two was      *)
(* reset, unless an end has failed half-way, or BLE was started alone      *)
(* before (PLATFORM_InitControllers then keeps its firmware).              *)
StartedRuns == host.half \/
    /\ host.ble => host.cpu2 # "off" /\ host.link /\ "ble" \in host.channels
    /\ host.ot => host.bleFirst \/ (host.ble /\ host.hci /\ host.cpu2 = "combo")

(* With no packet under way the host knows whether CPU2 sleeps, although   *)
(* each packet counts as a sign of life, also the one that tells of sleep, *)
(* and the senders look at the hardware in between.                        *)
PowerKnown == toHost = <<>> /\ power # "off" /\ host.ble => (host.blePowerState = power \/ host.half)

(* A sender that has woken CPU2 keeps it awake for all its chunks, unless  *)
(* another sender takes the bit away (the requests do not nest), while     *)
(* both may wake it and packets come at any time.                          *)
HeldAwake == \A t \in Senders :
    pc[t] \in {"send", "release"} /\ how[t] = "woken" /\ ~released[t] => power = "on"
================================================================================
