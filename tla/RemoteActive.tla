------------------------------ MODULE RemoteActive ------------------------------
(***************************************************************************)
(* The host core keeps the radio domain awake while it uses it             *)
(* (PLATFORM_RemoteActiveReq of platform/wireless_mcu/fwk_platform.c), the *)
(* radio core (nbu) puts it to sleep (PLATFORM_EnterLowPower of            *)
(* platform/wireless_nbu/fwk_platform_lowpower.c). They agree through the  *)
(* registers WKUP_TIME, BLE_STATE, BLE_WKUP and RADIO_LP.                  *)
(*                                                                         *)
(* A request runs with interrupts off: the host's other users wait. The    *)
(* last read of the host and its write of BLE_WKUP are one step: the radio *)
(* core needs longer from its indication to the WFI. The hardware is       *)
(* external. Without an error callback the host has no time limit.         *)
(***************************************************************************)
EXTENDS Naturals, FiniteSets

CONSTANTS Users,       \* users of the radio domain on the host
          MaxRequests  \* bound on the requests of one user (active_request_nb is an int8_t)

VARIABLES held,      \* requests of each user that are not released
          active_request_nb,
          hostPc,    \* out, sync (first loop), wait (second loop)
          caller,    \* who is inside the request
          bleWkup,   \* RFMC BLE_WKUP, set by the host
          keepAwake, \* RADIO_LP BLE_WKUP: low power is disallowed
          wkupTime,  \* WKUP_TIME is not zero
          nbuPc,     \* run, indicated, sleeping, awake, idle (WFI only)
          radio      \* BLE_STATE: active, entering, low, waking, or expiring:
                     \* active with BLE_WKUP_STAT, a BLE event will soon expire
vars == <<held, active_request_nb, hostPc, caller, bleWkup, keepAwake, wkupTime, nbuPc, radio>>
hostVars == <<held, active_request_nb, hostPc, caller, bleWkup, keepAwake>>
nbuVars == <<wkupTime, nbuPc, radio>>

TypeOK == /\ held \in [Users -> 0 .. MaxRequests]
          /\ active_request_nb \in 0 .. MaxRequests * Cardinality(Users) + 1
          /\ hostPc \in {"out", "sync", "wait"} /\ caller \in Users
          /\ bleWkup \in BOOLEAN /\ keepAwake \in BOOLEAN /\ wkupTime \in BOOLEAN
          /\ nbuPc \in {"run", "indicated", "sleeping", "awake", "idle"}
          /\ radio \in {"active", "expiring", "entering", "low", "waking"}

Init == /\ held = [u \in Users |-> 0] /\ active_request_nb = 0
        /\ hostPc = "out" /\ caller = CHOOSE u \in Users : TRUE
        /\ bleWkup = FALSE /\ keepAwake = FALSE /\ wkupTime = FALSE
        /\ nbuPc = "run" /\ radio = "active"
--------------------------------------------------------------------------------
Granted == /\ active_request_nb' = active_request_nb + 1
           /\ held' = [held EXCEPT ![caller'] = @ + 1]

(* PLATFORM_RemoteActiveReq: only the first request wakes up the radio.    *)
RemoteActiveReq(u) == /\ hostPc = "out" /\ held[u] < MaxRequests
                      /\ caller' = u
                      /\ IF active_request_nb = 0
                         THEN hostPc' = "sync" /\ UNCHANGED <<held, active_request_nb>>
                         ELSE Granted /\ UNCHANGED hostPc
                      /\ UNCHANGED <<bleWkup, keepAwake, nbuVars>>

(* Mutant: the radio is woken up whatever the radio core has announced.    *)
SyncBlind == /\ hostPc = "sync"
             /\ bleWkup' = TRUE /\ hostPc' = "wait"
             /\ UNCHANGED <<held, active_request_nb, caller, keepAwake, nbuVars>>

(* The first loop ends when the radio core has announced nothing, or the   *)
(* radio is in low power already, on its way out of it, or kept out of it   *)
(* by an event; then BLE_WKUP.                                             *)
Sync == /\ hostPc = "sync"
        /\ ~ wkupTime \/ radio \in {"low", "waking", "expiring"}
        /\ bleWkup' = TRUE /\ hostPc' = "wait"
        /\ UNCHANGED <<held, active_request_nb, caller, keepAwake, nbuVars>>

(* The second loop ends when the radio is active.                          *)
Woken == /\ hostPc = "wait" /\ radio \in {"active", "expiring"}
         /\ hostPc' = "out" /\ UNCHANGED caller /\ Granted
         /\ UNCHANGED <<bleWkup, keepAwake, nbuVars>>

(* Mutant: the bit is cleared with every release.                          *)
ReleaseEach(u) == /\ hostPc = "out" /\ held[u] > 0
                  /\ active_request_nb' = active_request_nb - 1
                  /\ held' = [held EXCEPT ![u] = @ - 1]
                  /\ bleWkup' = FALSE
                  /\ UNCHANGED <<hostPc, caller, keepAwake, nbuVars>>

(* PLATFORM_RemoteActiveRel: the last release clears BLE_WKUP.             *)
RemoteActiveRel(u) == /\ hostPc = "out" /\ held[u] > 0
                      /\ active_request_nb' = active_request_nb - 1
                      /\ held' = [held EXCEPT ![u] = @ - 1]
                      /\ bleWkup' = (active_request_nb > 1)
                      /\ UNCHANGED <<hostPc, caller, keepAwake, nbuVars>>

(* PLATFORM_DisableControllerLowPower, by a user that holds a request,     *)
(* which it keeps for good.                                                *)
DisableControllerLowPower(u) == /\ hostPc = "out" /\ held[u] > 0 /\ ~ keepAwake
                                /\ keepAwake' = TRUE
                                /\ active_request_nb' = active_request_nb + 1
                                /\ UNCHANGED <<held, hostPc, caller, bleWkup, nbuVars>>
--------------------------------------------------------------------------------
(* PLATFORM_LowPowerModeAllowed: the link layer, the clock calibration and *)
(* the host allow low power; the radio core announces it.                  *)
Indicate == /\ nbuPc = "run" /\ ~ keepAwake
            /\ wkupTime' = TRUE /\ nbuPc' = "indicated"
            /\ UNCHANGED <<radio, hostVars>>
(* Only WFI is allowed, until an interrupt.                                *)
HandleWFI == /\ nbuPc = "run" /\ nbuPc' = "idle"
             /\ UNCHANGED <<wkupTime, radio, hostVars>>
Interrupt == /\ nbuPc = "idle" /\ nbuPc' = "run"
             /\ UNCHANGED <<wkupTime, radio, hostVars>>

(* PLATFORM_HandleLowPowerEntry: the sleep clock does not switch in time,  *)
(* an interrupt is pending, or the radio core sleeps.                      *)
NoSleep == /\ nbuPc = "indicated" /\ nbuPc' = "awake"
           /\ UNCHANGED <<wkupTime, radio, hostVars>>
Wfi == /\ nbuPc = "indicated" /\ ~ bleWkup
       /\ nbuPc' = "sleeping"
       /\ radio' = IF radio = "expiring" THEN radio ELSE "entering"
       /\ UNCHANGED <<wkupTime, hostVars>>

(* The hardware enters low power; the host or a radio event wakes it up.   *)
(* An event that is about to expire keeps an active radio from entering.   *)
Entered == /\ radio = "entering" /\ radio' = "low" /\ UNCHANGED <<wkupTime, nbuPc, hostVars>>
Waking == /\ radio = "low" /\ radio' = "waking" /\ UNCHANGED <<wkupTime, nbuPc, hostVars>>
Active == /\ radio = "waking" /\ radio' = "active" /\ nbuPc' = "awake"
          /\ UNCHANGED <<wkupTime, hostVars>>
Expiring == /\ radio = "active" /\ radio' = "expiring"
            /\ UNCHANGED <<wkupTime, nbuPc, hostVars>>
Expired == /\ radio = "expiring" /\ radio' = "active"
           /\ nbuPc' = IF nbuPc = "sleeping" THEN "awake" ELSE nbuPc
           /\ UNCHANGED <<wkupTime, hostVars>>

(* Mutant: the radio core does not tell that it has not slept.             *)
ExitSilently == /\ nbuPc = "awake" /\ nbuPc' = "run"
                /\ UNCHANGED <<wkupTime, radio, hostVars>>
(* PLATFORM_RemoteLowPowerIndication(false).                               *)
Exit == /\ nbuPc = "awake" /\ wkupTime' = FALSE /\ nbuPc' = "run"
        /\ UNCHANGED <<radio, hostVars>>

Host == Sync \/ Woken
Nbu == NoSleep \/ Wfi \/ Entered \/ Active \/ Expired \/ Exit
Next == \/ \E u \in Users : RemoteActiveReq(u) \/ RemoteActiveRel(u) \/ DisableControllerLowPower(u)
        \/ Host \/ Nbu \/ Waking \/ Expiring \/ Indicate \/ HandleWFI \/ Interrupt

(* The host polls without a pause, so that a state the radio core comes    *)
(* back to again and again is seen at last; the radio core goes on with    *)
(* what it has begun, and the hardware wakes up when it is told to.        *)
Fairness == SF_vars(Host) /\ WF_vars(Nbu) /\ WF_vars(bleWkup /\ Waking)
FairSpec == Init /\ [][Next]_vars /\ Fairness
--------------------------------------------------------------------------------
(* The host does not wake up a radio that is about to enter low power,     *)
(* which the hardware cannot handle (fwk_platform.c:848).                  *)
NotWokenEntering == [][bleWkup' /\ ~ bleWkup => radio # "entering"]_vars

(* While a user holds a request, the radio domain is active: neither the   *)
(* radio core nor a release of another user takes it away.                 *)
HeldIsActive == hostPc = "out" /\ (\E u \in Users : held[u] > 0)
                  => radio \in {"active", "expiring"}

(* Again and again, no request is under way: one, which runs with          *)
(* interrupts off, comes to its end.                                       *)
RequestEnds == hostPc = "out"
================================================================================
