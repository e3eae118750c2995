-------------------------------- MODULE HwParam --------------------------------
(***************************************************************************)
(* services/HWParameter/HWParameter.c: the hardware parameters (prod), the *)
(* application's factory data (app) and an area reserved for others (rsvd) *)
(* in one flash sector, rewritten by saving, erasing and programming it,   *)
(* with prod data in the IFR, or moving there from their legacy place, and *)
(* gHwParamsAppFactoryDataPreserveOnHwParamUpdate_d.                       *)
(*                                                                         *)
(* The contents of an area are blank, a value with the right CRC, "torn"   *)
(* (the CRC is wrong) or "ecc" (it cannot be read). A call runs with       *)
(* interrupts off, so that only a reset comes between its steps.           *)
(***************************************************************************)
EXTENDS Naturals

CONSTANTS Values,    \* contents of the parameters, and of the factory data
          Legacy,    \* contents at the legacy place, or NoSave
          Rsvd,      \* contents of the reserved area
          NoSave,    \* nothing is saved
          MaxFaults  \* bound on failing operations and resets

VARIABLES sector,    \* contents of the areas
          ram,       \* gHardwareParameters
          loaded,    \* gHardwareParameters_p is set
          pc,        \* idle, erase, program, rsvd, other
          call,      \* the area the call writes: prod, app
          want,      \* what it writes there
          saved,     \* copies of the areas that the erase would lose
          result,    \* of the last call
          faults,    \* failures and resets so far
          kept       \* what the callers know of prod and app
vars == <<sector, ram, loaded, pc, call, want, saved, result, faults, kept>>

Bad == {"torn", "ecc"}
Valid(x) == x \notin Bad \cup {"blank"}
Other(area) == IF area = "prod" THEN "app" ELSE "prod"
NoneSaved == [rsvd |-> NoSave, other |-> NoSave]

TypeOK == /\ sector \in [{"rsvd", "prod", "app"} -> Values \cup {Rsvd, "blank"} \cup Bad]
          /\ ram \in Values \cup {"blank"} /\ loaded \in BOOLEAN
          /\ pc \in {"idle", "erase", "program", "rsvd", "other"}
          /\ call \in {"prod", "app"} /\ want \in Values \cup {"blank"}
          /\ saved \in [rsvd : {Rsvd, NoSave} \cup Bad, other : Values \cup {NoSave}]
          /\ result \in {"ok", "error"} /\ faults \in 0 .. MaxFaults
          /\ kept \in [{"prod", "app"} -> Values \cup {"blank"} \cup Bad]

Init == /\ sector = [rsvd |-> Rsvd, prod |-> "blank", app |-> "blank"]
        /\ ram = "blank" /\ loaded = FALSE
        /\ pc = "idle" /\ call = "prod" /\ want = "blank" /\ saved = NoneSaved
        /\ result = "ok" /\ faults = 0
        /\ kept = [prod |-> "blank", app |-> "blank"]
--------------------------------------------------------------------------------
Fault == faults < MaxFaults /\ faults' = faults + 1
NoFault == UNCHANGED faults
Return(r) == pc' = "idle" /\ result' = r /\ saved' = NoneSaved

(* The areas that are saved before the erase: of the other one only what   *)
(* is valid, and the reserved area only by NvWriteProdData.                *)
Saves(area) == [rsvd |-> IF area = "prod" /\ sector.rsvd # "blank" THEN sector.rsvd ELSE NoSave,
                other |-> IF Valid(sector[Other(area)]) THEN sector[Other(area)] ELSE NoSave]

(* NvWriteProdData: nothing if the data are there, no erase if the area is *)
(* blank; if memory for the second copy is not available the first one is  *)
(* programmed back over itself.                                            *)
WriteProd(v) ==
  /\ want' = v /\ call' = "prod"
  /\ \/ sector.prod = v /\ Return("ok") /\ NoFault
     \/ sector.prod = "blank" /\ v # "blank" /\ pc' = "program" /\ saved' = NoneSaved
        /\ NoFault /\ UNCHANGED result
     \/ /\ sector.prod \notin {v, "blank"}
        /\ \/ saved' = Saves("prod") /\ pc' = "erase" /\ NoFault /\ UNCHANGED result
           \/ Saves("prod").rsvd # NoSave /\ Return("error") /\ Fault
           \/ /\ Saves("prod").other # NoSave /\ Fault
              /\ saved' = [Saves("prod") EXCEPT !.other = NoSave]
              /\ pc' = "rsvd" /\ result' = "error"

(* NV_WriteHWParameters, of what the application has changed in the copy.  *)
NV_WriteHWParameters == /\ pc = "idle" /\ loaded
                        /\ IF sector.prod = ram THEN Return("ok") /\ NoFault /\ UNCHANGED <<call, want>>
                           ELSE WriteProd(ram)
                        /\ UNCHANGED <<sector, ram, loaded, kept>>
Modify(v) == /\ pc = "idle" /\ loaded /\ ram' = v
             /\ UNCHANGED <<sector, loaded, pc, call, want, saved, result, faults, kept>>

HWParametersErase == /\ pc = "idle"
                     /\ ram' = "blank" /\ loaded' = TRUE
                     /\ WriteProd("blank")
                     /\ UNCHANGED <<sector, kept>>

(* Mutant: the copy is forgotten but not cleared.                          *)
HWParametersForget == /\ pc = "idle" /\ loaded' = FALSE
                      /\ UNCHANGED <<sector, ram, pc, call, want, saved, result, faults, kept>>
HWParametersReset == /\ pc = "idle" /\ ram' = "blank" /\ loaded' = FALSE
                     /\ UNCHANGED <<sector, pc, call, want, saved, result, faults, kept>>

(* NV_ReadHWParameters copies valid parameters; parameters at the legacy   *)
(* place are moved; what cannot be read is erased, with the whole sector.  *)
MovesLegacy == Legacy # NoSave /\ sector.prod = "blank"
NV_ReadHWParameters ==
  /\ pc = "idle" /\ ~ loaded
  /\ IF MovesLegacy
     THEN /\ ram' = Legacy /\ WriteProd(Legacy)
          /\ UNCHANGED <<sector, loaded, kept>>
     ELSE LET erased == [rsvd |-> "blank", prod |-> "blank", app |-> "blank"]
              ecc == sector.prod = "ecc"
          IN /\ loaded' = TRUE
             /\ IF Valid(sector.prod) THEN ram' = sector.prod /\ Return("ok") /\ UNCHANGED <<sector, kept>>
                ELSE /\ IF ecc THEN ram' = "blank" /\ sector' = erased
                                    /\ kept' = [prod |-> "blank", app |-> "blank"]
                        ELSE UNCHANGED <<ram, sector, kept>>
                     /\ Return(IF sector.prod = "blank" THEN "ok" ELSE "error")
             /\ UNCHANGED <<call, want, faults>>

(* Nv_WriteAppFactoryData; the parameters it saves become the copy in RAM. *)
Nv_WriteAppFactoryData(v) ==
  /\ pc = "idle" /\ want' = v /\ call' = "app"
  /\ CASE sector.app = v -> Return("ok") /\ UNCHANGED <<ram, loaded>>
       [] sector.app = "blank" -> /\ pc' = "program" /\ saved' = NoneSaved
                                  /\ UNCHANGED <<result, ram, loaded>>
       [] OTHER -> /\ pc' = "erase" /\ saved' = Saves("app") /\ UNCHANGED result
                   /\ IF Saves("app").other # NoSave THEN ram' = sector.prod /\ loaded' = TRUE
                      ELSE UNCHANGED <<ram, loaded>>
  /\ UNCHANGED <<sector, faults, kept>>
--------------------------------------------------------------------------------
(* The steps of an update; a failing erase changes nothing, what is not    *)
(* programmed well has the wrong CRC.                                      *)
Erase == /\ pc = "erase"
         /\ \/ /\ sector' = [a \in DOMAIN sector |-> "blank"]
               /\ pc' = "program" /\ NoFault /\ UNCHANGED result
            \/ Fault /\ pc' = "rsvd" /\ result' = "error" /\ UNCHANGED sector
         /\ UNCHANGED <<ram, loaded, call, want, saved, kept>>

(* Mutant: after an error nothing is put back.                             *)
ProgramOrGiveUp ==
  /\ pc = "program"
  /\ \/ /\ sector' = [sector EXCEPT ![call] = want] /\ result' = "ok" /\ NoFault
        /\ kept' = [kept EXCEPT ![call] = want] /\ pc' = "rsvd"
     \/ /\ Fault /\ sector' = [sector EXCEPT ![call] = "torn"] /\ result' = "error"
        /\ kept' = [kept EXCEPT ![call] = "torn"] /\ pc' = "idle"
  /\ UNCHANGED <<ram, loaded, call, want, saved>>
Program ==
  /\ pc = "program"
  /\ \/ /\ sector' = [sector EXCEPT ![call] = want] /\ result' = "ok" /\ NoFault
        /\ kept' = [kept EXCEPT ![call] = want]
     \/ /\ Fault /\ sector' = [sector EXCEPT ![call] = "torn"] /\ result' = "error"
        /\ kept' = [kept EXCEPT ![call] = "torn"]
  /\ pc' = "rsvd"
  /\ UNCHANGED <<ram, loaded, call, want, saved>>

PutBackRsvd ==
  /\ pc = "rsvd" /\ pc' = "other"
  /\ \/ saved.rsvd = NoSave /\ NoFault /\ UNCHANGED <<sector, result>>
     \/ /\ saved.rsvd # NoSave
        /\ \/ sector' = [sector EXCEPT !.rsvd = saved.rsvd] /\ NoFault /\ UNCHANGED result
           \/ Fault /\ sector' = [sector EXCEPT !.rsvd = "torn"] /\ result' = "error"
  /\ UNCHANGED <<ram, loaded, call, want, saved, kept>>

(* The parameters that were moved count as loaded only after a success.    *)
PutBackOther ==
  /\ pc = "other"
  /\ \/ saved.other = NoSave /\ Return(result) /\ NoFault
        /\ sector' = sector /\ kept' = [kept EXCEPT ![Other(call)] = IF Valid(@) THEN @ ELSE sector[Other(call)]]
     \/ /\ saved.other # NoSave
        /\ \/ /\ sector' = [sector EXCEPT ![Other(call)] = saved.other]
              /\ Return(result) /\ NoFault /\ UNCHANGED kept
           \/ /\ Fault /\ sector' = [sector EXCEPT ![Other(call)] = "torn"]
              /\ Return("error") /\ kept' = [kept EXCEPT ![Other(call)] = "torn"]
  /\ loaded' = (loaded \/ (call = "prod" /\ result' = "ok"))
  /\ UNCHANGED <<ram, call, want>>

(* A reset loses the copies in RAM; the area that is programmed, or all of *)
(* them while the sector is erased, are left with anything but a value.    *)
Reset ==
  /\ pc # "idle" /\ Fault
  /\ \E bad \in Bad :
       sector' = CASE pc = "erase" -> [a \in DOMAIN sector |-> bad]
                   [] pc = "program" -> [sector EXCEPT ![call] = bad]
                   [] pc = "rsvd" /\ saved.rsvd # NoSave -> [sector EXCEPT !.rsvd = bad]
                   [] pc = "other" /\ saved.other # NoSave -> [sector EXCEPT ![Other(call)] = bad]
                   [] OTHER -> sector
  /\ kept' = [a \in DOMAIN kept |-> sector'[a]]
  /\ ram' = "blank" /\ loaded' = FALSE /\ Return("error") /\ UNCHANGED <<call, want>>

Steps == Erase \/ Program \/ PutBackRsvd \/ PutBackOther
Next == \/ NV_ReadHWParameters \/ NV_WriteHWParameters \/ HWParametersErase \/ HWParametersReset
        \/ \E v \in Values : Modify(v) \/ Nv_WriteAppFactoryData(v)
        \/ Steps \/ Reset
Spec == Init /\ [][Next]_vars
--------------------------------------------------------------------------------
(* A call that has returned, with whatever result, has left the area it    *)
(* does not write as it was, unless programming it back has failed itself. *)
NothingElseLost == pc = "idle" => \A a \in {"prod", "app"} : Valid(kept[a]) => sector[a] = kept[a]

(* Parameters that are not valid in flash leave the copy blank (or with    *)
(* the legacy ones, which could not be moved), as HWParameter.h says.  *)
BlankWhenInvalid == ~ loaded => ram \in {"blank", Legacy}
================================================================================
