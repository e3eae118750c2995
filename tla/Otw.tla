---------------------------------- MODULE Otw ----------------------------------
(***************************************************************************)
(* fwk_otw.c: the host updates a transceiver through the boot loader of    *)
(* that, over a serial line: a request, its response, and so on. The line  *)
(* loses either, the response comes after the timeout, the boot loader     *)
(* refuses, and the host or the transceiver starts again, at any moment.   *)
(*                                                                         *)
(* Two images differ in every block. The HAL calls and the allocations of  *)
(* the host do not fail; the boot loader is not part of the repository.    *)
(***************************************************************************)
EXTENDS Integers, Sequences

CONSTANTS Firmware,      \* the images of the application
          Blocks,        \* blocks of an image
          SignatureFrom, \* the first block that holds a part of the signature
          MaxFaults      \* bound on what is lost, late, refused or started again

VARIABLES
  pc,           \* "idle", or what the host requests
  waiting,      \* in Otw_TryReadRxIspMsg
  firmware, verify, block,  \* firmwareData, verifyAfterWrite and the loop's i
  status,       \* what Otw_FirmwareDownload returned
  otwIsInitialized,
  baud,         \* of the host's line
  isp,          \* the boot loader: its baud rate, if unlocked, if the flash is open
  flash,        \* the image each block is of
  requests, responses,  \* on the line; own if of the last request made
  buffer,       \* what the memory allocated for a block to be read holds
  faults,
  torn,         \* an erasure was cut off
  misread       \* a part of the signature could not be read

hostVars == <<pc, waiting, firmware, verify, block, status, otwIsInitialized, baud, buffer, misread>>
lineVars == <<requests, responses>>
ispVars == <<isp, flash, torn>>
vars == <<hostVars, lineVars, ispVars, faults>>

Off == [baud |-> "off", unlocked |-> FALSE, open |-> FALSE]
Started == [Off EXCEPT !.baud = "default"]
Erased == [b \in 1 .. Blocks |-> "none"]
Nothing == [of |-> "none", block |-> 0]

Init == /\ pc = "idle" /\ waiting = FALSE /\ firmware \in Firmware /\ verify = FALSE /\ block = 1
        /\ status = "none" /\ otwIsInitialized = FALSE /\ baud = "default" /\ buffer = Nothing
        /\ misread = FALSE /\ requests = <<>> /\ responses = <<>>
        /\ isp = Off /\ flash = Erased /\ torn = FALSE /\ faults = 0
--------------------------------------------------------------------------------
(* Mutant: a boot loader that runs is taken as it is.                      *)
TakeIsp == /\ isp' = (IF isp = Off THEN Started ELSE isp) /\ UNCHANGED lineVars

(* Otw_Init: the transceiver is reset into its boot loader. What was on    *)
(* the line is gone when that is up.                                       *)
SwitchToIspMode == /\ isp' = Started /\ requests' = <<>> /\ responses' = <<>>

FirmwareDownload ==
  /\ pc = "idle" /\ ~otwIsInitialized
  /\ firmware' \in Firmware /\ verify' \in BOOLEAN /\ misread' = FALSE /\ status' = "none"
  /\ SwitchToIspMode /\ pc' = "unlock" /\ block' = 1 /\ baud' = "default"
  /\ UNCHANGED <<waiting, otwIsInitialized, flash, torn, buffer, faults>>

(* Otw_WriteMessageAndGetResponse: what has come so far is forgotten.      *)
Send == /\ pc # "idle" /\ ~waiting /\ waiting' = TRUE
        /\ responses' = <<>>
        /\ requests' = Append([i \in DOMAIN requests |-> [requests[i] EXCEPT !.own = FALSE]],
                              [type |-> pc, block |-> block, own |-> TRUE, baud |-> baud])
        /\ UNCHANGED <<pc, firmware, verify, block, status, otwIsInitialized, baud, buffer, misread,
                       ispVars, faults>>
--------------------------------------------------------------------------------
(* The boot loader.                                                        *)
Type(t) == CASE t \in {"unlock", "unlockKey"} -> "unlock" [] t \in {"signature", "verify"} -> "read" [] OTHER -> t
Permitted(t) == CASE t \in {"unlock", "chipId", "unlockKey"} -> TRUE
                  [] t \in {"setBaud", "info", "open", "close"} -> isp.unlocked
                  [] OTHER -> isp.open
Hears == requests # <<>> /\ isp.baud = Head(requests).baud

Serve ==
  /\ Hears /\ requests' = Tail(requests)
  /\ LET r == Head(requests)
         does == Permitted(r.type) /\ (r.type = "blank" => flash = Erased)
     IN /\ \E good \in {does, FALSE} :
             /\ faults' = faults + (IF good = does THEN 0 ELSE 1)
             /\ responses' = Append(responses, [type |-> Type(r.type), own |-> r.own, good |-> good,
                                                data |-> [of |-> flash[r.block], block |-> r.block]])
             /\ isp' = IF ~good THEN isp
                       ELSE [baud |-> IF r.type = "setBaud" THEN "increased" ELSE isp.baud,
                             unlocked |-> isp.unlocked \/ r.type = "unlockKey",
                             open |-> (isp.open /\ r.type # "close") \/ r.type = "open"]
             /\ flash' = CASE good /\ r.type = "erase" -> Erased
                           [] good /\ r.type = "write" -> [flash EXCEPT ![r.block] = firmware]
                           [] OTHER -> flash
  /\ faults' <= MaxFaults
  /\ UNCHANGED <<hostVars, torn>>

(* A request it does not hear is noise to it.                              *)
Ignore == /\ requests # <<>> /\ ~Hears /\ requests' = Tail(requests)
          /\ UNCHANGED <<hostVars, responses, ispVars, faults>>

(* What is on the line is lost.                                            *)
Lose == /\ faults < MaxFaults /\ faults' = faults + 1
        /\ requests \o responses # <<>> /\ requests' = <<>> /\ responses' = <<>>
        /\ UNCHANGED <<hostVars, ispVars>>

(* The transceiver is reset, by Otw_Reset or a fault, maybe in an erasure. *)
Reset == /\ faults < MaxFaults /\ faults' = faults + 1
         /\ isp # Off /\ isp' = Off /\ requests' = <<>> /\ responses' = <<>>
         /\ \/ UNCHANGED <<flash, torn>>
            \/ /\ Hears /\ Head(requests).type = "erase" /\ isp.open
               /\ \E b \in 1 .. Blocks : flash' = [c \in 1 .. Blocks |-> IF c < b THEN "none" ELSE flash[c]]
               /\ torn' = TRUE
         /\ UNCHANGED hostVars

(* The host starts again; its heap holds nothing of the old images.        *)
HostReset == /\ faults < MaxFaults /\ faults' = faults + 1
             /\ pc # "idle" /\ pc' = "idle" /\ waiting' = FALSE /\ otwIsInitialized' = FALSE
             /\ status' = "none" /\ buffer' = Nothing
             /\ UNCHANGED <<firmware, verify, block, baud, misread, lineVars, ispVars>>
--------------------------------------------------------------------------------
(* What Otw_FirmwareDownload does next.                                    *)
Goto(stage, b) == pc' = stage /\ block' = b /\ UNCHANGED status

(* It returns, through Otw_DeInit.                                         *)
Return(result) == /\ status' = result /\ block' = 1 /\ pc' = IF otwIsInitialized THEN "close" ELSE "idle"

Stage(good, next) == IF good THEN Goto(next, 1) ELSE Return("failure")

(* Otw_Init, up to the open flash. The baud rate changes after the answer. *)
RunUnlockProcedure(good) ==
  /\ pc \in {"unlock", "chipId", "unlockKey"}
  /\ Stage(good, CASE pc = "unlock" -> "chipId" [] pc = "chipId" -> "unlockKey" [] OTHER -> "setBaud")
  /\ UNCHANGED <<otwIsInitialized, baud>>
SetUartBaudRate(good) == /\ pc = "setBaud" /\ Stage(good, "info")
                         /\ baud' = (IF good THEN "increased" ELSE baud) /\ UNCHANGED otwIsInitialized
InitMemoryFlashInfo(good) == pc = "info" /\ Stage(good, "open") /\ UNCHANGED <<otwIsInitialized, baud>>
OpenMemoryRequest(good) == /\ pc = "open" /\ otwIsInitialized' = good /\ UNCHANGED baud
                           /\ IF good THEN Goto("signature", SignatureFrom) ELSE Return("failure")

(* Otw_ReadFromFlashAndCompare: the buffer is compared whether the block   *)
(* has been read or not, and a difference hides that it has not.           *)
Differs(data) == data # [of |-> firmware, block |-> block]

(* Otw_IsUpdateRequired: a difference asks for the update, anything else,  *)
(* the signature found or a failure to read it, for none.                  *)
IsUpdateRequired(good, data) ==
  /\ pc = "signature"
  /\ IF Differs(data) THEN Goto("erase", 1)
     ELSE IF good /\ block < Blocks THEN Goto("signature", block + 1) ELSE Return("not required")

EraseAllFlashProcedure(good) ==
  /\ pc \in {"erase", "blank"}
  /\ Stage(good, IF pc = "erase" THEN "blank" ELSE "write")

Written == IF block < Blocks THEN Goto("write", block + 1)
           ELSE IF verify THEN Goto("verify", 1) ELSE Return("ok")

(* Mutant: the loop goes on after a block that could not be written.       *)
WriteOn(good) == pc = "write" /\ Written
WriteToFlash(good) == pc = "write" /\ IF good THEN Written ELSE Return("failure")

ReadFromFlashAndCompare(good, data) ==
  /\ pc = "verify"
  /\ IF ~good \/ Differs(data) THEN Return("failure")
     ELSE IF block < Blocks THEN Goto("verify", block + 1) ELSE Return("ok")

(* Otw_DeInit, whatever Otw_CloseMemoryRequest met with.                   *)
DeInit == /\ pc = "close" /\ pc' = "idle" /\ otwIsInitialized' = FALSE /\ UNCHANGED <<block, status, baud>>

Continue(good, data) ==
  /\ waiting' = FALSE
  /\ buffer' = IF Type(pc) = "read" THEN data ELSE buffer
  /\ misread' = (misread \/ (pc = "signature" /\ ~good))
  /\ \/ RunUnlockProcedure(good) \/ SetUartBaudRate(good) \/ InitMemoryFlashInfo(good) \/ OpenMemoryRequest(good)
     \/ DeInit
     \/ /\ \/ IsUpdateRequired(good, data) \/ EraseAllFlashProcedure(good) \/ WriteToFlash(good)
           \/ ReadFromFlashAndCompare(good, data)
        /\ UNCHANGED <<otwIsInitialized, baud>>
  /\ UNCHANGED <<firmware, verify, ispVars>>

(* Mutant: the type of the response is not looked at.                      *)
TakeAny == /\ waiting /\ responses # <<>> /\ responses' = Tail(responses)
           /\ LET r == Head(responses) IN Continue(r.good, IF r.type = "read" THEN r.data ELSE buffer)
           /\ UNCHANGED <<requests, faults>>

(* Otw_TryReadRxIspMsg, Otw_ParseIspResponse; the content of any response  *)
(* goes to the buffer of the read.                                         *)
TryReadRxIspMsg ==
  /\ waiting /\ responses # <<>> /\ responses' = Tail(responses)
  /\ LET r == Head(responses)
     IN Continue(r.good /\ r.type = Type(pc), IF r.type = "read" THEN r.data ELSE buffer)
  /\ UNCHANGED <<requests, faults>>

(* Nothing came in two seconds. A response may still be on its way.        *)
Timeout == /\ waiting /\ responses = <<>>
           /\ faults' = faults + (IF requests = <<>> THEN 0 ELSE 1) /\ faults' <= MaxFaults
           /\ Continue(FALSE, buffer)
           /\ UNCHANGED lineVars

Next == \/ FirmwareDownload \/ Send \/ TryReadRxIspMsg \/ Timeout \/ HostReset
        \/ Serve \/ Ignore \/ Lose \/ Reset

FairSpec == /\ Init /\ [][Next]_vars
            /\ WF_vars(FirmwareDownload \/ Send \/ TryReadRxIspMsg \/ Timeout) /\ WF_vars(Serve \/ Ignore)
--------------------------------------------------------------------------------
Request == {"close", "open", "signature", "verify", "erase", "blank", "write", "unlock", "chipId", "unlockKey", "setBaud", "info"}
Data == [of : Firmware \cup {"none"}, block : 0 .. Blocks]
TypeOK == /\ pc \in Request \cup {"idle"} /\ waiting \in BOOLEAN /\ firmware \in Firmware /\ verify \in BOOLEAN
          /\ block \in 1 .. Blocks /\ status \in {"none", "failure", "ok", "not required"}
          /\ otwIsInitialized \in BOOLEAN /\ baud \in {"default", "increased"} /\ buffer \in Data /\ misread \in BOOLEAN
          /\ isp \in [baud : {"off", "default", "increased"}, unlocked : BOOLEAN, open : BOOLEAN]
          /\ flash \in [1 .. Blocks -> Firmware \cup {"none"}] /\ torn \in BOOLEAN /\ faults \in 0 .. MaxFaults
          /\ requests \in Seq([type : Request, block : 1 .. Blocks, own : BOOLEAN, baud : {"default", "increased"}])
          /\ responses \in Seq([type : {"unlock", "read"} \cup Request, own : BOOLEAN, good : BOOLEAN, data : Data])

(* A download that reports the image written, or already there, has left   *)
(* the whole image in the flash, unless the signature could not be read    *)
(* (IsUpdateRequired) or outlived a part of its image in an erasure that   *)
(* was cut off.                                                            *)
DownloadTells == (status = "ok" \/ (status = "not required" /\ ~misread /\ ~torn))
                    => \A b \in 1 .. Blocks : flash[b] = firmware

(* A late response is never taken for that of a later request: the first   *)
(* failure ends the download, the response to the request that closes the  *)
(* flash is not looked at, and the next download resets the transceiver.   *)
ResponseIsOwn == [][TryReadRxIspMsg /\ Head(responses).good /\ Head(responses).type = Type(pc)
                      => Head(responses).own \/ pc = "close"]_vars

(* Again and again a download is successful, whatever the state an earlier *)
(* one has left the transceiver and the line in.                           *)
DownloadSucceeds == status \in {"ok", "not required"}
================================================================================
