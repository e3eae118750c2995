------------------------------ MODULE MCServices -------------------------------
(***************************************************************************)
(* Small instances of the services that share no state: a behaviour is one *)
(* of the chosen service. The variables s1, s2, ... are those of whichever *)
(* service is chosen, in the order its module declares them, and the rest  *)
(* of them are not used; a few services have variables of their own, with  *)
(* the name of the service in front, and rest while another one is chosen. *)
(***************************************************************************)
EXTENDS Integers, Sequences, FiniteSets

VARIABLE chosen
VARIABLES s1, s2, s3, s4, s5, s6, s7, s8, s9, s10, s11, s12, s13, s14, s15, s16, s17,
          s18, s19
VARIABLES mws_chain, mws_active, mws_lockCount, mws_held, mws_waiting, mws_aborted,
          mws_abortPc, mws_misled
VARIABLES remote_held, remote_active_request_nb, remote_hostPc, remote_caller,
          remote_bleWkup, remote_keepAwake, remote_wkupTime, remote_nbuPc, remote_radio
VARIABLES sfc_error, sfc_drifting, sfc_radio, sfc_oscReady, sfc_osc32kUsed,
          sfc_osc32kSwitchPending, sfc_enable, sfc_hostLpConstraintCount,
          sfc_measureAvailable, sfc_ppm, sfc_ppmTargetReached, sfc_sampleNumber,
          sfc_sum, sfc_trigSampleNumber, sfc_sfa, sfc_pc
VARIABLES settings_name_entry, settings_value_entry, settings_count_entry,
          settings_last_name_id, settings_mounted, settings_pc, settings_name,
          settings_value, settings_name_id, settings_handlers, settings_applied,
          settings_faults, settings_rc, settings_kept
VARIABLES otw_pc, otw_waiting, otw_firmware, otw_verify, otw_block, otw_status,
          otw_otwIsInitialized, otw_baud, otw_isp, otw_flash, otw_requests,
          otw_responses, otw_buffer, otw_faults, otw_torn, otw_misread

mwsVars == <<mws_chain, mws_active, mws_lockCount, mws_held, mws_waiting, mws_aborted,
             mws_abortPc, mws_misled>>
pwrVars == <<s1, s2, s3, s4, s5, s6, s7, s8, s9, s10, s11, s12>>
rngVars == <<s1, s2, s3, s4, s5, s6, s7>>
remoteVars == <<remote_held, remote_active_request_nb, remote_hostPc, remote_caller,
                remote_bleWkup, remote_keepAwake, remote_wkupTime, remote_nbuPc,
                remote_radio>>
icsVars == <<s1, s2, s3, s4, s5, s6, s7, s8, s9, s10, s11, s12, s13, s14, s15>>
sensorsVars == <<s1, s2, s3, s4, s5, s6, s7, s8, s9>>
hwparamVars == <<s1, s2, s3, s4, s5, s6, s7, s8, s9, s10>>
sfcVars == <<sfc_error, sfc_drifting, sfc_radio, sfc_oscReady, sfc_osc32kUsed,
             sfc_osc32kSwitchPending, sfc_enable, sfc_hostLpConstraintCount,
             sfc_measureAvailable, sfc_ppm, sfc_ppmTargetReached, sfc_sampleNumber,
             sfc_sum, sfc_trigSampleNumber, sfc_sfa, sfc_pc>>
nvsVars == <<s1, s2, s3, s4, s5, s6, s7, s8, s9, s10, s11, s12, s13>>
settingsVars == <<settings_name_entry, settings_value_entry, settings_count_entry,
                  settings_last_name_id, settings_mounted, settings_pc, settings_name,
                  settings_value, settings_name_id, settings_handlers, settings_applied,
                  settings_faults, settings_rc, settings_kept>>
sechashVars == <<s1, s2, s3, s4, s5, s6, s7, s8>>
seckeysVars == <<s1, s2, s3, s4, s5, s6, s7, s8, s9, s10, s11, s12, s13, s14, s15, s16,
                 s17, s18, s19>>
ecdhVars == <<s1, s2, s3, s4, s5, s6, s7, s8, s9, s10, s11>>
fscilinkVars == <<s1, s2, s3, s4, s5, s6, s7, s8, s9, s10, s11, s12, s13, s14>>
fscicmdsVars == <<s1, s2, s3, s4, s5, s6, s7, s8, s9, s10, s11, s12, s13, s14, s15, s16,
                  s17, s18>>
fsciackVars == <<s1, s2, s3, s4, s5, s6, s7, s8, s9, s10>>
otwVars == <<otw_pc, otw_waiting, otw_firmware, otw_verify, otw_block, otw_status,
             otw_otwIsInitialized, otw_baud, otw_isp, otw_flash, otw_requests,
             otw_responses, otw_buffer, otw_faults, otw_torn, otw_misread>>
tableVars == <<s1, s2, s3, s4, s5, s6, s7, s8, s9, s10, s11, s12, s13, s14, s15>>
cpu2Vars == <<s1, s2, s3, s4, s5, s6, s7, s8, s9, s10, s11, s12>>
hostsleepVars == <<s1, s2, s3, s4, s5, s6, s7, s8, s9, s10, s11, s12, s13>>
rngsourceVars == <<s1, s2, s3, s4, s5, s6, s7, s8, s9, s10, s11, s12, s13, s14, s15,
                   s16, s17>>
sleeptimeVars == <<s1, s2, s3, s4, s5, s6, s7, s8, s9, s10, s11, s12, s13, s14, s15>>
filesVars == <<s1, s2, s3, s4, s5, s6, s7>>
secmodesVars == <<s1, s2, s3, s4, s5, s6, s7, s8, s9, s10, s11, s12, s13>>
sharedVars == <<s1, s2, s3, s4, s5, s6, s7, s8, s9, s10, s11, s12, s13, s14, s15, s16,
             s17, s18, s19>>
vars == <<chosen, sharedVars, mwsVars, remoteVars, sfcVars, settingsVars, otwVars>>
--------------------------------------------------------------------------------
Mws == INSTANCE Mws
     WITH Protocols <- {"a", "b", "c"}, Priority <- [a |-> 1, b |-> 2, c |-> 3],
          Preemption <- TRUE, MaxLocks <- 2, NoProtocol <- "none",
          Aborters <- {"x", "y"}, abortPc <- mws_abortPc, misled <- mws_misled, chain <- mws_chain,
          active <- mws_active, lockCount <- mws_lockCount, held <- mws_held,
          waiting <- mws_waiting, aborted <- mws_aborted
Pwr == INSTANCE Pwr
     WITH Users <- {"u", "v"}, MaxCount <- 3, Tick <- 3, MaxIdle <- 3,
          Wakes <- {0, 2, 9}, Latency <- 4, MaxLag <- 14, initialized <- s1,
          lpDisallowCount <- s2, forbids <- s3, timebase <- s4, lag <- s5,
          remaining <- s6, error <- s7, pc <- s8, expected <- s9, timer <- s10,
          radio <- s11, slept <- s12
Rng == INSTANCE Rng
     WITH MaxRequests <- 3, Overtaking <- 1, Capacity <- 2, ctx <- s1, toHost <- s2,
          toNbu <- s3, work <- s4, setSeed <- s5, setBy <- s6, overtaken <- s7
Remote == INSTANCE RemoteActive
     WITH Users <- {"t", "u"}, MaxRequests <- 2, held <- remote_held,
          active_request_nb <- remote_active_request_nb, hostPc <- remote_hostPc,
          caller <- remote_caller, bleWkup <- remote_bleWkup,
          keepAwake <- remote_keepAwake, wkupTime <- remote_wkupTime,
          nbuPc <- remote_nbuPc, radio <- remote_radio
Ics == INSTANCE Ics
     WITH Callers <- {"t"}, Capacity <- 2, MaxPending <- 2, MaxFailures <- 1,
          NoCaller <- "none", toHost <- s1, pending <- s2, submitted <- s3,
          handling <- s4, constraint <- s5, wanted <- s6, failures <- s7,
          overtaken <- s8, toNbu <- s9, answered <- s10, answer <- s11, callPc <- s12,
          got <- s13, infoWanted <- s14, infoPc <- s15
SensorsAll == INSTANCE Sensors
     WITH Tasks <- {"t1", "t2"}, Requests <- {"period"}, MaxConstraint <- 3,
          NoOne <- "nobody",
          Calls <- {"temperature", "battery", "refresh", "refreshBattery", "unsafe"},
          Samples <- {"valid"}, status <- s1, interval <- s2, timer <- s3,
          constraint <- s4, conversion <- s5, works <- s6, mutex <- s7, pc <- s8,
          seen <- s9
SensorsPeriod == INSTANCE Sensors
     WITH Tasks <- {"t1", "t2"}, Requests <- {"never", "period"}, MaxConstraint <- 3,
          NoOne <- "nobody", Calls <- {"temperature", "unsafe"},
          Samples <- {"valid", "invalid"}, status <- s1, interval <- s2, timer <- s3,
          constraint <- s4, conversion <- s5, works <- s6, mutex <- s7, pc <- s8,
          seen <- s9
HwParam == INSTANCE HwParam
     WITH Values <- {"v", "w"}, Legacy <- "v", Rsvd <- "r", NoSave <- "none",
          MaxFaults <- 2, sector <- s1, ram <- s2, loaded <- s3, pc <- s4, call <- s5,
          want <- s6, saved <- s7, result <- s8, faults <- s9, kept <- s10
Sfc == INSTANCE Sfc
     WITH MaxDrift <- 2, Target <- 1, Shift <- 1, Configs <- {1, 2}, error <- sfc_error,
          drifting <- sfc_drifting, radio <- sfc_radio, oscReady <- sfc_oscReady,
          osc32kUsed <- sfc_osc32kUsed, osc32kSwitchPending <- sfc_osc32kSwitchPending,
          enable <- sfc_enable, hostLpConstraintCount <- sfc_hostLpConstraintCount,
          measureAvailable <- sfc_measureAvailable, ppm <- sfc_ppm,
          ppmTargetReached <- sfc_ppmTargetReached, sampleNumber <- sfc_sampleNumber,
          sum <- sfc_sum, trigSampleNumber <- sfc_trigSampleNumber, sfa <- sfc_sfa,
          pc <- sfc_pc
NvsStore == INSTANCE Nvs
     WITH Ids <- {"a", "b"}, Values <- {"x", "y"}, Large <- {"y"}, None <- "none",
          SectorCount <- 2, SectorSize <- 6, flash <- s1, ready <- s2, ate_wra <- s3,
          data_wra <- s4, pc <- s5, id <- s6, value <- s7, gc_count <- s8,
          gc_addr <- s9, mounting <- s10, rc <- s11, kept <- s12, missed <- s13
Settings_ == INSTANCE Settings
     WITH Names <- {<<"a">>, <<"a", "b">>, <<"c">>}, Values <- {"x"}, None <- "none",
          Handlers <- {<<"a">>, <<"a", "b">>}, MaxId <- 2, CountMayFail <- FALSE,
          MaxFaults <- 1, name_entry <- settings_name_entry,
          value_entry <- settings_value_entry, count_entry <- settings_count_entry,
          last_name_id <- settings_last_name_id, mounted <- settings_mounted,
          pc <- settings_pc, name <- settings_name, value <- settings_value,
          name_id <- settings_name_id, handlers <- settings_handlers,
          applied <- settings_applied, faults <- settings_faults, rc <- settings_rc,
          kept <- settings_kept
(* Texts and keys shorter and longer than a block, with marks and zeros.   *)
TabPieces == {<<>>, <<<<"a">>>>, <<<<"mark">>, <<"zero">>>>, <<<<"a">>, <<"b">>, <<"zero">>, <<"a">>>>,
              <<<<"b">>, <<"mark">>, <<"a">>, <<"a">>, <<"mark">>, <<"zero">>>>}
TabKeys == {<<<<"zero">>>>, <<<<"a">>, <<"b">>, <<"a">>, <<"mark">>>>,
            <<<<"a">>, <<"zero">>, <<"b">>, <<"a">>, <<"zero">>>>}
SecLibHash == INSTANCE SecHash
     WITH BlockSize <- 4, DigestSize <- 2, LengthLimit <- 104, MaxHashed <- 15,
          MaxContexts <- 2, MaxPieces <- 2, Pieces <- TabPieces, Keys <- TabKeys,
          alg <- s1, backend <- s2, ctx <- s3, open <- s4, key <- s5, text <- s6,
          pieces <- s7, out <- s8
SecLibKeys == INSTANCE SecKeyStore
     WITH MaxPairs <- 2, MaxFailures <- 1, LastBlob <- "eirk", call <- s1, step <- s2,
          ending <- s3, ret <- s4, objects <- s5, context <- s6, buffers <- s7,
          lost <- s8, requests <- s9, output <- s10, hasPair <- s11, ready <- s12,
          blob <- s13, public <- s14, pairs <- s15, material <- s16, ltk <- s17,
          dh <- s18, failures <- s19
Ecdh == INSTANCE SecEcdh
     WITH Devices <- {"a", "b"}, StepsAtATime <- 2, Bits <- 4, ByteRange <- 4,
          MaxKeys <- 3, MaxFailures <- 1, backend <- s1, callback <- s2, own <- s3,
          public <- s4, secret <- s5, running <- s6, chunks <- s7, heap <- s8,
          misreported <- s9, keys <- s10, failures <- s11
(* What the host sends.                                                  *)
MCPackets == {[group |-> 4, code |-> 2, payload |-> <<2>>], [group |-> 2, code |-> 7, payload |-> <<1, 2>>]}

FsciLinks == INSTANCE FsciLink
     WITH Packets <- MCPackets, ByteRange <- 8, MaxPayload <- 2, VirtualMax <- {0, 2},
          MaxSent <- 2, MaxFaults <- 1, maxVirtual <- s1, virtual <- s2, line <- s3,
          rx <- s4, slot <- s5, event <- s6, task <- s7, sent <- s8, faults <- s9,
          owed <- s10, clean <- s11, leaked <- s12, hasty <- s13, late <- s14
FsciRequests == INSTANCE FsciCommands
     WITH MaxEvents <- 3, MaxFailures <- 1, PrintMax <- 2, mode <- s1, src <- s2,
          errorReported <- s3, packet <- s4, heap <- s5, writing <- s6, blocking <- s7,
          leaked <- s8, print <- s9, txDisable <- s10, allowed <- s11, signal <- s12,
          monitorNvm <- s13, last <- s14, arrived <- s15, shown <- s16, hidden <- s17,
          failures <- s18
FsciAcks == INSTANCE FsciAck
     WITH MaxPackets <- 3, TxRetryCnt <- 2, MaxLost <- 2, current <- s1, waiting <- s2,
          txRetryCnt <- s3, ackReceived <- s4, frames <- s5, acks <- s6, got <- s7,
          acknowledged <- s8, lost <- s9, late <- s10
Updates == INSTANCE Otw
     WITH Firmware <- {"old", "new"}, Blocks <- 2, SignatureFrom <- 2, MaxFaults <- 2,
          pc <- otw_pc, waiting <- otw_waiting, firmware <- otw_firmware,
          verify <- otw_verify, block <- otw_block, status <- otw_status,
          otwIsInitialized <- otw_otwIsInitialized, baud <- otw_baud, isp <- otw_isp,
          flash <- otw_flash, requests <- otw_requests, responses <- otw_responses,
          buffer <- otw_buffer, faults <- otw_faults, torn <- otw_torn,
          misread <- otw_misread
Tables == INSTANCE NvTable
     WITH
          Firmwares <- {[version |-> 1, table |-> <<[id |-> 1, count |-> 2, size |-> 1, mirrored |-> TRUE, set |-> TRUE], [id |-> 0, count |-> 0, size |-> 0, mirrored |-> TRUE, set |-> FALSE]>>], [version |-> 2, table |-> <<[id |-> 1, count |-> 3, size |-> 1, mirrored |-> TRUE, set |-> TRUE], [id |-> 2, count |-> 1, size |-> 1, mirrored |-> TRUE, set |-> TRUE]>>]},
          Dynamic <- {[id |-> 2, count |-> 1, size |-> 2, mirrored |-> TRUE, set |-> TRUE], [id |-> 1, count |-> 2, size |-> 2, mirrored |-> TRUE, set |-> TRUE]},
          Variants <- {TRUE, FALSE}, Cells <- 8, MaxSaves <- 2, MaxBoots <- 3,
          MaxChanges <- 1, dual <- s1, table <- s2, version <- s3, page <- s4,
          legacy <- s5, tableSize <- s6, last <- s7, live <- s8, critical <- s9,
          pending <- s10, saves <- s11, boots <- s12, changes <- s13, kept <- s14,
          loose <- s15
Cpu == INSTANCE Cpu2
     WITH Chunks <- 2, MaxPackets <- 2, MaxFailures <- 1, host <- s1, failures <- s2,
          power <- s3, autoSleep <- s4, wakeup <- s5, event <- s6, toHost <- s7,
          mutex <- s8, pc <- s9, left <- s10, how <- s11, released <- s12
Host == INSTANCE HostSleep
     WITH Banks <- 4, EccBanks <- {0, 2, 3}, FirstBank <- 1, Selectable <- {1, 2, 3},
          Allowed <- {0, 2}, Moments <- 64, Stamps <- {50}, Spans <- {3, 31},
          dynamic <- s1, limit <- s2, ram <- s3, lastMask <- s4, power <- s5,
          held <- s6, pm <- s7, nbuInit <- s8, told <- s9, lowPowerFlag <- s10,
          fro <- s11, ratio <- s12, error <- s13
(* The back ends without the TRNG, and the one with it.                    *)
Source == INSTANCE RngSource
     WITH Tasks <- {"a", "b"}, MaxRequests <- 3, MaxKey <- 3, MaxFailures <- 2,
          Chunks <- 2, Bits <- 8, backend <- s1, init <- s2, seeded <- s3, need <- s4,
          requests <- s5, strong <- s6, key <- s7, work <- s8, lock <- s9, pc <- s10,
          todo <- s11, read <- s12, given <- s13, entropy <- s14, disallow <- s15,
          failures <- s16, clashed <- s17
SourceTrue == INSTANCE RngSource
     WITH Tasks <- {"a", "b"}, MaxRequests <- 2, MaxKey <- 2, MaxFailures <- 1,
          Chunks <- 1, Bits <- 8, backend <- s1, init <- s2, seeded <- s3, need <- s4,
          requests <- s5, strong <- s6, key <- s7, work <- s8, lock <- s9, pc <- s10,
          todo <- s11, read <- s12, given <- s13, entropy <- s14, disallow <- s15,
          failures <- s16, clashed <- s17
Timed == INSTANCE SleepTime
     WITH Unit <- 4, MaxCount <- 3, Moments <- 32, Stamps <- {3, 20},
          Timeouts <- {0, 2, 4, 5}, Events <- {0, 12}, Latency <- 1, platform <- s1,
          pc <- s2, start <- s3, stop <- s4, wasPowerDown <- s5, boardSleep <- s6,
          sleeps <- s7, entry <- s8, timed <- s9, down <- s10, timeout <- s11,
          event <- s12, slept <- s13, error <- s14, stale <- s15
(* The texts that are written to files, one longer than the other.          *)
MCTexts == {<<1, 1>>, <<2>>}

Fs == INSTANCE Files
     WITH Users <- {"a", "b"}, FileNames <- {"f", "g"}, Texts <- MCTexts, MaxCount <- 3,
          MaxFaults <- 2, stored <- s1, mounted <- s2, initDone <- s3, user <- s4,
          call <- s5, kept <- s6, faults <- s7
(* A cipher of blocks of two 2-bit bytes; 1 + x is the 4-bit number that   *)
(* the exclusive or is taken of.                                           *)
LOCAL INSTANCE Bitwise
TabXor == [a \in 0 .. 3 |-> [b \in 0 .. 3 |-> a ^^ b]]
TabSub == <<12, 5, 6, 11, 9, 0, 10, 13, 3, 14, 15, 8, 4, 7, 1, 2>>
TabEncipher == [k \in 0 .. 15 |-> [b \in 0 .. 15 |-> TabSub[1 + (b ^^ k)] ^^ ((3 * k + 1) % 16)]]
TabMessages == {<<>>, <<2>>, <<3, 2, 0>>, <<0, 2, 1, 0>>, <<2, 0, 3, 3, 1>>}
SecLibModes == INSTANCE SecModes
     WITH ByteSize <- 4, BlockBytes <- 2, ByteXor <- TabXor, Encipher <- TabEncipher,
          Rb <- 3, RoundLimit <- 8, Messages <- TabMessages, Keys <- {<<1, 2>>},
          Vectors <- {<<3, 3>>, <<0, 3>>}, mode <- s1, tx <- s2, rx <- s3, key <- s4,
          iv0 <- s5, msg <- s6, taken <- s7, sent <- s8, ivTx <- s9, read <- s10,
          got <- s11, ivRx <- s12, tags <- s13
--------------------------------------------------------------------------------
(* The shared variables from each one on, which a service with fewer of    *)
(* them does not use.                                                      *)
From19 == s19
From18 == <<s18, From19>>
From17 == <<s17, From18>>
From16 == <<s16, From17>>
From15 == <<s15, From16>>
From14 == <<s14, From15>>
From13 == <<s13, From14>>
From12 == <<s12, From13>>
From11 == <<s11, From12>>
From10 == <<s10, From11>>
From9 == <<s9, From10>>
From8 == <<s8, From9>>
From7 == <<s7, From8>>
From6 == <<s6, From7>>
From5 == <<s5, From6>>
From4 == <<s4, From5>>
From3 == <<s3, From4>>
From2 == <<s2, From3>>
From1 == <<s1, From2>>

Unused19 == s19 = "unused"
Unused18 == s18 = "unused" /\ Unused19
Unused17 == s17 = "unused" /\ Unused18
Unused16 == s16 = "unused" /\ Unused17
Unused15 == s15 = "unused" /\ Unused16
Unused14 == s14 = "unused" /\ Unused15
Unused13 == s13 = "unused" /\ Unused14
Unused12 == s12 = "unused" /\ Unused13
Unused11 == s11 = "unused" /\ Unused12
Unused10 == s10 = "unused" /\ Unused11
Unused9 == s9 = "unused" /\ Unused10
Unused8 == s8 = "unused" /\ Unused9
Unused7 == s7 = "unused" /\ Unused8
Unused6 == s6 = "unused" /\ Unused7
Unused5 == s5 = "unused" /\ Unused6
Unused4 == s4 = "unused" /\ Unused5
Unused3 == s3 = "unused" /\ Unused4
Unused2 == s2 = "unused" /\ Unused3
Unused1 == s1 = "unused" /\ Unused2

Init == /\ \/ chosen \in {"mws", "remote", "sfc", "settings", "otw"} /\ Unused1
           \/ chosen = "pwr" /\ Pwr!Init /\ Unused13
           \/ chosen = "rng" /\ Rng!Init /\ Unused8
           \/ chosen = "ics" /\ Ics!Init /\ Unused16
           \/ chosen = "sensorsAll" /\ SensorsAll!Init /\ Unused10
           \/ chosen = "sensorsPeriod" /\ SensorsPeriod!Init /\ Unused10
           \/ chosen = "hwparam" /\ HwParam!Init /\ Unused11
           \/ chosen = "nvs" /\ NvsStore!Init /\ Unused14
           \/ chosen = "sechash" /\ SecLibHash!Init /\ Unused9
           \/ chosen = "seckeys" /\ SecLibKeys!Init
           \/ chosen = "ecdh" /\ Ecdh!Init /\ Unused12
           \/ chosen = "fscilink" /\ FsciLinks!Init /\ Unused15
           \/ chosen = "fscicmds" /\ s7 = TRUE /\ FsciRequests!Init /\ Unused19
           \/ chosen = "fsciack" /\ FsciAcks!Init /\ Unused11
           \/ chosen = "table" /\ Tables!Init /\ Unused16
           \/ chosen = "cpu2" /\ Cpu!Init /\ Unused13
           \/ chosen = "hostsleep" /\ Host!Init /\ Unused14
           \/ chosen = "rngsource" /\ Source!Init /\ s1 # "trng" /\ Unused18
           \/ chosen = "rngtrue" /\ SourceTrue!Init /\ s1 = "trng" /\ Unused18
           \/ chosen = "sleeptime" /\ Timed!Init /\ Unused16
           \/ chosen = "files" /\ Fs!Init /\ Unused8
           \/ chosen = "secmodes" /\ SecLibModes!Init /\ Unused14
        /\ Mws!Init
        /\ Remote!Init
        /\ (IF chosen = "sfc" THEN TRUE ELSE sfc_error = 0 /\ sfc_trigSampleNumber = 1 /\ sfc_osc32kSwitchPending = FALSE) /\ Sfc!Init
        /\ Settings_!Init
        /\ (IF chosen = "otw" THEN TRUE ELSE otw_firmware = "old") /\ Updates!Init

(* What is not of service s does not change.                               *)
Others(s) == /\ UNCHANGED chosen
             /\ IF s = "mws" THEN TRUE ELSE UNCHANGED mwsVars
             /\ IF s = "remote" THEN TRUE ELSE UNCHANGED remoteVars
             /\ IF s = "sfc" THEN TRUE ELSE UNCHANGED sfcVars
             /\ IF s = "settings" THEN TRUE ELSE UNCHANGED settingsVars
             /\ IF s = "otw" THEN TRUE ELSE UNCHANGED otwVars

Next == \/ chosen = "mws" /\ Mws!Next /\ UNCHANGED From1 /\ Others("mws")
        \/ chosen = "pwr" /\ Pwr!Next /\ UNCHANGED From13 /\ Others("pwr")
        \/ chosen = "rng" /\ Rng!Next /\ UNCHANGED From8 /\ Others("rng")
        \/ chosen = "remote" /\ Remote!Next /\ UNCHANGED From1 /\ Others("remote")
        \/ chosen = "ics" /\ Ics!Next /\ UNCHANGED From16 /\ Others("ics")
        \/ chosen = "sensorsAll" /\ SensorsAll!Next /\ UNCHANGED From10 /\ Others("sensorsAll")
        \/ chosen = "sensorsPeriod" /\ SensorsPeriod!Next /\ UNCHANGED From10 /\ Others("sensorsPeriod")
        \/ chosen = "hwparam" /\ HwParam!Next /\ UNCHANGED From11 /\ Others("hwparam")
        \/ chosen = "sfc" /\ Sfc!Next /\ UNCHANGED From1 /\ Others("sfc")
        \/ chosen = "nvs" /\ NvsStore!Next /\ UNCHANGED From14 /\ Others("nvs")
        \/ chosen = "settings" /\ Settings_!Next /\ UNCHANGED From1 /\ Others("settings")
        \/ chosen = "sechash" /\ SecLibHash!Next /\ UNCHANGED From9 /\ Others("sechash")
        \/ chosen = "seckeys" /\ SecLibKeys!Next /\ Others("seckeys")
        \/ chosen = "ecdh" /\ Ecdh!Next /\ UNCHANGED From12 /\ Others("ecdh")
        \/ chosen = "fscilink" /\ FsciLinks!Next /\ UNCHANGED From15 /\ Others("fscilink")
        \/ chosen = "fscicmds" /\ FsciRequests!Next /\ UNCHANGED From19 /\ Others("fscicmds")
        \/ chosen = "fsciack" /\ FsciAcks!Next /\ UNCHANGED From11 /\ Others("fsciack")
        \/ chosen = "otw" /\ Updates!Next /\ UNCHANGED From1 /\ Others("otw")
        \/ chosen = "table" /\ Tables!Next /\ UNCHANGED From16 /\ Others("table")
        \/ chosen = "cpu2" /\ Cpu!Next /\ UNCHANGED From13 /\ Others("cpu2")
        \/ chosen = "hostsleep" /\ Host!Next /\ UNCHANGED From14 /\ Others("hostsleep")
        \/ chosen = "rngsource" /\ Source!Next /\ UNCHANGED From18 /\ Others("rngsource")
        \/ chosen = "rngtrue" /\ SourceTrue!Next /\ UNCHANGED From18 /\ Others("rngtrue")
        \/ chosen = "sleeptime" /\ Timed!Next /\ UNCHANGED From16 /\ Others("sleeptime")
        \/ chosen = "files" /\ Fs!Next /\ UNCHANGED From8 /\ Others("files")
        \/ chosen = "secmodes" /\ SecLibModes!Next /\ UNCHANGED From14 /\ Others("secmodes")

(* The fairness of each service, while it is the chosen one: the strong    *)
(* and the weak conditions of the services stand in the same formulas.     *)
Live == CASE chosen = "rng" -> rngVars
          [] chosen = "remote" -> remoteVars
          [] chosen = "ics" -> icsVars
          [] chosen = "sensorsPeriod" -> sensorsVars
          [] chosen = "sfc" -> sfcVars
          [] chosen = "fscilink" -> fscilinkVars
          [] chosen = "fsciack" -> fsciackVars
          [] chosen = "otw" -> otwVars
          [] OTHER -> chosen
Fairness == /\ SF_Live(UNCHANGED chosen /\ (\/ chosen = "remote" /\ Remote!Host
                                            \/ chosen = "sfc" /\ Sfc!MeasureCallback))
            /\ WF_Live(UNCHANGED chosen /\ (\/ chosen = "rng" /\ Rng!InitHost
                                            \/ chosen = "remote" /\ Remote!Nbu
                                            \/ chosen = "ics" /\ Ics!Receive
                                            \/ chosen = "sensorsPeriod" /\ SensorsPeriod!Step("t1")
                                            \/ chosen = "fscilink" /\ FsciLinks!FSCI_receivePacket
                                            \/ chosen = "fsciack" /\ FsciAcks!Acknowledged
                                            \/ chosen = "otw" /\ (Updates!FirmwareDownload \/ Updates!Send \/ Updates!TryReadRxIspMsg \/ Updates!Timeout)))
            /\ WF_Live(UNCHANGED chosen /\ (\/ chosen = "rng" /\ Rng!InitNbu
                                            \/ chosen = "remote" /\ remote_bleWkup /\ Remote!Waking
                                            \/ chosen = "ics" /\ Ics!Answer
                                            \/ chosen = "sensorsPeriod" /\ SensorsPeriod!Step("t2")
                                            \/ chosen = "sfc" /\ Sfc!Process
                                            \/ chosen = "fscilink" /\ FsciLinks!Expire
                                            \/ chosen = "fsciack" /\ FsciAcks!Expire
                                            \/ chosen = "otw" /\ (Updates!Serve \/ Updates!Ignore)))
            /\ WF_Live(UNCHANGED chosen /\ (\/ chosen = "rng" /\ Rng!HearRequest
                                            \/ chosen = "ics" /\ (Ics!StartHandler \/ Ics!Handle \/ Ics!EndHandler)
                                            \/ chosen = "sensorsPeriod" /\ SensorsPeriod!Step("workq")
                                            \/ chosen = "sfc" /\ Sfc!Overdue
                                            \/ chosen = "fscilink" /\ FsciLinks!FSCI_RxRxTimeoutCb))
            /\ WF_Live(UNCHANGED chosen /\ (\/ chosen = "rng" /\ Rng!SeedWork
                                            \/ chosen = "ics" /\ (\E c \in {"t"} : Ics!TakeAnswer(c))
                                            \/ chosen = "sensorsPeriod" /\ SensorsPeriod!RunWork))
            /\ WF_Live(UNCHANGED chosen /\ (\/ chosen = "rng" /\ Rng!SendSeed
                                            \/ chosen = "sensorsPeriod" /\ SensorsPeriod!Converted))
            /\ WF_Live(UNCHANGED chosen /\ (\/ chosen = "rng" /\ Rng!ForgetRequest
                                            \/ chosen = "sensorsPeriod" /\ SensorsPeriod!Expire))
            /\ WF_Live(UNCHANGED chosen /\ chosen = "rng" /\ Rng!SetExternalSeed)
            /\ WF_Live(UNCHANGED chosen /\ chosen = "rng" /\ Rng!Unseeded)

Spec == Init /\ [][Next]_vars /\ Fairness
--------------------------------------------------------------------------------
(* The state of every service has its type.                                *)
TypeOK == /\ (chosen = "mws" => Mws!TypeOK)
          /\ (chosen = "pwr" => Pwr!TypeOK)
          /\ (chosen = "rng" => Rng!TypeOK)
          /\ (chosen = "remote" => Remote!TypeOK)
          /\ (chosen = "ics" => Ics!TypeOK)
          /\ (chosen \in {"sensorsAll", "sensorsPeriod"} => SensorsPeriod!TypeOK)
          /\ (chosen = "hwparam" => HwParam!TypeOK)
          /\ (chosen = "sfc" => Sfc!TypeOK)
          /\ (chosen = "nvs" => NvsStore!TypeOK)
          /\ (chosen = "settings" => Settings_!TypeOK)
          /\ (chosen = "sechash" => SecLibHash!TypeOK)
          /\ (chosen = "seckeys" => SecLibKeys!TypeOK)
          /\ (chosen = "ecdh" => Ecdh!TypeOK)
          /\ (chosen = "fscilink" => FsciLinks!TypeOK)
          /\ (chosen = "fscicmds" => FsciRequests!TypeOK)
          /\ (chosen = "fsciack" => FsciAcks!TypeOK)
          /\ (chosen = "otw" => Updates!TypeOK)
          /\ (chosen = "table" => Tables!TypeOK)
          /\ (chosen = "cpu2" => Cpu!TypeOK)
          /\ (chosen = "hostsleep" => Host!TypeOK)
          /\ (chosen = "rngsource" => Source!TypeOK)
          /\ (chosen = "rngtrue" => SourceTrue!TypeOK)
          /\ (chosen = "sleeptime" => Timed!TypeOK)
          /\ (chosen = "files" => Fs!TypeOK)
          /\ (chosen = "secmodes" => SecLibModes!TypeOK)

(* The Zephyr store survives resets at any flash operation: what is read   *)
(* is what was last written, a write or a clearing that a reset interrupts *)
(* has happened or not, and after the next mount for good, unless a        *)
(* deletion directly above the data meets a torn closing ATE; it can be    *)
(* mounted again, programs blank cells only, finds space for every         *)
(* deletion, and counts as free what the stored values leave of all        *)
(* sectors but one.                                                        *)
StoreRecovers == /\ (chosen = "nvs" => NvsStore!ReadsKept)
                 /\ (chosen = "nvs" => NvsStore!Mounts)
                 /\ (chosen = "nvs" => NvsStore!ProgramsBlank)
                 /\ (chosen = "nvs" => NvsStore!DeletionsFit)
                 /\ (chosen = "nvs" => NvsStore!FreeSpaceExact)

(* A setting that was saved or deleted is, or is not, in the store after a *)
(* reset, one that a failed or interrupted call was about may be either,   *)
(* and no name is stored twice; a call on the hardware parameters that has *)
(* returned, with whatever result, has left the other area of the sector   *)
(* as it was unless programming that back has failed itself, and           *)
(* parameters not valid in flash leave the copy in RAM blank, or with the  *)
(* legacy ones that could not be moved; an update of the transceiver that  *)
(* ends well, or is not required, leaves the new firmware there; and the   *)
(* values saved under one table of data sets are there, as far as they     *)
(* fit, under the next, none read with bytes of another; and a file holds  *)
(* what one call has written as a whole, or what was there before, in a    *)
(* file system that stays mounted for each user counted in.                *)
DataSurvives == /\ (chosen = "settings" => Settings_!SavedSurvive)
                /\ (chosen = "settings" => Settings_!NamesUnique)
                /\ (chosen = "hwparam" => HwParam!NothingElseLost)
                /\ (chosen = "hwparam" => HwParam!BlankWhenInvalid)
                /\ (chosen = "otw" => Updates!DownloadTells)
                /\ (chosen = "table" => Tables!TableKept)
                /\ (chosen = "files" => Fs!StoredIsWritten)
                /\ (chosen = "files" => Fs!MountedForUsers)

(* The accesses the protocols believe they have to the transceiver are     *)
(* those MWS counts, and one set free by its owner is offered to every     *)
(* protocol that waits; the radio domain is active while a user holds a    *)
(* request for it; once every message of the radio core is served the host *)
(* holds exactly the low-power constraint it wants, and what a caller of   *)
(* the radio core takes is the answer to its own request; a controller     *)
(* that counts as started runs, also after failed calls and resets of the  *)
(* other one, the host knows whether the core they share sleeps, and a     *)
(* sender that has woken it keeps it awake while no other takes that away. *)
RadioShared == /\ (chosen = "mws" => Mws!AccessesAgree)
               /\ (chosen = "mws" => Mws!FreeIsOffered)
               /\ (chosen = "remote" => Remote!HeldIsActive)
               /\ (chosen = "ics" => Ics!ConstraintFollows)
               /\ (chosen = "ics" => Ics!AnswerIsOwn)
               /\ (chosen = "cpu2" => Cpu!StartedRuns)
               /\ (chosen = "cpu2" => Cpu!PowerKnown)
               /\ (chosen = "cpu2" => Cpu!HeldAwake)

(* The chip never sleeps while a user forbids it, a timer or a radio event *)
(* wakes it up by the timeout of a task, and the accumulated error is the  *)
(* time the ticks are behind; low power is constrained exactly while the   *)
(* 32 kHz clock is measured, and once while a temperature measurement is   *)
(* on; what the program uses of the RAM is there after a sleep and can be  *)
(* read, the radio core has been warned of a power down, durations are     *)
(* right to a tick whatever clock a wake-up left and whatever has measured *)
(* the sleep, a sleep with a timer ends by the timeout, none is deeper     *)
(* than each constraint allows, and a radio controller is told the end of  *)
(* exactly the sleeps it has allowed, and the chip stays awake while the   *)
(* TRNG makes entropy, unless two threads have read it at once.            *)
SleepSound == /\ (chosen = "pwr" => Pwr!SleepAllowed)
              /\ (chosen = "pwr" => Pwr!TimeoutWakes)
              /\ (chosen = "pwr" => Pwr!ErrorIsLag)
              /\ (chosen = "sfc" => Sfc!ConstrainedWhileEnabled)
              /\ (chosen = "sensorsPeriod" => SensorsPeriod!ConstrainedOnce)
              /\ (chosen = "hostsleep" => Host!RamKept)
              /\ (chosen = "hostsleep" => Host!PowerDownTold)
              /\ (chosen = "hostsleep" => Host!TimesRight)
              /\ (chosen = "hostsleep" => Host!NotDeeper)
              /\ (chosen = "rngtrue" => SourceTrue!AwakeWhileGenerating)
              /\ (chosen = "sleeptime" => Timed!DurationRight)
              /\ (chosen = "sleeptime" => Timed!WokenInTime)
              /\ (chosen = "sleeptime" => Timed!ControllerPaired)

(* A temperature measurement that is on has somebody to end it, although a *)
(* battery measurement may take the ADC over, and a refresh reports a      *)
(* value the ADC has converted.                                            *)
MeasurementsSound == /\ (chosen = "sensorsAll" => SensorsAll!MeasurementEnds)
                     /\ (chosen = "sensorsAll" => SensorsAll!ValueConverted)

(* A transceiver set free is not taken by a waiting protocol past another  *)
(* one of higher priority; the host does not wake up a radio that is about *)
(* to enter low power; loading gives every setting, with its value, to the *)
(* handler that is most specific for it; a response of the transceiver's   *)
(* boot loader is taken for the request it answers.                        *)
StepsSound == /\ Mws!HandedByPriority
              /\ Remote!NotWokenEntering
              /\ Settings_!LoadedByBest
              /\ Updates!ResponseIsOwn

(* Again and again nothing is left unanswered: the radio core gets its     *)
(* first seed although its first request may not be heard, and a new one   *)
(* when it asks, which it does once; a request for the radio domain, which *)
(* polls with interrupts off, ends; a deferred message of the radio core   *)
(* is served although it may come while the handler is ending; whatever is *)
(* lost on the serial line of the host, its receiver gives up what does    *)
(* not come, and a sender what is not acknowledged; a temperature          *)
(* measurement ends unless its reading is discarded, and a periodic one    *)
(* comes again; once neither the line nor a reset disturbs it, an update   *)
(* of the transceiver succeeds.                                            *)
RequestsAnswered == /\ []<>(/\ (chosen = "rng" => Rng!RadioCoreSeeded)
                           /\ (chosen = "remote" => Remote!RequestEnds)
                           /\ (chosen = "ics" => Ics!PendingServed)
                           /\ (chosen = "fscilink" => FsciLinks!ReceiverRests)
                           /\ (chosen = "fsciack" => FsciAcks!SendEnds)
                           /\ (chosen = "sensorsPeriod" => SensorsPeriod!MeasurementDone)
                           /\ (chosen = "otw" => Updates!DownloadSucceeds))
                    /\ []<>(/\ (chosen = "rng" => Rng!ReseedAnswered)
                           /\ (chosen = "sensorsPeriod" => SensorsPeriod!NextScheduled))

(* A clock that does not drift any more, with a radio that goes on working *)
(* and no crystal to replace it, gets into the target and stays there.     *)
ClockSettles == Sfc!Calibrated

(* The back ends of SecLib agree with each other and with the standards: a *)
(* message encrypted in chunks by one arrives as it was at another with    *)
(* other chunks, its text is that of the whole message, the two compute    *)
(* the same tags, keys and addresses, and a digest is that of the text its *)
(* context was fed, in whatever pieces and through whatever copies.        *)
CryptoAgrees == /\ (chosen = "secmodes" => SecLibModes!MessageArrives)
                /\ (chosen = "secmodes" => SecLibModes!ChunksAsWhole)
                /\ (chosen = "secmodes" => SecLibModes!TagsAgree)
                /\ (chosen = "sechash" => SecLibHash!DigestsAgree)

(* Whatever command to the secure subsystem fails, a call that has         *)
(* returned leaves no object, context, buffer or request for the radio     *)
(* behind; a key comes out as plain text in the byte order it was given; a *)
(* secret is that of the key pair whose public key the peer has, and the   *)
(* same at both devices unless a back end took a failure for a success,    *)
(* also when it is computed in chunks, which make every step once; and     *)
(* random numbers are drawn from a generator that has got entropy, and has *)
(* been asked for more once it is past its maximum of requests, no two     *)
(* tasks the same one unless they draw from RNG.c at the same time, by an  *)
(* arithmetic that is that of the field it stands for.                     *)
KeysHandled == /\ (chosen = "seckeys" => SecLibKeys!NothingLeft)
               /\ (chosen = "seckeys" => SecLibKeys!PlainAsGiven)
               /\ (chosen = "seckeys" => SecLibKeys!SecretOfPair)
               /\ (chosen = "ecdh" => Ecdh!SecretsAgree)
               /\ (chosen = "ecdh" => Ecdh!StepsOnce)
               /\ (chosen \in {"rngsource", "rngtrue"} => Source!NumbersDiffer)
               /\ (chosen \in {"rngsource", "rngtrue"} => Source!DrawsSeeded)
               /\ (chosen = "rngsource" => Source!ReseedAsked)
               /\ (chosen = "rngtrue" => SourceTrue!ReseedAsked)
               /\ (chosen = "rngsource" => Source!LehmerIsModulo)

(* Between a host and the device nothing is lost but what the line, a      *)
(* failing allocation or a write that is dropped loses: the packets of an  *)
(* undisturbed line arrive as they were sent and in their order, one taken *)
(* for acknowledged has been received, each buffer is freed once, the      *)
(* critical section is held for the packet being received only, every      *)
(* request has the answer it should have, and a message of a stack is      *)
(* hidden once at most for each packet of the host.                        *)
FramesKept == /\ (chosen = "fscilink" => FsciLinks!FramesArrive)
              /\ (chosen = "fscilink" => FsciLinks!SectionHeld)
              /\ (chosen = "fscilink" => FsciLinks!BuffersFreed)
              /\ (chosen = "fscicmds" => FsciRequests!BuffersAccounted)
              /\ (chosen = "fscicmds" => FsciRequests!OneAnswer)
              /\ (chosen = "fscicmds" => FsciRequests!HiddenOnce)
              /\ (chosen = "fsciack" => FsciAcks!AckedIsReceived)
================================================================================
