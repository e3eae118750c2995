----------------------------- MODULE FsciCommands -----------------------------
(***************************************************************************)
(* FsciMain.c, FsciCommands.c, FsciLogging.c and NV_FsciCommands.c: what   *)
(* becomes of the packets of the host, of the answers, of what the stacks  *)
(* show to the host, and of the buffers of all these.                      *)
(*                                                                         *)
(* A packet is treated by FSCI_Task; in between, packets arrive, writes    *)
(* end and the stacks call FSCI_Monitor. Addresses, identifiers and what   *)
(* the NVM does with its requests are abstracted to whether they are good. *)
(* The MAC commands and the allocation test are not configured, and the    *)
(* reset request does not reset.                                           *)
(***************************************************************************)
EXTENDS Integers, Sequences

CONSTANTS MaxEvents,   \* bound on the packets of the host and the messages of the device
          MaxFailures, \* bound on the allocations that fail and the writes dropped
          PrintMax     \* gFsciMaxPayloadLen_c, in prints

VARIABLES
  mode,          \* gReqOpGroupTable: of the SAPs and of the NVM, none if not registered
  src,           \* mFsciSrcInterface is the interface
  errorReported, \* mFsciErrorReported
  packet,        \* the packet that waits for FSCI_Task
  heap,          \* packet buffers allocated
  writing,       \* buffers in a write that has not ended
  blocking,      \* gFsciTxBlocking
  leaked,        \* buffers no pointer leads to
  print,         \* pData of FSCI_Print: its length, -1 without one
  txDisable,     \* gFsciTxDisable, while FSCI_LogToFile runs
  allowed,       \* the device is allowed to sleep
  signal,        \* mFsciWakeUpConfig.signalWhenWakeUpFlag
  monitorNvm,    \* nvmMonitorOn
  last,          \* the answers of the last packet treated, and those it should have had
  arrived, shown, hidden, failures  \* how many so far

txVars == <<heap, writing, leaked>>
lpmVars == <<allowed, signal>>
countVars == <<arrived, shown, hidden>>
vars == <<mode, src, errorReported, packet, txVars, blocking, print, txDisable, lpmVars, monitorNvm, last, countVars, failures>>

(* What the host asks for. ping stands for what is answered in its own     *)
(* buffer, uniqueId for what is answered in a new one unless the answer    *)
(* fits into its own (large), freeBuffers for what is not answered. good:  *)
(* the address, the duration, the status or the version is.                *)
Packet(g, c, large, good) == [group : {g}, code : c, large : large, good : good]
Packets == UNION {Packet("fsci", {"mode", "ping", "freeBuffers", "bootloader", "unknown"}, {TRUE}, {TRUE}),
                  Packet("fsci", {"uniqueId"}, BOOLEAN, {TRUE}),
                  Packet("fsci", {"read"}, BOOLEAN, BOOLEAN),
                  Packet("fsci", {"write", "ota", "sleep", "nbuVersion"}, {TRUE}, BOOLEAN),
                  Packet("nvm", {"save", "monitoring", "describe", "unknown"}, {TRUE}, {TRUE}),
                  Packet("sap", {"ping"}, {TRUE}, {TRUE}), Packet("other", {"ping"}, {TRUE}, {TRUE}),
                  Packet("confirm", {"ping"}, {TRUE}, {TRUE})}
NoPacket == [group |-> "none", code |-> "none", large |-> TRUE, good |-> TRUE]

Init == /\ mode = [g \in {"sap", "nvm"} |-> "none"] /\ src = FALSE /\ errorReported = FALSE
        /\ packet = NoPacket /\ heap = 0 /\ writing = 0 /\ blocking \in BOOLEAN /\ leaked = 0
        /\ print = -1 /\ txDisable = FALSE /\ allowed = FALSE /\ signal = FALSE /\ monitorNvm = FALSE
        /\ last = [answers |-> 0, due |-> 0, silenced |-> FALSE] /\ arrived = 0 /\ shown = 0 /\ hidden = 0 /\ failures = 0
--------------------------------------------------------------------------------
(* What treating a packet does with buffers: those it allocates, those it  *)
(* frees (its own is one), those it gives to a write; and its errors.      *)
Result(takes, frees, sends, errors) == [takes |-> takes, frees |-> frees, sends |-> sends, errors |-> errors]
Reused == Result(0, 0, 1, 0)
Freed(errors) == Result(0, 1, 0, errors)
Replaced == Result(1, 1, 1, 0)

(* Mutant: no memory for the answer, and no error.                         *)
ReadQuiet(p, memory) == IF p.large THEN Reused ELSE IF memory THEN Replaced ELSE Freed(0)

(* FSCI_ReadUniqueId, FSCI_ReadModVer, FSCI_MsgReadExtendedAdrReqFunc       *)
ReadOwn(p, memory) == IF p.large THEN Reused ELSE IF memory THEN Replaced ELSE Freed(1)

FSCI_ReadMemoryBlock(p, memory) ==
  CASE p.good -> ReadOwn(p, memory)
    [] ~p.good /\ (p.large \/ ~memory) -> Freed(1)
    [] OTHER -> Result(1, 1, 0, 1)
FSCI_WriteMemoryBlock(p) == Result(0, 0, 1, IF p.good THEN 0 ELSE 1)
(* Mutant: the packet is not freed when its answer is a new buffer.        *)
NbuKeeps(p, memory) == IF p.good /\ memory THEN Result(1, 0, 1, 0) ELSE Freed(1)
FSCI_ReadNbuVer(p, memory) == IF p.good /\ memory THEN Replaced ELSE Freed(1)
FSCI_OtaSupportHandlerFunc(p) == IF p.good THEN Reused ELSE Freed(0)
FSCI_EnableBootloaderFunc == Result(0, 0, 0, 0)

(* fsciMsgHandler: one of FSCI_ReqOCtable, or none                          *)
fsciMsgHandler(p, memory) ==
  CASE p.code \in {"mode", "ping", "sleep"} -> Reused
    [] p.code = "uniqueId" -> ReadOwn(p, memory)
    [] p.code = "read" -> FSCI_ReadMemoryBlock(p, memory)
    [] p.code = "write" -> FSCI_WriteMemoryBlock(p)
    [] p.code = "nbuVersion" -> FSCI_ReadNbuVer(p, memory)
    [] p.code = "ota" -> FSCI_OtaSupportHandlerFunc(p)
    [] p.code = "bootloader" -> FSCI_EnableBootloaderFunc
    [] p.code = "freeBuffers" -> Freed(0)
    [] p.code = "unknown" -> Freed(1)

(* FSCI_transmitPayload gives up when it is disabled or without memory.    *)
NV_FsciMsgHandler(p, memory) ==
  CASE p.code \in {"save", "monitoring"} -> Reused
    [] p.code = "describe" -> IF memory /\ ~txDisable THEN Replaced ELSE Freed(0)
    [] p.code = "unknown" -> Freed(1)

Enabled(g) == mode[g] \notin {"none", "disabled"}

(* FSCI_ProcessRxPkt, FSCI_CallRegisteredFunc; the handler of a SAP takes   *)
(* the packet over and frees it.                                           *)
Handled(p, memory) ==
  CASE p.group = "fsci" -> fsciMsgHandler(p, memory)
    [] p.group = "confirm" -> Freed(0)
    [] p.group = "other" -> Freed(1)
    [] p.group = "sap" -> Freed(IF Enabled("sap") THEN 0 ELSE 1)
    [] p.group = "nvm" -> IF Enabled("nvm") THEN NV_FsciMsgHandler(p, memory) ELSE Freed(1)
--------------------------------------------------------------------------------
Fails(fails) == /\ fails => failures < MaxFailures
                /\ failures' = failures + (IF fails THEN 1 ELSE 0)

(* FSCI_SendPacketToSerialManager: blocking, or with a handle allocated     *)
(* for the write, which may be dropped. The buffer is freed in the end.    *)
Outcomes == IF blocking THEN {"sent"} ELSE {"writing", "dropped"}
Transmit(buffers, outcome) ==
  /\ heap' = heap + buffers - (IF outcome = "writing" THEN 0 ELSE 1)
  /\ writing' = writing + (IF outcome = "writing" THEN 1 ELSE 0)

(* fsci_serial_manager_tx_callback                                          *)
TxCallback == /\ writing > 0 /\ writing' = writing - 1 /\ heap' = heap - 1
              /\ UNCHANGED <<mode, src, errorReported, packet, leaked, blocking, print, txDisable, lpmVars,
                             monitorNvm, last, countVars, failures>>

(* FSCI_receivePacket takes the interface for the source of what follows.   *)
Arrive == /\ arrived + shown < MaxEvents /\ packet = NoPacket
          /\ packet' \in Packets
          /\ src' = TRUE /\ heap' = heap + 1 /\ arrived' = arrived + 1
          /\ UNCHANGED <<mode, errorReported, writing, leaked, blocking, print, txDisable, lpmVars, monitorNvm,
                         last, shown, hidden, failures>>

Registered(p) == p.group \in {"sap", "nvm", "other"}
IsFsci(code) == packet.group = "fsci" /\ packet.code = code

(* FSCI_MsgModeSelectReqFunc: the SAPs only                                 *)
SelectModes == IF IsFsci("mode") /\ mode["sap"] # "none"
               THEN \E m \in {"disabled", "monitor"} : mode' = [mode EXCEPT !["sap"] = m]
               ELSE UNCHANGED mode

(* FSCI_MsgAllowDeviceToSleepReqFunc: the write is waited for               *)
AllowSleep == IF IsFsci("sleep")
              THEN /\ signal' \in BOOLEAN /\ allowed' = (allowed \/ packet.good) /\ blocking' = FALSE
              ELSE UNCHANGED <<lpmVars, blocking>>

(* Two requests forget a buffer: that of the packet, or the new one.        *)
Forgets(memory) == IsFsci("bootloader") \/ (IsFsci("read") /\ ~packet.good /\ ~packet.large /\ memory)

(* The answers a packet should have: one; an error before it for a write to *)
(* an address that is not in RAM; none by design.                           *)
Due == CASE packet.group = "sap" -> IF Enabled("sap") THEN 0 ELSE 1
         [] packet.group = "confirm" \/ IsFsci("freeBuffers") \/ IsFsci("bootloader") -> 0
         [] IsFsci("ota") -> IF packet.good THEN 1 ELSE 0
         [] IsFsci("write") -> IF packet.good THEN 1 ELSE 2
         [] OTHER -> 1

(* FSCI_Error is not cascaded: only a packet for a group ends that.         *)
Answer(r, confirmed, dropped) ==
  LET told == r.errors > 0 /\ (~errorReported \/ Registered(packet))
  IN /\ errorReported' = (r.errors > 0 \/ (errorReported /\ ~Registered(packet)))
     /\ last' = [answers |-> (IF told THEN 1 ELSE 0) + (IF confirmed THEN 1 ELSE 0), due |-> Due,
                 silenced |-> dropped \/ (r.errors > 0 /\ ~told)]

FSCI_ProcessRxPkt ==
  /\ packet # NoPacket /\ packet' = NoPacket
  /\ \E memory \in BOOLEAN :
     \E r \in {Handled(packet, memory)}, outcome \in (IF IsFsci("sleep") THEN {"sent"} ELSE Outcomes) :
       /\ IF r.sends = 1 THEN Transmit(r.takes - r.frees, outcome)
          ELSE heap' = heap + r.takes - r.frees /\ UNCHANGED writing
       /\ leaked' = leaked + (IF Forgets(memory) THEN 1 ELSE 0)
       /\ Fails(~memory \/ (r.sends = 1 /\ outcome = "dropped"))
       /\ Answer(r, r.sends = 1 /\ outcome # "dropped",
                 (r.sends = 1 /\ outcome = "dropped") \/ (packet.code = "describe" /\ r.sends + r.errors = 0))
  /\ SelectModes /\ AllowSleep
  /\ monitorNvm' \in (IF packet.group = "nvm" /\ packet.code = "monitoring" /\ Enabled("nvm") THEN BOOLEAN ELSE {monitorNvm})
  /\ src' = (src /\ ~(Registered(packet) /\ packet.group # "other" /\ Enabled(packet.group)))
  /\ UNCHANGED <<print, txDisable, countVars>>

(* FSCI_RegisterOpGroup: refused if the group has a handler already         *)
Register == \E g \in {"sap", "nvm"} :
              /\ mode[g] = "none" /\ mode' = [mode EXCEPT ![g] = "monitor"]
              /\ UNCHANGED <<src, errorReported, packet, txVars, blocking, print, txDisable, lpmVars, monitorNvm,
                             last, countVars, failures>>
--------------------------------------------------------------------------------
(* A message sent without a packet of the host: FSCI_transmitPayload.       *)
FSCI_transmitPayload ==
  \/ txDisable /\ UNCHANGED <<heap, writing, failures>>
  \/ ~txDisable /\ \/ Fails(TRUE) /\ UNCHANGED <<heap, writing>>
                   \/ \E outcome \in Outcomes : Transmit(1, outcome) /\ Fails(outcome = "dropped")

(* Mutant: the source is kept.                                             *)
MonitorKeeps ==
  /\ arrived + shown < MaxEvents /\ shown' = shown + 1
  /\ \/ /\ src /\ src' = src /\ hidden' = hidden + (IF Enabled("sap") THEN 1 ELSE 0)
        /\ UNCHANGED <<heap, writing, failures>>
     \/ /\ ~src /\ ~Enabled("sap") /\ UNCHANGED <<src, hidden, heap, writing, failures>>
     \/ /\ ~src /\ Enabled("sap") /\ FSCI_transmitPayload /\ UNCHANGED <<src, hidden>>
  /\ UNCHANGED <<mode, errorReported, packet, leaked, blocking, print, txDisable, lpmVars, monitorNvm, last, arrived>>

(* The stack passes a message of its own to FSCI_Monitor.                   *)
FSCI_Monitor ==
  /\ arrived + shown < MaxEvents /\ shown' = shown + 1
  /\ \/ /\ src /\ src' = FALSE /\ hidden' = hidden + (IF Enabled("sap") THEN 1 ELSE 0)
        /\ UNCHANGED <<heap, writing, failures>>
     \/ /\ ~src /\ ~Enabled("sap") /\ UNCHANGED <<src, hidden, heap, writing, failures>>
     \/ /\ ~src /\ Enabled("sap") /\ FSCI_transmitPayload /\ UNCHANGED <<src, hidden>>
  /\ UNCHANGED <<mode, errorReported, packet, leaked, blocking, print, txDisable, lpmVars, monitorNvm, last, arrived>>

(* FSCI_MsgNVPageEraseMonitoring, FSCI_MsgNVWriteMonitoring and so on       *)
MonitorNvm ==
  /\ monitorNvm /\ arrived + shown < MaxEvents /\ shown' = shown + 1 /\ FSCI_transmitPayload
  /\ UNCHANGED <<mode, src, errorReported, packet, leaked, blocking, print, txDisable, lpmVars, monitorNvm, last,
                 arrived, hidden>>

FSCI_SendWakeUpIndication ==
  /\ allowed /\ allowed' = FALSE
  /\ \/ ~signal /\ UNCHANGED <<heap, writing, failures>>
     \/ signal /\ \/ Fails(TRUE) /\ UNCHANGED <<heap, writing>>
                  \/ \E outcome \in Outcomes : Transmit(1, outcome) /\ Fails(outcome = "dropped")
  /\ UNCHANGED <<mode, src, errorReported, packet, leaked, blocking, print, txDisable, signal, monitorNvm, last,
                 countVars>>

(* FSCI_Print: the buffer is kept until a print says so, and it fits.       *)
FSCI_Print ==
  /\ ~txDisable /\ arrived + shown < MaxEvents /\ shown' = shown + 1
  /\ \E len \in 1 .. 2, readyToSend \in BOOLEAN :
       LET taken == IF print = -1 THEN 1 ELSE 0
           full == (IF print = -1 THEN 0 ELSE print) + len
       IN \/ print = -1 /\ Fails(TRUE) /\ UNCHANGED <<print, heap, writing>>
          \/ /\ full < PrintMax /\ readyToSend /\ print' = -1
             /\ \E outcome \in Outcomes : Transmit(taken, outcome) /\ Fails(outcome = "dropped")
          \/ /\ full < PrintMax /\ ~readyToSend /\ print' = full
             /\ heap' = heap + taken /\ UNCHANGED <<writing, failures>>
          \/ /\ full >= PrintMax /\ print' = (IF print = -1 THEN 0 ELSE print)
             /\ heap' = heap + taken /\ UNCHANGED <<writing, failures>>
  /\ UNCHANGED <<mode, src, errorReported, packet, leaked, blocking, txDisable, lpmVars, monitorNvm, last,
                 arrived, hidden>>

FSCI_LogFormatedText ==
  /\ ~txDisable /\ arrived + shown < MaxEvents /\ shown' = shown + 1
  /\ \/ Fails(TRUE) /\ errorReported' = TRUE /\ UNCHANGED <<heap, writing>>
     \/ \E outcome \in Outcomes : Transmit(1, outcome) /\ Fails(outcome = "dropped") /\ UNCHANGED errorReported
  /\ UNCHANGED <<mode, src, packet, leaked, blocking, print, txDisable, lpmVars, monitorNvm, last, arrived, hidden>>

(* FSCI_LogToFile: nothing else is sent while it writes the data.           *)
LogToFile ==
  /\ ~txDisable /\ arrived + shown < MaxEvents /\ shown' = shown + 1
  /\ \/ Fails(TRUE) /\ errorReported' = TRUE /\ UNCHANGED <<heap, txDisable>>
     \/ heap' = heap + 1 /\ txDisable' = TRUE /\ UNCHANGED <<errorReported, failures>>
  /\ UNCHANGED <<mode, src, packet, writing, leaked, blocking, print, lpmVars, monitorNvm, last, arrived, hidden>>
FileLogged ==
  /\ txDisable /\ txDisable' = FALSE /\ heap' = heap - 1
  /\ UNCHANGED <<mode, src, errorReported, packet, writing, leaked, blocking, print, lpmVars, monitorNvm, last,
                 countVars, failures>>

Stop == packet = NoPacket /\ writing = 0 /\ ~txDisable /\ UNCHANGED vars

Next == \/ TxCallback \/ Arrive \/ FSCI_ProcessRxPkt \/ Register \/ FSCI_Monitor \/ MonitorNvm
        \/ FSCI_SendWakeUpIndication \/ FSCI_Print \/ FSCI_LogFormatedText \/ LogToFile \/ FileLogged \/ Stop
Spec == Init /\ [][Next]_vars
--------------------------------------------------------------------------------
TypeOK == /\ mode \in [{"sap", "nvm"} -> {"none", "disabled", "monitor"}]
          /\ {src, errorReported, blocking, txDisable, allowed, signal, monitorNvm} \subseteq BOOLEAN
          /\ packet \in Packets \cup {NoPacket} /\ heap \in Int /\ writing \in Nat /\ leaked \in Nat
          /\ print \in -1 .. PrintMax

(* Each buffer of a packet, an answer, a print or a log is freed once,      *)
(* whatever fails: the heap holds the packet that waits, the writes under   *)
(* way, the open print and file, and what two requests are known to forget. *)
BuffersAccounted == heap = writing + leaked + (IF packet # NoPacket THEN 1 ELSE 0)
                           + (IF print # -1 THEN 1 ELSE 0) + (IF txDisable THEN 1 ELSE 0)

(* A request has one answer, unless it has none by design, the error was    *)
(* suppressed as a cascading one, or the write was dropped; a write to an   *)
(* address that is not in RAM has two.                                      *)
OneAnswer == ~last.silenced => last.answers = last.due

(* A message of the stack is taken for one the host sent, and not shown to  *)
(* it, at most once for each packet of the host.                            *)
HiddenOnce == hidden <= arrived
================================================================================
