------------------------------- MODULE FsciLink -------------------------------
(***************************************************************************)
(* FsciCommunication.c: frames on the serial line between a host and the   *)
(* device, their reception byte by byte in the interrupt of the line, the  *)
(* timeout between bytes, and the task that treats the packets.            *)
(*                                                                         *)
(* The host frames its packets with the same code. FSCI_receivePacket is   *)
(* not interrupted by the timer, whose callback masks interrupts. One      *)
(* interface; escape sequences and acknowledgements off, as by default.    *)
(* A call that reads several bytes is as several calls. The application    *)
(* holds the critical section of the NVM of its own throughout.            *)
(***************************************************************************)
EXTENDS Integers, SequencesExt, Bitwise

CONSTANTS Packets,     \* what the host sends: [group, code, payload]
          ByteRange,   \* the values of a byte (256), a power of two
          MaxPayload,  \* gFsciMaxPayloadLen_c
          VirtualMax,  \* values of gFsciMaxVirtualInterfaces_c
          MaxSent, MaxFaults  \* bounds: packets; bytes lost and allocations that fail

VARIABLES
  maxVirtual, virtual,  \* gFsciMaxVirtualInterfaces_c, gFsciVirtualInterfaces[0]
  line,                 \* bytes on their way to the device
  rx,                   \* mFsciCommData: pPacketFromClient, its bytes, rxOngoing and the timer;
                        \* the buffers allocated and mNvCriticalSectionFlag
  slot, event,          \* mFsciClientPacketInfo, gFSCI_ClientPacketReady_c
  task,                 \* FSCI_Task waits or has been woken up
  sent, faults,         \* how many so far
  owed,                 \* packets on an undisturbed line that have to arrive
  clean,                \* nothing has disturbed the line since the receiver was at rest
  leaked,               \* buffers no pointer leads to
  hasty,                \* a packet has arrived before the one before it was handled
  late                  \* a timeout was treated that no packet waited for

fixedVars == <<maxVirtual, virtual>>
lineVars == <<line, sent>>
taskVars == <<slot, event, task, leaked, hasty>>
vars == <<fixedVars, lineVars, rx, taskVars, faults, owed, clean, late>>

StartMarker == 2
HeaderSize == 4
TailBytes == IF maxVirtual > 0 THEN 2 ELSE 1
Idle == [packet |-> "null", raw |-> <<>>, ongoing |-> FALSE, timer |-> "off",
         expired |-> "no", heap |-> 0, critical |-> 1]
NoPacket == [group |-> 0, code |-> 0, payload |-> <<>>]

(* FSCI_commInit                                                           *)
Init == /\ maxVirtual \in VirtualMax
        /\ virtual \in (IF maxVirtual = 0 THEN {0} ELSE 0 .. maxVirtual - 1)
        /\ line = <<>> /\ rx = Idle /\ slot = NoPacket /\ event = FALSE /\ task = "waits"
        /\ sent = 0 /\ faults = 0
        /\ owed = <<>> /\ clean = TRUE /\ leaked = 0 /\ hasty = FALSE /\ late = FALSE
--------------------------------------------------------------------------------
BitXor == [x, y \in 0 .. ByteRange - 1 |-> x ^^ y]
FSCI_computeChecksum(bytes) == FoldLeft(LAMBDA sum, byte : BitXor[sum, byte], 0, bytes)

Header(p) == <<StartMarker, p.group, p.code, Len(p.payload)>>

(* A packet framed while its payload is copied ...                         *)
FSCI_transmitPayload(p, v) ==
  LET sum == BitXor[FSCI_computeChecksum(Tail(Header(p))), FSCI_computeChecksum(p.payload)]
      plus == (sum + v) % ByteRange
  IN Header(p) \o p.payload \o (IF v = 0 THEN <<sum>> ELSE <<plus, BitXor[sum, plus]>>)

(* Mutant: the start marker is summed as well.                             *)
SumsStart(p, v) ==
  LET bytes == Header(p) \o p.payload
      sum == FSCI_computeChecksum(bytes)
      plus == (sum + v) % ByteRange
  IN bytes \o (IF v = 0 THEN <<sum>> ELSE <<plus, BitXor[sum, plus]>>)

(* ... or in place; with no interface in FSCI_GetFormattedPacket.          *)
FSCI_transmitFormatedPacket(p, v) ==
  LET bytes == Header(p) \o p.payload
      sum == FSCI_computeChecksum(Tail(bytes))
      plus == (sum + v) % ByteRange
  IN bytes \o (IF v = 0 THEN <<sum>> ELSE <<plus, BitXor[sum, plus]>>)

FSCI_GetFormattedPacket(p) ==
  LET bytes == Header(p) \o p.payload IN Append(bytes, FSCI_computeChecksum(Tail(bytes)))

(* The interface a checksum was raised by.                                 *)
Raise(raw) ==
  LET len == raw[HeaderSize]
  IN (raw[HeaderSize + len + 1] - FSCI_computeChecksum(SubSeq(raw, 2, HeaderSize + len))) % ByteRange

FSCI_checkPacket(raw) ==
  LET len == raw[HeaderSize]
      sum == FSCI_computeChecksum(SubSeq(raw, 2, HeaderSize + len))
      whole == HeaderSize + len + 1
  IN CASE Len(raw) < HeaderSize -> "short"
       [] Len(raw) >= HeaderSize + MaxPayload + TailBytes -> "framing"
       [] len > MaxPayload -> "framing"
       [] Len(raw) < whole -> "short"
       [] Len(raw) = whole ->
            IF Raise(raw) = 0 THEN "valid"
            ELSE IF Raise(raw) < maxVirtual THEN "short" ELSE "framing"
       [] OTHER ->
            IF /\ maxVirtual > 0 /\ Len(raw) = whole + 1
               /\ raw[whole + 1] = BitXor[sum, (sum + Raise(raw)) % ByteRange]
            THEN "valid" ELSE "framing"

Parsed(raw) == [group |-> raw[2], code |-> raw[3], payload |-> SubSeq(raw, 5, HeaderSize + raw[4])]
--------------------------------------------------------------------------------
(* FSCI_receivePacket: one byte c; the receiver r also notes the packets   *)
(* that are complete, their interfaces, and whether an allocation failed.  *)
StopTimer(r) == [r EXCEPT !.timer = "off", !.expired = IF @ = "no" THEN "no" ELSE "stale"]
Ended(r) == [StopTimer(r) EXCEPT !.packet = "null", !.raw = <<>>, !.ongoing = FALSE,
                                 !.critical = IF @ > 0 THEN @ - 1 ELSE 0]

(* Mutant: no memory, and the critical section is left set.                *)
FailedKeeps(r, c, memory) ==
  LET more == [r EXCEPT !.raw = Append(@, c)]
      status == FSCI_checkPacket(more.raw)
  IN CASE r.packet = "null" ->
            IF c = StartMarker
            THEN [r EXCEPT !.packet = "header", !.raw = <<c>>, !.ongoing = TRUE, !.critical = @ + 1]
            ELSE r
       [] r.packet # "null" /\ status = "valid" ->
            [Ended(more) EXCEPT !.got = {[packet |-> Parsed(more.raw), virtual |-> Raise(more.raw)]}]
       [] r.packet # "null" /\ status = "framing" ->
            [Ended(more) EXCEPT !.heap = IF r.packet = "buffer" THEN @ - 1 ELSE @]
       [] r.packet # "null" /\ status = "short" ->
            IF Len(more.raw) # HeaderSize THEN more
            ELSE IF memory THEN [more EXCEPT !.packet = "buffer", !.heap = @ + 1]
            ELSE [Ended(more) EXCEPT !.failed = TRUE, !.critical = more.critical]

Byte(r, c, memory) ==
  LET more == [r EXCEPT !.raw = Append(@, c)]
      status == FSCI_checkPacket(more.raw)
  IN CASE r.packet = "null" ->
            IF c = StartMarker
            THEN [r EXCEPT !.packet = "header", !.raw = <<c>>, !.ongoing = TRUE, !.critical = @ + 1]
            ELSE r
       [] r.packet # "null" /\ status = "valid" ->
            [Ended(more) EXCEPT !.got = {[packet |-> Parsed(more.raw), virtual |-> Raise(more.raw)]}]
       [] r.packet # "null" /\ status = "framing" ->
            [Ended(more) EXCEPT !.heap = IF r.packet = "buffer" THEN @ - 1 ELSE @]
       [] r.packet # "null" /\ status = "short" ->
            IF Len(more.raw) # HeaderSize THEN more
            ELSE IF memory THEN [more EXCEPT !.packet = "buffer", !.heap = @ + 1]
            ELSE [Ended(more) EXCEPT !.failed = TRUE]

Working == [got |-> {}, failed |-> FALSE] @@ rx
Receiver(r) == [f \in DOMAIN Idle |-> r[f]]
(* Mutant: the timer is started with the header only.                      *)
StartOnce(r) == IF r.packet = "header" THEN [r EXCEPT !.timer = "on"] ELSE [r EXCEPT !.timer = "off"]

StartTimer(r) == IF r.ongoing THEN [r EXCEPT !.timer = "on"] ELSE r

Pending == event \/ task = "woken"

(* What arrives for the device's interface goes into the one slot; what    *)
(* comes for another is forgotten.                                         *)
Deliver(got) ==
  LET mine == {g \in got : maxVirtual = 0 \/ g.virtual = virtual}
  IN /\ \/ mine = {} /\ UNCHANGED <<slot, event, hasty>>
        \/ \E g \in mine : /\ slot' = g.packet /\ event' = TRUE
                           /\ hasty' = (hasty \/ Pending)
     /\ leaked' = leaked + (IF got # mine \/ (mine # {} /\ Pending) THEN 1 ELSE 0)
     /\ UNCHANGED task

(* The owed packets that have not arrived; a packet that is not owed is    *)
(* kept as one that will never arrive.                                     *)
Remaining(got) == IF got = {} THEN owed
                  ELSE IF owed # <<>> /\ Head(owed) \in {g.packet : g \in got} THEN Tail(owed)
                  ELSE Append(owed, NoPacket)

FSCI_receivePacket ==
  /\ line # <<>> /\ line' = Tail(line)
  /\ \E r \in {Byte(Working, Head(line), memory) : memory \in BOOLEAN} :
      /\ (r.failed => faults < MaxFaults)
      /\ faults' = faults + (IF r.failed THEN 1 ELSE 0)
      /\ rx' = StartTimer(Receiver(r))
      /\ Deliver(r.got)
      /\ clean' = ((clean /\ ~r.failed) \/ (Len(line) = 1 /\ r.packet = "null" /\ r.expired = "no"))
      /\ owed' = IF clean /\ ~r.failed THEN Remaining(r.got) ELSE <<>>
      /\ UNCHANGED <<fixedVars, sent, late>>

(* The timer expires, in the middle of what the line holds or after it.    *)
Expire == /\ rx.timer = "on" /\ rx.expired = "no"
          /\ rx' = [rx EXCEPT !.timer = "off", !.expired = "yes"]
          /\ clean' = FALSE /\ owed' = <<>>
          /\ UNCHANGED <<fixedVars, lineVars, taskVars, faults, late>>

(* Mutant: the timeout does not free the buffer.                           *)
TimeoutForgets ==
  /\ rx.expired # "no"
  /\ rx' = [rx EXCEPT !.expired = "no", !.critical = IF @ > 0 THEN @ - 1 ELSE 0,
                      !.ongoing = FALSE, !.packet = "null", !.raw = <<>>]
  /\ late' = (late \/ rx.expired = "stale" \/ rx.packet = "null")
  /\ clean' = (line = <<>>) /\ owed' = <<>>
  /\ UNCHANGED <<fixedVars, lineVars, taskVars, faults>>

FSCI_RxRxTimeoutCb ==
  /\ rx.expired # "no"
  /\ rx' = [rx EXCEPT !.expired = "no", !.critical = IF @ > 0 THEN @ - 1 ELSE 0,
                      !.ongoing = FALSE, !.packet = "null", !.raw = <<>>,
                      !.heap = IF rx.packet = "buffer" THEN @ - 1 ELSE @]
  /\ late' = (late \/ rx.expired = "stale" \/ rx.packet = "null")
  /\ clean' = (line = <<>>) /\ owed' = <<>>
  /\ UNCHANGED <<fixedVars, lineVars, taskVars, faults>>

(* FSCI_Task: OSA_EventWait clears the event; the packet is read later.    *)
Wake == /\ task = "waits" /\ event /\ task' = "woken" /\ event' = FALSE
        /\ UNCHANGED <<fixedVars, lineVars, rx, slot, leaked, hasty, faults, owed, clean, late>>
FSCI_Task == /\ task = "woken" /\ task' = "waits"
             /\ rx' = [rx EXCEPT !.heap = @ - 1]
             /\ UNCHANGED <<fixedVars, lineVars, slot, event, leaked, hasty, faults, owed, clean, late>>
--------------------------------------------------------------------------------
(* The host, which may frame in each of the ways, and the line.            *)
Frames(p, v) == {FSCI_transmitPayload(p, v), FSCI_transmitFormatedPacket(p, v)}
                \cup (IF v = 0 THEN {FSCI_GetFormattedPacket(p)} ELSE {})
(* FSCI_checkPacket takes the last byte of the largest packet for one too  *)
(* many, unless the device has virtual interfaces and this is the first.   *)
Fits(frame) == Len(frame) < HeaderSize + MaxPayload + TailBytes

Send == /\ sent < MaxSent /\ sent' = sent + 1
        /\ \E p \in Packets, v \in 0 .. (IF maxVirtual = 0 THEN 0 ELSE maxVirtual - 1) :
             \E frame \in Frames(p, v) :
               /\ line' = line \o frame
               /\ owed' = IF clean /\ Fits(frame) THEN Append(owed, p) ELSE owed
        /\ UNCHANGED <<fixedVars, rx, taskVars, faults, clean, late>>

Lose == /\ line # <<>> /\ faults < MaxFaults /\ faults' = faults + 1 /\ line' = Tail(line)
        /\ clean' = FALSE /\ owed' = <<>>
        /\ UNCHANGED <<fixedVars, rx, taskVars, sent, late>>

Rest == line = <<>> /\ rx.timer = "off" /\ rx.expired = "no" /\ ~Pending
Stop == sent = MaxSent /\ Rest /\ UNCHANGED vars

Next == Send \/ Lose \/ FSCI_receivePacket \/ Expire \/ FSCI_RxRxTimeoutCb \/ Wake \/ FSCI_Task \/ Stop
Spec == Init /\ [][Next]_vars
FairSpec == Spec /\ WF_vars(FSCI_receivePacket) /\ WF_vars(Expire) /\ WF_vars(FSCI_RxRxTimeoutCb)
--------------------------------------------------------------------------------
TypeOK == /\ rx.packet \in {"null", "header", "buffer"} /\ rx.timer \in {"off", "on"}
          /\ rx.expired \in {"no", "yes", "stale"} /\ rx.ongoing \in BOOLEAN
          /\ rx.heap \in Int /\ rx.critical \in Nat /\ Len(rx.raw) <= HeaderSize + MaxPayload + TailBytes
          /\ event \in BOOLEAN /\ task \in {"waits", "woken"} /\ leaked \in Nat
          /\ {hasty, late, clean} \subseteq BOOLEAN

(* On a line that nothing disturbs, exactly the packets sent arrive, in    *)
(* their order and whatever way they were framed: none is owed when the    *)
(* line is empty.                                                          *)
FramesArrive == clean /\ line = <<>> => owed = <<>>

(* The critical section is held once for a packet being received and for   *)
(* the application, unless a timeout came after the end of its packet: it  *)
(* is not left set by a packet given up, nor cleared under the application.*)
SectionHeld == ~late => rx.critical = 1 + (IF rx.packet # "null" THEN 1 ELSE 0)

(* A host that waits until a packet is handled before it sends the next    *)
(* has each buffer freed once; only what comes for another interface, or   *)
(* is overwritten, is lost.                                                *)
BuffersFreed == ~hasty => rx.heap = leaked + (IF rx.packet = "buffer" THEN 1 ELSE 0) + (IF Pending THEN 1 ELSE 0)

(* Again and again, the receiver is ready for a packet: whatever is lost   *)
(* on the line, it gives up what does not come.                            *)
ReceiverRests == rx.packet = "null" /\ ~rx.ongoing
================================================================================
