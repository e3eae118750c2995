-------------------------------- MODULE FsciAck --------------------------------
(***************************************************************************)
(* FsciCommunication.c with gFsciRxAck_c at the sender and gFsciTxAck_c at *)
(* the receiver: a packet is written again until it is acknowledged or its *)
(* attempts are used up. The acknowledgement names no packet: it carries   *)
(* the checksum of one, which the sender does not look at.                 *)
(***************************************************************************)
EXTENDS Integers, Sequences

CONSTANTS MaxPackets, TxRetryCnt, \* packets to send; mFsciTxRetryCnt_c
          MaxLost                 \* bound on the frames lost

VARIABLES
  current,      \* the packet being sent or sent last
  waiting,      \* FSCI_SendPacketToSerialManager waits, with the mutex held
  txRetryCnt, ackReceived,
  frames, acks, \* on the line, each for a packet
  got,          \* the packets received, in their order, repetitions included
  acknowledged, \* packets given up as acknowledged
  lost, late    \* frames lost; a timeout came while a frame or an answer was under way

vars == <<current, waiting, txRetryCnt, ackReceived, frames, acks, got, acknowledged, lost, late>>

Init == /\ current = 0 /\ waiting = FALSE /\ txRetryCnt = 0 /\ ackReceived = FALSE
        /\ frames = <<>> /\ acks = <<>> /\ got = <<>> /\ acknowledged = {} /\ lost = 0 /\ late = FALSE

(* SerialManager_WriteBlocking                                             *)
Write(p) == frames' = Append(frames, p)

(* Mutant: an acknowledgement of before is not forgotten.                  *)
SendKeepsAck == /\ ~waiting /\ current < MaxPackets
                /\ current' = current + 1 /\ waiting' = TRUE /\ txRetryCnt' = TxRetryCnt
                /\ Write(current + 1)
                /\ UNCHANGED <<ackReceived, acks, got, acknowledged, lost, late>>

SendPacket == /\ ~waiting /\ current < MaxPackets
              /\ current' = current + 1 /\ waiting' = TRUE
              /\ ackReceived' = FALSE /\ txRetryCnt' = TxRetryCnt
              /\ Write(current + 1)
              /\ UNCHANGED <<acks, got, acknowledged, lost, late>>

(* Mutant: nobody gives up when the attempts are used up.                  *)
ExpireStays == /\ waiting /\ ~ackReceived
               /\ txRetryCnt' = IF txRetryCnt > 0 THEN txRetryCnt - 1 ELSE 0
               /\ IF txRetryCnt' # 0 THEN Write(current) ELSE UNCHANGED frames
               /\ late' = (late \/ frames # <<>> \/ acks # <<>>)
               /\ UNCHANGED <<current, waiting, ackReceived, acks, got, acknowledged, lost>>

(* The timer or the timestamps: FSCI_RxAckExpireCb                          *)
Expire == /\ waiting /\ ~ackReceived
          /\ txRetryCnt' = txRetryCnt - 1
          /\ IF txRetryCnt' # 0 THEN Write(current) /\ UNCHANGED waiting
             ELSE waiting' = FALSE /\ UNCHANGED frames
          /\ late' = (late \/ frames # <<>> \/ acks # <<>>)
          /\ UNCHANGED <<current, ackReceived, acks, got, acknowledged, lost>>

Acknowledged == /\ waiting /\ ackReceived
                /\ waiting' = FALSE /\ acknowledged' = acknowledged \cup {current}
                /\ UNCHANGED <<current, txRetryCnt, ackReceived, frames, acks, got, lost, late>>

(* FSCI_receivePacket: at the sender, and at the receiver with FSCI_Ack     *)
ReceiveAck == /\ acks # <<>> /\ acks' = Tail(acks) /\ ackReceived' = TRUE
              /\ UNCHANGED <<current, waiting, txRetryCnt, frames, got, acknowledged, lost, late>>
FSCI_Ack == /\ frames # <<>> /\ frames' = Tail(frames)
            /\ got' = Append(got, Head(frames)) /\ acks' = Append(acks, Head(frames))
            /\ UNCHANGED <<current, waiting, txRetryCnt, ackReceived, acknowledged, lost, late>>

Lose == /\ lost < MaxLost /\ lost' = lost + 1
        /\ \/ frames # <<>> /\ frames' = Tail(frames) /\ UNCHANGED acks
           \/ acks # <<>> /\ acks' = Tail(acks) /\ UNCHANGED frames
        /\ UNCHANGED <<current, waiting, txRetryCnt, ackReceived, got, acknowledged, late>>

Stop == current = MaxPackets /\ ~waiting /\ frames = <<>> /\ acks = <<>> /\ UNCHANGED vars

Next == SendPacket \/ Expire \/ Acknowledged \/ ReceiveAck \/ FSCI_Ack \/ Lose \/ Stop
Spec == Init /\ [][Next]_vars
FairSpec == Spec /\ WF_vars(Acknowledged) /\ WF_vars(Expire)
--------------------------------------------------------------------------------
TypeOK == /\ current \in 0 .. MaxPackets /\ txRetryCnt \in 0 .. TxRetryCnt
          /\ {waiting, ackReceived, late} \subseteq BOOLEAN /\ acknowledged \subseteq 1 .. MaxPackets

(* A packet taken for acknowledged has been received, and is not received  *)
(* after a later one, as long as answers come before the timeout does.     *)
AckedIsReceived ==
  ~late => /\ acknowledged \subseteq {got[i] : i \in DOMAIN got}
           /\ \A i, j \in DOMAIN got : i < j => got[i] <= got[j]

(* Again and again, no packet waits for its acknowledgement: it comes or   *)
(* the packet is given up, its buffer freed and the mutex released,        *)
(* whatever is lost.                                                       *)
SendEnds == ~waiting
================================================================================
