---------------------------------- MODULE Mws ----------------------------------
(***************************************************************************)
(* services/MWSCoexistence/MWS.c: protocol stacks share one transceiver.   *)
(*                                                                         *)
(* MWS_Acquire and MWS_Release run with interrupts off, the callbacks they *)
(* make included, so each is one step; MWS_Abort called by itself leaves   *)
(* them on, so tasks and interrupts come between its steps. Registrations  *)
(* come one after the other, and one counts when it has linked the         *)
(* protocol. A protocol that was denied waits, and its Idle callback       *)
(* acquires the transceiver; its Abort callback may refuse. mFirstMwsPrio  *)
(* and mProtocolNextPrio are the sequence they chain.                      *)
(***************************************************************************)
EXTENDS Integers, Sequences, FiniteSets, SequencesExt

CONSTANTS Protocols,   \* protocol stacks
          Priority,    \* mProtocolPriority: a lower value is a higher priority
          Preemption,  \* gMWS_UsePrioPreemption_d
          Aborters,    \* threads that call MWS_Abort
          MaxLocks,    \* bound on mwsLockCount
          NoProtocol   \* gMWS_None_c

VARIABLES chain,      \* registered protocols, by priority
          active,     \* mActiveProtocol
          lockCount,  \* mwsLockCount; -n stands for 2^32 - n
          held,       \* accesses each protocol was granted and still has
          waiting,    \* protocols that were denied, or lost their access
          aborted,    \* MWS_Abort has freed the transceiver, nobody was told
          abortPc,    \* of each aborter: the step of MWS_Abort it is at
          misled      \* history: a late step of MWS_Abort has overwritten their access
abortVars == <<abortPc, misled>>
vars == <<chain, active, lockCount, held, waiting, aborted, abortVars>>

Registered == ToSet(chain)

TypeOK == /\ chain \in Seq(Protocols) /\ Len(chain) = Cardinality(Registered)
          /\ active \in Registered \cup {NoProtocol}
          /\ lockCount \in -MaxLocks .. MaxLocks
          /\ held \in [Protocols -> 0 .. MaxLocks]
          /\ waiting \subseteq Registered
          /\ aborted \in BOOLEAN
          /\ abortPc \in [Aborters -> {"idle", "free", "count"}]
          /\ misled \subseteq Registered

Init == /\ chain = <<>> /\ active = NoProtocol /\ lockCount = 0
        /\ held = [p \in Protocols |-> 0]
        /\ waiting = {} /\ aborted = FALSE
        /\ abortPc = [a \in Aborters |-> "idle"] /\ misled = {}
--------------------------------------------------------------------------------
(* Mutant: behind the first protocol when that has the higher priority.    *)
InsertSecond(p) ==
  IF chain = <<>> \/ Priority[p] <= Priority[chain[1]]
  THEN <<p>> \o chain ELSE <<chain[1], p>> \o Tail(chain)

(* MWS_SetPriority: in front of the first protocol that is not of a higher *)
(* priority.                                                               *)
Insert(p) ==
  LET ahead == Cardinality({q \in Registered : Priority[q] < Priority[p]})
  IN InsertAt(chain, ahead + 1, p)

MWS_Register(p) == /\ p \notin Registered
                   /\ chain' = Insert(p)
                   /\ UNCHANGED <<active, lockCount, held, waiting, aborted, abortVars>>

(* The Active event gives p one access, whatever it believed before, and   *)
(* the owner before it, if there was one, has none.                        *)
Grant(p, waiters) == /\ active' = p /\ lockCount' = 1
                     /\ held' = [q \in Protocols |-> IF q = p THEN 1
                                                     ELSE IF q = active THEN 0 ELSE held[q]]
                     /\ waiting' = waiters \ {p}
                     /\ misled' = misled \ {p}

(* MWS_Acquire of a free transceiver, again by its owner, over the owner   *)
(* that is sent the abort event, and denied.                               *)
AcquireFree(p) == /\ active = NoProtocol
                  /\ Grant(p, waiting)
                  /\ aborted' = FALSE
                  /\ UNCHANGED <<chain, abortPc>>

AcquireAgain(p) == /\ active = p /\ lockCount < MaxLocks /\ held[p] < MaxLocks
                   /\ lockCount' = lockCount + 1
                   /\ held' = [held EXCEPT ![p] = @ + 1]
                   /\ waiting' = waiting \ {p}
                   /\ UNCHANGED <<chain, active, aborted, abortVars>>

MayPreempt(p, force) == force \/ (Preemption /\ Priority[active] > Priority[p])

(* Mutant: the priorities are compared the other way round.                *)
AcquireOverBlind(p, force) ==
  /\ active \notin {p, NoProtocol}
  /\ held' = [held EXCEPT ![p] = 1]
  /\ active' = p /\ lockCount' = 1 /\ waiting' = waiting \ {p}
  /\ UNCHANGED <<chain, aborted, abortVars>>

AcquireOver(p, force) == /\ active \notin {p, NoProtocol}
                         /\ MayPreempt(p, force)
                         /\ \E again \in SUBSET {active} : Grant(p, waiting \cup again)
                         /\ UNCHANGED <<chain, aborted, abortPc>>

AcquireDenied(p) == /\ active \notin {p, NoProtocol}
                    /\ waiting' = waiting \cup {p}
                    /\ UNCHANGED <<chain, active, lockCount, held, aborted, abortVars>>

MWS_Acquire(p, force) == \/ AcquireFree(p) \/ AcquireAgain(p)
                         \/ AcquireOver(p, force) \/ AcquireDenied(p)

(* MWS_SignalIdle: the first waiting protocol of the chain other than p    *)
(* takes the transceiver, and the ones behind it are not told; p, which    *)
(* has called it, does not wait.                                           *)
SignalIdle(p) ==
  LET told == {i \in DOMAIN chain : chain[i] \in waiting \ {p}}
  IN /\ \/ \E i \in told : (\A j \in told : i <= j) /\ Grant(chain[i], waiting \ {p})
        \/ /\ told = {}
           /\ active' = NoProtocol
           /\ lockCount' = IF active = NoProtocol THEN lockCount ELSE 0
           /\ held' = [q \in Protocols |-> IF q = active THEN 0 ELSE held[q]]
           /\ waiting' = waiting \ {p}
           /\ UNCHANGED misled
     /\ aborted' = FALSE
     /\ UNCHANGED abortPc

(* Mutant: the others are told only when someone waits for nothing else.   *)
ReleaseQuietly(p) ==
  /\ active = p /\ held[p] > 0
  /\ lockCount' = lockCount - 1
  /\ held' = [held EXCEPT ![p] = @ - 1]
  /\ active' = IF lockCount = 1 THEN NoProtocol ELSE p
  /\ UNCHANGED <<chain, waiting, aborted, abortVars>>

(* MWS_Release by the owner: the last one frees the transceiver. The       *)
(* Release callback does not acquire. Of a free transceiver it only tells  *)
(* the others, and of one that is another's it does nothing.               *)
Release(p) == /\ active = p /\ held[p] > 0
              /\ IF lockCount = 1 THEN SignalIdle(p)
                 ELSE /\ lockCount' = lockCount - 1
                      /\ held' = [held EXCEPT ![p] = @ - 1]
                      /\ UNCHANGED <<active, waiting, aborted, abortVars>>
              /\ UNCHANGED chain

ReleaseFree(p) == /\ active = NoProtocol /\ SignalIdle(p) /\ UNCHANGED chain

ReleaseDenied(p) == /\ active \notin {p, NoProtocol} /\ held[p] > 0
                    /\ held' = [held EXCEPT ![p] = @ - 1]
                    /\ UNCHANGED <<chain, active, lockCount, waiting, aborted, abortVars>>

(* MWS_Abort by the application, when the owner accepts; when it refuses,  *)
(* or the transceiver is free, there is no step. The owner may release it  *)
(* after the test of mActiveProtocol and before the second read of it:     *)
(* then the callback of gMWS_None_c is called, which is undefined.         *)
AbortCalls(a) ==
  /\ abortPc[a] = "idle" /\ active # NoProtocol
  /\ held' = [held EXCEPT ![active] = 0]
  /\ \E again \in SUBSET {q \in {active} : held[q] > 0} : waiting' = waiting \cup again
  /\ abortPc' = [abortPc EXCEPT ![a] = "free"]
  /\ UNCHANGED <<chain, active, lockCount, aborted, misled>>

(* An access that was given meanwhile is lost without a word.              *)
Overwritten == {p \in Registered : p = active /\ held[p] > 0}

AbortFrees(a) ==
  /\ abortPc[a] = "free"
  /\ active' = NoProtocol
  /\ aborted' = (aborted \/ active # NoProtocol)
  /\ misled' = misled \cup Overwritten
  /\ abortPc' = [abortPc EXCEPT ![a] = "count"]
  /\ UNCHANGED <<chain, lockCount, held, waiting>>

AbortUncounts(a) ==
  /\ abortPc[a] = "count"
  /\ lockCount' = 0
  /\ misled' = misled \cup Overwritten
  /\ abortPc' = [abortPc EXCEPT ![a] = "idle"]
  /\ UNCHANGED <<chain, active, held, waiting, aborted>>

Next == \/ \E p \in Protocols : MWS_Register(p)
        \/ \E p \in Registered : \/ \E force \in BOOLEAN : MWS_Acquire(p, force)
                                 \/ Release(p) \/ ReleaseFree(p) \/ ReleaseDenied(p)
        \/ \E a \in Aborters : AbortCalls(a) \/ AbortFrees(a) \/ AbortUncounts(a)

Spec == Init /\ [][Next]_vars
--------------------------------------------------------------------------------
(* The accesses a protocol believes it has are the ones MWS counts: one    *)
(* owner at a time, which loses all of them when it is aborted. Two cases  *)
(* are excepted: the owner between its Abort callback and the clearing of  *)
(* mActiveProtocol, and, until it is given the transceiver anew, a         *)
(* protocol whose access came in between and was cleared with the old one. *)
AccessesAgree ==
  \A p \in Protocols \ misled :
    \/ held[p] = IF p = active THEN lockCount ELSE 0
    \/ p = active /\ \E a \in Aborters : abortPc[a] = "free"

(* A free transceiver has no waiting protocol, unless MWS_Abort freed it:  *)
(* MWS_Release tells every protocol that waits, MWS_Abort nobody.          *)
FreeIsOffered == active = NoProtocol /\ ~ aborted => waiting = {}

(* A release hands the transceiver to a protocol that no other waiting     *)
(* protocol precedes in priority.                                          *)
HandedByPriority ==
  [][\A p \in Registered : Release(p) /\ active' \notin {p, NoProtocol}
        => \A q \in waiting \ {p} : Priority[q] >= Priority[active']]_vars
================================================================================
