---------------------------- MODULE WorkQ_proofs ----------------------------
(***************************************************************************)
(* Proofs, for any sets of queues, work items and callers, of the safety   *)
(* properties of WorkQ.                                                    *)
(***************************************************************************)
EXTENDS WorkQ, Integers, SequenceTheorems, TLAPS

Detached(q) == tpc[q] = "claim"
Busy(q)     == tpc[q] \in {"run", "clear"}

(* Until a queue is started nothing is in its list and its thread, if it   *)
(* has one, finds no work; nobody restarts a started queue.                *)
StartInv == /\ \A q \in Queue : spc[q] # "idle" => ~started[q]
            /\ \A q \in Queue : ~started[q] => /\ pending[q] = <<>>
                                               /\ ~Detached(q)
                                               /\ ~Busy(q)

(* A linked or detached item is flagged QUEUED, an item in its handler     *)
(* RUNNING, and work->queue names the queue that holds it: the flags and   *)
(* the pointer are what the code decides a submission on.                  *)
FlagsInv == /\ \A q \in Queue : \A w \in Range(pending[q]) : Queued(w) /\ owner[w] = q
            /\ \A q \in Queue : Detached(q) => Queued(node[q]) /\ owner[node[q]] = q
            /\ \A q \in Queue : Busy(q) => Running(node[q]) /\ owner[node[q]] = q
            /\ \A w \in Work : Running(w) => \E q \in Queue : Busy(q) /\ node[q] = w

(* Within one queue an item is at one place.                               *)
LinkInv == \A q \in Queue : /\ IsInjective(pending[q])
                            /\ Detached(q) => node[q] \notin Range(pending[q])

IInv == TypeOK /\ StartInv /\ FlagsInv /\ LinkInv
-----------------------------------------------------------------------------
(* What the list operations of the code do to the set of linked items.     *)

LEMMA RangeIsSet ==
  ASSUME NEW S, NEW s \in Seq(S)
  PROVE  /\ \A x : x \in Range(s) <=> \E i \in 1..Len(s) : s[i] = x
         /\ Range(s) \subseteq S
         /\ IsInjective(s) <=> \A i, j \in 1..Len(s) : s[i] = s[j] => i = j
  BY DEF Range, IsInjective

(* Adding an item that is not in the list.                                 *)
LEMMA AppendLinks ==
  ASSUME NEW S, NEW s \in Seq(S), NEW w \in S
  PROVE  /\ Append(s, w) \in Seq(S)
         /\ Range(Append(s, w)) = Range(s) \cup {w}
         /\ IsInjective(s) /\ w \notin Range(s) => IsInjective(Append(s, w))
<1> DEFINE a == Append(s, w)
<1>1. a \in Seq(S)
  OBVIOUS
<1>2. /\ Len(s) \in Nat
      /\ Len(a) = Len(s) + 1
      /\ a[Len(s) + 1] = w
      /\ \A i \in 1..Len(s) : a[i] = s[i]
  OBVIOUS
<1> HIDE DEF a
<1>3. Range(a) = Range(s) \cup {w}
  <2>1. \A x : x \in Range(a) <=> \E i \in 1..(Len(s) + 1) : a[i] = x
    BY <1>1, <1>2, RangeIsSet
  <2>2. \A x : x \in Range(s) <=> \E i \in 1..Len(s) : s[i] = x
    BY RangeIsSet
  <2>3. 1..(Len(s) + 1) = (1..Len(s)) \cup {Len(s) + 1}
    BY <1>2
  <2>4. \A x : x \in Range(a) <=> x \in Range(s) \/ x = w
    BY <1>2, <2>1, <2>2, <2>3
  <2> QED
    BY <2>4
<1>4. ASSUME IsInjective(s), w \notin Range(s)
      PROVE  IsInjective(a)
  <2>1. \A i \in 1..Len(s) : s[i] # w
    BY <1>4, RangeIsSet
  <2>2. \A i, j \in 1..Len(s) : s[i] = s[j] => i = j
    BY <1>4, RangeIsSet
  <2>3. \A i, j \in 1..Len(a) : a[i] = a[j] => i = j
    BY <1>2, <2>1, <2>2
  <2> QED
    BY <1>1, <2>3, RangeIsSet
<1> QED
  BY <1>1, <1>3, <1>4 DEF a

(* Taking the first item out of a list without duplicates.                 *)
LEMMA TailUnlinks ==
  ASSUME NEW S, NEW s \in Seq(S), s # <<>>
  PROVE  /\ Head(s) \in S /\ Head(s) \in Range(s)
         /\ Tail(s) \in Seq(S)
         /\ Range(Tail(s)) \subseteq Range(s)
         /\ IsInjective(s) => IsInjective(Tail(s)) /\ Head(s) \notin Range(Tail(s))
<1>1. /\ Len(s) \in Nat \ {0}
      /\ Tail(s) \in Seq(S)
      /\ Len(Tail(s)) = Len(s) - 1
      /\ \A i \in 1..(Len(s) - 1) : Tail(s)[i] = s[i + 1]
      /\ Head(s) = s[1]
      /\ s[1] \in S
  OBVIOUS
<1>2. /\ \A x : x \in Range(s) <=> \E i \in 1..Len(s) : s[i] = x
      /\ \A x : x \in Range(Tail(s)) <=> \E i \in 1..(Len(s) - 1) : s[i + 1] = x
  <2>1. PICK t : t = Tail(s)
    OBVIOUS
  <2>2. PICK m : m = Len(s) - 1
    OBVIOUS
  <2>7. m \in Nat
    <3>1. Len(s) \in Nat \ {0}
      OBVIOUS
    <3> QED
      BY <2>2, <3>1
  <2>3. t \in Seq(S) /\ Len(t) = m /\ \A i \in 1..m : t[i] = s[i + 1]
    BY <1>1, <2>1, <2>2, Zenon
  <2>4. \A x : x \in Range(t) <=> \E i \in 1..m : t[i] = x
    BY <2>3, RangeIsSet
  <2>5. \A x : x \in Range(t) <=> \E i \in 1..m : s[i + 1] = x
    BY <2>3, <2>4
  <2>6. \A x : x \in Range(s) <=> \E i \in 1..Len(s) : s[i] = x
    BY RangeIsSet
  <2> QED
    BY <2>1, <2>2, <2>5, <2>6
<1>3. Range(Tail(s)) \subseteq Range(s) /\ Head(s) \in Range(s)
  <2>1. \A i \in 1..(Len(s) - 1) : i + 1 \in 1..Len(s)
    BY <1>1
  <2>2. 1 \in 1..Len(s)
    BY <1>1
  <2> QED
    BY <1>1, <1>2, <2>1, <2>2, Zenon
<1>4. ASSUME IsInjective(s)
      PROVE  IsInjective(Tail(s)) /\ Head(s) \notin Range(Tail(s))
  <2>1. \A i, j \in 1..Len(s) : s[i] = s[j] => i = j
    BY <1>4, RangeIsSet
  <2>2. \A i \in 1..(Len(s) - 1) : s[i + 1] # s[1]
    BY <1>1, <2>1
  <2>3. \A i, j \in 1..Len(Tail(s)) : Tail(s)[i] = Tail(s)[j] => i = j
    BY <1>1, <2>1
  <2>4. IsInjective(Tail(s))
    BY <1>1, <2>3, RangeIsSet
  <2> QED
    BY <1>1, <1>2, <2>2, <2>4
<1> QED
  BY <1>1, <1>3, <1>4

LEMMA EmptyLinks == Range(<<>>) = {} /\ IsInjective(<<>>)
  BY DEF Range, IsInjective
-----------------------------------------------------------------------------
LEMMA InitIInv == Init => IInv
<1> SUFFICES ASSUME Init PROVE IInv
  OBVIOUS
<1> QED
  BY EmptyLinks DEF Init, IInv, TypeOK, StartInv, FlagsInv, LinkInv, Detached, Busy,
                    Queued, Running

(* A submission adds an item that is neither linked nor detached anywhere, *)
(* and changes the owner only of an item nobody runs.                      *)
LEMMA SubmitIInv ==
  ASSUME IInv, NEW c \in Caller, NEW q \in Queue, NEW w \in Work, SubmitAccept(c, q, w)
  PROVE  IInv'
<1> DEFINE t == Target(q, w)
<1> USE NullAssumption
<1>1. /\ ~Queued(w)
      /\ started[t]
      /\ Running(w) => t = owner[w]
      /\ ~Running(w) => t = q
  BY DEF SubmitAccept, SubmitResult, Target
<1>2. t \in Queue
  BY <1>1 DEF IInv, FlagsInv, Busy
<1>3. /\ pending' = [pending EXCEPT ![t] = Append(@, w)]
      /\ flags' = [flags EXCEPT ![w] = @ \cup {"QUEUED"}]
      /\ owner' = [owner EXCEPT ![w] = t]
      /\ notify' = [notify EXCEPT ![c] = t]
      /\ UNCHANGED <<started, event, tpc, node, spc>>
  BY DEF SubmitAccept, threadVars
<1> HIDE DEF t
<1>4. \A r \in Queue : w \notin Range(pending[r]) /\ ~(Detached(r) /\ node[r] = w)
  BY <1>1 DEF IInv, FlagsInv
<1>5. \A r \in Queue : /\ r # t => pending'[r] = pending[r]
                       /\ r = t => pending'[r] = Append(pending[r], w)
  BY <1>2, <1>3 DEF IInv, TypeOK
<1>6. \A r \in Queue : /\ pending'[r] \in Seq(Work)
                       /\ Range(pending'[r]) = Range(pending[r]) \cup (IF r = t THEN {w} ELSE {})
                       /\ IsInjective(pending'[r])
  <2>1. \A r \in Queue : pending[r] \in Seq(Work) /\ IsInjective(pending[r])
    BY DEF IInv, TypeOK, LinkInv
  <2>2. \A r \in Queue : /\ Append(pending[r], w) \in Seq(Work)
                         /\ Range(Append(pending[r], w)) = Range(pending[r]) \cup {w}
                         /\ IsInjective(Append(pending[r], w))
    BY <1>4, <2>1, AppendLinks
  <2> QED
    BY <1>5, <2>1, <2>2
<1>7. TypeOK'
  <2>1. pending' \in [Queue -> Seq(Work)]
    BY <1>3, <1>6 DEF IInv, TypeOK
  <2> QED
    BY <1>2, <1>3, <2>1 DEF IInv, TypeOK
<1>8. StartInv'
  BY <1>1, <1>2, <1>3, <1>5 DEF IInv, StartInv, Detached, Busy
<1>9. FlagsInv'
  <2>1. \A x \in Work : /\ Queued(x) => Queued(x)'
                        /\ Running(x) => Running(x)'
                        /\ x # w => owner'[x] = owner[x]
    BY <1>3 DEF IInv, TypeOK, Queued, Running
  <2>2. Queued(w)' /\ owner'[w] = t
    BY <1>3 DEF IInv, TypeOK, Queued
  <2>3. ASSUME NEW r \in Queue, NEW x \in Range(pending'[r])
        PROVE  Queued(x)' /\ owner'[x] = r
    BY <1>4, <1>6, <2>1, <2>2, <2>3, RangeIsSet DEF IInv, FlagsInv, TypeOK
  <2>4. ASSUME NEW r \in Queue, Detached(r)'
        PROVE  Queued(node[r])' /\ owner'[node[r]] = r
    BY <1>3, <1>4, <2>1, <2>4 DEF IInv, FlagsInv, TypeOK, Detached
  <2>5. ASSUME NEW r \in Queue, Busy(r)'
        PROVE  Running(node[r])' /\ owner'[node[r]] = r
    BY <1>1, <1>3, <2>1, <2>2, <2>5 DEF IInv, FlagsInv, TypeOK, Busy
  <2>6. ASSUME NEW x \in Work, Running(x)'
        PROVE  \E r \in Queue : Busy(r)' /\ node'[r] = x
    <3>1. Running(x)
      BY <1>3, <2>6 DEF IInv, TypeOK, Running
    <3> QED
      BY <1>3, <3>1 DEF IInv, FlagsInv, Busy
  <2> QED
    BY <1>3, <2>3, <2>4, <2>5, <2>6 DEF FlagsInv, Queued, Running
<1>10. LinkInv'
  BY <1>3, <1>4, <1>6 DEF IInv, LinkInv, Detached
<1> QED
  BY <1>7, <1>8, <1>9, <1>10 DEF IInv

(* Steps that touch neither the lists, the flags nor the detached nodes.   *)
LEMMA FrameIInv ==
  ASSUME IInv, TypeOK',
         UNCHANGED <<pending, flags, owner, node>>,
         \A q \in Queue : /\ spc'[q] # "idle" => ~started'[q]
                          /\ started[q] => started'[q]
                          /\ Detached(q)' <=> Detached(q)
                          /\ Busy(q)' <=> Busy(q)
  PROVE  IInv'
  BY DEF IInv, StartInv, FlagsInv, LinkInv, Queued, Running

LEMMA StartIInv ==
  ASSUME IInv, NEW q \in Queue, StartInit(q) \/ StartTask(q) \/ StartFlag(q)
  PROVE  IInv'
<1>1. CASE StartInit(q)
  <2>1. pending' = pending
    BY <1>1 DEF StartInit, IInv, StartInv, TypeOK
  <2>2. TypeOK'
    BY <1>1, <2>1 DEF StartInit, IInv, TypeOK, workVars, threadVars
  <2>3. /\ UNCHANGED <<started, flags, owner, tpc, node>>
        /\ \A r \in Queue : spc'[r] # "idle" => spc[r] # "idle" \/ r = q
        /\ ~started[q]
    BY <1>1 DEF StartInit, IInv, TypeOK, workVars, threadVars
  <2>4. \A r \in Queue : /\ spc'[r] # "idle" => ~started'[r]
                         /\ started[r] => started'[r]
                         /\ Detached(r)' <=> Detached(r)
                         /\ Busy(r)' <=> Busy(r)
    BY <2>3 DEF IInv, StartInv, Detached, Busy
  <2> QED
    BY <2>1, <2>2, <2>3, <2>4, FrameIInv
<1>2. CASE StartTask(q)
  <2>1. TypeOK'
    BY <1>2, ZenonT(60) DEF StartTask, IInv, TypeOK, workVars
  <2>2. ~Detached(q) /\ ~Busy(q)
    BY <1>2 DEF StartTask, IInv, StartInv
  <2> QED
    BY <1>2, <2>1, <2>2, FrameIInv, SMTT(30)
    DEF StartTask, IInv, StartInv, TypeOK, workVars, Detached, Busy
<1>3. CASE StartFlag(q)
  <2>1. TypeOK'
    BY <1>3 DEF StartFlag, IInv, TypeOK, workVars, threadVars
  <2> QED
    BY <1>3, <2>1, FrameIInv
    DEF StartFlag, IInv, StartInv, TypeOK, workVars, threadVars, Detached, Busy
<1> QED
  BY <1>1, <1>2, <1>3

LEMMA NotifyIInv == ASSUME IInv, NEW c \in Caller, Notify(c) PROVE IInv'
<1>1. TypeOK'
  BY DEF Notify, IInv, TypeOK, workVars, threadVars
<1> QED
  BY <1>1, FrameIInv DEF Notify, IInv, StartInv, workVars, threadVars, Detached, Busy

LEMMA WakeIInv == ASSUME IInv, NEW q \in Queue, Wake(q) PROVE IInv'
<1>1. TypeOK'
  BY DEF Wake, IInv, TypeOK, workVars
<1> QED
  BY <1>1, FrameIInv DEF Wake, IInv, StartInv, TypeOK, workVars, Detached, Busy

(* Taking the head of the list detaches a node that is linked nowhere else.*)
LEMMA RemoveIInv == ASSUME IInv, NEW q \in Queue, Remove(q) PROVE IInv'
<1>1. CASE pending[q] = <<>>
  <2>1. TypeOK'
    BY <1>1 DEF Remove, IInv, TypeOK, workVars
  <2>2. \A r \in Queue : /\ Detached(r)' <=> Detached(r)
                         /\ Busy(r)' <=> Busy(r)
                         /\ Detached(r) \/ Busy(r) => node'[r] = node[r]
    BY <1>1 DEF Remove, IInv, TypeOK, Detached, Busy
  <2> QED
    BY <1>1, <2>1, <2>2
    DEF Remove, IInv, StartInv, FlagsInv, LinkInv, TypeOK, workVars, Queued, Running
<1>2. CASE pending[q] # <<>>
  <2>1. /\ tpc[q] = "remove"
        /\ node' = [node EXCEPT ![q] = Head(pending[q])]
        /\ pending' = [pending EXCEPT ![q] = Tail(@)]
        /\ tpc' = [tpc EXCEPT ![q] = "claim"]
        /\ UNCHANGED <<started, event, flags, owner, notify, spc>>
    BY <1>2 DEF Remove, workVars
  <2>2. pending[q] \in Seq(Work) /\ IsInjective(pending[q])
    BY DEF IInv, TypeOK, LinkInv
  <2>3. /\ Head(pending[q]) \in Work /\ Head(pending[q]) \in Range(pending[q])
        /\ Tail(pending[q]) \in Seq(Work)
        /\ Range(Tail(pending[q])) \subseteq Range(pending[q])
        /\ IsInjective(Tail(pending[q]))
        /\ Head(pending[q]) \notin Range(Tail(pending[q]))
    BY <1>2, <2>2, TailUnlinks
  <2>4. /\ \A r \in Queue : /\ r # q => pending'[r] = pending[r] /\ node'[r] = node[r]
                            /\ r # q => tpc'[r] = tpc[r]
        /\ pending'[q] = Tail(pending[q])
        /\ node'[q] = Head(pending[q])
        /\ tpc'[q] = "claim"
    BY <2>1 DEF IInv, TypeOK
  <2>5. TypeOK'
    BY <2>1, <2>3, <2>4 DEF IInv, TypeOK
  <2>6. StartInv'
    BY <1>2, <2>1, <2>4 DEF IInv, StartInv, Detached, Busy
  <2>7. FlagsInv'
    <3>1. \A x \in Work : /\ Queued(x)' <=> Queued(x)
                          /\ Running(x)' <=> Running(x)
                          /\ owner'[x] = owner[x]
      BY <2>1 DEF Queued, Running
    <3>2. \A r \in Queue : \A x \in Range(pending'[r]) : Queued(x)' /\ owner'[x] = r
      BY <2>1, <2>3, <2>4 DEF IInv, FlagsInv, Queued
    <3>3. Queued(node[q])' /\ owner'[node'[q]] = q
      BY <2>1, <2>3, <2>4 DEF IInv, FlagsInv, Queued
    <3>4. \A r \in Queue : Busy(r)' <=> Busy(r) /\ r # q
      BY <2>1, <2>4 DEF Busy
    <3>5. \A x \in Work : Running(x)' => \E r \in Queue : Busy(r)' /\ node'[r] = x
      <4> SUFFICES ASSUME NEW x \in Work, Running(x)
                   PROVE  \E r \in Queue : Busy(r)' /\ node'[r] = x
        BY <3>1
      <4>1. PICK r \in Queue : Busy(r) /\ node[r] = x
        BY DEF IInv, FlagsInv
      <4>2. r # q
        BY <2>1, <4>1 DEF Busy
      <4> QED
        BY <2>4, <3>4, <4>1, <4>2
    <3> QED
      BY <2>1, <2>4, <3>2, <3>3, <3>4, <3>5 DEF IInv, FlagsInv, Detached, Queued, Running
  <2>8. LinkInv'
    BY <2>3, <2>4 DEF IInv, LinkInv, Detached
  <2> QED
    BY <2>5, <2>6, <2>7, <2>8 DEF IInv
<1> QED
  BY <1>1, <1>2

LEMMA ClaimIInv == ASSUME IInv, NEW q \in Queue, Claim(q) PROVE IInv'
<1> DEFINE w == node[q]
<1>1. /\ tpc[q] = "claim"
      /\ flags' = [flags EXCEPT ![w] = (@ \cup {"RUNNING"}) \ {"QUEUED"}]
      /\ tpc' = [tpc EXCEPT ![q] = "run"]
      /\ UNCHANGED <<started, pending, event, owner, node, notify, spc>>
  BY DEF Claim
<1>2. w \in Work /\ owner[w] = q /\ w \notin Range(pending[q])
  BY <1>1 DEF IInv, TypeOK, FlagsInv, LinkInv, Detached
<1> HIDE DEF w
<1>3. /\ \A x \in Work : x # w => (Queued(x)' <=> Queued(x)) /\ (Running(x)' <=> Running(x))
      /\ "RUNNING" \in flags'[w]
  <2>1. flags'[w] = (flags[w] \cup {"RUNNING"}) \ {"QUEUED"}
    BY <1>1, <1>2 DEF IInv, TypeOK
  <2>2. \A x \in Work : x # w => flags'[x] = flags[x]
    BY <1>1, <1>2 DEF IInv, TypeOK
  <2> QED
    BY <2>1, <2>2 DEF Queued, Running
<1>4. \A r \in Queue : /\ Detached(r)' <=> Detached(r) /\ r # q
                       /\ Busy(r)' <=> Busy(r) \/ r = q
  BY <1>1 DEF IInv, TypeOK, Detached, Busy
<1>5. \A r \in Queue : /\ w \notin Range(pending[r])
                       /\ Detached(r) \/ Busy(r) => r = q \/ node[r] # w
  BY <1>2 DEF IInv, FlagsInv
<1>6. TypeOK'
  BY <1>1, <1>2 DEF IInv, TypeOK, w
<1>7. StartInv'
  BY <1>1, <1>4 DEF IInv, StartInv, Detached
<1>8. FlagsInv'
  <2>1. \A r \in Queue : \A x \in Range(pending[r]) : x \in Work
    BY RangeIsSet DEF IInv, TypeOK
  <2>2. \A r \in Queue : Detached(r) \/ Busy(r) => node[r] \in Work
    BY DEF IInv, TypeOK, Detached, Busy
  <2>3. \A r \in Queue : \A x \in Range(pending[r]) : Queued(x)' /\ owner[x] = r
    BY <1>3, <1>5, <2>1 DEF IInv, FlagsInv
  <2>4. \A r \in Queue : Detached(r)' => Queued(node[r])' /\ owner[node[r]] = r
    BY <1>1, <1>3, <1>4, <1>5, <2>2 DEF IInv, FlagsInv, Queued
  <2>5. \A r \in Queue : Busy(r)' => Running(node[r])' /\ owner[node[r]] = r
    BY <1>1, <1>2, <1>3, <1>4, <2>2 DEF IInv, FlagsInv, Running, w
  <2>6. \A x \in Work : Running(x)' => \E r \in Queue : Busy(r)' /\ node[r] = x
    BY <1>3, <1>4 DEF IInv, FlagsInv, w
  <2> QED
    BY <1>1, <2>3, <2>4, <2>5, <2>6 DEF FlagsInv
<1>9. LinkInv'
  BY <1>1, <1>4 DEF IInv, LinkInv
<1> QED
  BY <1>6, <1>7, <1>8, <1>9 DEF IInv

LEMMA ReturnIInv == ASSUME IInv, NEW q \in Queue, Return(q) PROVE IInv'
<1>1. TypeOK'
  BY DEF Return, IInv, TypeOK, workVars
<1> QED
  BY <1>1, FrameIInv DEF Return, IInv, StartInv, TypeOK, workVars, Detached, Busy

LEMMA ClearIInv == ASSUME IInv, NEW q \in Queue, Clear(q) PROVE IInv'
<1> DEFINE w == node[q]
<1>1. /\ tpc[q] = "clear"
      /\ flags' = [flags EXCEPT ![w] = @ \ {"RUNNING"}]
      /\ tpc' = [tpc EXCEPT ![q] = "remove"]
      /\ UNCHANGED <<started, pending, event, owner, node, notify, spc>>
  BY DEF Clear
<1>2. w \in Work /\ owner[w] = q
  BY <1>1 DEF IInv, TypeOK, FlagsInv, Busy
<1> HIDE DEF w
<1>3. /\ \A x \in Work : (Queued(x)' <=> Queued(x)) /\ (Running(x)' => Running(x) /\ x # w)
      /\ \A x \in Work : x # w => (Running(x)' <=> Running(x))
  BY <1>1, <1>2 DEF IInv, TypeOK, Queued, Running
<1>4. \A r \in Queue : /\ Detached(r)' <=> Detached(r)
                       /\ Busy(r)' <=> Busy(r) /\ r # q
  BY <1>1 DEF IInv, TypeOK, Detached, Busy
<1>5. TypeOK'
  BY <1>1, <1>2 DEF IInv, TypeOK, w
<1>6. StartInv'
  BY <1>1, <1>4 DEF IInv, StartInv
<1>7. FlagsInv'
  <2>1. \A r \in Queue : \A x \in Range(pending[r]) : x \in Work
    BY RangeIsSet DEF IInv, TypeOK
  <2>2. \A r \in Queue : Detached(r) \/ Busy(r) => node[r] \in Work
    BY DEF IInv, TypeOK, Detached, Busy
  <2>3. \A r \in Queue : \A x \in Range(pending[r]) : Queued(x)' /\ owner[x] = r
    BY <1>3, <2>1 DEF IInv, FlagsInv
  <2>4. \A r \in Queue : Detached(r)' => Queued(node[r])' /\ owner[node[r]] = r
    BY <1>1, <1>3, <1>4, <2>2 DEF IInv, FlagsInv, Queued
  <2>5. \A r \in Queue : Busy(r)' => Running(node[r])' /\ owner[node[r]] = r
    BY <1>1, <1>2, <1>3, <1>4, <2>2 DEF IInv, FlagsInv, Running
  <2>6. \A x \in Work : Running(x)' => \E r \in Queue : Busy(r)' /\ node[r] = x
    BY <1>3, <1>4 DEF IInv, FlagsInv, w
  <2> QED
    BY <1>1, <2>3, <2>4, <2>5, <2>6 DEF FlagsInv
<1>8. LinkInv'
  BY <1>1, <1>4 DEF IInv, LinkInv
<1> QED
  BY <1>5, <1>6, <1>7, <1>8 DEF IInv

LEMMA StepIInv == IInv /\ [Next]_vars => IInv'
<1> SUFFICES ASSUME IInv, [Next]_vars PROVE IInv'
  OBVIOUS
<1>1. CASE UNCHANGED vars
  BY <1>1 DEF vars, IInv, TypeOK, StartInv, FlagsInv, LinkInv, Detached, Busy, Queued, Running
<1>2. ASSUME NEW c \in Caller, NEW q \in Queue, NEW w \in Work, SubmitRefuse(c, q, w)
      PROVE  IInv'
  BY <1>1, <1>2 DEF SubmitRefuse
<1> QED
  BY <1>1, <1>2, StartIInv, SubmitIInv, NotifyIInv, WakeIInv, RemoveIInv, ClaimIInv,
     ReturnIInv, ClearIInv
  DEF Next, ThreadStep

LEMMA SpecIInv == Spec => []IInv
<1> QED
  BY InitIInv, StepIInv, PTL DEF Spec
-----------------------------------------------------------------------------
(* The pointers and program counters of the queues stay in their ranges:   *)
(* a thread never runs a null node.                                        *)
THEOREM TypeCorrect == Spec => []TypeOK
<1>1. IInv => TypeOK
  BY DEF IInv
<1> QED
  BY <1>1, SpecIInv, PTL

(* The redirection of a running item to work->queue suffices to keep every *)
(* handler from being entered by two threads, for any number of queues.    *)
THEOREM HandlersNotReentered == Spec => []HandlerNotReentered
<1>1. IInv => HandlerNotReentered
  BY DEF IInv, FlagsInv, HandlerNotReentered, InHandler, Busy
<1> QED
  BY <1>1, SpecIInv, PTL

(* The QUEUED flag suffices to keep the embedded list node out of a second *)
(* list, the window between LIST_RemoveHead and the lock included.         *)
THEOREM NodesLinkedOnce == Spec => []NodeLinkedOnce
<1>1. ASSUME IInv PROVE NodeLinkedOnce
  <2>1. \A q \in Queue : IsInjective(pending[q])
    BY <1>1 DEF IInv, LinkInv
  <2>2. \A q, r \in Queue : q # r => Range(pending[q]) \cap Range(pending[r]) = {}
    BY <1>1 DEF IInv, FlagsInv
  <2>3. \A q, r \in Queue : tpc[q] = "claim" => node[q] \notin Range(pending[r])
    BY <1>1 DEF IInv, FlagsInv, LinkInv, Detached
  <2> QED
    BY <2>1, <2>2, <2>3 DEF NodeLinkedOnce
<1> QED
  BY <1>1, SpecIInv, PTL

(* No interleaving of a submission with the thread going to sleep leaves   *)
(* items behind: the event is set after the list changed, and cleared by   *)
(* the wait before the list is read.                                       *)
THEOREM NoWakeupLost == Spec => []NoLostWakeup
<1>1. Init => NoLostWakeup
  BY DEF Init, NoLostWakeup
<1>2. ASSUME IInv, NoLostWakeup, [Next]_vars PROVE NoLostWakeup'
  <2> USE <1>2, NullAssumption
  <2>1. CASE UNCHANGED vars
    BY <2>1 DEF vars, NoLostWakeup
  <2>2. ASSUME NEW q \in Queue, StartInit(q) PROVE NoLostWakeup'
    <3>1. pending[q] = <<>> /\ \A r \in Queue : pending'[r] = pending[r]
      BY <2>2 DEF StartInit, IInv, StartInv, TypeOK
    <3>2. /\ tpc' = tpc /\ notify' = notify
          /\ \A r \in Queue : r # q => event'[r] = event[r]
      BY <2>2 DEF StartInit, threadVars, IInv, TypeOK
    <3> QED
      BY <3>1, <3>2 DEF NoLostWakeup
  <2>3. ASSUME NEW q \in Queue, StartTask(q) PROVE NoLostWakeup'
    <3>1. pending[q] = <<>>
      BY <2>3 DEF StartTask, IInv, StartInv
    <3> QED
      BY <2>3, <3>1 DEF StartTask, NoLostWakeup, IInv, TypeOK
  <2>4. ASSUME NEW q \in Queue, StartFlag(q) PROVE NoLostWakeup'
    BY <2>4 DEF StartFlag, NoLostWakeup, threadVars
  <2>5. ASSUME NEW c \in Caller, NEW q \in Queue, NEW w \in Work, SubmitAccept(c, q, w)
        PROVE  NoLostWakeup'
    <3> DEFINE t == Target(q, w)
    <3>1. /\ notify[c] = NoQueue
          /\ pending' = [pending EXCEPT ![t] = Append(@, w)]
          /\ notify' = [notify EXCEPT ![c] = t]
          /\ UNCHANGED <<event, tpc>>
      BY <2>5 DEF SubmitAccept, threadVars
    <3> HIDE DEF t
    <3>2. notify'[c] = t /\ \A d \in Caller : d # c => notify'[d] = notify[d]
      BY <3>1 DEF IInv, TypeOK
    <3>3. \A r \in Queue : r # t => pending'[r] = pending[r]
      BY <3>1 DEF IInv, TypeOK
    <3> QED
      BY <3>1, <3>2, <3>3 DEF NoLostWakeup
  <2>6. ASSUME NEW c \in Caller, Notify(c) PROVE NoLostWakeup'
    <3>1. /\ pending' = pending /\ tpc' = tpc
          /\ \A d \in Caller : d # c => notify'[d] = notify[d]
          /\ \A r \in Queue : event'[r] = (event[r] \/ r = notify[c])
      BY <2>6 DEF Notify, threadVars, IInv, TypeOK
    <3> QED
      BY <3>1, ZenonT(60) DEF NoLostWakeup
  <2>7. ASSUME NEW q \in Queue, Wake(q) PROVE NoLostWakeup'
    BY <2>7 DEF Wake, NoLostWakeup, IInv, TypeOK
  <2>8. ASSUME NEW q \in Queue, Remove(q) PROVE NoLostWakeup'
    <3>1. /\ \A r \in Queue : r # q => pending'[r] = pending[r] /\ tpc'[r] = tpc[r]
          /\ tpc'[q] = "wait" => pending'[q] = <<>>
          /\ UNCHANGED <<event, notify>>
      BY <2>8 DEF Remove, IInv, TypeOK
    <3> QED
      BY <3>1 DEF NoLostWakeup
  <2>9. ASSUME NEW q \in Queue, Claim(q) \/ Return(q) \/ Clear(q) PROVE NoLostWakeup'
    <3>1. /\ UNCHANGED <<pending, event, notify>>
          /\ \A r \in Queue : tpc'[r] = "wait" => tpc[r] = "wait"
      BY <2>9 DEF Claim, Return, Clear, IInv, TypeOK
    <3> QED
      BY <3>1 DEF NoLostWakeup
  <2>10. ASSUME NEW c \in Caller, NEW q \in Queue, NEW w \in Work, SubmitRefuse(c, q, w)
         PROVE  NoLostWakeup'
    BY <2>1, <2>10 DEF SubmitRefuse
  <2> QED
    BY <2>1, <2>2, <2>3, <2>4, <2>5, <2>6, <2>7, <2>8, <2>9, <2>10 DEF Next, ThreadStep
<1> QED
  BY <1>1, <1>2, SpecIInv, PTL DEF Spec
-----------------------------------------------------------------------------
(* The refinement: every step of the code is a step of the abstract        *)
(* service or leaves it alone. A work item enters the backlog when it is   *)
(* submitted, stays at its head while detached, and is active until the    *)
(* RUNNING flag is cleared.                                                *)
backlogBar == [q \in Queue |-> IF tpc[q] = "claim" THEN <<node[q]>> \o pending[q]
                                                   ELSE pending[q]]
activeBar  == [q \in Queue |-> IF tpc[q] \in {"run", "clear"} THEN node[q] ELSE NoWork]

LEMMA ConsProperties ==
  ASSUME NEW S, NEW x \in S, NEW y \in S, NEW s \in Seq(S)
  PROVE  /\ <<x>> \o s # <<>>
         /\ Head(<<x>> \o s) = x
         /\ Tail(<<x>> \o s) = s
         /\ <<x>> \o Append(s, y) = Append(<<x>> \o s, y)
         /\ s # <<>> => <<Head(s)>> \o Tail(s) = s
         /\ Range(<<x>> \o s) \subseteq Range(s) \cup {x}
<1>1. /\ <<x>> \o s \in Seq(S)
      /\ Len(s) \in Nat
      /\ Len(<<x>> \o s) = Len(s) + 1
      /\ (<<x>> \o s)[1] = x
      /\ \A i \in 2..(Len(s) + 1) : (<<x>> \o s)[i] = s[i - 1]
  OBVIOUS
<1>2. Range(<<x>> \o s) \subseteq Range(s) \cup {x}
  <2> DEFINE c == <<x>> \o s
  <2> HIDE DEF c
  <2>1. c \in Seq(S) /\ Len(s) \in Nat /\ Len(c) = Len(s) + 1 /\ c[1] = x
    BY <1>1 DEF c
  <2>2. \A i \in 2..(Len(s) + 1) : c[i] = s[i - 1]
    BY <1>1 DEF c
  <2>3. \A z \in Range(c) : \E i \in 1..(Len(s) + 1) : c[i] = z
    BY <2>1, RangeIsSet
  <2>4. \A i \in 1..Len(s) : s[i] \in Range(s)
    BY RangeIsSet
  <2>5. \A i \in 1..(Len(s) + 1) : c[i] \in Range(s) \cup {x}
    <3> SUFFICES ASSUME NEW i \in 1..(Len(s) + 1) PROVE c[i] \in Range(s) \cup {x}
      OBVIOUS
    <3>1. CASE i = 1
      BY <2>1, <3>1
    <3>2. CASE i # 1
      BY <2>1, <2>2, <2>4, <3>2
    <3> QED
      BY <3>1, <3>2
  <2> QED
    BY <2>3, <2>5 DEF c
<1>3. <<x>> \o Append(s, y) = Append(<<x>> \o s, y)
  OBVIOUS
<1>4. s # <<>> => <<Head(s)>> \o Tail(s) = s
  OBVIOUS
<1>5. <<x>> \o s # <<>> /\ Head(<<x>> \o s) = x /\ Tail(<<x>> \o s) = s
  OBVIOUS
<1> QED
  BY <1>2, <1>3, <1>4, <1>5

(* The abstract queue a submission goes to is the one the code computes.   *)
LEMMA TargetBar ==
  ASSUME IInv, NEW q \in Queue, NEW w \in Work
  PROVE  Service!Target(q, w) = Target(q, w)
<1>1. \A r \in Queue : activeBar[r] = w <=> Busy(r) /\ node[r] = w
  BY NullAssumption DEF activeBar, Busy
<1>2. Service!Target(q, w) = IF \E r \in Queue : Busy(r) /\ node[r] = w
                             THEN CHOOSE r \in Queue : activeBar[r] = w
                             ELSE q
  BY <1>1 DEF Service!Target, activeBar
<1>3. CASE Running(w)
  <2>1. PICK r \in Queue : Busy(r) /\ node[r] = w
    BY <1>3 DEF IInv, FlagsInv
  <2>2. \A s \in Queue : activeBar[s] = w => s = owner[w]
    BY <1>1 DEF IInv, FlagsInv
  <2>3. (CHOOSE s \in Queue : activeBar[s] = w) = owner[w]
    BY <1>1, <2>1, <2>2
  <2> QED
    BY <1>2, <1>3, <2>1, <2>3 DEF Target
<1>4. CASE ~Running(w)
  <2>1. ~\E r \in Queue : Busy(r) /\ node[r] = w
    BY <1>4 DEF IInv, FlagsInv
  <2> QED
    BY <1>2, <1>4, <2>1 DEF Target
<1> QED
  BY <1>3, <1>4

(* An item the code finds not QUEUED waits on no abstract queue.           *)
LEMMA WaitingBar ==
  ASSUME IInv, NEW w \in Work, ~Queued(w)
  PROVE  \A q \in Queue : w \notin Range(backlogBar[q])
<1> SUFFICES ASSUME NEW q \in Queue PROVE w \notin Range(backlogBar[q])
  OBVIOUS
<1>1. w \notin Range(pending[q])
  BY DEF IInv, FlagsInv
<1>2. CASE tpc[q] = "claim"
  <2>1. node[q] # w /\ node[q] \in Work /\ pending[q] \in Seq(Work)
    BY <1>2 DEF IInv, TypeOK, FlagsInv, Detached
  <2>2. Range(<<node[q]>> \o pending[q]) \subseteq Range(pending[q]) \cup {node[q]}
    BY <2>1, ConsProperties
  <2> QED
    BY <1>1, <1>2, <2>1, <2>2 DEF backlogBar
<1>3. CASE tpc[q] # "claim"
  BY <1>1, <1>3 DEF backlogBar
<1> QED
  BY <1>2, <1>3

LEMMA EnqueueBar ==
  ASSUME IInv, NEW c \in Caller, NEW q \in Queue, NEW w \in Work, SubmitAccept(c, q, w)
  PROVE  Service!Enqueue(q, w)
<1> DEFINE t == Target(q, w)
<1>1. ~Queued(w) /\ started[t]
  BY DEF SubmitAccept, SubmitResult
<1>2. t \in Queue
  BY <1>1 DEF IInv, FlagsInv, Target, Busy
<1>3. /\ pending' = [pending EXCEPT ![t] = Append(@, w)]
      /\ UNCHANGED <<started, tpc, node>>
  BY DEF SubmitAccept, threadVars
<1>4. Service!Target(q, w) = t
  BY TargetBar
<1> HIDE DEF t
<1>5. ~Service!Waiting(w)
  <2>1. \A r \in Queue : w \notin Range(backlogBar[r])
    BY <1>1, WaitingBar
  <2>2. \A r \in Queue : w \notin Service!Range(backlogBar[r])
    BY <2>1 DEF Range, Service!Range
  <2> QED
    BY <2>2 DEF Service!Waiting, backlogBar
<1>6. backlogBar' = [backlogBar EXCEPT ![t] = Append(@, w)]
  <2>1. \A r \in Queue : pending[r] \in Seq(Work) /\ (tpc[r] = "claim" => node[r] \in Work)
    BY DEF IInv, TypeOK
  <2>2. backlogBar'[t] = Append(backlogBar[t], w)
    <3>1. CASE tpc[t] = "claim"
      <4>1. <<node[t]>> \o Append(pending[t], w) = Append(<<node[t]>> \o pending[t], w)
        BY <1>2, <2>1, <3>1, ConsProperties
      <4>2. pending'[t] = Append(pending[t], w)
        BY <1>2, <1>3 DEF IInv, TypeOK
      <4> QED
        BY <1>2, <1>3, <3>1, <4>1, <4>2 DEF backlogBar
    <3>2. CASE tpc[t] # "claim"
      <4>1. pending'[t] = Append(pending[t], w)
        BY <1>2, <1>3 DEF IInv, TypeOK
      <4> QED
        BY <1>2, <1>3, <3>2, <4>1 DEF backlogBar
    <3> QED
      BY <3>1, <3>2
  <2>3. \A r \in Queue : r # t => backlogBar'[r] = backlogBar[r]
    BY <1>3 DEF backlogBar, IInv, TypeOK
  <2> QED
    BY <2>2, <2>3 DEF backlogBar
<1>7. activeBar' = activeBar
  BY <1>3 DEF activeBar
<1> QED
  BY <1>1, <1>2, <1>3, <1>4, <1>5, <1>6, <1>7 DEF Service!Enqueue, backlogBar, activeBar

LEMMA StepBar == IInv /\ [Next]_vars => [Service!SNext]_(Service!svars)
<1> SUFFICES ASSUME IInv, [Next]_vars PROVE [Service!SNext]_(Service!svars)
  OBVIOUS
<1> USE NullAssumption
<1>1. ASSUME UNCHANGED <<started, pending, tpc, node>> PROVE UNCHANGED Service!svars
  BY <1>1 DEF Service!svars
<1>2. ASSUME NEW q \in Queue, StartInit(q) PROVE UNCHANGED Service!svars
  <2>1. pending' = pending
    BY <1>2 DEF StartInit, IInv, StartInv, TypeOK
  <2> QED
    BY <1>1, <1>2, <2>1 DEF StartInit, threadVars
<1>3. ASSUME NEW q \in Queue, StartTask(q) PROVE UNCHANGED Service!svars
  <2>1. /\ UNCHANGED <<started, pending, node>>
        /\ \A r \in Queue : r # q => tpc'[r] = tpc[r]
        /\ tpc'[q] \in {tpc[q], "wait"}
    BY <1>3 DEF StartTask, IInv, TypeOK
  <2>2. tpc[q] \notin {"claim", "run", "clear"}
    BY <1>3 DEF StartTask, IInv, StartInv, Detached, Busy
  <2> QED
    BY <2>1, <2>2 DEF Service!svars
<1>4. ASSUME NEW q \in Queue, StartFlag(q) PROVE Service!Open(q)
  BY <1>4 DEF StartFlag, threadVars, Service!Open, IInv, StartInv
<1>5. ASSUME NEW q \in Queue, Wake(q) PROVE UNCHANGED Service!svars
  BY <1>5 DEF Wake, Service!svars, IInv, TypeOK
<1>6. ASSUME NEW q \in Queue, Remove(q) PROVE UNCHANGED Service!svars
  <2>1. pending[q] \in Seq(Work)
    BY DEF IInv, TypeOK
  <2>2. /\ \A r \in Queue : r # q => /\ pending'[r] = pending[r]
                                    /\ node'[r] = node[r]
                                    /\ tpc'[r] = tpc[r]
        /\ started' = started
        /\ tpc[q] = "remove" /\ tpc'[q] \in {"claim", "wait"}
    BY <1>6 DEF Remove, IInv, TypeOK
  <2>3. \A r \in Queue : r # q => backlogBar'[r] = backlogBar[r]
    BY <2>2 DEF backlogBar
  <2>4. backlogBar'[q] = backlogBar[q]
    <3>1. CASE pending[q] = <<>>
      BY <1>6, <2>2, <3>1 DEF Remove, backlogBar, IInv, TypeOK
    <3>2. CASE pending[q] # <<>>
      <4>1. <<Head(pending[q])>> \o Tail(pending[q]) = pending[q]
        BY <2>1, <3>2
      <4>2. /\ node'[q] = Head(pending[q]) /\ pending'[q] = Tail(pending[q])
            /\ tpc'[q] = "claim"
        BY <1>6, <3>2 DEF Remove, IInv, TypeOK
      <4> QED
        BY <2>2, <4>1, <4>2 DEF backlogBar
    <3> QED
      BY <3>1, <3>2
  <2>5. backlogBar' = backlogBar
    BY <2>3, <2>4 DEF backlogBar
  <2>6. activeBar' = activeBar
    BY <2>2 DEF activeBar
  <2> QED
    BY <2>2, <2>5, <2>6 DEF Service!svars, backlogBar, activeBar
<1>7. ASSUME NEW q \in Queue, Claim(q) PROVE Service!Begin(q)
  <2>1. node[q] \in Work /\ pending[q] \in Seq(Work) /\ tpc[q] = "claim"
    BY <1>7 DEF Claim, IInv, TypeOK
  <2>2. /\ <<node[q]>> \o pending[q] # <<>>
        /\ Head(<<node[q]>> \o pending[q]) = node[q]
        /\ Tail(<<node[q]>> \o pending[q]) = pending[q]
    BY <2>1, ConsProperties
  <2>3. /\ UNCHANGED <<started, pending, node>>
        /\ tpc' = [tpc EXCEPT ![q] = "run"]
    BY <1>7 DEF Claim
  <2>4. \A r \in Queue : tpc'[r] = IF r = q THEN "run" ELSE tpc[r]
    BY <2>3 DEF IInv, TypeOK
  <2>5. backlogBar' = [backlogBar EXCEPT ![q] = Tail(@)]
    <3>1. backlogBar'[q] = Tail(backlogBar[q])
      <4>1. backlogBar[q] = <<node[q]>> \o pending[q]
        BY <2>1 DEF backlogBar
      <4>2. backlogBar'[q] = pending[q]
        BY <2>3, <2>4 DEF backlogBar
      <4> QED
        BY <2>2, <4>1, <4>2
    <3>2. \A r \in Queue : r # q => backlogBar'[r] = backlogBar[r]
      BY <2>3, <2>4 DEF backlogBar
    <3> QED
      BY <3>1, <3>2 DEF backlogBar
  <2>6. activeBar' = [activeBar EXCEPT ![q] = Head(backlogBar[q])]
    BY <2>1, <2>2, <2>3, <2>4 DEF backlogBar, activeBar
  <2>7. activeBar[q] = NoWork /\ backlogBar[q] # <<>>
    BY <2>1, <2>2 DEF backlogBar, activeBar
  <2> QED
    BY <2>3, <2>5, <2>6, <2>7 DEF Service!Begin, backlogBar, activeBar
<1>8. ASSUME NEW q \in Queue, Return(q) PROVE UNCHANGED Service!svars
  <2>1. /\ UNCHANGED <<started, pending, node>>
        /\ \A r \in Queue : tpc'[r] = IF r = q THEN "clear" ELSE tpc[r]
        /\ tpc[q] = "run"
    BY <1>8 DEF Return, IInv, TypeOK
  <2> QED
    BY <2>1 DEF Service!svars
<1>9. ASSUME NEW q \in Queue, Clear(q) PROVE Service!End(q)
  <2>1. /\ UNCHANGED <<started, pending, node>>
        /\ \A r \in Queue : tpc'[r] = IF r = q THEN "remove" ELSE tpc[r]
        /\ tpc[q] = "clear"
        /\ node[q] \in Work
    BY <1>9 DEF Clear, IInv, TypeOK
  <2>2. backlogBar' = backlogBar
    BY <2>1 DEF backlogBar
  <2>3. activeBar' = [activeBar EXCEPT ![q] = NoWork]
    BY <2>1 DEF activeBar
  <2>4. activeBar[q] # NoWork
    BY <2>1 DEF activeBar
  <2> QED
    BY <2>1, <2>2, <2>3, <2>4 DEF Service!End, backlogBar, activeBar
<1>10. CASE UNCHANGED vars
  BY <1>1, <1>10 DEF vars
<1>11. ASSUME NEW c \in Caller, Notify(c) PROVE UNCHANGED Service!svars
  BY <1>1, <1>11 DEF Notify, threadVars
<1>12. ASSUME NEW c \in Caller, NEW q \in Queue, NEW w \in Work,
              SubmitAccept(c, q, w) \/ SubmitRefuse(c, q, w)
       PROVE  Service!Enqueue(q, w) \/ UNCHANGED Service!svars
  BY <1>1, <1>12, EnqueueBar DEF SubmitRefuse, vars
<1> QED
  BY <1>2, <1>3, <1>4, <1>5, <1>6, <1>7, <1>8, <1>9, <1>10, <1>11, <1>12
  DEF Next, ThreadStep, Service!SNext

(* The workqueue code implements the abstract service (its safety part:    *)
(* submission order, one wait at a time, redirection while running) for    *)
(* any sets of queues, items and callers.                                  *)
THEOREM ServiceImplemented == Spec => Service!SSafe
<1>1. Init => Service!SInit
  BY DEF Init, Service!SInit
<1> QED
  BY <1>1, StepBar, SpecIInv, PTL DEF Spec, Service!SSafe
=============================================================================
