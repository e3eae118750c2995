---------------------------- MODULE WorkQService ----------------------------
(***************************************************************************)
(* What the workqueue service promises its users, with none of the flags,  *)
(* events and list nodes that implement it: each started queue has a       *)
(* backlog served in submission order by one worker, a work item waits at  *)
(* most once, and an item submitted while its handler runs waits on the    *)
(* queue it runs on, so that its handler is never entered twice.           *)
(***************************************************************************)
EXTENDS Sequences, Functions

CONSTANTS Queue,     \* the workqueues
          Work,      \* the work items
          NoWork     \* "no work item is running"

VARIABLES up,        \* up[q]: submissions to q are accepted
          backlog,   \* backlog[q]: items waiting on q, oldest first
          active     \* active[q]: the item whose handler q's worker runs

svars == <<up, backlog, active>>

Waiting(w) == \E q \in Queue : w \in Range(backlog[q])

(* The queue a submission of w addressed to q goes to.                     *)
Target(q, w) == IF \E r \in Queue : active[r] = w
                THEN CHOOSE r \in Queue : active[r] = w
                ELSE q

SInit == /\ up = [q \in Queue |-> FALSE]
         /\ backlog = [q \in Queue |-> <<>>]
         /\ active = [q \in Queue |-> NoWork]

Open(q) == /\ ~up[q]
           /\ up' = [up EXCEPT ![q] = TRUE]
           /\ UNCHANGED <<backlog, active>>

Enqueue(q, w) == /\ up[Target(q, w)]
                 /\ ~Waiting(w)
                 /\ backlog' = [backlog EXCEPT ![Target(q, w)] = Append(@, w)]
                 /\ UNCHANGED <<up, active>>

Begin(q) == /\ active[q] = NoWork
            /\ backlog[q] # <<>>
            /\ active' = [active EXCEPT ![q] = Head(backlog[q])]
            /\ backlog' = [backlog EXCEPT ![q] = Tail(@)]
            /\ UNCHANGED up

End(q) == /\ active[q] # NoWork
          /\ active' = [active EXCEPT ![q] = NoWork]
          /\ UNCHANGED <<up, backlog>>

SNext == \E q \in Queue : \/ Open(q)
                          \/ \E w \in Work : Enqueue(q, w)
                          \/ Begin(q)
                          \/ End(q)

SSafe == SInit /\ [][SNext]_svars

(* A worker that has a backlog serves it, and handlers return.             *)
SSpec == /\ SSafe
         /\ \A q \in Queue : WF_svars(Begin(q)) /\ WF_svars(End(q))
=============================================================================
