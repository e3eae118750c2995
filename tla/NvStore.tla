------------------------------- MODULE NvStore -------------------------------
(***************************************************************************)
(* What the non-volatile storage promises, with none of the pages, tags,   *)
(* copies and erases that implement it. Each element of each data set has  *)
(* one stored value or none. A save captures the RAM value of every        *)
(* element of its unit (one element, or a whole table entry) and commits   *)
(* them all at once; nothing else changes a stored value, and a power loss *)
(* changes none. A restore gives back exactly what is stored.              *)
(***************************************************************************)
CONSTANTS Elem,   \* the elements of the data sets
          Unit,   \* the sets of elements saved together
          Val,    \* the values an element takes in RAM
          NoVal   \* "nothing is stored"

VARIABLES ram,     \* ram[x]: the RAM value of element x
          stored,  \* stored[x]: the value of x that survives a power loss
          saving,  \* the elements of the save in progress, {} if none
          image    \* image[x]: the value captured for x, NoVal until it is

svars == <<ram, stored, saving, image>>

None == [x \in Elem |-> NoVal]

SInit == /\ ram \in [Elem -> Val]
         /\ stored = None
         /\ saving = {}
         /\ image = None

Change == /\ \E x \in Elem, v \in Val : ram' = [ram EXCEPT ![x] = v]
          /\ UNCHANGED <<stored, saving, image>>

Begin == /\ saving = {}
         /\ saving' \in Unit
         /\ UNCHANGED <<ram, stored, image>>

Capture == /\ \E x \in saving : image' = [image EXCEPT ![x] = ram[x]]
           /\ UNCHANGED <<ram, stored, saving>>

Commit == /\ saving # {}
          /\ \A x \in saving : image[x] # NoVal
          /\ stored' = [x \in Elem |-> IF x \in saving THEN image[x] ELSE stored[x]]
          /\ saving' = {}
          /\ image' = None
          /\ UNCHANGED ram

PowerLoss == /\ ram' \in [Elem -> Val]
             /\ saving' = {}
             /\ image' = None
             /\ UNCHANGED stored

Restore == /\ ram' = [x \in Elem |-> IF stored[x] = NoVal THEN ram[x] ELSE stored[x]]
           /\ UNCHANGED <<stored, saving, image>>

Wipe == /\ saving = {}
        /\ stored' = None
        /\ UNCHANGED <<ram, saving, image>>

SNext == Change \/ Begin \/ Capture \/ Commit \/ PowerLoss \/ Restore \/ Wipe

SSpec == SInit /\ [][SNext]_svars
=============================================================================
