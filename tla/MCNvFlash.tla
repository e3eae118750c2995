------------------------------ MODULE MCNvFlash ------------------------------
(* Small instances of NvFlash: the sizes of the data sets and the calls.    *)
EXTENDS NvFlash, TLC

CONSTANTS Pair

(* The data set `pair` has two elements, any other one.                     *)
Sizes == [e \in Entry |-> IF e = Pair THEN 2 ELSE 1]

(* <<function, whole table entry?>> *)
AllCalls  == {"idle", "sync"} \X BOOLEAN
FullSaveCalls == {"idle", "sync"} \X {TRUE}

Symmetry == Permutations(Val)
=============================================================================
