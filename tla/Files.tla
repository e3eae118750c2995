------------------------------- MODULE Files -------------------------------
(***************************************************************************)
(* fwk_filesystem.c: files over littlefs, which is external: each of its   *)
(* calls is a step, a file is changed when it is closed, and all at once.  *)
(* Users count themselves in and out, write, read and delete whole files;  *)
(* calls of littlefs fail, and resets come at any step. No file is in two  *)
(* calls at a time, which littlefs does not allow, and the last user ends  *)
(* while nobody is in a call.                                              *)
(***************************************************************************)
EXTENDS Integers, Sequences

CONSTANTS Users, FileNames,
          Texts,      \* that are written: sequences of pieces
          MaxCount,   \* of filesystem_init_done (255)
          MaxFaults   \* bound: failing calls of littlefs

VARIABLES stored,    \* of each file what is in flash
          mounted, initDone,   \* lfs_mounted, filesystem_init_done
          user,      \* none, counted (after FS_Init), or handle (after FS_InitGetHandle)
          call,      \* of each user: the call it is in
          kept,      \* of each file what may be in flash, from the calls made
          faults

vars == <<stored, mounted, initDone, user, call, kept, faults>>

Missing == <<0>>
Contents == Texts \cup {<<>>, Missing}
NoCall == [op |-> "none", file |-> "none", text |-> <<>>]

TypeOK == /\ stored \in [FileNames -> Seq(Nat)]
          /\ mounted \in BOOLEAN /\ initDone \in 0 .. MaxCount
          /\ user \in [Users -> {"none", "counted", "handle"}]
          /\ \A u \in Users : call[u].op \in {"none", "mount", "remount", "write", "close",
                                              "create"}
          /\ kept \in [FileNames -> SUBSET Contents] /\ faults \in 0 .. MaxFaults

Init == /\ stored = [f \in FileNames |-> Missing]
        /\ mounted = FALSE /\ initDone = 0
        /\ user = [u \in Users |-> "none"] /\ call = [u \in Users |-> NoCall]
        /\ kept = [f \in FileNames |-> {Missing}] /\ faults = 0

Fails == faults < MaxFaults /\ faults' = faults + 1
Works == UNCHANGED faults
Idle(u) == call[u].op = "none"
Enter(u, op, f, text) == call' = [call EXCEPT ![u] = [op |-> op, file |-> f, text |-> text]]
Return(u) == call' = [call EXCEPT ![u] = NoCall]
Free(f) == \A u \in Users : call[u].file # f
Ready(u) == Idle(u) /\ user[u] # "none" /\ mounted
Store(f, text) == stored' = [stored EXCEPT ![f] = text]
Keep(f, texts) == kept' = [kept EXCEPT ![f] = texts]
------------------------------------------------------------------------------
(* Mutant: a user that finds the file system initialised is not counted.    *)
CountFirst == IF initDone = 0 THEN 1 ELSE initDone

(* Every call that ends mounted counts.                                    *)
CountUp == initDone + 1

(* FS_Init; a second user finds the file system mounted.                   *)
FsInit(u) ==
  /\ Idle(u) /\ user[u] = "none" /\ \A o \in Users : call[o].op \notin {"mount", "remount"}
  /\ IF initDone = 0
     THEN Enter(u, "mount", "none", <<>>) /\ UNCHANGED <<initDone, user>>
     ELSE /\ mounted /\ initDone < MaxCount /\ initDone' = CountUp
          /\ user' = [user EXCEPT ![u] = "counted"] /\ UNCHANGED call
  /\ UNCHANGED <<stored, mounted, kept, faults>>

(* FS_InitGetHandle counts only the user that has to initialise.            *)
InitGetHandle(u) ==
  /\ Idle(u) /\ user[u] = "none" /\ initDone > 0
  /\ user' = [user EXCEPT ![u] = "handle"]
  /\ UNCHANGED <<stored, mounted, initDone, call, kept, faults>>

Mounted(u) ==
  /\ call[u].op \in {"mount", "remount"} /\ Works
  /\ mounted' = TRUE /\ initDone' = CountUp
  /\ user' = [user EXCEPT ![u] = "counted"] /\ Return(u)
  /\ kept' = [f \in FileNames |-> {stored[f]}]
  /\ UNCHANGED stored

(* A file system that cannot be mounted is formatted and mounted again.     *)
Format(u) ==
  /\ call[u].op = "mount" /\ Fails
  /\ stored' = [f \in FileNames |-> Missing] /\ kept' = [f \in FileNames |-> {Missing}]
  /\ Enter(u, "remount", "none", <<>>)
  /\ UNCHANGED <<mounted, initDone, user>>

FormatFails(u) ==
  /\ call[u].op = "remount" /\ Fails /\ Return(u)
  /\ UNCHANGED <<stored, mounted, initDone, user, kept>>

(* FS_DeInit: the last one unmounts, whatever lfs_unmount returns.          *)
FsDeInit(u) ==
  /\ Idle(u) /\ user[u] = "counted"
  /\ initDone = 1 => \A o \in Users : Idle(o)
  /\ initDone' = initDone - 1
  /\ mounted' = (initDone # 1)
  /\ user' = [user EXCEPT ![u] = "none"]
  /\ UNCHANGED <<stored, call, kept, faults>>
------------------------------------------------------------------------------
OrEmpty(text) == IF text = Missing THEN <<>> ELSE text

(* FS_WriteBufferToFile opens the file, which makes it when it is missing,  *)
(* writes, and closes it.                                                  *)
WriteOpen(u, f, text) ==
  /\ Ready(u) /\ Free(f)
  /\ \/ /\ Works /\ Enter(u, "write", f, text)
        /\ Store(f, OrEmpty(stored[f]))
        /\ Keep(f, {OrEmpty(s) : s \in kept[f]} \cup {text})
     \/ Fails /\ UNCHANGED <<stored, call, kept>>
  /\ UNCHANGED <<mounted, initDone, user>>

(* A file whose write has failed is closed without a change.               *)
WriteData(u) ==
  /\ call[u].op = "write"
  /\ \/ Works /\ Enter(u, "close", call[u].file, call[u].text) /\ UNCHANGED kept
     \/ Fails /\ Return(u) /\ Keep(call[u].file, {stored[call[u].file]})
  /\ UNCHANGED <<stored, mounted, initDone, user>>

(* Mutant: the file is opened without LFS_O_TRUNC.                         *)
WrittenOver(old, text) ==
  text \o SubSeq(old, Len(text) + 1, Len(old))

(* What is in a file that was opened to be truncated and written.          *)
Written(old, text) == text

WriteClose(u) ==
  /\ call[u].op = "close"
  /\ LET f == call[u].file
     IN \/ Works /\ Store(f, Written(stored[f], call[u].text)) /\ Keep(f, {call[u].text})
        \/ Fails /\ UNCHANGED <<stored, kept>>
  /\ Return(u)
  /\ UNCHANGED <<mounted, initDone, user>>

(* FS_DeleteFile, also of FS_WriteBufferToFile without bytes: the file is    *)
(* removed and made anew; whether the removal has failed nobody looks at.   *)
DeleteFile(u, f) ==
  /\ Ready(u) /\ Free(f)
  /\ \/ /\ Works /\ Enter(u, "create", f, <<>>)
        /\ Store(f, Missing) /\ Keep(f, kept[f] \cup {Missing, <<>>})
     \/ Fails /\ Enter(u, "create", f, stored[f]) /\ UNCHANGED <<stored, kept>>
  /\ UNCHANGED <<mounted, initDone, user>>

DeleteCreate(u) ==
  /\ call[u].op = "create"
  /\ LET f == call[u].file
     IN /\ Store(f, OrEmpty(stored[f]))
        /\ Keep(f, {OrEmpty(call[u].text)})
  /\ Return(u)
  /\ UNCHANGED <<mounted, initDone, user, faults>>
------------------------------------------------------------------------------
(* FS_ReadBufferFromFileLocation changes nothing but that it makes a file    *)
(* that it cannot open.                                                    *)
ReadMissing(u, f) ==
  /\ Ready(u) /\ Free(f) /\ stored[f] = Missing
  /\ Works /\ Store(f, <<>>) /\ Keep(f, {<<>>})
  /\ UNCHANGED <<mounted, initDone, user, call>>

Reset ==
  /\ mounted' = FALSE /\ initDone' = 0
  /\ user' = [u \in Users |-> "none"] /\ call' = [u \in Users |-> NoCall]
  /\ UNCHANGED <<stored, kept, faults>>

Next == \/ \E u \in Users : FsInit(u)
        \/ \E u \in Users : InitGetHandle(u)
        \/ \E u \in Users : Mounted(u)
        \/ \E u \in Users : Format(u)
        \/ \E u \in Users : FormatFails(u)
        \/ \E u \in Users : FsDeInit(u)
        \/ \E u \in Users, f \in FileNames, text \in Texts : WriteOpen(u, f, text)
        \/ \E u \in Users : WriteData(u)
        \/ \E u \in Users : WriteClose(u)
        \/ \E u \in Users, f \in FileNames : DeleteFile(u, f)
        \/ \E u \in Users : DeleteCreate(u)
        \/ \E u \in Users, f \in FileNames : ReadMissing(u, f)
        \/ Reset

Spec == Init /\ [][Next]_vars
------------------------------------------------------------------------------
(* A file is what a call has written as a whole, what was there before, or   *)
(* empty, whatever fails and whenever a reset comes.                       *)
StoredIsWritten == \A f \in FileNames : stored[f] \in kept[f]

(* The file system stays mounted for every user that has initialised it and *)
(* not given it up, whoever else comes and goes.                           *)
MountedForUsers == \A u \in Users : user[u] = "counted" => mounted
==============================================================================
