-------------------------------- MODULE Settings --------------------------------
(***************************************************************************)
(* zephyr/subsys/settings: named values in the store of Nvs, two entries   *)
(* for each: the name at an id, the value at the id NVS_NAME_ID_OFFSET     *)
(* above it; one more entry holds the largest id in use. What Nvs          *)
(* promises is taken as given here: an entry is written entirely or not at *)
(* all. A call holds settings_lock, a reset comes between its writes. The  *)
(* name cache is not configured.                                           *)
(*                                                                         *)
(* A name is the sequence of its parts.                                    *)
(***************************************************************************)
EXTENDS Naturals, Sequences, SequencesExt

CONSTANTS Names, Values,
          None,          \* no entry
          Handlers,      \* names that handlers may be registered for
          MaxId,         \* NVS_NAME_ID_OFFSET - 1
          CountMayFail,  \* the write that raises the largest id may fail too
          MaxFaults      \* bound on failing writes

VARIABLES name_entry, value_entry, count_entry,   \* the store
          last_name_id, mounted,
          pc, name, value, name_id,               \* of the call
          handlers,    \* in the order of their registration
          applied,     \* values and handlers of the names loaded so far
          faults, rc,
          kept         \* the values a name may have for its user
vars == <<name_entry, value_entry, count_entry, last_name_id, mounted, pc, name, value, name_id,
          handlers, applied, faults, rc, kept>>
store == <<name_entry, value_entry, count_entry>>
call == <<name, value>>

MaxOf(S) == CHOOSE x \in S : \A y \in S : y <= x
MinOf(S) == CHOOSE x \in S : \A y \in S : x <= y
TypeOK == /\ name_entry \in [1 .. MaxId -> Names \cup {<<>>}]
          /\ value_entry \in [1 .. MaxId -> Values \cup {None}]
          /\ count_entry \in 0 .. MaxId /\ last_name_id \in 0 .. MaxId /\ mounted \in BOOLEAN
          /\ pc \in {"idle", "count", "value", "name", "delete", "deleteValue", "lower",
                     "load", "clean", "cleanValue", "cleanCount"}
          /\ name \in Names /\ value \in Values \cup {None} /\ name_id \in 0 .. MaxId + 1
          /\ Range(handlers) \subseteq Handlers
          /\ applied \in [Names -> [value : Values \cup {None}, by : Handlers \cup {<<>>}]]
          /\ faults \in 0 .. MaxFaults /\ rc \in {"ok", "error", "ENOMEM"}
          /\ kept \in [Names -> SUBSET (Values \cup {None})]

NotApplied == [n \in Names |-> [value |-> None, by |-> <<>>]]
Init == /\ name_entry = [i \in 1 .. MaxId |-> <<>>] /\ value_entry = [i \in 1 .. MaxId |-> None]
        /\ count_entry = 0 /\ last_name_id = 0 /\ mounted = FALSE
        /\ pc = "idle" /\ name = (CHOOSE n \in Names : TRUE) /\ value = None /\ name_id = 0
        /\ handlers = <<>> /\ applied = NotApplied /\ faults = 0 /\ rc = "ok"
        /\ kept = [n \in Names |-> {None}]
--------------------------------------------------------------------------------
(* settings_name_steq.                                                     *)
Under(n, key) == IsPrefix(key, n)

(* Mutant: the handler registered last that matches.                       *)
LastMatch(n) == FoldLeft(LAMBDA best, h : IF Under(n, h) THEN h ELSE best, <<>>, handlers)

(* settings_parse_and_lookup: of the handlers that match the one that      *)
(* lies under the others.                                                  *)
settings_parse_and_lookup(n) ==
  FoldLeft(LAMBDA best, h : IF Under(n, h) /\ (best = <<>> \/ Under(h, best)) THEN h ELSE best, <<>>, handlers)

settings_register(h) ==
  /\ pc = "idle"
  /\ IF h \in Range(handlers) THEN UNCHANGED handlers ELSE handlers' = Append(handlers, h)
  /\ UNCHANGED <<store, last_name_id, mounted, pc, call, name_id, applied, faults, rc, kept>>

settings_nvs_backend_init ==
  /\ pc = "idle" /\ ~ mounted
  /\ mounted' = TRUE /\ last_name_id' = count_entry
  /\ UNCHANGED <<store, pc, call, name_id, handlers, applied, faults, rc, kept>>
--------------------------------------------------------------------------------
(* Mutant: the search ends at a free id.                                   *)
HasNameAboveFree(n) == {i \in 1 .. last_name_id : name_entry[i] = n
                                                   /\ \A j \in i .. last_name_id : name_entry[j] # <<>>}

(* settings_nvs_save looks for the name from the largest id down; if it is *)
(* not there, the smallest free id is taken, or the next.                  *)
HasName(n) == {i \in 1 .. last_name_id : name_entry[i] = n}
Free == {i \in 1 .. last_name_id : name_entry[i] = <<>>}
NewId == IF Free = {} THEN last_name_id + 1 ELSE MinOf(Free)

settings_save_one(n, v) ==
  /\ pc = "idle" /\ mounted
  /\ name' = n /\ value' = v /\ rc' = "ok"
  /\ IF HasName(n) # {}
     THEN /\ name_id' = MaxOf(HasName(n)) /\ pc' = (IF v = None THEN "delete" ELSE "value")
     ELSE IF v = None THEN UNCHANGED <<pc, name_id>>
     ELSE /\ name_id' = NewId
          /\ pc' = IF NewId > last_name_id THEN "count" ELSE "value"
  /\ kept' = [kept EXCEPT ![n] = @ \cup {v}]
  /\ UNCHANGED <<store, last_name_id, mounted, handlers, applied, faults>>

Done == pc' = "idle" /\ rc' = "ok" /\ kept' = [kept EXCEPT ![name] = {value}]
Failed(r) == pc' = "idle" /\ rc' = r /\ UNCHANGED kept
Fault == faults < MaxFaults /\ faults' = faults + 1

(* Mutant: the largest id is raised by the first value that needs it, but  *)
(* only in RAM.                                                            *)
RaiseQuietly ==
  /\ pc = "count"
  /\ IF name_id = MaxId + 1 THEN Failed("ENOMEM") /\ UNCHANGED <<last_name_id, store, faults>>
     ELSE /\ last_name_id' = name_id /\ pc' = "value" /\ UNCHANGED <<store, faults, rc, kept>>
  /\ UNCHANGED <<mounted, call, name_id, handlers, applied>>
Raise ==
  /\ pc = "count"
  /\ IF name_id = MaxId + 1 THEN Failed("ENOMEM") /\ UNCHANGED <<last_name_id, store, faults>>
     ELSE /\ last_name_id' = name_id
          /\ UNCHANGED <<name_entry, value_entry>>
          /\ \/ count_entry' = name_id /\ pc' = "value" /\ UNCHANGED <<faults, rc, kept>>
             \/ CountMayFail /\ Fault /\ Failed("error") /\ UNCHANGED count_entry
  /\ UNCHANGED <<mounted, call, name_id, handlers, applied>>

(* The value first, then the name if it is new.                            *)
WriteValue ==
  /\ pc = "value"
  /\ \/ /\ value_entry' = [value_entry EXCEPT ![name_id] = value] /\ UNCHANGED faults
        /\ IF name_entry[name_id] = name THEN Done ELSE pc' = "name" /\ UNCHANGED <<rc, kept>>
     \/ Fault /\ Failed("error") /\ UNCHANGED value_entry
  /\ UNCHANGED <<name_entry, count_entry, last_name_id, mounted, call, name_id, handlers, applied>>
WriteName ==
  /\ pc = "name"
  /\ \/ name_entry' = [name_entry EXCEPT ![name_id] = name] /\ UNCHANGED faults /\ Done
     \/ Fault /\ Failed("error") /\ UNCHANGED name_entry
  /\ UNCHANGED <<value_entry, count_entry, last_name_id, mounted, call, name_id, handlers, applied>>

(* A deletion: the name, the value, and the largest id if it was this one. *)
DeleteName ==
  /\ pc = "delete"
  /\ \/ name_entry' = [name_entry EXCEPT ![name_id] = <<>>] /\ pc' = "deleteValue" /\ UNCHANGED <<faults, rc, kept>>
     \/ Fault /\ Failed("error") /\ UNCHANGED name_entry
  /\ UNCHANGED <<value_entry, count_entry, last_name_id, mounted, call, name_id, handlers, applied>>
DeleteValue ==
  /\ pc = "deleteValue"
  /\ \/ /\ value_entry' = [value_entry EXCEPT ![name_id] = None] /\ UNCHANGED faults
        /\ IF name_id = last_name_id THEN pc' = "lower" /\ UNCHANGED <<rc, kept>> ELSE Done
     \/ Fault /\ Failed("error") /\ UNCHANGED value_entry
  /\ UNCHANGED <<name_entry, count_entry, last_name_id, mounted, call, name_id, handlers, applied>>
Lower ==
  /\ pc = "lower" /\ last_name_id' = last_name_id - 1
  /\ \/ count_entry' = last_name_id - 1 /\ UNCHANGED faults /\ Done
     \/ Fault /\ Failed("error") /\ UNCHANGED count_entry
  /\ UNCHANGED <<name_entry, value_entry, mounted, call, name_id, handlers, applied>>
--------------------------------------------------------------------------------
(* settings_nvs_load goes from the largest id down, cleans what is there   *)
(* only in part, and hands the rest to their handlers.                     *)
settings_load ==
  /\ pc = "idle" /\ mounted
  /\ name_id' = last_name_id /\ applied' = NotApplied /\ pc' = "load"
  /\ UNCHANGED <<store, last_name_id, mounted, call, handlers, faults, rc, kept>>

Stored(i) == name_entry[i] # <<>> /\ value_entry[i] # None
Missing(i) == name_entry[i] = <<>> /\ value_entry[i] = None
Apply ==
  /\ pc = "load" /\ name_id > 0 /\ Stored(name_id)
  /\ LET by == settings_parse_and_lookup(name_entry[name_id])
     IN applied' = IF by = <<>> THEN applied
                   ELSE [applied EXCEPT ![name_entry[name_id]] = [value |-> value_entry[name_id], by |-> by]]
  /\ name_id' = name_id - 1
  /\ UNCHANGED <<store, last_name_id, mounted, pc, call, handlers, faults, rc, kept>>

(* Errors are ignored here.                                                *)
Written(entry, new) == (entry' = new /\ UNCHANGED faults) \/ (Fault /\ UNCHANGED entry)
LowerUnused ==
  /\ IF name_id = last_name_id
     THEN last_name_id' = last_name_id - 1 /\ Written(count_entry, last_name_id - 1)
     ELSE UNCHANGED <<last_name_id, count_entry, faults>>
  /\ name_id' = name_id - 1 /\ pc' = "load"
Skip == /\ pc = "load" /\ name_id > 0 /\ Missing(name_id)
        /\ LowerUnused
        /\ UNCHANGED <<name_entry, value_entry, mounted, call, handlers, applied, rc, kept>>
Clean == \/ /\ pc = "load" /\ name_id > 0 /\ ~ Stored(name_id) /\ ~ Missing(name_id)
            /\ Written(name_entry, [name_entry EXCEPT ![name_id] = <<>>]) /\ pc' = "cleanValue"
            /\ UNCHANGED <<value_entry, count_entry, last_name_id, mounted, call, name_id, handlers, applied, rc, kept>>
         \/ /\ pc = "cleanValue"
            /\ Written(value_entry, [value_entry EXCEPT ![name_id] = None]) /\ pc' = "cleanCount"
            /\ UNCHANGED <<name_entry, count_entry, last_name_id, mounted, call, name_id, handlers, applied, rc, kept>>
         \/ /\ pc = "cleanCount" /\ LowerUnused
            /\ UNCHANGED <<name_entry, value_entry, mounted, call, handlers, applied, rc, kept>>
EndLoad == /\ pc = "load" /\ name_id = 0
           /\ pc' = "idle" /\ rc' = "ok"
           /\ UNCHANGED <<store, last_name_id, mounted, call, name_id, handlers, applied, faults, kept>>
--------------------------------------------------------------------------------
(* What is found after a reset.                                            *)
Lookup(n) == LET at == {i \in 1 .. count_entry : name_entry[i] = n}
             IN IF at = {} THEN None ELSE value_entry[MaxOf(at)]
Reset == /\ mounted' = FALSE /\ last_name_id' = 0 /\ pc' = "idle" /\ rc' = "ok"
         /\ name' = (CHOOSE n \in Names : TRUE) /\ value' = None /\ name_id' = 0
         /\ handlers' = <<>> /\ applied' = NotApplied
         /\ kept' = [n \in Names |-> kept[n] \cap {Lookup(n)}]
         /\ UNCHANGED <<store, faults>>

Save == Raise \/ WriteValue \/ WriteName \/ DeleteName \/ DeleteValue \/ Lower
Load == Apply \/ Skip \/ Clean \/ EndLoad
Next == \/ \E h \in Handlers : settings_register(h)
        \/ settings_nvs_backend_init \/ settings_load
        \/ \E n \in Names, v \in Values \cup {None} : settings_save_one(n, v)
        \/ Save \/ Load \/ Reset
Spec == Init /\ [][Next]_vars
--------------------------------------------------------------------------------
(* A setting that was saved or deleted is, or is not, in the store after   *)
(* a reset; of a call that failed or was interrupted it may be either.     *)
SavedSurvive == pc = "idle" => \A n \in Names : Lookup(n) \in kept[n]

(* No name is stored twice.                                                *)
NamesUnique == pc = "idle" => \A i, j \in 1 .. count_entry : name_entry[i] = name_entry[j] => i = j \/ name_entry[i] = <<>>

(* After loading every setting was given, with its value, to the handler   *)
(* that is most specific for it.                                           *)
LoadedByBest ==
  [][EndLoad => \A n \in Names :
       LET able == {h \in Range(handlers) : IsPrefix(h, n)}
       IN IF able = {} \/ Lookup(n) = None THEN applied[n] = NotApplied[n]
          ELSE /\ applied[n].value = Lookup(n) /\ applied[n].by \in able
               /\ \A h \in able : Len(h) <= Len(applied[n].by)]_vars
================================================================================
