----------------------------- MODULE PathStore ------------------------------
(***************************************************************************)
(* One path of a source (source/path.go): the key/values last read from it *)
(* and how a new reading is compared with them.                            *)
(*                                                                         *)
(* pathStore.Update treats an empty old or new map in branches of their    *)
(* own; all three say the same per key, so one rule per kind of event is   *)
(* enough here.  When withDeleted is off, the keys that disappeared are    *)
(* written back into the caller's map, which the caller then stores.       *)
(***************************************************************************)
EXTENDS Events

HeldBy(m) == {k \in Keys : m[k] # Absent}

(* Mistake: deletions are reported whatever the option says.               *)
Update_ignoringOption(old, new, withDeleted) == Diff(old, new)

Update(old, new, withDeleted) ==
         {NewEvent("Created", k, Absent, new[k]) : k \in HeldBy(new) \ HeldBy(old)}
    \cup {NewEvent("Updated", k, old[k], new[k]) :
             k \in {q \in HeldBy(new) \cap HeldBy(old) : old[q] # new[q]}}
    \cup {NewEvent("Deleted", k, old[k], Absent) :
             k \in {q \in HeldBy(old) \ HeldBy(new) : withDeleted}}

(* Mistake: the keys that disappeared are not written back.                *)
Retained_asRead(old, new, withDeleted) == new

Retained(old, new, withDeleted) ==
    [k \in Keys |-> IF new[k] = Absent /\ ~withDeleted THEN old[k] ELSE new[k]]
=============================================================================
