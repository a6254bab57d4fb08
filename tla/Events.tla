------------------------------- MODULE Events -------------------------------
(***************************************************************************)
(* Configurations and the events that describe how they change             *)
(* (source/event.go).                                                      *)
(*                                                                         *)
(* A Go map[string]interface{} is a total function from Keys to Values,    *)
(* where Absent stands for a key the map does not hold.  An event carries  *)
(* the two values of Event.ValueFrom and Event.ValueTo; Go's nil is        *)
(* Absent.  The event's Path and Source are labels no decision reads, so   *)
(* they are left out.  The events of one batch are collected from a range  *)
(* over a Go map: one event per key, in no particular order, hence a set.  *)
(***************************************************************************)
CONSTANTS
    Keys,       \* configuration keys
    Values,     \* configuration values
    Absent      \* "no such key", and the nil of an event's missing value

ASSUME AbsentAssumption == Absent \notin Values

Optional == Values \cup {Absent}
Contents == [Keys -> Optional]
Empty    == [k \in Keys |-> Absent]

Actions == {"Created", "Updated", "Deleted"}
Event   == [action : Actions, key : Keys, from : Optional, to : Optional]

NewEvent(action, key, from, to) ==
    [action |-> action, key |-> key, from |-> from, to |-> to]

(***************************************************************************)
(* The reference meaning of a batch: what must be said of a change from    *)
(* old to new so that a listener can follow it.                            *)
(***************************************************************************)
Describe(k, from, to) ==
    NewEvent(IF from = Absent THEN "Created"
             ELSE IF to = Absent THEN "Deleted" ELSE "Updated", k, from, to)

Diff(old, new) ==
    {Describe(k, old[k], new[k]) : k \in {q \in Keys : old[q] # new[q]}}

(* A listener that knows `old` and applies a batch to it.                  *)
Apply(old, batch) ==
    [k \in Keys |-> IF \E e \in batch : e.key = k
                    THEN (CHOOSE e \in batch : e.key = k).to
                    ELSE old[k]]
=============================================================================
