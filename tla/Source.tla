------------------------------- MODULE Source -------------------------------
(***************************************************************************)
(* What a configuration source promises the manager: the contract behind   *)
(* the interface of source/source.go, without paths, priorities or         *)
(* parsers.                                                                *)
(*                                                                         *)
(* A source has a visible configuration, `view`.  Each of its threads may  *)
(* change the view in one atomic step; the change is then staged and, if a *)
(* callback is registered by the time the thread gets to it, handed to a   *)
(* goroutine of its own.  Goroutines run in any order.                     *)
(***************************************************************************)
EXTENDS Events, Sequences, SequencesExt

CONSTANT Threads    \* threads that change the source

VARIABLES
    view,       \* what Get, Keys and All answer
    staged,     \* staged[t]: the change thread t made and has not reported
    callback,   \* has OnEvents registered a callback?
    inflight    \* batches handed to goroutines that have not run yet

vars == <<view, staged, callback, inflight>>

Init == /\ view = Empty
        /\ staged = [t \in Threads |-> {}]
        /\ callback = FALSE
        /\ inflight = <<>>

(* The view changes, and the batch says exactly how.                       *)
Commit(t) ==
    /\ staged[t] = {}
    /\ view' \in Contents
    /\ staged' = [staged EXCEPT ![t] = Diff(view, view')]
    /\ UNCHANGED <<callback, inflight>>

(* Set replaces the value of a key the source has, and reports nothing.    *)
Overwrite(k, v) ==
    /\ view[k] # Absent
    /\ view' = [view EXCEPT ![k] = v]
    /\ UNCHANGED <<staged, callback, inflight>>

OnEvents ==
    /\ callback' = TRUE
    /\ UNCHANGED <<view, staged, inflight>>

(* Without a callback the batch is dropped, and nobody will hear of it.    *)
Report(t) ==
    /\ staged[t] # {}
    /\ inflight' = IF callback THEN Append(inflight, staged[t]) ELSE inflight
    /\ staged' = [staged EXCEPT ![t] = {}]
    /\ UNCHANGED <<view, callback>>

Run(i) ==
    /\ inflight' = RemoveAt(inflight, i)
    /\ UNCHANGED <<view, staged, callback>>

Next == \/ \E t \in Threads : Commit(t) \/ Report(t)
        \/ \E k \in Keys, v \in Values : Overwrite(k, v)
        \/ OnEvents
        \/ \E i \in DOMAIN inflight : Run(i)

Spec == Init /\ [][Next]_vars
=============================================================================
