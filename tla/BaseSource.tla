----------------------------- MODULE BaseSource -----------------------------
(***************************************************************************)
(* BaseSource (source/base.go): the one implementation of source.Source.   *)
(*                                                                         *)
(* A source merges the configurations of its paths.  AddPath pulls a path  *)
(* from the client, registers it and watches it; the client's goroutines   *)
(* then call back with new contents.  Every reading is merged under the    *)
(* source's mutex, and the changes it makes to the merged configuration    *)
(* are reported, after the mutex is released, to the manager's callback    *)
(* in a goroutine of their own.                                            *)
(*                                                                         *)
(* The unit of interleaving is the critical section: a section under       *)
(* bs.mutex is one action, and so is each call of the client and the read  *)
(* of bs.callback, which no lock protects.  A pathStore is named by the    *)
(* AddPath call that creates it, so "store" and "call" share their names.  *)
(***************************************************************************)
EXTENDS PathStore, Integers, Sequences, SequencesExt

CONSTANTS
    Calls,          \* invocations of AddPath, each on a goroutine of its own
    Watchers,       \* goroutines in which the client runs watch callbacks
    PathOf,         \* the path argument of a call
    PriOf,          \* WithPathPriority
    Required,       \* calls made WithPathRequired
    WatchOff,       \* calls made WithPathWatchDisabled
    EmptyKey,       \* the key "", which populateEvents skips
    NoCell,         \* a key the merged configuration does not hold
    MaxChanges      \* bound: callbacks by the client and Sets by the program

Threads == Calls \cup Watchers
Paths   == {PathOf[c] : c \in Calls}

ASSUME CallsAssumption ==
    /\ Calls # {} /\ Calls \cap Watchers = {}
    /\ PriOf \in [Calls -> Int]
    /\ PathOf \in [Calls -> Paths]
    /\ Required \subseteq Calls /\ WatchOff \subseteq Calls
    /\ MaxChanges \in Nat

(* A configValue: the value of a key and the store it was taken from.      *)
Cell == [store : Calls, value : Values]

ASSUME NoCellAssumption == NoCell \notin Cell

VARIABLES
    withDeleted,    \* the source option of that name
    pc,         \* where each thread is
    data,       \* the contents a thread has read and not merged yet
    target,     \* the store a watch callback will merge them into
    batch,      \* the events a thread has computed and not reported yet
    stores,     \* bs.stores
    vals,       \* pathStore.values, per store
    values,     \* bs.values
    watching,   \* stores whose Watch has been registered with the client
    callback,   \* bs.callback # nil
    inflight,   \* batches in goroutines that have not run yet
    changes     \* how many of MaxChanges have been spent

vars == <<withDeleted, pc, data, target, batch, stores, vals, values, watching,
          callback, inflight, changes>>

locals == <<data, target>>

Init == /\ withDeleted \in BOOLEAN
        /\ pc = [t \in Threads |-> IF t \in Calls THEN "start" ELSE "idle"]
        /\ data = [t \in Threads |-> Empty]
        /\ target = [w \in Watchers |-> CHOOSE c \in Calls : TRUE]
        /\ batch = [t \in Threads |-> {}]
        /\ stores = <<>>
        /\ vals = [c \in Calls |-> Empty]
        /\ values = [k \in Keys |-> NoCell]
        /\ watching = {}
        /\ callback = FALSE
        /\ inflight = <<>>
        /\ changes = 0

-----------------------------------------------------------------------------
(* What readers see (Get, All; Keys is the domain).                        *)

View(cells) == [k \in Keys |-> IF cells[k] = NoCell THEN Absent ELSE cells[k].value]
view == View(values)

(* bs.findStore: the first store of a path.                                *)
Has(path) == \E i \in DOMAIN stores : PathOf[stores[i]] = path
FindStore(path) == stores[Min({i \in DOMAIN stores : PathOf[stores[i]] = path})]

(* Mistake: any other store will do.                                       *)
Others_any(k, s, order) == {i \in DOMAIN order : order[i] # s}

(* bs.findAnotherStore: the first of the other stores that has the key.    *)
Others(k, s, order) == {i \in DOMAIN order : order[i] # s /\ vals[order[i]][k] # Absent}
FindAnother(k, s, order) == order[Min(Others(k, s, order))]

-----------------------------------------------------------------------------
(* The handlers of populateEvents.  Each answers with the key's new cell   *)
(* and with the events, none or one, left to report.  A cell is never nil  *)
(* and never without a store, so the code's branches for those are left    *)
(* out.                                                                    *)

Outcome(cell, reported) == [cell |-> cell, reported |-> reported]

(* Mistake: the event goes on as it was computed against the path alone.   *)
Assign_asComputed(s, ev, last) ==
    IF PriOf[s] < PriOf[last.store] THEN Outcome(last, {})
    ELSE Outcome([store |-> s, value |-> ev.to], {ev})

(* The part handleCreated and handleUpdated share.                         *)
Assign(s, ev, last) ==
    IF PriOf[s] < PriOf[last.store]
    THEN Outcome(last, {})
    ELSE Outcome([store |-> s, value |-> ev.to],
                 IF last.value = ev.to THEN {}
                 ELSE {NewEvent("Updated", ev.key, last.value, ev.to)})

HandleCreated(s, ev) ==
    LET last == values[ev.key] IN
    IF last = NoCell
    THEN Outcome([store |-> s, value |-> ev.to], {ev})
    ELSE Assign(s, ev, last)

HandleUpdated(s, ev) ==
    LET last == values[ev.key] IN
    IF last = NoCell
    THEN Outcome([store |-> s, value |-> ev.to],
                 {NewEvent("Created", ev.key, Absent, ev.to)})
    ELSE Assign(s, ev, last)

HandleDeleted(s, ev, order) ==
    LET last  == values[ev.key]
        heir  == FindAnother(ev.key, s, order)
        given == vals[heir][ev.key]
    IN  IF last = NoCell \/ last.store # s
        THEN Outcome(last, {})
        ELSE IF Others(ev.key, s, order) = {}
        THEN Outcome(NoCell, {NewEvent("Deleted", ev.key, last.value, Absent)})
        ELSE Outcome([store |-> heir, value |-> given],
                     IF given = last.value THEN {}
                     ELSE {NewEvent("Updated", ev.key, last.value, given)})

Handle(s, ev, order) ==
    CASE ev.action = "Created" -> HandleCreated(s, ev)
      [] ev.action = "Updated" -> HandleUpdated(s, ev)
      [] ev.action = "Deleted" -> HandleDeleted(s, ev, order)

(* populateEvents, under bs.mutex: merge what was read for store s, with   *)
(* the stores in the given order.  The reading is now the store's.         *)
Populate(t, s, order) ==
    LET events == {e \in Update(vals[s], data[t], withDeleted) : e.key # EmptyKey}
        About(k) == {e \in events : e.key = k}
    IN  /\ values' = [k \in Keys |-> IF About(k) = {} THEN values[k]
                        ELSE Handle(s, CHOOSE e \in About(k) : TRUE, order).cell]
        /\ batch' = [batch EXCEPT ![t] = UNION {Handle(s, e, order).reported : e \in events}]
        /\ vals' = [vals EXCEPT ![s] = Retained(vals[s], data[t], withDeleted)]
        /\ data' = [data EXCEPT ![t] = Empty]

-----------------------------------------------------------------------------
(* AddPath.                                                                *)

Goto(t, label) == pc' = [pc EXCEPT ![t] = label]

CheckStore(c) ==
    /\ pc[c] = "start"
    /\ Goto(c, IF Has(PathOf[c]) THEN "done" ELSE "pull")
    /\ UNCHANGED <<withDeleted, locals, batch, stores, vals, values, watching, callback, inflight, changes>>

(* The client answers, and the answer parses.                              *)
Pull(c) ==
    /\ pc[c] = "pull"
    /\ \E read \in Contents : data' = [data EXCEPT ![c] = read]
    /\ Goto(c, "add")
    /\ UNCHANGED <<withDeleted, target, batch, stores, vals, values, watching, callback, inflight, changes>>

(* It does not: only a required path makes AddPath give up.                *)
PullFails(c) ==
    /\ pc[c] = "pull"
    /\ Goto(c, IF c \in Required THEN "done" ELSE "add")
    /\ UNCHANGED <<withDeleted, locals, batch, stores, vals, values, watching, callback, inflight, changes>>

(* sort.Sort is not stable: any order that respects the priorities.        *)
HighToLow(order) ==
    \A i, j \in DOMAIN order : i < j => PriOf[order[i]] >= PriOf[order[j]]

Sortings(seq) ==
    {order \in [DOMAIN seq -> ToSet(seq)] : ToSet(order) = ToSet(seq) /\ HighToLow(order)}

AddStore(c) ==
    /\ pc[c] = "add"
    /\ stores' \in Sortings(Append(stores, c))
    /\ Populate(c, c, stores')
    /\ Goto(c, "watch")
    /\ UNCHANGED <<withDeleted, target, watching, callback, inflight, changes>>

(* client.Watch; its error is dropped, so nothing tells a path whose       *)
(* registration failed from one that never changes.                        *)
WatchPath(c) ==
    /\ pc[c] = "watch"
    /\ \/ c \notin WatchOff /\ watching' = watching \cup {c}
       \/ UNCHANGED watching
    /\ Goto(c, "report")
    /\ UNCHANGED <<withDeleted, locals, batch, stores, vals, values, callback, inflight, changes>>

(* dispatchEvents, at the end of AddPath and of handlePathUpdated.         *)
DispatchEvents(t) ==
    /\ pc[t] = "report"
    /\ inflight' = IF batch[t] # {} /\ callback THEN Append(inflight, batch[t]) ELSE inflight
    /\ batch' = [batch EXCEPT ![t] = {}]
    /\ Goto(t, IF t \in Calls THEN "done" ELSE "idle")
    /\ UNCHANGED <<withDeleted, locals, stores, vals, values, watching, callback, changes>>

-----------------------------------------------------------------------------
(* handlePathUpdated: the client calls back for a watched path; contents   *)
(* that do not parse change nothing, so they are left out.                 *)

FindPath(w, c) ==
    /\ changes < MaxChanges /\ changes' = changes + 1
    /\ c \in watching
    /\ pc[w] = "idle"
    /\ target' = [target EXCEPT ![w] = FindStore(PathOf[c])]
    /\ \E read \in Contents : data' = [data EXCEPT ![w] = read]
    /\ Goto(w, "merge")
    /\ UNCHANGED <<withDeleted, batch, stores, vals, values, watching, callback, inflight>>

MergePath(w) ==
    /\ pc[w] = "merge"
    /\ Populate(w, target[w], stores)
    /\ Goto(w, "report")
    /\ UNCHANGED <<withDeleted, target, stores, watching, callback, inflight, changes>>

-----------------------------------------------------------------------------
(* Set: the program overwrites a value in every store that has the key and *)
(* in the merged configuration.                                            *)
Set(k, v) ==
    /\ changes < MaxChanges /\ changes' = changes + 1
    /\ vals' = [s \in Calls |-> IF s \in ToSet(stores) /\ vals[s][k] # Absent
                                THEN [vals[s] EXCEPT ![k] = v] ELSE vals[s]]
    /\ values' = IF values[k] = NoCell THEN values ELSE [values EXCEPT ![k].value = v]
    /\ UNCHANGED <<withDeleted, pc, locals, batch, stores, watching, callback, inflight>>

OnEvents ==
    /\ ~callback        \* the manager registers once
    /\ callback' = TRUE
    /\ UNCHANGED <<withDeleted, pc, locals, batch, stores, vals, values, watching, inflight, changes>>

(* A goroutine started by dispatchEvents gets to run the callback.         *)
RunCallback(i) ==
    /\ inflight' = RemoveAt(inflight, i)
    /\ UNCHANGED <<withDeleted, pc, locals, batch, stores, vals, values, watching, callback, changes>>

-----------------------------------------------------------------------------
AddPath(c) == CheckStore(c) \/ Pull(c) \/ PullFails(c) \/ AddStore(c) \/ WatchPath(c)

Next == \/ \E c \in Calls : AddPath(c)
        \/ \E t \in Threads : DispatchEvents(t)
        \/ \E w \in Watchers, c \in Calls : FindPath(w, c)
        \/ \E w \in Watchers : MergePath(w)
        \/ \E k \in Keys, v \in Values : Set(k, v)
        \/ OnEvents
        \/ \E i \in DOMAIN inflight : RunCallback(i)

Spec == Init /\ [][Next]_vars

(* The regime manager.AddPath imposes by holding mgr.mutex over the whole  *)
(* call: at most one AddPath is under way.                                 *)
OneCall == \A c, d \in Calls :
             pc[c] \notin {"start", "done"} /\ pc[d] \notin {"start", "done"} => c = d
SerialSpec == Init /\ [][Next /\ OneCall']_vars
-----------------------------------------------------------------------------
(* Types, with what each thread may hold at each place.                    *)
TypeOK ==
    /\ withDeleted \in BOOLEAN
    /\ pc \in [Threads -> {"start", "pull", "add", "watch", "report", "done", "idle", "merge"}]
    /\ data \in [Threads -> Contents]
    /\ target \in [Watchers -> Calls]
    /\ batch \in [Threads -> SUBSET Event]
    /\ stores \in Seq(Calls)
    /\ vals \in [Calls -> Contents]
    /\ values \in [Keys -> Cell \cup {NoCell}]
    /\ watching \subseteq Calls
    /\ callback \in BOOLEAN
    /\ inflight \in Seq(SUBSET Event)
    /\ changes \in 0..MaxChanges

(* base.go:25 says of bs.values: the configuration merged by priority.     *)
(* Whatever the order of pulls, updates, deletions and Sets, a key is      *)
(* merged exactly if some store has it, and its cell then names a store of *)
(* the highest priority that has it and holds that store's value.          *)
Holders(k) == {s \in ToSet(stores) : vals[s][k] # Absent}
Aggregated ==
    \A k \in Keys \ {EmptyKey} :
        IF values[k] = NoCell
        THEN Holders(k) = {}
        ELSE /\ values[k].store \in Holders(k)
             /\ values[k].value = vals[values[k].store][k]
             /\ \A s \in Holders(k) : PriOf[s] <= PriOf[values[k].store]

(* base.go:109-113, 168-175: a path added once is not added again, so that *)
(* findStore's first match is the only one and no reading of a path is     *)
(* merged into one store while another keeps an older one.                 *)
OneStorePerPath ==
    \A i, j \in DOMAIN stores : PathOf[stores[i]] = PathOf[stores[j]] => i = j

(* source/options.go:25, path.go:26-75: unless WithDeleted is asked for, a *)
(* key once merged stays, whatever paths stop having it and whichever path *)
(* it was merged from.                                                     *)
KeysAreKept ==
    [][withDeleted \/ \A k \in Keys : view[k] # Absent => view'[k] # Absent]_vars

(* The source keeps the promise of Source: every change of the visible     *)
(* configuration but Set's is reported by one batch that says exactly what *)
(* it was, although each event was first computed against one path.        *)
Contract == INSTANCE Source WITH staged <- batch
Implements == Contract!Spec

=============================================================================
