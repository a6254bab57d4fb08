----------------------------- MODULE Dispatcher -----------------------------
(***************************************************************************)
(* The dispatcher (event.go): who hears of a batch of events.              *)
(*                                                                         *)
(* Watch and Unwatch change the table of watches under its mutex.  A       *)
(* Dispatch takes the read lock once per event, so the table may change    *)
(* between two events of a batch, and calls the handlers with no lock at   *)
(* all, so a handler may itself watch and unwatch.  Dispatches run in the  *)
(* goroutines of the sources' batches, any number at a time.               *)
(*                                                                         *)
(* An event matters here only by its key, and the keys of a batch are      *)
(* distinct (module Events).  A pattern is what regexp.MatchString makes   *)
(* of it: the set of keys it matches, none if it does not compile.         *)
(***************************************************************************)
EXTENDS Integers, Sequences, FiniteSets, SequencesExt

CONSTANTS
    Keys,
    Patterns, Matches,      \* Matches[p]: the keys pattern p matches
    Handlers, NilHandler,   \* EventHandlers; Dispatch skips the nil one
    Ids,                    \* what rand.Int63 may draw
    Goroutines,             \* those that call Dispatch
    NotRunning,             \* a goroutine outside Dispatch
    MaxBatches              \* bound: calls of Dispatch

ASSUME DispatcherAssumption ==
    /\ IsFiniteSet(Keys)
    /\ Matches \in [Patterns -> SUBSET Keys]
    /\ MaxBatches \in Nat

Wrapper == [id : Ids, pattern : Patterns, handler : Handlers]

VARIABLES
    handlers,   \* d.handlers
    run,        \* the Dispatch each goroutine is in
    batches     \* how much of MaxBatches has been spent

vars == <<handlers, run, batches>>

(***************************************************************************)
(* A Dispatch under way: the events and the index of the next to look up,  *)
(* grpEvents, and three histories that only the properties read: what each *)
(* handler was called with, the watches that were there all along and the  *)
(* watches that were there at some time.                                   *)
(***************************************************************************)
NoEvents == [h \in Handlers |-> <<>>]

(* Mistake: the first event is looked for at index 0.                      *)
Begin_atZero(events) == [events |-> events, next |-> 0, groups |-> NoEvents,
                         got |-> NoEvents, always |-> handlers, ever |-> handlers]

Begin(events) == [events |-> events, next |-> 1, groups |-> NoEvents,
                  got |-> NoEvents, always |-> handlers, ever |-> handlers]

Running == {g \in Goroutines : run[g] # NotRunning}

Init == /\ handlers = {}
        /\ run = [g \in Goroutines |-> NotRunning]
        /\ batches = 0

-----------------------------------------------------------------------------
(* Mistake: the same handler on the same pattern gets a new id.            *)
Watch_again(p, h) ==
    /\ \E id \in Ids \ {w.id : w \in handlers} :
          handlers' = handlers \cup {[id |-> id, pattern |-> p, handler |-> h]}
    /\ UNCHANGED <<run, batches>>

(* Watch: the same handler on the same pattern keeps its id.               *)
Watch(p, h) ==
    /\ \A w \in handlers : w.pattern # p \/ w.handler # h
    /\ \E id \in Ids \ {w.id : w \in handlers} :
          LET w == [id |-> id, pattern |-> p, handler |-> h] IN
          /\ handlers' = handlers \cup {w}
          /\ run' = [g \in Goroutines |-> IF g \in Running
                        THEN [run[g] EXCEPT !.ever = @ \cup {w}] ELSE NotRunning]
    /\ UNCHANGED batches

Unwatch(id) ==
    /\ handlers' = {w \in handlers : w.id # id}
    /\ run' = [g \in Goroutines |-> IF g \in Running
                  THEN [run[g] EXCEPT !.always = @ \cap handlers'] ELSE NotRunning]
    /\ UNCHANGED batches

(* A batch: distinct keys in any order.                                    *)
Batches == UNION {SetToSeqs(some) : some \in (SUBSET Keys) \ {{}}}

StartDispatch(g) ==
    /\ batches < MaxBatches /\ batches' = batches + 1
    /\ g \notin Running
    /\ \E events \in Batches : run' = [run EXCEPT ![g] = Begin(events)]
    /\ UNCHANGED handlers

(* Mistake: a handler hears of an event once, however often it watches it. *)
Copies_one(key, h) ==
    IF \E w \in handlers : w.handler = h /\ key \in Matches[w.pattern] THEN 1 ELSE 0

(* handlersOf: every watch that matches, as a handler per watch.           *)
HandlersOf(key) == {w \in handlers : key \in Matches[w.pattern]}
Copies(key, h)  == Cardinality({w \in HandlersOf(key) : w.handler = h})

(* Mistake: later events come first.                                       *)
LookUp_reversed(g) ==
    /\ g \in Running /\ run[g].next <= Len(run[g].events)
    /\ LET key == run[g].events[run[g].next]
           Grown(h) == [i \in 1..Copies(key, h) |-> key] \o run[g].groups[h]
       IN  run' = [run EXCEPT ![g].next = @ + 1,
                              ![g].groups = [h \in Handlers |-> Grown(h)]]
    /\ UNCHANGED <<handlers, batches>>

LookUp(g) ==
    /\ g \in Running /\ run[g].next <= Len(run[g].events)
    /\ LET key == run[g].events[run[g].next]
           Grown(h) == run[g].groups[h] \o [i \in 1..Copies(key, h) |-> key]
       IN  run' = [run EXCEPT ![g].next = @ + 1,
                              ![g].groups = [h \in Handlers |-> Grown(h)]]
    /\ UNCHANGED <<handlers, batches>>

LookedUp(g) == g \in Running /\ run[g].next > Len(run[g].events)
ToCall(g)   == {h \in Handlers \ {NilHandler} : run[g].groups[h] # <<>>}

(* The groups are called in the order of a range over a map.               *)
Deliver(g, h) ==
    /\ LookedUp(g) /\ h \in ToCall(g)
    /\ run' = [run EXCEPT ![g].got[h] = run[g].groups[h],
                          ![g].groups[h] = <<>>]
    /\ UNCHANGED <<handlers, batches>>

(* The handler panics: the source's goroutine recovers, the groups that    *)
(* are left are never called.                                              *)
Panic(g, h) ==
    /\ LookedUp(g) /\ h \in ToCall(g)
    /\ run' = [run EXCEPT ![g] = NotRunning]
    /\ UNCHANGED <<handlers, batches>>

(* Mistake: the nil handler's group must be emptied too.                   *)
Return_whenEmpty(g) ==
    /\ LookedUp(g) /\ run[g].groups = NoEvents
    /\ run' = [run EXCEPT ![g] = NotRunning]
    /\ UNCHANGED <<handlers, batches>>

Return(g) ==
    /\ LookedUp(g) /\ ToCall(g) = {}
    /\ run' = [run EXCEPT ![g] = NotRunning]
    /\ UNCHANGED <<handlers, batches>>

-----------------------------------------------------------------------------
Dispatch(g) == LookUp(g) \/ Return(g) \/ \E h \in Handlers : Deliver(g, h) \/ Panic(g, h)

Next == \/ \E p \in Patterns, h \in Handlers : Watch(p, h)
        \/ \E id \in Ids : Unwatch(id)
        \/ \E g \in Goroutines : StartDispatch(g) \/ Dispatch(g)

Spec == Init /\ [][Next]_vars

(* Handlers return; programs need not watch or unwatch anything.           *)
FairSpec == Spec /\ \A g \in Goroutines : WF_vars(Dispatch(g))

-----------------------------------------------------------------------------
TypeOK ==
    /\ handlers \subseteq Wrapper
    /\ batches \in 0..MaxBatches
    /\ \A g \in Running :
          /\ run[g].events \in Seq(Keys) /\ run[g].next \in 1..Len(run[g].events) + 1
          /\ run[g].groups \in [Handlers -> Seq(Keys)]
          /\ run[g].got \in [Handlers -> Seq(Keys)]
          /\ run[g].always \subseteq Wrapper /\ run[g].ever \subseteq Wrapper

(* event.go:57-79: an id names one watch, and no handler watches the same  *)
(* pattern twice, so that one Unwatch is enough to stop it.                *)
WatchesAreDistinct ==
    \A v, w \in handlers : v.id = w.id \/ (v.pattern = w.pattern /\ v.handler = w.handler) => v = w

CountIn(k, seq) == Cardinality({i \in DOMAIN seq : seq[i] = k})
CountOf(k, h, watches) ==
    Cardinality({w \in watches : w.handler = h /\ k \in Matches[w.pattern]})

(* event.go:81-111: whatever is watched and unwatched meanwhile, a call of *)
(* a handler carries each event once for every watch of the handler that   *)
(* matched it throughout, and never more often than for every watch that   *)
(* was there at some time during the Dispatch.                             *)
DeliversToWatchers ==
    \A g \in Running : \A h \in ToCall(g) \cup {x \in Handlers : run[g].got[x] # <<>>} :
        \A k \in Keys : LookedUp(g) =>
            LET heard == CountIn(k, run[g].groups[h]) + CountIn(k, run[g].got[h]) IN
            /\ heard <= CountOf(k, h, run[g].ever)
            /\ k \in ToSet(run[g].events) => heard >= CountOf(k, h, run[g].always)

(* A Dispatch that comes to its end has called every handler that watched  *)
(* one of its events throughout, with the events in the batch's order.     *)
CompleteAndInOrder ==
    \A g \in Running : LookedUp(g) /\ ToCall(g) = {} =>
        \A h \in Handlers \ {NilHandler} :
            LET got == run[g].got[h]
                Place(k) == CHOOSE i \in DOMAIN run[g].events : run[g].events[i] = k
            IN  /\ \A k \in ToSet(run[g].events) :
                      CountOf(k, h, run[g].always) > 0 => k \in ToSet(got)
                /\ \A i, j \in DOMAIN got : i < j => Place(got[i]) <= Place(got[j])

(* Every Dispatch ends, whatever is watched meanwhile.                     *)
DispatchEnds == \A g \in Goroutines : g \in Running ~> g \notin Running
=============================================================================
