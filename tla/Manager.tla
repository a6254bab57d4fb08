------------------------------ MODULE Manager -------------------------------
(***************************************************************************)
(* The manager (manager.go): several sources behind one configuration.     *)
(*                                                                         *)
(* A key is answered by the source ksMap routes it to, the registered      *)
(* source of the highest priority that has it.  The manager never asks the *)
(* sources again: it keeps ksMap up to date from the events their          *)
(* goroutines bring, one critical section of mgr.mutex per event, while    *)
(* the sources go on changing.                                             *)
(*                                                                         *)
(* A source does what module Source allows one to do, which BaseSource     *)
(* implements: it changes and reports the change, or the program sets one  *)
(* of its values, which it reports to nobody.  A goroutine that has begun  *)
(* to run the callback is a worker with a job: the events still to be      *)
(* handled and those already handled, annotated in place, for the          *)
(* dispatcher.                                                             *)
(***************************************************************************)
EXTENDS Events, Integers, Sequences, SequencesExt

CONSTANTS
    Sources,        \* the sources a program may add
    NoSource,       \* a key ksMap does not route
    NameOf,         \* Source.Name
    PriorityOf,     \* Source.Priority
    Threads,        \* threads inside each source that change it
    Workers,        \* goroutines that may be inside handleSourceEvents at once
    Idle,           \* a worker without a job
    NoScan,         \* no lowerSource under way
    MaxChanges,     \* bound: changes of sources
    MaxWrites       \* bound: Set, SetDefault and Delete by the program, of a
                    \* source's values too

ASSUME SourcesAssumption ==
    /\ NoSource \notin Sources
    /\ PriorityOf \in [Sources -> Int]
    /\ MaxChanges \in Nat /\ MaxWrites \in Nat

Job  == [src : Sources, todo : SUBSET Event, out : SUBSET Event]
Scan == [worker : Workers, event : Event, rest : Seq(Sources)]

ASSUME IdleAssumption   == Idle \notin Job
ASSUME NoScanAssumption == NoScan \notin Scan

VARIABLES
    view, staged, callback, inflight,   \* per source, as in module Source
    sources,    \* mgr.sources, by priority
    ksMap,      \* mgr.ksMap
    overrides,  \* mgr.overrides
    defaults,   \* mgr.defaults
    adding,     \* the source of an AddSource that holds mgr.mutex
    scan,       \* the lowerSource of a handler that holds mgr.mutex
    job,        \* what each worker is handling
    overwritten,        \* history: values set in a source since it last changed them
    changes, writes     \* how much of the two bounds has been spent

sourceVars == <<view, staged, callback, inflight>>
storeVars  == <<overrides, defaults, writes>>
changeVars == <<changes, overwritten>>
vars == <<sourceVars, sources, ksMap, storeVars, adding, scan, job, changeVars>>

Init == /\ view = [s \in Sources |-> Empty]
        /\ staged = [s \in Sources |-> [t \in Threads |-> {}]]
        /\ callback = [s \in Sources |-> FALSE]
        /\ inflight = [s \in Sources |-> <<>>]
        /\ sources = <<>>
        /\ ksMap = [k \in Keys |-> NoSource]
        /\ overrides = Empty /\ defaults = Empty
        /\ adding = NoSource
        /\ scan = NoScan
        /\ job = [w \in Workers |-> Idle]
        /\ overwritten = [s \in Sources |-> {}]
        /\ changes = 0 /\ writes = 0

(* mgr.mutex is held across two steps only by AddSource and lowerSource.   *)
MutexFree == adding = NoSource /\ scan = NoScan

Registered == ToSet(sources)
Has(s, k)  == view[s][k] # Absent

-----------------------------------------------------------------------------
(* The sources, each on its own.                                           *)

Change(s, t) ==
    /\ changes < MaxChanges /\ changes' = changes + 1
    /\ staged[s][t] = {}
    /\ \E new \in Contents \ {view[s]} :
          /\ view' = [view EXCEPT ![s] = new]
          /\ staged' = [staged EXCEPT ![s][t] = Diff(view[s], new)]
          /\ overwritten' = [overwritten EXCEPT ![s] = {k \in @ : view[s][k] = new[k]}]
    /\ UNCHANGED <<callback, inflight, sources, ksMap, storeVars, adding, scan, job>>

(* BaseSource.Set, which needs neither mgr.mutex nor a callback: the value *)
(* of a key the source has is replaced, and nothing is reported.           *)
Overwrite(s, k, v) ==
    /\ writes < MaxWrites /\ writes' = writes + 1
    /\ Has(s, k)
    /\ view' = [view EXCEPT ![s][k] = v]
    /\ overwritten' = [overwritten EXCEPT ![s] = @ \cup {k}]
    /\ UNCHANGED <<staged, callback, inflight, sources, ksMap, overrides, defaults,
                   adding, scan, job, changes>>

Report(s, t) ==
    /\ staged[s][t] # {}
    /\ staged' = [staged EXCEPT ![s][t] = {}]
    /\ inflight' = IF callback[s]
                   THEN [inflight EXCEPT ![s] = Append(@, staged[s][t])] ELSE inflight
    /\ UNCHANGED <<view, callback, sources, ksMap, storeVars, adding, scan, job, changeVars>>

-----------------------------------------------------------------------------
(* AddSource.  It holds mgr.mutex, but the source is not locked between    *)
(* newSrc.Keys() and newSrc.OnEvents().                                    *)

(* Mistake: the newest source wins.                                        *)
AddSourceKeys_newest(s) ==
    /\ MutexFree
    /\ \A r \in Registered : NameOf[r] # NameOf[s]
    /\ ksMap' = [k \in Keys |-> IF Has(s, k) THEN s ELSE ksMap[k]]
    /\ adding' = s
    /\ UNCHANGED <<sourceVars, sources, storeVars, scan, job, changeVars>>

(* Mistake: nobody looks whether the name is taken.                        *)
AddSourceKeys_again(s) ==
    /\ MutexFree /\ Len(sources) < 3
    /\ ksMap' = [k \in Keys |-> IF Has(s, k) THEN s ELSE ksMap[k]]
    /\ adding' = s
    /\ UNCHANGED <<sourceVars, sources, storeVars, scan, job, changeVars>>

AddSourceKeys(s) ==
    /\ MutexFree
    /\ \A r \in Registered : NameOf[r] # NameOf[s]
    /\ ksMap' = [k \in Keys |->
                    IF Has(s, k) /\ (ksMap[k] # NoSource => PriorityOf[s] > PriorityOf[ksMap[k]])
                    THEN s ELSE ksMap[k]]
    /\ adding' = s
    /\ UNCHANGED <<sourceVars, sources, storeVars, scan, job, changeVars>>

HighToLow(order) ==
    \A i, j \in DOMAIN order : i < j => PriorityOf[order[i]] >= PriorityOf[order[j]]

AddSourceOnEvents ==
    /\ adding # NoSource
    /\ callback' = [callback EXCEPT ![adding] = TRUE]
    /\ LET all == Registered \cup {adding} IN
       sources' \in {order \in [1..Len(sources) + 1 -> all] :
                        ToSet(order) = all /\ HighToLow(order)}
    /\ adding' = NoSource
    /\ UNCHANGED <<view, staged, inflight, ksMap, storeVars, scan, job, changeVars>>

-----------------------------------------------------------------------------
(* handleSourceEvents, in the goroutine a source started for a batch.      *)

Start(w, s, i) ==
    /\ job[w] = Idle
    /\ i \in DOMAIN inflight[s]
    /\ job' = [job EXCEPT ![w] = [src |-> s, todo |-> inflight[s][i], out |-> {}]]
    /\ inflight' = [inflight EXCEPT ![s] = RemoveAt(@, i)]
    /\ UNCHANGED <<view, staged, callback, sources, ksMap, storeVars, adding, scan, changeVars>>

(* Event ev has been handled, and annotated to out: it is passed on even   *)
(* if the handler ignored it.                                              *)
Handled(w, ev, out) ==
    job' = [job EXCEPT ![w].todo = @ \ {ev}, ![w].out = @ \cup {out}]

Outranked(s, k) == ksMap[k] # s /\ PriorityOf[ksMap[k]] > PriorityOf[s]

HandleUpdatedEvent(w, ev) ==
    LET s == job[w].src
        k == ev.key
        last == ksMap[k]
    IN  /\ MutexFree
        /\ ev.action \in {"Created", "Updated"}
        /\ IF last = NoSource
           THEN ksMap' = [ksMap EXCEPT ![k] = s] /\ Handled(w, ev, ev)
           ELSE IF last = s \/ Outranked(s, k)
           THEN Handled(w, ev, ev) /\ UNCHANGED ksMap
           ELSE /\ ksMap' = [ksMap EXCEPT ![k] = s]
                /\ Handled(w, ev, IF Has(last, k)
                                  THEN [ev EXCEPT !.action = "Updated", !.from = view[last][k]]
                                  ELSE [ev EXCEPT !.action = "Created", !.from = Absent])
        /\ UNCHANGED <<sourceVars, sources, storeVars, adding, scan, changeVars>>

(* handleDeletedEvent.  lowerSource goes through mgr.sources and asks the  *)
(* candidates one after another, with their own locks and while they       *)
(* change.                                                                 *)
HandleDeletedEvent(w, ev) ==
    LET s == job[w].src
        k == ev.key
    IN  /\ MutexFree
        /\ ev.action = "Deleted"
        /\ IF ksMap[k] = NoSource \/ Outranked(s, k)
           THEN Handled(w, ev, ev) /\ UNCHANGED scan
           ELSE /\ scan' = [worker |-> w, event |-> ev, rest |-> sources]
                /\ UNCHANGED job
        /\ UNCHANGED <<sourceVars, sources, ksMap, storeVars, adding, changeVars>>

(* The head of scan.rest takes the key over.                               *)
CanTakeOver(r) ==
    LET s == job[scan.worker].src
    IN  r # s /\ PriorityOf[r] <= PriorityOf[s] /\ Has(r, scan.event.key)

(* Mistake: a key nobody has any more keeps its route.                     *)
LowerSource_keepsRoute ==
    /\ scan # NoScan
    /\ \/ /\ scan.rest = <<>>
          /\ Handled(scan.worker, scan.event, scan.event)
          /\ scan' = NoScan /\ UNCHANGED ksMap
       \/ /\ scan.rest # <<>> /\ CanTakeOver(Head(scan.rest))
          /\ ksMap' = [ksMap EXCEPT ![scan.event.key] = Head(scan.rest)]
          /\ Handled(scan.worker, scan.event, scan.event)
          /\ scan' = NoScan
       \/ /\ scan.rest # <<>> /\ ~CanTakeOver(Head(scan.rest))
          /\ scan' = [scan EXCEPT !.rest = Tail(@)] /\ UNCHANGED <<ksMap, job>>
    /\ UNCHANGED <<sourceVars, sources, storeVars, adding, changeVars>>

(* Mistake: the event still says that the key is gone.                     *)
LowerSource_saysGone ==
    LET k == scan.event.key IN
    /\ scan # NoScan
    /\ \/ /\ scan.rest = <<>>
          /\ ksMap' = [ksMap EXCEPT ![k] = NoSource]
          /\ Handled(scan.worker, scan.event, scan.event)
          /\ scan' = NoScan
       \/ /\ scan.rest # <<>> /\ CanTakeOver(Head(scan.rest))
          /\ ksMap' = [ksMap EXCEPT ![k] = Head(scan.rest)]
          /\ Handled(scan.worker, scan.event, scan.event)
          /\ scan' = NoScan
       \/ /\ scan.rest # <<>> /\ ~CanTakeOver(Head(scan.rest))
          /\ scan' = [scan EXCEPT !.rest = Tail(@)] /\ UNCHANGED <<ksMap, job>>
    /\ UNCHANGED <<sourceVars, sources, storeVars, adding, changeVars>>

LowerSource ==
    LET w  == scan.worker
        ev == scan.event
        k  == ev.key
        r  == Head(scan.rest)
    IN  /\ scan # NoScan
        /\ \/ /\ scan.rest = <<>>
              /\ ksMap' = [ksMap EXCEPT ![k] = NoSource]
              /\ Handled(w, ev, ev)
              /\ scan' = NoScan
           \/ /\ scan.rest # <<>> /\ CanTakeOver(r)
              /\ ksMap' = [ksMap EXCEPT ![k] = r]
              /\ Handled(w, ev, [ev EXCEPT !.action = "Updated", !.to = view[r][k]])
              /\ scan' = NoScan
           \/ /\ scan.rest # <<>> /\ ~CanTakeOver(r)
              /\ scan' = [scan EXCEPT !.rest = Tail(@)]
              /\ UNCHANGED <<ksMap, job>>
        /\ UNCHANGED <<sourceVars, sources, storeVars, adding, changeVars>>

HandleEvent(w) == \E ev \in IF job[w] = Idle THEN {} ELSE job[w].todo :
                     HandleUpdatedEvent(w, ev) \/ HandleDeletedEvent(w, ev)

(* dispatcher.Dispatch: module Dispatcher has what happens there.          *)
Dispatch(w) ==
    /\ job[w] # Idle /\ job[w].todo = {}
    /\ job' = [job EXCEPT ![w] = Idle]
    /\ UNCHANGED <<sourceVars, sources, ksMap, storeVars, adding, scan, changeVars>>

-----------------------------------------------------------------------------
(* The program's own values.                                               *)

Write == /\ MutexFree
         /\ writes < MaxWrites /\ writes' = writes + 1
         /\ UNCHANGED <<sourceVars, sources, ksMap, adding, scan, job, changeVars>>

Set(k, v) ==
    Write /\ overrides' = [overrides EXCEPT ![k] = v] /\ UNCHANGED defaults
SetDefault(k, v) ==
    Write /\ defaults' = [defaults EXCEPT ![k] = v] /\ UNCHANGED overrides
Delete(k) ==
    /\ Write
    /\ overrides' = [overrides EXCEPT ![k] = Absent]
    /\ defaults' = [defaults EXCEPT ![k] = Absent]

-----------------------------------------------------------------------------
(* What the program reads; Absent is the answer ok = false.                *)

(* unsafeGet, what Get answers for a value without references.             *)
Get(k) == IF overrides[k] # Absent THEN overrides[k]
          ELSE IF ksMap[k] # NoSource THEN view[ksMap[k]][k]
          ELSE defaults[k]

(* Mistake: sources are applied from the highest priority down.            *)
All_lowestWins ==
    [k \in Keys |->
       LET having == {i \in DOMAIN sources : Has(sources[i], k)} IN
       IF overrides[k] # Absent THEN overrides[k]
       ELSE IF having # {} THEN view[sources[Max(having)]][k] ELSE defaults[k]]

(* All: defaults, then every source from the lowest priority up, then      *)
(* overrides, each overwriting what was there.                             *)
All == [k \in Keys |->
          LET having == {i \in DOMAIN sources : Has(sources[i], k)} IN
          IF overrides[k] # Absent THEN overrides[k]
          ELSE IF having # {} THEN view[sources[Min(having)]][k]
          ELSE defaults[k]]

KeysOf == {k \in Keys : defaults[k] # Absent \/ ksMap[k] # NoSource \/ overrides[k] # Absent}

-----------------------------------------------------------------------------
Overwriting == \E s \in Sources, k \in Keys, v \in Values : Overwrite(s, k, v)
SourceStep == Overwriting \/ \E s \in Sources, t \in Threads : Change(s, t) \/ Report(s, t)
AddSource  == (\E s \in Sources : AddSourceKeys(s)) \/ AddSourceOnEvents
Handling   == (\E w \in Workers : HandleEvent(w) \/ Dispatch(w)) \/ LowerSource
Writing    == \E k \in Keys : Delete(k) \/ \E v \in Values : Set(k, v) \/ SetDefault(k, v)

Next == \/ SourceStep
        \/ AddSource
        \/ \E w \in Workers, s \in Sources : \E i \in DOMAIN inflight[s] : Start(w, s, i)
        \/ Handling
        \/ Writing

Spec == Init /\ [][Next]_vars

(***************************************************************************)
(* An ordered world: a source's batches are handled one after another in   *)
(* the order the changes were made, and a source does not change between   *)
(* the two halves of its AddSource.  Nothing in the code ensures this (a   *)
(* goroutine per batch, a window per AddSource); it is what a system sees  *)
(* whose configuration changes rarely.                                     *)
(***************************************************************************)
InOrder(s) == \A w \in Workers : job[w] # Idle => job[w].src # s

OrderedNext ==
    \/ \E s \in Sources, t \in Threads :
          \/ s # adding /\ (\A u \in Threads : staged[s][u] = {}) /\ Change(s, t)
          \/ Report(s, t)
    \/ Overwriting
    \/ AddSource
    \/ \E w \in Workers, s \in Sources : InOrder(s) /\ Start(w, s, 1)
    \/ Handling
    \/ Writing

(* A world without the window, but with a goroutine per batch.             *)
WindowlessSpec == Init /\ [][Next /\ \A s \in Sources : s = adding => view'[s] = view[s]]_vars

OrderedSpec == Init /\ [][OrderedNext]_vars

Fairness ==
    /\ \A s \in Sources, t \in Threads : WF_vars(Report(s, t))
    /\ WF_vars(AddSourceOnEvents)
    /\ WF_vars(LowerSource)
    /\ \A w \in Workers : WF_vars(HandleEvent(w)) /\ WF_vars(Dispatch(w))
    /\ WF_vars(\E w \in Workers, s \in Sources : InOrder(s) /\ Start(w, s, 1))

FairOrderedSpec == OrderedSpec /\ Fairness
-----------------------------------------------------------------------------
(* Types; scan.rest is what is left of mgr.sources, which is sorted and    *)
(* has no name twice (manager.go:53-85).                                   *)
TypeOK ==
    /\ view \in [Sources -> Contents]
    /\ staged \in [Sources -> [Threads -> SUBSET Event]]
    /\ callback \in [Sources -> BOOLEAN]
    /\ inflight \in [Sources -> Seq(SUBSET Event)]
    /\ sources \in Seq(Sources) /\ HighToLow(sources)
    /\ \A i, j \in DOMAIN sources : NameOf[sources[i]] = NameOf[sources[j]] => i = j
    /\ ksMap \in [Keys -> Sources \cup {NoSource}]
    /\ overrides \in Contents /\ defaults \in Contents
    /\ adding \in Sources \cup {NoSource}
    /\ scan = NoScan \/ scan \in Scan
    /\ job \in [Workers -> Job \cup {Idle}]
    /\ overwritten \in [Sources -> SUBSET Keys]
    /\ changes \in 0..MaxChanges /\ writes \in 0..MaxWrites

(* Nothing is on its way: every change has been reported and handled.      *)
Quiet == /\ MutexFree
         /\ \A s \in Sources : inflight[s] = <<>> /\ \A t \in Threads : staged[s][t] = {}
         /\ \A w \in Workers : job[w] = Idle

RoutedRight(k) ==
    IF ksMap[k] = NoSource
    THEN \A s \in Registered : ~Has(s, k)
    ELSE /\ ksMap[k] \in Registered /\ Has(ksMap[k], k)
         /\ \A s \in Registered : Has(s, k) => PriorityOf[s] <= PriorityOf[ksMap[k]]

(* README.md:2: changes are followed as they happen.  Once every event is  *)
(* handled, a key is routed to the registered source of the highest        *)
(* priority that has it, and to none if none has it (manager.go:237-289),  *)
(* although a handler sees the other sources not as they were when its     *)
(* event happened but as they are when it runs.                            *)
RoutedWhenQuiet == Quiet => \A k \in Keys : RoutedRight(k)

(* manager.go:117-163: Get, through the routes, and All, which asks every  *)
(* source, then answer alike, and Keys lists what All returns.             *)
GetAgreesWithAll == Quiet => /\ \A k \in Keys : Get(k) = All[k]
                             /\ KeysOf = {k \in Keys : All[k] # Absent}

(* After the last change the routes become right and stay so: no handler   *)
(* is left waiting for mgr.mutex and no later event disturbs the routes.   *)
Converges == <>[](\A k \in Keys : RoutedRight(k))

Answered(k) == IF ksMap[k] = NoSource THEN Absent ELSE view[ksMap[k]][k]
Unhandled(s) == UNION ({staged[s][t] : t \in Threads} \cup Range(inflight[s])
                       \cup {job[w].todo : w \in {u \in Workers : job[u] # Idle /\ job[u].src = s}})
Told(w) == IF job[w] = Idle \/ job'[w] = Idle THEN {} ELSE job'[w].out \ job[w].out

(* manager.go:237-289: a handler rewrites its event against sources that   *)
(* go on changing.  Unless its source is outranked, the event then says    *)
(* what the key's source answers now, whichever it has become, or that     *)
(* source has a later event on its way, which will say it.  Only a value   *)
(* the program has set in the source since (base.go:90) is missing from    *)
(* the event, which then still says rightly that there is one.             *)
TellsTheAnswer(w) ==
    \A ev \in Told(w) :
        LET k == ev.key IN
        \/ ksMap[k] # NoSource /\ Outranked(job[w].src, k)
        \/ ev.to = Answered(k)'
        \/ \E s \in Sources :
              /\ s = ksMap'[k]
              /\ \/ \E later \in Unhandled(s)' : later.key = k
                 \/ k \in overwritten'[s] /\ ev.to # Absent /\ Has(s, k)'

ToldIsAnswered == [][\A w \in Workers : TellsTheAnswer(w)]_vars

=============================================================================
