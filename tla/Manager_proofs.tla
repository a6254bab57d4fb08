--------------------------- MODULE Manager_proofs ---------------------------
(***************************************************************************)
(* What is proved of the manager for every set of sources, keys, values,   *)
(* threads and workers, and however often they change.                     *)
(***************************************************************************)
EXTENDS Manager, Sequence_lemmas

-----------------------------------------------------------------------------
(* The invariants.                                                         *)

(* What the types do not say, in every world.                              *)
Orderly ==
    /\ \A r \in Registered : adding # NoSource => NameOf[r] # NameOf[adding]
    /\ \A s \in Sources : callback[s] <=> s \in Registered
    /\ \A s \in Sources : ~callback[s] => inflight[s] = <<>>
    /\ \A w \in Workers : job[w] # Idle => callback[job[w].src]

(* A handler in the middle of lowerSource.                                 *)
ScanIsOrderly ==
    scan # NoScan =>
        /\ adding = NoSource
        /\ job[scan.worker] # Idle
        /\ scan.event \in job[scan.worker].todo
        /\ scan.event.action = "Deleted"
        /\ ToSet(scan.rest) \subseteq Registered
        /\ HighToLow(scan.rest)

Sound == TypeOK /\ Orderly /\ ScanIsOrderly

(* An event says Deleted exactly when the key is gone.                     *)
Honest(batch) == \A e \in batch : e.action = "Deleted" <=> e.to = Absent

EventsAreHonest ==
    /\ \A s \in Sources, t \in Threads : Honest(staged[s][t])
    /\ \A s \in Sources : \A i \in DOMAIN inflight[s] : Honest(inflight[s][i])
    /\ \A w \in Workers : job[w] # Idle => Honest(job[w].todo)

Names(batch, k) == \E e \in batch : e.key = k

(* An event of s about k that its goroutine i places behind, or none of    *)
(* the goroutines yet, has still to be handled.                            *)
Later(s, k, i) ==
    \/ \E t \in Threads : Names(staged[s][t], k)
    \/ \E j \in DOMAIN inflight[s] : j > i /\ Names(inflight[s][j], k)

InHand(s, k) ==
    \E w \in Workers : job[w] # Idle /\ job[w].src = s /\ Names(job[w].todo, k)

Waiting(s, k) == Later(s, k, 0) \/ InHand(s, k)

(* An event says what the key is, except for a value set in the source.    *)
Agrees(s, e) ==
    \/ e.to = view[s][e.key]
    \/ e.key \in overwritten[s] /\ e.to # Absent /\ Has(s, e.key)

(* In an ordered world the last event about a key agrees with its source.  *)
LastWord(s) ==
    /\ \A t \in Threads : \A e \in staged[s][t] : Agrees(s, e)
    /\ \A i \in DOMAIN inflight[s] : \A e \in inflight[s][i] :
          Agrees(s, e) \/ Later(s, e.key, i)
    /\ \A w \in Workers : job[w] # Idle /\ job[w].src = s =>
          \A e \in job[w].todo : Agrees(s, e) \/ Later(s, e.key, 0)

(* Whoever a key is routed to has it, or an event will say that it is gone.*)
RouteHeld(k) ==
    \A r \in Sources : ksMap[k] = r =>
        /\ r \in Registered \cup {adding}
        /\ Has(r, k) \/ (Waiting(r, k) /\ r # adding)

(* A source that has a key, and no event to say so, is not above the route.*)
Covered(s, k) == ksMap[k] # NoSource /\ PriorityOf[ksMap[k]] >= PriorityOf[s]

RouteBest(k) ==
    /\ \A s \in Registered : Has(s, k) /\ ~Waiting(s, k) => Covered(s, k)
    /\ adding # NoSource /\ Has(adding, k) => Covered(adding, k)

(* Nobody lowerSource has passed over can take the key, unless it will say *)
(* so itself.                                                              *)
ScanIsFair ==
    scan # NoScan =>
        \A s \in Registered : Has(s, scan.event.key) /\ ~Waiting(s, scan.event.key) =>
            /\ s \in ToSet(scan.rest)
            /\ PriorityOf[s] <= PriorityOf[job[scan.worker].src]

Routes == /\ \A k \in Keys : RouteHeld(k) /\ RouteBest(k)
          /\ ScanIsFair

Followed == EventsAreHonest /\ (\A s \in Sources : LastWord(s)) /\ Routes

-----------------------------------------------------------------------------
(* Types, and the orderly world.                                           *)

LEMMA DiffType ==
    ASSUME NEW old \in Contents, NEW new \in Contents
    PROVE  Diff(old, new) \in SUBSET Event
BY DEF Diff, Describe, NewEvent, Event, Actions, Contents, Optional

LEMMA SoundInit == Init => Sound
<1> SUFFICES ASSUME Init PROVE Sound
  OBVIOUS
<1>1. Registered = {}
  BY DEF Init, Registered, ToSet
<1>2. TypeOK
  BY SourcesAssumption DEF Init, TypeOK, Contents, Empty, Optional, HighToLow
<1>3. Orderly /\ ScanIsOrderly
  BY <1>1 DEF Init, Orderly, ScanIsOrderly
<1> QED
  BY <1>2, <1>3 DEF Sound

(* An action that changes neither jobs nor the table of sources.           *)
LEMMA OrderlyUnchanged ==
    ASSUME Orderly, ScanIsOrderly, UNCHANGED <<callback, sources, adding, scan, job>>,
           \A s \in Sources : inflight[s] = <<>> /\ ~callback[s] => inflight'[s] = <<>>
    PROVE  Orderly' /\ ScanIsOrderly'
<1>1. Registered' = Registered
  BY DEF Registered
<1> QED
  BY <1>1 DEF Orderly, ScanIsOrderly

LEMMA ChangeIsSound ==
    ASSUME Sound, NEW s \in Sources, NEW t \in Threads, Change(s, t)
    PROVE  Sound'
<1>1. PICK new \in Contents : /\ view' = [view EXCEPT ![s] = new]
                              /\ staged' = [staged EXCEPT ![s][t] = Diff(view[s], new)]
  BY DEF Change
<1>2. Diff(view[s], new) \in SUBSET Event
  BY DiffType DEF Sound, TypeOK
<1>3. changes' \in 0..MaxChanges
  BY SourcesAssumption DEF Sound, TypeOK, Change
<1>4. TypeOK'
  BY <1>1, <1>2, <1>3 DEF Sound, TypeOK, Change, storeVars, changeVars, HighToLow
<1>5. Orderly' /\ ScanIsOrderly'
  BY OrderlyUnchanged DEF Sound, Change
<1> QED
  BY <1>4, <1>5 DEF Sound

LEMMA OverwriteIsSound ==
    ASSUME Sound, NEW s \in Sources, NEW k \in Keys, NEW v \in Values, Overwrite(s, k, v)
    PROVE  Sound'
<1>1. view' \in [Sources -> Contents] /\ overwritten' \in [Sources -> SUBSET Keys]
  BY DEF Sound, TypeOK, Overwrite, Contents, Optional
<1>2. writes' \in 0..MaxWrites
  BY SourcesAssumption DEF Sound, TypeOK, Overwrite
<1>3. TypeOK'
  BY <1>1, <1>2 DEF Sound, TypeOK, Overwrite, HighToLow
<1>4. Orderly' /\ ScanIsOrderly'
  BY OrderlyUnchanged DEF Sound, Overwrite
<1> QED
  BY <1>3, <1>4 DEF Sound

LEMMA ReportIsSound ==
    ASSUME Sound, NEW s \in Sources, NEW t \in Threads, Report(s, t)
    PROVE  Sound'
<1>1. Append(inflight[s], staged[s][t]) \in Seq(SUBSET Event)
  BY AppendProperties DEF Sound, TypeOK
<1>2. inflight' \in [Sources -> Seq(SUBSET Event)]
  BY <1>1 DEF Sound, TypeOK, Report
<1>3. staged' \in [Sources -> [Threads -> SUBSET Event]]
  BY DEF Sound, TypeOK, Report
<1>4. TypeOK'
  BY <1>2, <1>3 DEF Sound, TypeOK, Report, storeVars, changeVars, HighToLow
<1>5. Orderly' /\ ScanIsOrderly'
  BY OrderlyUnchanged DEF Sound, Report, TypeOK
<1> QED
  BY <1>4, <1>5 DEF Sound

LEMMA AddSourceKeysIsSound ==
    ASSUME Sound, NEW s \in Sources, AddSourceKeys(s)
    PROVE  Sound'
<1>1. ksMap' \in [Keys -> Sources \cup {NoSource}]
  BY DEF Sound, TypeOK, AddSourceKeys
<1>2. TypeOK'
  BY <1>1 DEF Sound, TypeOK, AddSourceKeys, sourceVars, storeVars, changeVars, HighToLow
<1>3. Registered' = Registered
  BY DEF Registered, AddSourceKeys
<1>4. Orderly' /\ ScanIsOrderly'
  BY <1>3 DEF Sound, Orderly, ScanIsOrderly, AddSourceKeys, sourceVars, MutexFree
<1> QED
  BY <1>2, <1>4 DEF Sound

(* sort.Slice leaves what was there and the new source, each of them once. *)
LEMMA SourcesAreSorted ==
    ASSUME Sound, AddSourceOnEvents
    PROVE  /\ sources' \in Seq(Sources) /\ HighToLow(sources)'
           /\ Registered' = Registered \cup {adding}
           /\ \A i, j \in DOMAIN sources' : NameOf[sources'[i]] = NameOf[sources'[j]] => i = j
<1> DEFINE all == Append(sources, adding)
<1>1. /\ adding \in Sources /\ sources \in Seq(Sources)
      /\ all \in Seq(Sources) /\ ToSet(all) = Registered \cup {adding}
      /\ Len(all) = Len(sources) + 1 /\ DOMAIN all = 1..Len(all) /\ Len(sources) \in Nat
      /\ DOMAIN sources = 1..Len(sources)
      /\ \A i \in 1..Len(sources) : all[i] = sources[i]
      /\ all[Len(sources) + 1] = adding
  <2>1. adding \in Sources /\ sources \in Seq(Sources)
    BY DEF Sound, TypeOK, AddSourceOnEvents
  <2> QED
    BY <2>1, AppendProperties, ToSetAppend, LenProperties DEF Registered
<1>2. \A r \in Registered : NameOf[r] # NameOf[adding]
  BY DEF Sound, Orderly, AddSourceOnEvents
<1>3. \A i, j \in DOMAIN sources : NameOf[sources[i]] = NameOf[sources[j]] => i = j
  BY DEF Sound, TypeOK
<1>4. ASSUME NEW i \in DOMAIN all, NEW j \in DOMAIN all, NameOf[all[i]] = NameOf[all[j]]
      PROVE  i = j
  <2>1. ASSUME NEW p \in 1..Len(sources) PROVE NameOf[all[p]] # NameOf[all[Len(sources) + 1]]
    BY <1>1, <1>2 DEF Registered, ToSet
  <2>2. CASE i \in 1..Len(sources) /\ j \in 1..Len(sources)
    BY <1>1, <1>3, <1>4, <2>2
  <2> QED
    BY <1>1, <1>4, <2>1, <2>2
<1>5. Distinct(all)
  BY <1>4 DEF Distinct
<1>6. /\ sources' \in [1..Len(all) -> ToSet(all)] /\ ToSet(sources') = ToSet(all)
      /\ HighToLow(sources')
  BY <1>1 DEF AddSourceOnEvents
<1>7. Distinct(sources') /\ sources' \in Seq(Sources)
  <2> HIDE DEF all
  <2> QED
    BY <1>1, <1>5, <1>6, RearrangedIsDistinct
<1>8. ASSUME NEW i \in DOMAIN sources', NEW j \in DOMAIN sources',
             NameOf[sources'[i]] = NameOf[sources'[j]]
      PROVE  i = j
  <2>1. PICK p \in DOMAIN all : all[p] = sources'[i]
    BY <1>6 DEF ToSet
  <2>2. PICK q \in DOMAIN all : all[q] = sources'[j]
    BY <1>6 DEF ToSet
  <2>3. p = q
    BY <1>4, <1>8, <2>1, <2>2
  <2> QED
    BY <1>7, <2>1, <2>2, <2>3 DEF Distinct
<1>9. Registered' = ToSet(sources')
  BY DEF Registered
<1> QED
  BY <1>1, <1>6, <1>7, <1>8, <1>9 DEF HighToLow

LEMMA AddSourceOnEventsIsSound ==
    ASSUME Sound, AddSourceOnEvents
    PROVE  Sound'
<1>1. TypeOK'
  BY SourcesAreSorted DEF Sound, TypeOK, AddSourceOnEvents, storeVars, changeVars
<1>2. ScanIsOrderly'
  BY DEF Sound, ScanIsOrderly, AddSourceOnEvents
<1>3. Orderly'
  BY SourcesAreSorted DEF Sound, TypeOK, Orderly, AddSourceOnEvents
<1> QED
  BY <1>1, <1>2, <1>3 DEF Sound

LEMMA StartIsSound ==
    ASSUME Sound, NEW w \in Workers, NEW s \in Sources, NEW i \in DOMAIN inflight[s],
           Start(w, s, i)
    PROVE  Sound'
<1>1. inflight[s] \in Seq(SUBSET Event) /\ inflight[s][i] \in SUBSET Event
  BY LenProperties, ElementOfSeq DEF Sound, TypeOK
<1>2. RemoveAt(inflight[s], i) \in Seq(SUBSET Event)
  BY <1>1, RemoveAtType
<1>3. inflight' \in [Sources -> Seq(SUBSET Event)]
  BY <1>2 DEF Sound, TypeOK, Start
<1>4. job' \in [Workers -> Job \cup {Idle}]
  BY <1>1 DEF Sound, TypeOK, Start, Job
<1>5. TypeOK'
  BY <1>3, <1>4 DEF Sound, TypeOK, Start, storeVars, changeVars, HighToLow
<1>6. callback[s] /\ Registered' = Registered
  <2>1. inflight[s] # <<>>
    OBVIOUS
  <2> QED
    BY <2>1 DEF Sound, Orderly, Start, Registered
<1>7. Orderly'
  BY <1>6 DEF Sound, TypeOK, Orderly, Start
<1>8. ScanIsOrderly'
  BY <1>6 DEF Sound, TypeOK, ScanIsOrderly, Start, HighToLow, Scan
<1> QED
  BY <1>5, <1>7, <1>8 DEF Sound

(* What remains of a job when one of its events is handled.                *)
LEMMA HandledLeaves ==
    ASSUME TypeOK, NEW w \in Workers, job[w] # Idle, NEW ev \in job[w].todo,
           NEW out \in Event, Handled(w, ev, out)
    PROVE  /\ job' \in [Workers -> Job \cup {Idle}]
           /\ job'[w] # Idle /\ job'[w].src = job[w].src
           /\ job'[w].todo = job[w].todo \ {ev} /\ job'[w].out = job[w].out \cup {out}
           /\ \A v \in Workers : v # w => job'[v] = job[v]
<1> DEFINE j == job[w]
           left == j.todo \ {ev}
           more == j.out \cup {out}
           q == [j EXCEPT !.todo = left, !.out = more]
<1>1. job \in [Workers -> Job \cup {Idle}] /\ j \in Job
  BY DEF TypeOK
<1>2. job' = [job EXCEPT ![w] = q]
  BY <1>1 DEF Handled, Job
<1>3. left \in SUBSET Event /\ more \in SUBSET Event
  BY <1>1 DEF Job
<1>4. q \in Job /\ q.src = j.src /\ q.todo = left /\ q.out = more
  <2> HIDE DEF j, left, more
  <2> QED
    BY <1>1, <1>3 DEF Job
<1>5. q # Idle
  BY <1>4, IdleAssumption
<1> HIDE DEF q
<1> QED
  BY <1>1, <1>2, <1>4, <1>5

(* Where the handlers are the same to what follows: who is at work, and    *)
(* what the routes may become.                                             *)
LEMMA HandledIsSound ==
    ASSUME Sound, NEW w \in Workers, job[w] # Idle, NEW ev \in job[w].todo,
           NEW out \in Event, Handled(w, ev, out), ksMap' \in [Keys -> Sources \cup {NoSource}],
           scan' = NoScan, adding = NoSource,
           UNCHANGED <<sourceVars, sources, storeVars, adding, changeVars>>
    PROVE  Sound'
<1> USE HandledLeaves DEF Sound
<1>1. TypeOK'
  BY DEF TypeOK, sourceVars, storeVars, changeVars, HighToLow
<1>2. Registered' = Registered
  BY DEF Registered
<1>3. Orderly'
  <2>1. \A v \in Workers : job'[v] # Idle => callback'[job'[v].src]
    BY DEF Orderly, sourceVars
  <2> QED
    BY <1>2, <2>1 DEF Orderly, sourceVars
<1>4. ScanIsOrderly'
  BY DEF ScanIsOrderly
<1> QED
  BY <1>1, <1>3, <1>4

(* The two ways a Created or Updated event can go: the source takes the    *)
(* key over, or the route stays as it is.                                  *)
LEMMA UpdatedOutcome ==
    ASSUME TypeOK, NEW w \in Workers, job[w] # Idle, NEW ev \in job[w].todo,
           HandleUpdatedEvent(w, ev)
    PROVE  LET s == job[w].src
               k == ev.key
           IN  /\ ev \in Event /\ s \in Sources /\ k \in Keys /\ ev.action # "Deleted"
               /\ MutexFree /\ UNCHANGED <<sourceVars, sources, storeVars, adding, scan, changeVars>>
               /\ \E out \in Event : Handled(w, ev, out) /\ out.key = k /\ out.to = ev.to
               /\ \/ /\ ksMap' = [ksMap EXCEPT ![k] = s]
                     /\ ksMap[k] # NoSource => PriorityOf[ksMap[k]] <= PriorityOf[s]
                  \/ /\ ksMap' = ksMap /\ ksMap[k] # NoSource
                     /\ ksMap[k] = s \/ Outranked(s, k)
<1> DEFINE s == job[w].src
           k == ev.key
           last == ksMap[k]
<1>1. /\ ev \in Event /\ s \in Sources /\ k \in Keys /\ last \in Sources \cup {NoSource}
  BY DEF TypeOK, Job, Event
<1>2. /\ ev.action # "Deleted" /\ MutexFree
      /\ UNCHANGED <<sourceVars, sources, storeVars, adding, scan, changeVars>>
  BY DEF HandleUpdatedEvent
<1>3. CASE last = NoSource
  <2>1. Handled(w, ev, ev) /\ ksMap' = [ksMap EXCEPT ![k] = s]
    BY <1>3 DEF HandleUpdatedEvent
  <2> QED
    BY <1>1, <1>2, <1>3, <2>1
<1>4. CASE last # NoSource /\ (last = s \/ Outranked(s, k))
  <2>1. Handled(w, ev, ev) /\ ksMap' = ksMap
    BY <1>4 DEF HandleUpdatedEvent
  <2> QED
    BY <1>1, <1>2, <1>4, <2>1
<1>5. CASE last # NoSource /\ ~(last = s \/ Outranked(s, k))
  <2>1. last \in Sources /\ PriorityOf[last] <= PriorityOf[s]
    BY <1>1, <1>5, SourcesAssumption DEF Outranked
  <2>2. ksMap' = [ksMap EXCEPT ![k] = s]
    BY <1>5 DEF HandleUpdatedEvent
  <2>3. CASE Has(last, k)
    <3>1. view[last][k] \in Optional
      BY <1>1, <2>1 DEF TypeOK, Contents
    <3>2. Handled(w, ev, [ev EXCEPT !.action = "Updated", !.from = view[last][k]])
      BY <1>5, <2>3 DEF HandleUpdatedEvent
    <3>3. LET out == [ev EXCEPT !.action = "Updated", !.from = view[last][k]]
          IN  out \in Event /\ out.key = k /\ out.to = ev.to
      BY <1>1, <3>1 DEF Event, Actions
    <3> QED
      BY <1>1, <1>2, <2>1, <2>2, <3>2, <3>3
  <2>4. CASE ~Has(last, k)
    <3>1. Handled(w, ev, [ev EXCEPT !.action = "Created", !.from = Absent])
      BY <1>5, <2>4 DEF HandleUpdatedEvent
    <3>2. LET out == [ev EXCEPT !.action = "Created", !.from = Absent]
          IN  out \in Event /\ out.key = k /\ out.to = ev.to
      BY <1>1 DEF Event, Actions, Optional
    <3> QED
      BY <1>1, <1>2, <2>1, <2>2, <3>1, <3>2
  <2> QED
    BY <2>3, <2>4
<1> QED
  BY <1>3, <1>4, <1>5

LEMMA HandleUpdatedEventIsSound ==
    ASSUME Sound, NEW w \in Workers, job[w] # Idle, NEW ev \in job[w].todo,
           HandleUpdatedEvent(w, ev)
    PROVE  Sound'
<1>1. TypeOK
  BY DEF Sound
<1>2. PICK out \in Event : Handled(w, ev, out)
  BY <1>1, UpdatedOutcome
<1>3. ksMap' \in [Keys -> Sources \cup {NoSource}]
  BY <1>1, UpdatedOutcome DEF TypeOK
<1>4. /\ scan' = NoScan /\ adding = NoSource
      /\ UNCHANGED <<sourceVars, sources, storeVars, adding, changeVars>>
  BY <1>1, UpdatedOutcome DEF MutexFree
<1> QED
  BY <1>2, <1>3, <1>4, HandledIsSound

(* A Deleted event is ignored, or a scan for another source begins.        *)
LEMMA HandleDeletedEventIsSound ==
    ASSUME Sound, NEW w \in Workers, job[w] # Idle, NEW ev \in job[w].todo,
           HandleDeletedEvent(w, ev)
    PROVE  Sound'
<1>1. /\ ev \in Event /\ MutexFree /\ ev.action = "Deleted"
      /\ UNCHANGED <<sourceVars, sources, ksMap, storeVars, adding, changeVars>>
  BY DEF Sound, TypeOK, Job, HandleDeletedEvent
<1>2. CASE Handled(w, ev, ev) /\ scan' = scan
  <2>1. ksMap' \in [Keys -> Sources \cup {NoSource}] /\ scan' = NoScan /\ adding = NoSource
    BY <1>1, <1>2 DEF Sound, TypeOK, MutexFree
  <2> QED
    BY <1>1, <1>2, <2>1, HandledIsSound
<1>3. CASE scan' = [worker |-> w, event |-> ev, rest |-> sources] /\ job' = job
  <2>1. scan' \in Scan
    BY <1>1, <1>3 DEF Sound, TypeOK, Scan
  <2>2. TypeOK'
    BY <1>1, <1>3, <2>1 DEF Sound, TypeOK, sourceVars, storeVars, changeVars, HighToLow
  <2>3. Registered' = Registered
    BY <1>1 DEF Registered
  <2>4. Orderly'
    BY <1>1, <1>3, <2>3 DEF Sound, Orderly, sourceVars
  <2>5. ScanIsOrderly'
    BY <1>1, <1>3, <2>3 DEF Sound, TypeOK, ScanIsOrderly, MutexFree, Registered, HighToLow
  <2> QED
    BY <2>2, <2>4, <2>5 DEF Sound
<1> QED
  BY <1>2, <1>3 DEF HandleDeletedEvent

(* A step of lowerSource under way: whose event, of which job.             *)
LEMMA ScanFacts ==
    ASSUME Sound, scan # NoScan
    PROVE  /\ scan \in Scan /\ scan.worker \in Workers /\ scan.event \in Event
           /\ scan.event.key \in Keys
           /\ job[scan.worker] # Idle /\ job[scan.worker] \in Job
           /\ job[scan.worker].src \in Sources
           /\ scan.event \in job[scan.worker].todo /\ scan.event.action = "Deleted"
           /\ adding = NoSource
           /\ scan.rest \in Seq(Sources) /\ ToSet(scan.rest) \subseteq Registered
           /\ Registered \subseteq Sources
<1>1. Registered \subseteq Sources
  BY ToSetType DEF Sound, TypeOK, Registered
<1>2. scan \in Scan
  BY DEF Sound, TypeOK
<1> QED
  BY <1>1, <1>2 DEF Sound, TypeOK, ScanIsOrderly, Scan, Job, Event

LEMMA NextInScan ==
    ASSUME Sound, scan # NoScan, scan.rest # <<>>
    PROVE  /\ Head(scan.rest) \in Registered /\ Head(scan.rest) \in Sources
           /\ Tail(scan.rest) \in Seq(Sources)
           /\ ToSet(scan.rest) = ToSet(Tail(scan.rest)) \cup {Head(scan.rest)}
           /\ \A s \in ToSet(scan.rest) : PriorityOf[Head(scan.rest)] >= PriorityOf[s]
           /\ HighToLow(Tail(scan.rest))
<1> DEFINE rest == scan.rest
<1>1. rest \in Seq(Sources) /\ ToSet(rest) \subseteq Registered /\ HighToLow(rest)
  BY ScanFacts DEF Sound, ScanIsOrderly
<1>2. /\ Head(rest) \in ToSet(rest) /\ Head(rest) = rest[1] /\ Tail(rest) \in Seq(Sources)
      /\ ToSet(rest) = ToSet(Tail(rest)) \cup {Head(rest)}
  BY <1>1, ToSetTail
<1>3. /\ DOMAIN rest = 1..Len(rest) /\ Len(rest) \in Nat \ {0}
      /\ DOMAIN Tail(rest) = 1..Len(rest) - 1
      /\ \A i \in 1..Len(rest) - 1 : Tail(rest)[i] = rest[i + 1]
  BY <1>1, HeadTailProperties, LenProperties, EmptySeq
<1>4. \A i \in DOMAIN rest : rest[i] \in Sources
  BY <1>1, <1>3, ElementOfSeq
<1>5. ASSUME NEW s \in ToSet(rest) PROVE PriorityOf[Head(rest)] >= PriorityOf[s]
  <2>1. PICK i \in DOMAIN rest : s = rest[i]
    BY DEF ToSet
  <2>2. CASE i = 1
    BY <1>2, <1>3, <1>4, <2>1, <2>2, SourcesAssumption
  <2>3. CASE i # 1
    BY <1>1, <1>2, <1>3, <2>1, <2>3 DEF HighToLow
  <2> QED
    BY <2>2, <2>3
<1>6. HighToLow(Tail(rest))
  BY <1>1, <1>3 DEF HighToLow
<1>7. Head(rest) \in Sources
  BY <1>2, <1>3, <1>4
<1> QED
  BY <1>1, <1>2, <1>5, <1>6, <1>7

(* The three ways a step of lowerSource can go.                            *)
LEMMA LowerSourceOutcome ==
    ASSUME Sound, LowerSource
    PROVE  LET w == scan.worker
               ev == scan.event
               k == ev.key
               r == Head(scan.rest)
           IN  /\ scan # NoScan
               /\ UNCHANGED <<sourceVars, sources, storeVars, adding, changeVars>>
               /\ \/ /\ scan.rest = <<>> /\ scan' = NoScan
                     /\ ksMap' = [ksMap EXCEPT ![k] = NoSource]
                     /\ Handled(w, ev, ev)
                  \/ /\ scan.rest # <<>> /\ CanTakeOver(r) /\ scan' = NoScan
                     /\ ksMap' = [ksMap EXCEPT ![k] = r]
                     /\ \E out \in Event : /\ Handled(w, ev, out)
                                           /\ out.key = k /\ out.to = view[r][k]
                  \/ /\ scan.rest # <<>> /\ ~CanTakeOver(r)
                     /\ scan' \in Scan /\ scan'.worker = w /\ scan'.event = ev
                     /\ scan'.rest = Tail(scan.rest)
                     /\ UNCHANGED <<ksMap, job>>
<1>1. scan # NoScan /\ UNCHANGED <<sourceVars, sources, storeVars, adding, changeVars>>
  BY DEF LowerSource
<1>2. scan \in Scan /\ scan.event \in Event /\ scan.event.key \in Keys
  BY <1>1, ScanFacts
<1>3. CASE scan.rest = <<>>
  BY <1>1, <1>3 DEF LowerSource
<1>4. CASE scan.rest # <<>> /\ CanTakeOver(Head(scan.rest))
  <2> DEFINE r == Head(scan.rest)
             out == [scan.event EXCEPT !.action = "Updated", !.to = view[r][scan.event.key]]
  <2>1. r \in Sources
    BY <1>1, <1>4, NextInScan
  <2>2. view[r][scan.event.key] \in Optional
    BY <1>2, <2>1 DEF Sound, TypeOK, Contents
  <2>3. out \in Event /\ out.key = scan.event.key /\ out.to = view[r][scan.event.key]
    BY <1>2, <2>2 DEF Event, Actions
  <2>4. /\ Handled(scan.worker, scan.event, out) /\ scan' = NoScan
        /\ ksMap' = [ksMap EXCEPT ![scan.event.key] = r]
    BY <1>4 DEF LowerSource
  <2> QED
    BY <1>1, <1>4, <2>3, <2>4
<1>5. CASE scan.rest # <<>> /\ ~CanTakeOver(Head(scan.rest))
  <2>1. Tail(scan.rest) \in Seq(Sources)
    BY <1>1, <1>5, NextInScan
  <2>2. scan' = [scan EXCEPT !.rest = Tail(scan.rest)] /\ UNCHANGED <<ksMap, job>>
    BY <1>5 DEF LowerSource
  <2>3. /\ scan' \in Scan /\ scan'.worker = scan.worker /\ scan'.event = scan.event
        /\ scan'.rest = Tail(scan.rest)
    BY <1>2, <2>1, <2>2 DEF Scan
  <2> QED
    BY <1>1, <1>5, <2>2, <2>3
<1> QED
  BY <1>3, <1>4, <1>5

LEMMA LowerSourceIsSound ==
    ASSUME Sound, LowerSource
    PROVE  Sound'
<1> DEFINE w == scan.worker
           ev == scan.event
<1>1. /\ scan # NoScan /\ UNCHANGED <<sourceVars, sources, storeVars, adding, changeVars>>
  BY LowerSourceOutcome
<1>2. /\ w \in Workers /\ job[w] # Idle /\ ev \in Event /\ ev \in job[w].todo
      /\ ev.key \in Keys /\ adding = NoSource
  BY <1>1, ScanFacts
<1>3. CASE scan' = NoScan /\ \E r \in Sources \cup {NoSource} : ksMap' = [ksMap EXCEPT ![ev.key] = r]
                         /\ \E out \in Event : Handled(w, ev, out)
  <2>1. ksMap' \in [Keys -> Sources \cup {NoSource}]
    BY <1>2, <1>3 DEF Sound, TypeOK
  <2>2. PICK out \in Event : Handled(w, ev, out)
    BY <1>3
  <2> HIDE DEF w, ev
  <2> QED
    BY <1>1, <1>2, <1>3, <2>1, <2>2, HandledIsSound
<1>4. CASE /\ scan.rest # <<>> /\ scan' \in Scan /\ scan'.worker = w /\ scan'.event = ev
           /\ scan'.rest = Tail(scan.rest) /\ UNCHANGED <<ksMap, job>>
  <2>1. TypeOK'
    BY <1>1, <1>4 DEF Sound, TypeOK, sourceVars, storeVars, changeVars, HighToLow
  <2>2. Registered' = Registered
    BY <1>1 DEF Registered
  <2>3. Orderly'
    BY <1>1, <1>4, <2>2 DEF Sound, Orderly, sourceVars
  <2>4. ToSet(Tail(scan.rest)) \subseteq Registered /\ HighToLow(Tail(scan.rest))
    BY <1>1, <1>4, ScanFacts, NextInScan
  <2>5. ScanIsOrderly'
    BY <1>1, <1>2, <1>4, <2>2, <2>4, ScanFacts DEF ScanIsOrderly, HighToLow
  <2> QED
    BY <2>1, <2>3, <2>5 DEF Sound
<1>5. scan.rest # <<>> => Head(scan.rest) \in Sources
  BY <1>1, NextInScan
<1> QED
  BY <1>2, <1>3, <1>4, <1>5, LowerSourceOutcome

LEMMA DispatchIsSound ==
    ASSUME Sound, NEW w \in Workers, Dispatch(w)
    PROVE  Sound'
<1>1. TypeOK'
  BY DEF Sound, TypeOK, Dispatch, sourceVars, storeVars, changeVars, HighToLow
<1>2. Registered' = Registered
  BY DEF Dispatch, Registered
<1>3. Orderly'
  BY <1>2 DEF Sound, TypeOK, Orderly, Dispatch, sourceVars
<1>4. ScanIsOrderly'
  <2>1. scan # NoScan => scan.worker # w
    BY DEF Sound, ScanIsOrderly, Dispatch
  <2>2. scan # NoScan => job'[scan.worker] = job[scan.worker]
    BY <2>1, ScanFacts DEF Sound, TypeOK, Dispatch
  <2> QED
    BY <1>2, <2>2 DEF Sound, ScanIsOrderly, Dispatch, HighToLow
<1> QED
  BY <1>1, <1>3, <1>4 DEF Sound

LEMMA WritingIsSound ==
    ASSUME Sound, Writing
    PROVE  Sound'
<1>1. Write
  BY DEF Writing, Set, SetDefault, Delete
<1>2. overrides' \in Contents /\ defaults' \in Contents
  <2>1. overrides \in Contents /\ defaults \in Contents
    BY DEF Sound, TypeOK
  <2>2. ASSUME NEW k \in Keys, Delete(k)
        PROVE  overrides' \in Contents /\ defaults' \in Contents
    BY <2>1, <2>2 DEF Delete, Contents, Optional
  <2>3. ASSUME NEW k \in Keys, NEW v \in Values, Set(k, v)
        PROVE  overrides' \in Contents /\ defaults' \in Contents
    BY <2>1, <2>3 DEF Set, Contents, Optional
  <2>4. ASSUME NEW k \in Keys, NEW v \in Values, SetDefault(k, v)
        PROVE  overrides' \in Contents /\ defaults' \in Contents
    BY <2>1, <2>4 DEF SetDefault, Contents, Optional
  <2> QED
    BY <2>2, <2>3, <2>4 DEF Writing
<1>3. writes' \in 0..MaxWrites
  BY <1>1, SourcesAssumption DEF Sound, TypeOK, Write
<1>4. TypeOK'
  BY <1>1, <1>2, <1>3 DEF Sound, TypeOK, Write, sourceVars, changeVars, HighToLow
<1>5. Orderly' /\ ScanIsOrderly'
  BY <1>1, OrderlyUnchanged DEF Sound, Write, sourceVars
<1> QED
  BY <1>4, <1>5 DEF Sound

LEMMA SoundNext == Sound /\ [Next]_vars => Sound'
<1> SUFFICES ASSUME Sound, [Next]_vars PROVE Sound'
  OBVIOUS
<1>1. ASSUME NEW s \in Sources, NEW t \in Threads, Change(s, t) \/ Report(s, t)
      PROVE  Sound'
  BY <1>1, ChangeIsSound, ReportIsSound
<1>2. CASE AddSource
  BY <1>2, AddSourceKeysIsSound, AddSourceOnEventsIsSound DEF AddSource
<1>3. ASSUME NEW w \in Workers, NEW s \in Sources, NEW i \in DOMAIN inflight[s], Start(w, s, i)
      PROVE  Sound'
  BY <1>3, StartIsSound
<1>4. ASSUME NEW w \in Workers, HandleEvent(w) PROVE Sound'
  <2>1. PICK ev \in IF job[w] = Idle THEN {} ELSE job[w].todo :
                HandleUpdatedEvent(w, ev) \/ HandleDeletedEvent(w, ev)
    BY <1>4 DEF HandleEvent
  <2> QED
    BY <2>1, HandleUpdatedEventIsSound, HandleDeletedEventIsSound
<1>5. ASSUME NEW w \in Workers, Dispatch(w) PROVE Sound'
  BY <1>5, DispatchIsSound
<1>6. CASE LowerSource
  BY <1>6, LowerSourceIsSound
<1>7. CASE Writing
  BY <1>7, WritingIsSound
<1>8. CASE UNCHANGED vars
  BY <1>8 DEF vars, sourceVars, storeVars, changeVars, Sound, TypeOK, Orderly, ScanIsOrderly, HighToLow,
              Registered
<1>9. CASE Overwriting
  BY <1>9, OverwriteIsSound DEF Overwriting
<1> QED
  BY <1>1, <1>2, <1>3, <1>4, <1>5, <1>6, <1>7, <1>8, <1>9 DEF Next, SourceStep, Handling

LEMMA AlwaysSound == Spec => []Sound
<1> QED
  BY SoundInit, SoundNext, PTL DEF Spec

(* Every variable has its type, and mgr.sources is always in the order of  *)
(* the priorities with every name once (manager.go:53-85).                 *)
THEOREM TypeCorrect == Spec => []TypeOK
<1>1. Sound => TypeOK
  BY DEF Sound
<1> QED
  BY <1>1, AlwaysSound, PTL

-----------------------------------------------------------------------------
(* In an ordered world: sources change, and their events are passed on.    *)

LEMMA FollowedInit == Init => Followed
<1> SUFFICES ASSUME Init PROVE Followed
  OBVIOUS
<1>1. Registered = {}
  BY DEF Init, Registered, ToSet
<1>2. EventsAreHonest /\ \A s \in Sources : LastWord(s)
  BY DEF Init, EventsAreHonest, Honest, LastWord
<1>3. Routes
  BY <1>1, SourcesAssumption DEF Init, Routes, RouteHeld, RouteBest, ScanIsFair
<1> QED
  BY <1>2, <1>3 DEF Followed

LEMMA AgreesUnchanged ==
    ASSUME UNCHANGED <<view, overwritten>>
    PROVE  \A s, e : Agrees(s, e)' <=> Agrees(s, e)
BY DEF Agrees, Has

(* A source none of whose events moves.                                    *)
LEMMA SourceAtRest ==
    ASSUME NEW r \in Sources,
           view'[r] = view[r], overwritten'[r] = overwritten[r],
           staged'[r] = staged[r], inflight'[r] = inflight[r],
           \A w \in Workers :
              \/ job'[w] = job[w]
              \/ (job[w] # Idle => job[w].src # r) /\ (job'[w] # Idle => job'[w].src # r)
              \/ /\ job[w] # Idle /\ job'[w] # Idle
                 /\ job'[w].src = job[w].src /\ job'[w].todo = job[w].todo
    PROVE  /\ LastWord(r) => LastWord(r)'
           /\ \A k \in Keys : Waiting(r, k)' <=> Waiting(r, k)
<1>1. \A k, i : Later(r, k, i)' <=> Later(r, k, i)
  BY DEF Later
<1>2. \A k : InHand(r, k)' <=> InHand(r, k)
  BY DEF InHand
<1>3. \A e : Agrees(r, e)' <=> Agrees(r, e)
  BY DEF Agrees, Has
<1>4. LastWord(r) => LastWord(r)'
  <2>1. ASSUME LastWord(r), NEW w \in Workers, job'[w] # Idle, job'[w].src = r
        PROVE  \A e \in job'[w].todo : Agrees(r, e)' \/ Later(r, e.key, 0)'
    <3>1. job[w] # Idle /\ job[w].src = r /\ job'[w].todo = job[w].todo
      BY <2>1
    <3> QED
      BY <1>1, <1>3, <2>1, <3>1 DEF LastWord
  <2> QED
    BY <1>1, <1>3, <2>1 DEF LastWord
<1> QED
  BY <1>1, <1>2, <1>4 DEF Waiting

(* Steps of the sources leave the routes alone: nobody gets a key, or      *)
(* loses one, without an event that says so.                               *)
LEMMA RoutesUnmoved ==
    ASSUME Sound, Routes, UNCHANGED <<ksMap, sources, adding, scan>>,
           scan # NoScan => job'[scan.worker] = job[scan.worker],
           \A s \in Registered, k \in Keys :
              /\ Has(s, k)' /\ ~Waiting(s, k)' => Has(s, k) /\ ~Waiting(s, k)
              /\ Has(s, k) \/ Waiting(s, k) => Has(s, k)' \/ Waiting(s, k)',
           adding # NoSource => \A k \in Keys : Has(adding, k)' <=> Has(adding, k)
    PROVE  Routes'
<1>1. Registered' = Registered
  BY DEF Registered
<1>2. adding # NoSource => adding \notin Registered
  BY DEF Sound, Orderly
<1>3. ASSUME NEW k \in Keys PROVE RouteHeld(k)'
  <2>1. ASSUME NEW r \in Sources, ksMap[k] = r
        PROVE  /\ r \in Registered \cup {adding}
               /\ Has(r, k)' \/ (Waiting(r, k)' /\ r # adding)
    <3>1. r \in Registered \cup {adding} /\ (Has(r, k) \/ (Waiting(r, k) /\ r # adding))
      BY <2>1 DEF Routes, RouteHeld
    <3>2. CASE r = adding
      BY <3>1, <3>2, SourcesAssumption
    <3>3. CASE r # adding
      BY <3>1, <3>3
    <3> QED
      BY <3>2, <3>3
  <2> QED
    BY <1>1, <2>1 DEF RouteHeld
<1>4. ASSUME NEW k \in Keys PROVE RouteBest(k)'
  BY <1>1 DEF Routes, RouteBest, Covered
<1>5. ScanIsFair'
  BY <1>1, ScanFacts DEF Routes, ScanIsFair
<1> QED
  BY <1>3, <1>4, <1>5 DEF Routes

LEMMA ChangeIsFollowed ==
    ASSUME Sound, Followed, NEW s \in Sources, NEW t \in Threads, Change(s, t),
           s # adding, \A u \in Threads : staged[s][u] = {}
    PROVE  Followed'
<1>1. PICK new \in Contents : /\ view' = [view EXCEPT ![s] = new]
                              /\ staged' = [staged EXCEPT ![s][t] = Diff(view[s], new)]
                              /\ overwritten' = [overwritten EXCEPT
                                    ![s] = {k \in @ : view[s][k] = new[k]}]
  BY DEF Change
<1>2. /\ view'[s] = new
      /\ \A r \in Sources \ {s} : /\ view'[r] = view[r] /\ staged'[r] = staged[r]
                                  /\ overwritten'[r] = overwritten[r]
      /\ \A k \in overwritten[s] : view[s][k] = new[k] => k \in overwritten'[s]
      /\ staged'[s][t] = Diff(view[s], new)
      /\ \A u \in Threads \ {t} : staged'[s][u] = {}
      /\ view[s] \in Contents
  BY <1>1 DEF Sound, TypeOK
<1>3. UNCHANGED <<inflight, job, ksMap, sources, adding, scan>>
  BY DEF Change
<1>4. ASSUME NEW r \in Sources \ {s}
      PROVE  /\ LastWord(r) => LastWord(r)'
             /\ \A k \in Keys : Waiting(r, k)' <=> Waiting(r, k)
  BY <1>2, <1>3, SourceAtRest
<1>5. \A e \in Diff(view[s], new) :
         e.to = new[e.key] /\ e.key \in Keys /\ (e.action = "Deleted" <=> e.to = Absent)
  BY DEF Diff, Describe, NewEvent
<1>6. ASSUME NEW k \in Keys, new[k] # view[s][k] PROVE Names(staged'[s][t], k)
  <2>1. Describe(k, view[s][k], new[k]) \in staged'[s][t]
    BY <1>2, <1>6 DEF Diff
  <2>2. Describe(k, view[s][k], new[k]).key = k
    BY DEF Describe, NewEvent
  <2> QED
    BY <2>1, <2>2 DEF Names
<1>7. ASSUME NEW k \in Keys, NEW i
      PROVE  /\ Later(s, k, i) => Later(s, k, i)'
             /\ new[k] # view[s][k] => Later(s, k, i)'
  BY <1>2, <1>3, <1>6 DEF Later, Names
<1>8. \A k : InHand(s, k)' <=> InHand(s, k)
  BY <1>3 DEF InHand
<1>9. LastWord(s)'
  <2>1. \A i \in DOMAIN inflight[s] : \A e \in inflight[s][i] : e.key \in Keys
    BY LenProperties, ElementOfSeq DEF Sound, TypeOK, Event
  <2>2. \A w \in Workers : job[w] # Idle => \A e \in job[w].todo : e.key \in Keys
    BY DEF Sound, TypeOK, Job, Event
  <2>3. ASSUME NEW u \in Threads, NEW e \in staged'[s][u] PROVE Agrees(s, e)'
    <3>1. e \in Diff(view[s], new)
      BY <1>2
    <3> QED
      BY <1>2, <1>5, <3>1 DEF Agrees
  <2>4. ASSUME NEW e, e.key \in Keys, Agrees(s, e), new[e.key] = view[s][e.key]
        PROVE  Agrees(s, e)'
    BY <1>2, <2>4 DEF Agrees, Has
  <2>5. ASSUME NEW i \in DOMAIN inflight[s], NEW e \in inflight[s][i]
        PROVE  Agrees(s, e)' \/ Later(s, e.key, i)'
    <3>1. e.key \in Keys
      BY <2>1
    <3>2. Agrees(s, e) \/ Later(s, e.key, i)
      BY DEF Followed, LastWord
    <3> QED
      BY <1>7, <2>4, <3>1, <3>2
  <2>6. ASSUME NEW w \in Workers, job[w] # Idle, job[w].src = s, NEW e \in job[w].todo
        PROVE  Agrees(s, e)' \/ Later(s, e.key, 0)'
    <3>1. e.key \in Keys
      BY <2>2, <2>6
    <3>2. Agrees(s, e) \/ Later(s, e.key, 0)
      BY <2>6 DEF Followed, LastWord
    <3> QED
      BY <1>7, <2>4, <3>1, <3>2
  <2> QED
    BY <1>2, <1>3, <2>3, <2>5, <2>6 DEF LastWord
<1>10. \A r \in Sources : LastWord(r)'
  BY <1>4, <1>9 DEF Followed
<1>11. EventsAreHonest'
  <2>1. ASSUME NEW r \in Sources, NEW u \in Threads PROVE Honest(staged'[r][u])
    <3>1. CASE r = s /\ u = t
      <4>1. ASSUME NEW e \in staged'[r][u] PROVE e.action = "Deleted" <=> e.to = Absent
        <5>1. e \in Diff(view[s], new)
          BY <1>2, <3>1
        <5> QED
          BY <1>5, <5>1
      <4> QED
        BY <4>1 DEF Honest
    <3>2. CASE r = s /\ u # t
      BY <1>2, <3>2 DEF Honest
    <3>3. CASE r # s
      BY <1>2, <3>3 DEF Followed, EventsAreHonest
    <3> QED
      BY <3>1, <3>2, <3>3
  <2> QED
    BY <1>3, <2>1 DEF Followed, EventsAreHonest
<1>12. Routes'
  <2>1. ASSUME NEW k \in Keys
        PROVE  /\ Waiting(s, k) => Waiting(s, k)'
               /\ (Has(s, k)' <=> Has(s, k)) \/ Waiting(s, k)'
    BY <1>2, <1>7, <1>8 DEF Waiting, Has
  <2>2. ASSUME NEW r \in Sources \ {s}, NEW k \in Keys PROVE Has(r, k)' <=> Has(r, k)
    BY <1>2 DEF Has
  <2>3. Registered \subseteq Sources /\ adding \in Sources \cup {NoSource}
    BY ToSetType DEF Sound, TypeOK, Registered
  <2>4. ASSUME NEW r \in Registered, NEW k \in Keys
        PROVE  /\ Has(r, k)' /\ ~Waiting(r, k)' => Has(r, k) /\ ~Waiting(r, k)
               /\ Has(r, k) \/ Waiting(r, k) => Has(r, k)' \/ Waiting(r, k)'
    <3>1. CASE r = s
      BY <2>1, <3>1
    <3>2. CASE r # s
      BY <1>4, <2>2, <2>3, <3>2
    <3> QED
      BY <3>1, <3>2
  <2> QED
    BY <1>3, <2>2, <2>3, <2>4, RoutesUnmoved DEF Followed
<1> QED
  BY <1>10, <1>11, <1>12 DEF Followed

(* A value set in a source is no news to the routes: the key is still      *)
(* there, and an event that said so still does.                            *)
LEMMA OverwriteIsFollowed ==
    ASSUME Sound, Followed, NEW s \in Sources, NEW k \in Keys, NEW v \in Values,
           Overwrite(s, k, v)
    PROVE  Followed'
<1>1. UNCHANGED <<staged, inflight, ksMap, sources, adding, scan, job>>
  BY DEF Overwrite
<1>2. /\ view'[s][k] = v /\ v # Absent /\ Has(s, k) /\ k \in overwritten'[s]
      /\ overwritten[s] \subseteq overwritten'[s]
      /\ \A q \in Keys \ {k} : view'[s][q] = view[s][q]
      /\ \A r \in Sources \ {s} : view'[r] = view[r] /\ overwritten'[r] = overwritten[r]
  BY AbsentAssumption DEF Overwrite, Sound, TypeOK, Contents
<1>3. ASSUME NEW r \in Sources, NEW q \in Keys PROVE Has(r, q)' <=> Has(r, q)
  BY <1>2 DEF Has
<1>4. \A r, q, i : Later(r, q, i)' <=> Later(r, q, i)
  BY <1>1 DEF Later
<1>5. \A r, q : Waiting(r, q)' <=> Waiting(r, q)
  BY <1>1 DEF Waiting, Later, InHand
<1>6. ASSUME NEW r \in Sources, NEW e, e.key \in Keys, Agrees(r, e) PROVE Agrees(r, e)'
  <2>1. CASE r # s
    BY <1>2, <1>6, <2>1 DEF Agrees, Has
  <2>2. CASE r = s /\ e.key # k
    BY <1>2, <1>6, <2>2 DEF Agrees, Has
  <2>3. CASE r = s /\ e.key = k
    BY <1>2, <1>6, <2>3 DEF Agrees, Has
  <2> QED
    BY <2>1, <2>2, <2>3
<1>7. ASSUME NEW r \in Sources PROVE LastWord(r)'
  <2>1. LastWord(r)
    BY DEF Followed
  <2>2. /\ \A t \in Threads : \A e \in staged[r][t] : e.key \in Keys
        /\ \A i \in DOMAIN inflight[r] : \A e \in inflight[r][i] : e.key \in Keys
        /\ \A w \in Workers : job[w] # Idle => \A e \in job[w].todo : e.key \in Keys
    BY LenProperties, ElementOfSeq DEF Sound, TypeOK, Job, Event
  <2> QED
    BY <1>1, <1>4, <1>6, <2>1, <2>2 DEF LastWord
<1>8. EventsAreHonest'
  BY <1>1 DEF Followed, EventsAreHonest
<1>9. Routes'
  <2>1. Registered \subseteq Sources /\ adding \in Sources \cup {NoSource}
    BY ToSetType DEF Sound, TypeOK, Registered
  <2> QED
    BY <1>1, <1>3, <1>5, <2>1, RoutesUnmoved DEF Followed
<1> QED
  BY <1>7, <1>8, <1>9 DEF Followed

LEMMA ReportIsFollowed ==
    ASSUME Sound, Followed, NEW s \in Sources, NEW t \in Threads, Report(s, t)
    PROVE  Followed'
<1> DEFINE n == Len(inflight[s])
<1>1. /\ staged'[s][t] = {} /\ \A u \in Threads \ {t} : staged'[s][u] = staged[s][u]
      /\ \A r \in Sources \ {s} : staged'[r] = staged[r] /\ inflight'[r] = inflight[r]
      /\ staged[s][t] \in SUBSET Event
  BY DEF Report, Sound, TypeOK
<1>2. UNCHANGED <<view, overwritten, job, ksMap, sources, adding, scan>>
  BY DEF Report, changeVars
<1>3. inflight[s] \in Seq(SUBSET Event) /\ n \in Nat /\ DOMAIN inflight[s] = 1..n
  BY LenProperties DEF Sound, TypeOK
<1>4. ASSUME callback[s]
      PROVE  /\ DOMAIN inflight'[s] = 1..n + 1 /\ inflight'[s][n + 1] = staged[s][t]
             /\ \A i \in 1..n : inflight'[s][i] = inflight[s][i]
  <2>1. inflight'[s] = Append(inflight[s], staged[s][t])
    BY <1>4 DEF Report, Sound, TypeOK
  <2>2. /\ Append(inflight[s], staged[s][t]) \in Seq(SUBSET Event)
        /\ Len(Append(inflight[s], staged[s][t])) = n + 1
        /\ \A i \in 1..n : Append(inflight[s], staged[s][t])[i] = inflight[s][i]
        /\ Append(inflight[s], staged[s][t])[n + 1] = staged[s][t]
    BY <1>1, <1>3, AppendProperties
  <2>3. DOMAIN Append(inflight[s], staged[s][t]) = 1..n + 1
    BY <2>2, LenProperties
  <2> QED
    BY <2>1, <2>2, <2>3
<1>5. ASSUME ~callback[s]
      PROVE  inflight'[s] = <<>> /\ \A w \in Workers : job[w] # Idle => job[w].src # s
  BY <1>5 DEF Report, Sound, Orderly
<1>6. ASSUME NEW r \in Sources \ {s}
      PROVE  /\ LastWord(r) => LastWord(r)'
             /\ \A k \in Keys : Waiting(r, k)' <=> Waiting(r, k)
  BY <1>1, <1>2, SourceAtRest
<1> HIDE DEF n
<1>7. ASSUME callback[s], NEW k, NEW i \in 0..n PROVE Later(s, k, i)' <=> Later(s, k, i)
  <2>1. ASSUME Later(s, k, i) PROVE Later(s, k, i)'
    <3>1. CASE Names(staged[s][t], k)
      <4>1. n + 1 \in DOMAIN inflight'[s] /\ n + 1 > i /\ Names(inflight'[s][n + 1], k)
        BY <1>3, <1>4, <1>7, <3>1
      <4> QED
        BY <4>1 DEF Later
    <3>2. CASE \E u \in Threads \ {t} : Names(staged[s][u], k)
      BY <1>1, <3>2 DEF Later
    <3>3. CASE \E j \in DOMAIN inflight[s] : j > i /\ Names(inflight[s][j], k)
      <4>1. PICK j \in DOMAIN inflight[s] : j > i /\ Names(inflight[s][j], k)
        BY <3>3
      <4>2. j \in DOMAIN inflight'[s] /\ inflight'[s][j] = inflight[s][j]
        BY <1>3, <1>4, <1>7, <4>1
      <4> QED
        BY <4>1, <4>2 DEF Later
    <3> QED
      BY <2>1, <3>1, <3>2, <3>3 DEF Later
  <2>2. ASSUME Later(s, k, i)' PROVE Later(s, k, i)
    <3>1. CASE \E u \in Threads : Names(staged'[s][u], k)
      BY <1>1, <3>1 DEF Later, Names
    <3>2. CASE \E j \in DOMAIN inflight'[s] : j > i /\ Names(inflight'[s][j], k)
      BY <1>3, <1>4, <1>7, <3>2 DEF Later
    <3> QED
      BY <2>2, <3>1, <3>2 DEF Later
  <2> QED
    BY <2>1, <2>2
<1>8. \A k : InHand(s, k)' <=> InHand(s, k)
  BY <1>2 DEF InHand
<1>9. LastWord(s)
  BY DEF Followed
<1>10. LastWord(s)'
  <2>1. \A u \in Threads : \A e \in staged'[s][u] : Agrees(s, e)'
    BY <1>1, <1>2, <1>9, AgreesUnchanged DEF LastWord
  <2>2. CASE ~callback[s]
    BY <1>2, <1>5, <2>1, <2>2 DEF LastWord
  <2>3. CASE callback[s]
    <3>1. ASSUME NEW i \in 1..n, NEW e \in inflight'[s][i]
          PROVE  Agrees(s, e)' \/ Later(s, e.key, i)'
      <4>1. i \in DOMAIN inflight[s] /\ i \in 0..n /\ e \in inflight[s][i]
        BY <1>3, <1>4, <2>3
      <4>2. Agrees(s, e) \/ Later(s, e.key, i)
        BY <1>9, <4>1 DEF LastWord
      <4> QED
        BY <1>2, <1>7, <2>3, <4>1, <4>2, AgreesUnchanged
    <3>2. ASSUME NEW e \in inflight'[s][n + 1] PROVE Agrees(s, e)'
      BY <1>2, <1>4, <1>9, <2>3, AgreesUnchanged DEF LastWord
    <3>3. ASSUME NEW w \in Workers, job[w] # Idle, job[w].src = s, NEW e \in job[w].todo
          PROVE  Agrees(s, e)' \/ Later(s, e.key, 0)'
      BY <1>2, <1>3, <1>7, <1>9, <2>3, <3>3, AgreesUnchanged DEF LastWord
    <3>4. \A i \in DOMAIN inflight'[s] : i \in 1..n \/ i = n + 1
      BY <1>3, <1>4, <2>3
    <3> QED
      BY <1>2, <2>1, <3>1, <3>2, <3>3, <3>4 DEF LastWord
  <2> QED
    BY <2>2, <2>3
<1>11. \A r \in Sources : LastWord(r)'
  BY <1>6, <1>10 DEF Followed
<1>12. EventsAreHonest'
  <2>1. ASSUME NEW r \in Sources, NEW u \in Threads PROVE Honest(staged'[r][u])
    BY <1>1 DEF Followed, EventsAreHonest, Honest
  <2>2. ASSUME NEW r \in Sources, NEW i \in DOMAIN inflight'[r] PROVE Honest(inflight'[r][i])
    <3>1. CASE r # s
      BY <1>1, <3>1 DEF Followed, EventsAreHonest
    <3>2. CASE r = s /\ ~callback[s]
      BY <1>5, <3>2
    <3>3. CASE r = s /\ callback[s]
      <4>1. i \in 1..n \/ i = n + 1
        BY <1>3, <1>4, <3>3
      <4> QED
        BY <1>3, <1>4, <3>3, <4>1 DEF Followed, EventsAreHonest
    <3> QED
      BY <3>1, <3>2, <3>3
  <2> QED
    BY <1>2, <2>1, <2>2 DEF Followed, EventsAreHonest
<1>13. Routes'
  <2>1. ASSUME NEW r \in Registered, NEW k \in Keys PROVE Waiting(r, k)' <=> Waiting(r, k)
    <3>1. r \in Sources /\ (r = s => callback[s])
      BY ToSetType DEF Sound, TypeOK, Registered, Orderly
    <3>2. CASE r = s
      BY <1>3, <1>7, <1>8, <3>1, <3>2 DEF Waiting
    <3>3. CASE r # s
      BY <1>6, <3>1, <3>3
    <3> QED
      BY <3>2, <3>3
  <2>2. \A r, k : Has(r, k)' <=> Has(r, k)
    BY <1>2 DEF Has
  <2> QED
    BY <1>2, <2>1, <2>2, RoutesUnmoved DEF Followed
<1> QED
  BY <1>11, <1>12, <1>13 DEF Followed

(* The first batch of a source none of whose events are being handled.     *)
LEMMA StartIsFollowed ==
    ASSUME Sound, Followed, NEW w \in Workers, NEW s \in Sources, InOrder(s), Start(w, s, 1)
    PROVE  Followed'
<1> DEFINE n == Len(inflight[s])
<1>1. /\ inflight[s] \in Seq(SUBSET Event) /\ n \in Nat /\ DOMAIN inflight[s] = 1..n
      /\ 1 \in 1..n /\ inflight[s][1] \in SUBSET Event
  BY LenProperties, ElementOfSeq DEF Sound, TypeOK, Start
<1>2. /\ inflight'[s] = RemoveAt(inflight[s], 1)
      /\ \A r \in Sources \ {s} : inflight'[r] = inflight[r]
  BY DEF Start, Sound, TypeOK
<1>3. /\ DOMAIN inflight'[s] = 1..n - 1
      /\ \A i \in 1..n - 1 : inflight'[s][i] = inflight[s][i + 1]
  <2>1. /\ DOMAIN RemoveAt(inflight[s], 1) = 1..n - 1
        /\ \A i \in 1..n - 1 : i >= 1 => RemoveAt(inflight[s], 1)[i] = inflight[s][i + 1]
    BY <1>1, RemoveAtProperties
  <2> QED
    BY <1>2, <2>1
<1>4. UNCHANGED <<view, overwritten, staged, ksMap, sources, adding, scan>>
  BY DEF Start, changeVars
<1>5. /\ job[w] = Idle /\ job'[w] # Idle /\ job'[w].src = s /\ job'[w].todo = inflight[s][1]
      /\ \A v \in Workers \ {w} : job'[v] = job[v]
  <2>1. [src |-> s, todo |-> inflight[s][1], out |-> {}] \in Job
    BY <1>1 DEF Job
  <2> QED
    BY <2>1, IdleAssumption DEF Start, Sound, TypeOK
<1>6. ASSUME NEW r \in Sources \ {s}
      PROVE  /\ LastWord(r) => LastWord(r)'
             /\ \A k \in Keys : Waiting(r, k)' <=> Waiting(r, k)
  <2>1. ASSUME NEW v \in Workers
        PROVE  \/ job'[v] = job[v]
               \/ (job[v] # Idle => job[v].src # r) /\ (job'[v] # Idle => job'[v].src # r)
    BY <1>5
  <2> QED
    BY <1>2, <1>4, <2>1, SourceAtRest
<1> HIDE DEF n
<1>7. ASSUME NEW k, NEW i \in 0..n - 1 PROVE Later(s, k, i)' <=> Later(s, k, i + 1)
  <2>1. ASSUME NEW j \in DOMAIN inflight'[s], j > i, Names(inflight'[s][j], k)
        PROVE  j + 1 \in DOMAIN inflight[s] /\ j + 1 > i + 1 /\ Names(inflight[s][j + 1], k)
    BY <1>1, <1>3, <2>1
  <2>2. ASSUME NEW j \in DOMAIN inflight[s], j > i + 1, Names(inflight[s][j], k)
        PROVE  j - 1 \in DOMAIN inflight'[s] /\ j - 1 > i /\ Names(inflight'[s][j - 1], k)
    <3>1. j - 1 \in 1..n - 1 /\ (j - 1) + 1 = j
      BY <1>1, <2>2
    <3>2. inflight'[s][j - 1] = inflight[s][j]
      BY <1>3, <3>1
    <3> QED
      BY <1>1, <1>3, <2>2, <3>1, <3>2
  <2> QED
    BY <1>4, <2>1, <2>2 DEF Later
<1>8. ASSUME NEW v \in Workers, job'[v] # Idle, job'[v].src = s
      PROVE  v = w /\ job'[v].todo = inflight[s][1]
  BY <1>5, <1>8 DEF InOrder
<1>9. LastWord(s)
  BY DEF Followed
<1>10. LastWord(s)'
  <2>1. ASSUME NEW i \in DOMAIN inflight'[s], NEW e \in inflight'[s][i]
        PROVE  Agrees(s, e)' \/ Later(s, e.key, i)'
    <3>1. i \in 1..n - 1 /\ i + 1 \in DOMAIN inflight[s] /\ e \in inflight[s][i + 1]
      BY <1>1, <1>3
    <3>2. Agrees(s, e) \/ Later(s, e.key, i + 1)
      BY <1>9, <3>1 DEF LastWord
    <3>3. Later(s, e.key, i + 1) => Later(s, e.key, i)'
      BY <1>1, <1>7, <3>1
    <3> QED
      BY <1>4, <3>2, <3>3, AgreesUnchanged
  <2>2. ASSUME NEW e \in inflight[s][1]
        PROVE  Agrees(s, e)' \/ Later(s, e.key, 0)'
    <3>1. Agrees(s, e) \/ Later(s, e.key, 1)
      BY <1>1, <1>9 DEF LastWord
    <3>2. Later(s, e.key, 0 + 1) => Later(s, e.key, 0)'
      BY <1>1, <1>7
    <3> QED
      BY <1>4, <3>1, <3>2, AgreesUnchanged
  <2>3. \A v \in Workers : job'[v] # Idle /\ job'[v].src = s =>
           \A e \in job'[v].todo : Agrees(s, e)' \/ Later(s, e.key, 0)'
    BY <1>8, <2>2
  <2>4. \A t \in Threads : \A e \in staged'[s][t] : Agrees(s, e)'
    BY <1>4, <1>9, AgreesUnchanged DEF LastWord
  <2> QED
    BY <2>1, <2>3, <2>4 DEF LastWord
<1>11. \A r \in Sources : LastWord(r)'
  BY <1>6, <1>10 DEF Followed
<1>12. EventsAreHonest'
  <2>1. ASSUME NEW r \in Sources, NEW i \in DOMAIN inflight'[r] PROVE Honest(inflight'[r][i])
    <3>1. CASE r # s
      BY <1>2, <3>1 DEF Followed, EventsAreHonest
    <3>2. CASE r = s
      <4>1. i + 1 \in DOMAIN inflight[s] /\ inflight'[r][i] = inflight[s][i + 1]
        BY <1>1, <1>3, <3>2
      <4> QED
        BY <4>1 DEF Followed, EventsAreHonest
    <3> QED
      BY <3>1, <3>2
  <2>2. ASSUME NEW v \in Workers, job'[v] # Idle PROVE Honest(job'[v].todo)
    <3>1. CASE v = w
      BY <1>1, <1>5, <3>1 DEF Followed, EventsAreHonest
    <3>2. CASE v # w
      BY <1>5, <2>2, <3>2 DEF Followed, EventsAreHonest
    <3> QED
      BY <3>1, <3>2
  <2> QED
    BY <1>4, <2>1, <2>2 DEF Followed, EventsAreHonest
<1>13. Routes'
  <2>1. ASSUME NEW r \in Registered, NEW k \in Keys PROVE Waiting(r, k)' <=> Waiting(r, k)
    <3>1. r \in Sources
      BY ToSetType DEF Sound, TypeOK, Registered
    <3>2. CASE r = s
      <4>1. InHand(s, k)' <=> Names(inflight[s][1], k)
        BY <1>5, <1>8 DEF InHand
      <4>2. ~InHand(s, k)
        BY DEF InOrder, InHand
      <4>3. Later(s, k, 0)' <=> Later(s, k, 0 + 1)
        BY <1>1, <1>7
      <4>4. Later(s, k, 0) <=> Later(s, k, 1) \/ Names(inflight[s][1], k)
        BY <1>1 DEF Later
      <4> QED
        BY <3>2, <4>1, <4>2, <4>3, <4>4 DEF Waiting
    <3>3. CASE r # s
      BY <1>6, <3>1, <3>3
    <3> QED
      BY <3>2, <3>3
  <2>2. \A r, k : Has(r, k)' <=> Has(r, k)
    BY <1>4 DEF Has
  <2>3. scan # NoScan => job'[scan.worker] = job[scan.worker]
    BY <1>5, ScanFacts
  <2> QED
    BY <1>4, <2>1, <2>2, <2>3, RoutesUnmoved DEF Followed
<1> QED
  BY <1>11, <1>12, <1>13 DEF Followed

-----------------------------------------------------------------------------
(* In an ordered world: the manager adds sources and handles events.       *)

(* Nothing that the invariant speaks of moves.                             *)
LEMMA QuietStep ==
    ASSUME Sound, Followed, UNCHANGED <<view, overwritten, staged, inflight, ksMap, sources, adding, scan, job>>
    PROVE  Followed'
<1>1. ASSUME NEW r \in Sources
      PROVE  /\ LastWord(r) => LastWord(r)'
             /\ \A k \in Keys : Waiting(r, k)' <=> Waiting(r, k)
  BY SourceAtRest
<1>2. EventsAreHonest'
  BY DEF Followed, EventsAreHonest
<1>3. Routes'
  <2>1. \A r, k : Has(r, k)' <=> Has(r, k)
    BY DEF Has
  <2>2. Registered \subseteq Sources
    BY ToSetType DEF Sound, TypeOK, Registered
  <2> QED
    BY <1>1, <2>1, <2>2, RoutesUnmoved DEF Followed
<1> QED
  BY <1>1, <1>2, <1>3 DEF Followed

LEMMA AddSourceKeysIsFollowed ==
    ASSUME Sound, Followed, NEW s \in Sources, AddSourceKeys(s)
    PROVE  Followed'
<1>1. /\ UNCHANGED <<view, overwritten, staged, inflight, sources, scan, job>> /\ adding = NoSource
      /\ adding' = s /\ scan' = NoScan /\ Registered' = Registered /\ s # NoSource
  BY SourcesAssumption DEF AddSourceKeys, sourceVars, MutexFree, Registered, changeVars
<1>2. ASSUME NEW r \in Sources
      PROVE  /\ LastWord(r) => LastWord(r)'
             /\ \A k \in Keys : Waiting(r, k)' <=> Waiting(r, k)
  BY <1>1, SourceAtRest
<1>3. EventsAreHonest'
  BY <1>1 DEF Followed, EventsAreHonest
<1>4. ASSUME NEW k \in Keys PROVE RouteHeld(k)' /\ RouteBest(k)'
  <2>1. RouteHeld(k) /\ RouteBest(k)
    BY DEF Followed, Routes
  <2>2. \A r : Has(r, k)' <=> Has(r, k)
    BY <1>1 DEF Has
  <2>3. Registered \subseteq Sources /\ s \notin Registered
    BY ToSetType DEF Sound, TypeOK, Registered, AddSourceKeys
  <2>4. /\ ksMap[k] \in Sources \cup {NoSource}
        /\ \A r \in Sources : PriorityOf[r] \in Int
    BY SourcesAssumption DEF Sound, TypeOK
  <2>5. CASE Has(s, k) /\ (ksMap[k] # NoSource => PriorityOf[s] > PriorityOf[ksMap[k]])
    <3>1. ksMap'[k] = s
      BY <2>5 DEF AddSourceKeys
    <3>2. RouteHeld(k)'
      BY <1>1, <2>2, <2>5, <3>1 DEF RouteHeld
    <3>3. ASSUME NEW r \in Registered, Has(r, k)', ~Waiting(r, k)' PROVE Covered(r, k)'
      <4>1. Covered(r, k)
        BY <1>2, <2>1, <2>2, <2>3, <3>3 DEF RouteBest
      <4> QED
        BY <1>1, <2>3, <2>4, <2>5, <3>1, <4>1 DEF Covered
    <3>4. Covered(s, k)'
      BY <1>1, <2>4, <3>1 DEF Covered
    <3> QED
      BY <1>1, <3>2, <3>3, <3>4 DEF RouteBest
  <2>6. CASE ~(Has(s, k) /\ (ksMap[k] # NoSource => PriorityOf[s] > PriorityOf[ksMap[k]]))
    <3>1. ksMap'[k] = ksMap[k]
      BY <2>6 DEF AddSourceKeys
    <3>2. RouteHeld(k)'
      <4>1. ASSUME NEW r \in Sources, ksMap[k] = r
            PROVE  /\ r \in Registered /\ r # s
                   /\ Has(r, k)' \/ Waiting(r, k)'
        BY <1>1, <1>2, <2>1, <2>2, <2>3, <4>1, SourcesAssumption DEF RouteHeld
      <4> QED
        BY <1>1, <3>1, <4>1 DEF RouteHeld
    <3>3. ASSUME NEW r \in Registered, Has(r, k)', ~Waiting(r, k)' PROVE Covered(r, k)'
      <4>1. Covered(r, k)
        BY <1>2, <2>1, <2>2, <2>3, <3>3 DEF RouteBest
      <4> QED
        BY <3>1, <4>1 DEF Covered
    <3>4. Has(s, k)' => Covered(s, k)'
      BY <1>1, <2>2, <2>4, <2>6, <3>1 DEF Covered
    <3> QED
      BY <1>1, <3>2, <3>3, <3>4 DEF RouteBest
  <2> QED
    BY <2>5, <2>6
<1>5. Routes'
  BY <1>1, <1>4 DEF Routes, ScanIsFair
<1> QED
  BY <1>2, <1>3, <1>5 DEF Followed

LEMMA AddSourceOnEventsIsFollowed ==
    ASSUME Sound, Followed, AddSourceOnEvents
    PROVE  Followed'
<1>1. /\ UNCHANGED <<view, overwritten, staged, inflight, ksMap, scan, job>> /\ scan = NoScan
      /\ adding # NoSource /\ adding' = NoSource /\ adding \in Sources
  BY DEF AddSourceOnEvents, Sound, TypeOK, ScanIsOrderly, changeVars
<1>2. Registered' = Registered \cup {adding}
  BY SourcesAreSorted
<1>3. ASSUME NEW r \in Sources
      PROVE  /\ LastWord(r) => LastWord(r)'
             /\ \A k \in Keys : Waiting(r, k)' <=> Waiting(r, k)
  BY <1>1, SourceAtRest
<1>4. EventsAreHonest'
  BY <1>1 DEF Followed, EventsAreHonest
<1>5. Registered \subseteq Sources
  BY ToSetType DEF Sound, TypeOK, Registered
<1>6. ASSUME NEW k \in Keys PROVE RouteHeld(k)' /\ RouteBest(k)'
  <2>1. RouteHeld(k) /\ RouteBest(k)
    BY DEF Followed, Routes
  <2>2. \A r : Has(r, k)' <=> Has(r, k)
    BY <1>1 DEF Has
  <2>3. ASSUME NEW r \in Sources, ksMap[k] = r
        PROVE  r \in Registered' /\ (Has(r, k)' \/ Waiting(r, k)')
    <3>1. r \in Registered \cup {adding} /\ (Has(r, k) \/ Waiting(r, k))
      BY <2>1, <2>3 DEF RouteHeld
    <3> QED
      BY <1>2, <1>3, <2>2, <3>1
  <2>4. ksMap'[k] = ksMap[k] /\ ksMap[k] \in Sources \cup {NoSource} /\ adding' \notin Sources
    BY <1>1, SourcesAssumption DEF Sound, TypeOK
  <2>5. RouteHeld(k)'
    BY <1>1, <2>3, <2>4 DEF RouteHeld
  <2>6. ASSUME NEW r \in Registered', Has(r, k)', ~Waiting(r, k)' PROVE Covered(r, k)'
    <3>1. r \in Sources
      BY <1>1, <1>2, <1>5
    <3>2. Covered(r, k)
      BY <1>1, <1>2, <1>3, <2>1, <2>2, <2>6, <3>1 DEF RouteBest
    <3> QED
      BY <1>1, <3>2 DEF Covered
  <2>7. RouteBest(k)'
    BY <1>1, <2>6 DEF RouteBest
  <2> QED
    BY <2>5, <2>7
<1>7. Routes'
  BY <1>1, <1>6 DEF Routes, ScanIsFair
<1> QED
  BY <1>3, <1>4, <1>7 DEF Followed

LEMMA DispatchIsFollowed ==
    ASSUME Sound, Followed, NEW w \in Workers, Dispatch(w)
    PROVE  Followed'
<1>1. UNCHANGED <<view, overwritten, staged, inflight, ksMap, sources, adding, scan>>
  BY DEF Dispatch, sourceVars, changeVars
<1>2. /\ job[w] # Idle /\ job[w].todo = {} /\ job'[w] = Idle
      /\ \A v \in Workers \ {w} : job'[v] = job[v]
  BY DEF Dispatch, Sound, TypeOK
<1>3. ASSUME NEW r \in Sources
      PROVE  /\ LastWord(r)'
             /\ \A k \in Keys : Waiting(r, k)' <=> Waiting(r, k)
  <2>1. \A k, i : Later(r, k, i)' <=> Later(r, k, i)
    BY <1>1 DEF Later
  <2>2. \A k : InHand(r, k)' <=> InHand(r, k)
    BY <1>2 DEF InHand, Names
  <2>3. LastWord(r)'
    BY <1>1, <1>2, <2>1, AgreesUnchanged DEF Followed, LastWord
  <2> QED
    BY <2>1, <2>2, <2>3 DEF Waiting
<1>4. EventsAreHonest'
  BY <1>1, <1>2 DEF Followed, EventsAreHonest
<1>5. Routes'
  <2>1. \A r, k : Has(r, k)' <=> Has(r, k)
    BY <1>1 DEF Has
  <2>2. Registered \subseteq Sources
    BY ToSetType DEF Sound, TypeOK, Registered
  <2>3. scan # NoScan => job'[scan.worker] = job[scan.worker]
    <3>1. scan # NoScan => scan.worker # w
      BY <1>2, ScanFacts
    <3> QED
      BY <1>2, <3>1, ScanFacts
  <2> QED
    BY <1>1, <1>3, <2>1, <2>2, <2>3, RoutesUnmoved DEF Followed
<1> QED
  BY <1>3, <1>4, <1>5 DEF Followed

(* When an event has been handled, only its source may wait for less, and  *)
(* then only if the event was the last word on the key.                    *)
LEMMA HandledIsFollowed ==
    ASSUME Sound, Followed, NEW w \in Workers, job[w] # Idle, NEW ev \in job[w].todo,
           NEW s, s = job[w].src, NEW out \in Event, Handled(w, ev, out), UNCHANGED <<view, overwritten, staged, inflight>>
    PROVE  /\ EventsAreHonest' /\ \A r \in Sources : LastWord(r)'
           /\ \A r \in Sources, k \in Keys :
                 /\ Waiting(r, k)' => Waiting(r, k)
                 /\ r # s \/ k # ev.key => (Waiting(r, k) => Waiting(r, k)')
           /\ Waiting(s, ev.key)
           /\ Agrees(s, ev) \/ Later(s, ev.key, 0)'
<1>1. TypeOK
  BY DEF Sound
<1>2. /\ job'[w] # Idle /\ job'[w].src = job[w].src /\ job'[w].todo = job[w].todo \ {ev}
      /\ \A v \in Workers : v # w => job'[v] = job[v]
  BY <1>1, HandledLeaves
<1>3. \A r, k, i : Later(r, k, i)' <=> Later(r, k, i)
  BY DEF Later
<1>4. EventsAreHonest'
  <2>1. ASSUME NEW v \in Workers, job'[v] # Idle PROVE Honest(job'[v].todo)
    <3>1. CASE v = w
      BY <1>2, <3>1 DEF Followed, EventsAreHonest, Honest
    <3>2. CASE v # w
      BY <1>2, <2>1, <3>2 DEF Followed, EventsAreHonest
    <3> QED
      BY <3>1, <3>2
  <2> QED
    BY <2>1 DEF Followed, EventsAreHonest
<1>5. ASSUME NEW v \in Workers, job'[v] # Idle
      PROVE  /\ job[v] # Idle /\ job'[v].src = job[v].src
             /\ job'[v].todo \subseteq job[v].todo
  BY <1>2, <1>5
<1>6. ASSUME NEW r \in Sources PROVE LastWord(r)'
  <2>1. ASSUME NEW v \in Workers, job'[v] # Idle, job'[v].src = r, NEW e \in job'[v].todo
        PROVE  Agrees(r, e)' \/ Later(r, e.key, 0)'
    <3>1. job[v] # Idle /\ job[v].src = r /\ e \in job[v].todo
      BY <1>5, <2>1
    <3> QED
      BY <1>3, <3>1, AgreesUnchanged DEF Followed, LastWord
  <2>2. LastWord(r)
    BY DEF Followed
  <2> QED
    BY <1>3, <2>1, <2>2, AgreesUnchanged DEF LastWord
<1>7. ASSUME NEW r \in Sources, NEW k \in Keys PROVE InHand(r, k)' => InHand(r, k)
  BY <1>5 DEF InHand, Names
<1>8. ASSUME NEW r \in Sources, NEW k \in Keys, r # s \/ k # ev.key, InHand(r, k)
      PROVE  InHand(r, k)'
  <2>1. PICK v \in Workers : job[v] # Idle /\ job[v].src = r /\ \E e \in job[v].todo : e.key = k
    BY <1>8 DEF InHand, Names
  <2>2. PICK e \in job[v].todo : e.key = k
    BY <2>1
  <2>3. job'[v] # Idle /\ job'[v].src = r /\ e \in job'[v].todo
    BY <1>2, <1>8, <2>1, <2>2
  <2> QED
    BY <2>2, <2>3 DEF InHand, Names
<1>9. Waiting(s, ev.key)
  BY DEF Waiting, InHand, Names
<1>10. s \in Sources
  BY <1>1 DEF TypeOK, Job
<1>11. Agrees(s, ev) \/ Later(s, ev.key, 0)
  BY <1>10 DEF Followed, LastWord
<1>12. ASSUME NEW r \in Sources, NEW k \in Keys
       PROVE  /\ Waiting(r, k)' => Waiting(r, k)
              /\ r # s \/ k # ev.key => (Waiting(r, k) => Waiting(r, k)')
  BY <1>3, <1>7, <1>8 DEF Waiting
<1> QED
  BY <1>3, <1>4, <1>6, <1>9, <1>11, <1>12

(* So the route of the event's key is all there is to look at.             *)
LEMMA RoutedIsFollowed ==
    ASSUME Sound, Followed, NEW w \in Workers, job[w] # Idle, NEW ev \in job[w].todo,
           NEW out \in Event, Handled(w, ev, out), UNCHANGED <<view, overwritten, staged, inflight, sources>>,
           adding = NoSource, adding' = NoSource, scan' = NoScan,
           \A k \in Keys : k # ev.key => ksMap'[k] = ksMap[k],
           RouteHeld(ev.key)', RouteBest(ev.key)'
    PROVE  Followed'
<1>1. EventsAreHonest' /\ \A r \in Sources : LastWord(r)'
  BY HandledIsFollowed
<1>2. Registered' = Registered /\ Registered \subseteq Sources
  BY ToSetType DEF Sound, TypeOK, Registered
<1>3. ASSUME NEW k \in Keys, k # ev.key PROVE RouteHeld(k)' /\ RouteBest(k)'
  <2>1. RouteHeld(k) /\ RouteBest(k) /\ ksMap'[k] = ksMap[k]
    BY <1>3 DEF Followed, Routes
  <2>2. ASSUME NEW r \in Sources PROVE Waiting(r, k)' <=> Waiting(r, k)
    BY <1>3, HandledIsFollowed
  <2>3. \A r : Has(r, k)' <=> Has(r, k)
    BY DEF Has
  <2>4. RouteHeld(k)'
    BY <1>2, <2>1, <2>2, <2>3 DEF RouteHeld
  <2>5. ASSUME NEW r \in Registered, Has(r, k)', ~Waiting(r, k)' PROVE Covered(r, k)'
    <3>1. Covered(r, k)
      BY <1>2, <2>1, <2>2, <2>3, <2>5 DEF RouteBest
    <3> QED
      BY <2>1, <3>1 DEF Covered
  <2>6. RouteBest(k)'
    BY <1>2, <2>5 DEF RouteBest
  <2> QED
    BY <2>4, <2>6
<1>4. Routes'
  BY <1>3 DEF Routes, ScanIsFair
<1> QED
  BY <1>1, <1>4 DEF Followed

LEMMA HandleUpdatedEventIsFollowed ==
    ASSUME Sound, Followed, NEW w \in Workers, job[w] # Idle, NEW ev \in job[w].todo,
           NEW s, s = job[w].src, NEW k, k = ev.key, HandleUpdatedEvent(w, ev)
    PROVE  Followed'
<1>1. TypeOK
  BY DEF Sound
<1>2. /\ ev \in Event /\ s \in Sources /\ k \in Keys /\ ev.action # "Deleted"
      /\ adding = NoSource /\ adding' = NoSource /\ scan' = NoScan
      /\ UNCHANGED <<view, overwritten, staged, inflight, sources>>
      /\ \/ /\ ksMap' = [ksMap EXCEPT ![k] = s]
            /\ ksMap[k] # NoSource => PriorityOf[ksMap[k]] <= PriorityOf[s]
         \/ /\ ksMap' = ksMap /\ ksMap[k] # NoSource
            /\ ksMap[k] = s \/ Outranked(s, k)
  BY <1>1, UpdatedOutcome DEF MutexFree, sourceVars, changeVars
<1>3. PICK out \in Event : Handled(w, ev, out)
  BY <1>1, UpdatedOutcome
<1>4. s \in Registered /\ Registered' = Registered /\ Registered \subseteq Sources
  BY <1>2, ToSetType DEF Sound, TypeOK, Orderly, Registered
<1>5. ev.to # Absent
  BY <1>2 DEF Followed, EventsAreHonest, Honest
<1>6. Has(s, k)' \/ Waiting(s, k)'
  BY <1>2, <1>3, <1>5, HandledIsFollowed DEF Has, Waiting, Agrees
<1>7. ASSUME NEW r \in Sources, r # s PROVE Waiting(r, k)' <=> Waiting(r, k)
  BY <1>2, <1>3, <1>7, HandledIsFollowed
<1>8. \A r : Has(r, k)' <=> Has(r, k)
  BY <1>2 DEF Has
<1>9. ksMap \in [Keys -> Sources \cup {NoSource}] /\ \A r \in Sources : PriorityOf[r] \in Int
  BY <1>1, SourcesAssumption DEF TypeOK
<1>10. RouteHeld(k) /\ RouteBest(k)
  BY <1>2 DEF Followed, Routes
<1>11. RouteHeld(k)'
  <2>1. ASSUME NEW r \in Sources, ksMap'[k] = r
        PROVE  r \in Registered /\ (Has(r, k)' \/ Waiting(r, k)') /\ r # NoSource
    <3>1. CASE r = s
      BY <1>4, <1>6, <3>1, SourcesAssumption
    <3>2. CASE r # s
      <4>1. ksMap[k] = r
        BY <1>2, <1>9, <2>1, <3>2
      <4> QED
        BY <1>2, <1>7, <1>8, <1>10, <3>2, <4>1, SourcesAssumption DEF RouteHeld
    <3> QED
      BY <3>1, <3>2
  <2> QED
    BY <1>2, <1>4, <2>1 DEF RouteHeld
<1>12. RouteBest(k)'
  <2>1. ASSUME NEW r \in Registered, Has(r, k)', ~Waiting(r, k)' PROVE Covered(r, k)'
    <3>1. CASE r = s
      <4>1. \/ ksMap'[k] = s
            \/ ksMap'[k] = ksMap[k] /\ ksMap[k] # NoSource /\ PriorityOf[ksMap[k]] > PriorityOf[s]
        BY <1>2, <1>9 DEF Outranked
      <4> QED
        BY <1>2, <1>9, <3>1, <4>1, SourcesAssumption DEF Covered
    <3>2. CASE r # s
      <4>1. Covered(r, k)
        BY <1>4, <1>7, <1>8, <1>10, <2>1, <3>2 DEF RouteBest
      <4>2. r \in Sources
        BY <1>4
      <4> QED
        BY <1>2, <1>9, <4>1, <4>2, SourcesAssumption DEF Covered
    <3> QED
      BY <3>1, <3>2
  <2> QED
    BY <1>2, <1>4, <2>1 DEF RouteBest
<1> QED
  <2>1. \A q \in Keys : q # k => ksMap'[q] = ksMap[q]
    BY <1>2, <1>9
  <2> QED
    BY <1>2, <1>3, <1>11, <1>12, <2>1, RoutedIsFollowed

(* A Deleted event is ignored when the key has no route, or a better one;  *)
(* otherwise everybody is still to be asked.                               *)
LEMMA HandleDeletedEventIsFollowed ==
    ASSUME Sound, Followed, NEW w \in Workers, job[w] # Idle, NEW ev \in job[w].todo,
           NEW s, s = job[w].src, NEW k, k = ev.key, HandleDeletedEvent(w, ev)
    PROVE  Followed'
<1>1. /\ ev \in Event /\ s \in Sources /\ k \in Keys /\ job[w] \in Job /\ ev.action = "Deleted"
      /\ adding = NoSource /\ adding' = NoSource /\ scan = NoScan
      /\ UNCHANGED <<view, overwritten, staged, inflight, sources, ksMap>>
  BY DEF Sound, TypeOK, Job, Event, HandleDeletedEvent, MutexFree, sourceVars, changeVars
<1>2. Registered' = Registered /\ Registered \subseteq Sources
  BY <1>1, ToSetType DEF Sound, TypeOK, Registered
<1>3. ev.to = Absent
  BY <1>1 DEF Followed, EventsAreHonest, Honest
<1>4. ksMap \in [Keys -> Sources \cup {NoSource}] /\ \A r \in Sources : PriorityOf[r] \in Int
  BY SourcesAssumption DEF Sound, TypeOK
<1>5. RouteHeld(k) /\ RouteBest(k)
  BY <1>1 DEF Followed, Routes
<1>6. \A r : Has(r, k)' <=> Has(r, k)
  BY <1>1 DEF Has
<1>7. CASE ksMap[k] = NoSource \/ Outranked(s, k)
  <2>1. Handled(w, ev, ev) /\ scan' = NoScan
    BY <1>1, <1>7 DEF HandleDeletedEvent
  <2>2. ~Has(s, k)' \/ Waiting(s, k)'
    BY <1>1, <1>3, <1>6, <2>1, HandledIsFollowed DEF Has, Waiting, Agrees
  <2>3. ASSUME NEW r \in Sources, r # s PROVE Waiting(r, k)' <=> Waiting(r, k)
    BY <1>1, <2>1, <2>3, HandledIsFollowed
  <2>4. RouteHeld(k)'
    <3>1. ksMap[k] # s
      BY <1>1, <1>7, SourcesAssumption DEF Outranked
    <3> QED
      BY <1>1, <1>2, <1>5, <1>6, <2>3, <3>1 DEF RouteHeld
  <2>5. RouteBest(k)'
    <3>1. ASSUME NEW r \in Registered, Has(r, k)', ~Waiting(r, k)' PROVE Covered(r, k)'
      <4>1. r # s
        BY <2>2, <3>1
      <4>2. Covered(r, k)
        BY <1>2, <1>5, <1>6, <2>3, <3>1, <4>1 DEF RouteBest
      <4> QED
        BY <1>1, <4>2 DEF Covered
    <3> QED
      BY <1>1, <1>2, <3>1 DEF RouteBest
  <2> QED
    BY <1>1, <2>1, <2>4, <2>5, RoutedIsFollowed
<1>8. CASE ~(ksMap[k] = NoSource \/ Outranked(s, k))
  <2>1. scan' = [worker |-> w, event |-> ev, rest |-> sources] /\ job' = job
    BY <1>8 DEF HandleDeletedEvent
  <2>2. ASSUME NEW r \in Sources
        PROVE  /\ LastWord(r) => LastWord(r)'
               /\ \A q \in Keys : Waiting(r, q)' <=> Waiting(r, q)
    BY <1>1, <2>1, SourceAtRest
  <2>3. EventsAreHonest'
    BY <1>1, <2>1 DEF Followed, EventsAreHonest
  <2>4. ASSUME NEW q \in Keys PROVE RouteHeld(q)' /\ RouteBest(q)'
    <3>1. RouteHeld(q) /\ RouteBest(q)
      BY DEF Followed, Routes
    <3>2. \A r : Has(r, q)' <=> Has(r, q)
      BY <1>1 DEF Has
    <3>3. RouteHeld(q)'
      BY <1>1, <1>2, <2>2, <3>1, <3>2 DEF RouteHeld
    <3>4. ASSUME NEW r \in Registered, Has(r, q)', ~Waiting(r, q)' PROVE Covered(r, q)'
      <4>1. Covered(r, q)
        BY <1>2, <2>2, <3>1, <3>2, <3>4 DEF RouteBest
      <4> QED
        BY <1>1, <4>1 DEF Covered
    <3>5. RouteBest(q)'
      BY <1>1, <1>2, <3>4 DEF RouteBest
    <3> QED
      BY <3>3, <3>5
  <2>5. ASSUME NEW r \in Registered, Has(r, k)', ~Waiting(r, k)'
        PROVE  r \in ToSet(sources) /\ PriorityOf[r] <= PriorityOf[s]
    <3>1. Covered(r, k)
      BY <1>1, <1>2, <1>5, <1>6, <2>2, <2>5 DEF RouteBest
    <3>2. ksMap[k] \in Sources /\ PriorityOf[ksMap[k]] <= PriorityOf[s]
      BY <1>1, <1>4, <1>8 DEF Outranked
    <3> QED
      BY <1>1, <1>2, <1>4, <3>1, <3>2 DEF Covered, Registered
  <2>6. ScanIsFair'
    <3>1. /\ scan'.event = ev /\ scan'.rest = sources /\ scan'.worker = w /\ job'[w].src = s
      BY <2>1
    <3>2. scan'.event.key = k
      BY <3>1
    <3> QED
      BY <1>2, <2>5, <3>1, <3>2 DEF ScanIsFair
  <2> QED
    BY <2>2, <2>3, <2>4, <2>6 DEF Followed, Routes
<1> QED
  BY <1>7, <1>8

LEMMA LowerSourceIsFollowed ==
    ASSUME Sound, Followed, LowerSource,
           NEW w, w = scan.worker, NEW ev, ev = scan.event, NEW k, k = ev.key,
           NEW s, s = job[w].src
    PROVE  Followed'
<1>1. scan # NoScan /\ UNCHANGED <<sourceVars, sources, storeVars, adding, changeVars>>
  BY LowerSourceOutcome
<1>2. /\ w \in Workers /\ ev \in Event /\ k \in Keys /\ s \in Sources
      /\ job[w] # Idle /\ ev \in job[w].todo /\ ev.action = "Deleted"
      /\ adding = NoSource /\ adding' = NoSource
      /\ UNCHANGED <<view, overwritten, staged, inflight, sources>>
  BY <1>1, ScanFacts DEF sourceVars, changeVars
<1>3. Registered' = Registered /\ Registered \subseteq Sources
  BY <1>1, <1>2, ScanFacts DEF Registered
<1>4. ev.to = Absent
  BY <1>2 DEF Followed, EventsAreHonest, Honest
<1>5. ksMap \in [Keys -> Sources \cup {NoSource}] /\ \A r \in Sources : PriorityOf[r] \in Int
  BY SourcesAssumption DEF Sound, TypeOK
<1>6. \A r : Has(r, k)' <=> Has(r, k)
  BY <1>2 DEF Has
<1>7. ASSUME NEW r \in Registered, Has(r, k), ~Waiting(r, k)
      PROVE  r \in ToSet(scan.rest) /\ PriorityOf[r] <= PriorityOf[s]
  BY <1>1, <1>7 DEF Followed, Routes, ScanIsFair
<1>8. ASSUME NEW out \in Event, Handled(w, ev, out)
      PROVE  /\ ~Has(s, k)' \/ Waiting(s, k)'
             /\ \A r \in Sources \ {s} : Waiting(r, k)' <=> Waiting(r, k)
  <2>1. ~Has(s, k)' \/ Waiting(s, k)'
    BY <1>2, <1>4, <1>6, <1>8, HandledIsFollowed DEF Has, Waiting, Agrees
  <2>2. ASSUME NEW r \in Sources \ {s} PROVE Waiting(r, k)' <=> Waiting(r, k)
    BY <1>2, <1>8, HandledIsFollowed
  <2> QED
    BY <2>1, <2>2
<1>9. CASE /\ scan.rest = <<>> /\ scan' = NoScan /\ ksMap' = [ksMap EXCEPT ![k] = NoSource]
           /\ Handled(w, ev, ev)
  <2>1. ToSet(scan.rest) = {}
    BY <1>9 DEF ToSet
  <2>2. RouteHeld(k)'
    BY <1>2, <1>5, <1>9, SourcesAssumption DEF RouteHeld
  <2>3. ASSUME NEW r \in Registered, Has(r, k)', ~Waiting(r, k)' PROVE FALSE
    BY <1>2, <1>3, <1>6, <1>7, <1>8, <1>9, <2>1, <2>3
  <2>4. RouteBest(k)'
    BY <1>2, <1>3, <2>3 DEF RouteBest
  <2>5. \A q \in Keys : q # k => ksMap'[q] = ksMap[q]
    BY <1>2, <1>5, <1>9
  <2> QED
    BY <1>2, <1>9, <2>2, <2>4, <2>5, RoutedIsFollowed
<1>10. ASSUME scan.rest # <<>>, CanTakeOver(Head(scan.rest)), scan' = NoScan,
              ksMap' = [ksMap EXCEPT ![k] = Head(scan.rest)],
              NEW out \in Event, Handled(w, ev, out)
       PROVE  Followed'
  <2>1. PICK next : next = Head(scan.rest)
    OBVIOUS
  <2>2. /\ next \in Registered /\ next \in Sources /\ next # NoSource
        /\ \A r \in ToSet(scan.rest) : PriorityOf[next] >= PriorityOf[r]
    BY <1>1, <1>10, <2>1, NextInScan, SourcesAssumption
  <2>3. Has(next, k) /\ ksMap'[k] = next
    BY <1>2, <1>5, <1>10, <2>1 DEF CanTakeOver
  <2>4. RouteHeld(k)'
    BY <1>3, <1>6, <2>2, <2>3 DEF RouteHeld
  <2>5. ASSUME NEW r \in Registered, Has(r, k)', ~Waiting(r, k)' PROVE Covered(r, k)'
    <3>1. r # s
      BY <1>8, <1>10, <2>5
    <3>2. r \in ToSet(scan.rest)
      BY <1>3, <1>6, <1>7, <1>8, <1>10, <2>5, <3>1
    <3> QED
      BY <2>2, <2>3, <3>2 DEF Covered
  <2>6. RouteBest(k)'
    BY <1>2, <1>3, <2>5 DEF RouteBest
  <2>7. \A q \in Keys : q # k => ksMap'[q] = ksMap[q]
    BY <1>2, <1>5, <1>10
  <2> QED
    BY <1>2, <1>10, <2>4, <2>6, <2>7, RoutedIsFollowed
<1>11. CASE /\ scan.rest # <<>> /\ ~CanTakeOver(Head(scan.rest))
            /\ scan'.worker = w /\ scan'.event = ev /\ scan'.rest = Tail(scan.rest)
            /\ UNCHANGED <<ksMap, job>>
  <2>1. ASSUME NEW r \in Sources
        PROVE  /\ LastWord(r) => LastWord(r)'
               /\ \A q \in Keys : Waiting(r, q)' <=> Waiting(r, q)
    BY <1>2, <1>11, SourceAtRest
  <2>2. EventsAreHonest'
    BY <1>2, <1>11 DEF Followed, EventsAreHonest
  <2>3. ASSUME NEW q \in Keys PROVE RouteHeld(q)' /\ RouteBest(q)'
    <3>1. RouteHeld(q) /\ RouteBest(q)
      BY DEF Followed, Routes
    <3>2. \A r : Has(r, q)' <=> Has(r, q)
      BY <1>2 DEF Has
    <3>3. RouteHeld(q)'
      BY <1>2, <1>3, <1>11, <2>1, <3>1, <3>2 DEF RouteHeld
    <3>4. ASSUME NEW r \in Registered, Has(r, q)', ~Waiting(r, q)' PROVE Covered(r, q)'
      <4>1. Covered(r, q)
        BY <1>3, <2>1, <3>1, <3>2, <3>4 DEF RouteBest
      <4> QED
        BY <1>11, <4>1 DEF Covered
    <3>5. RouteBest(q)'
      BY <1>2, <1>3, <3>4 DEF RouteBest
    <3> QED
      BY <3>3, <3>5
  <2>4. PICK next : next = Head(scan.rest)
    OBVIOUS
  <2>5. Waiting(s, k)
    BY <1>2 DEF Waiting, InHand, Names
  <2>6. ASSUME NEW r \in Registered, Has(r, k), ~Waiting(r, k)
        PROVE  r \in ToSet(Tail(scan.rest)) /\ PriorityOf[r] <= PriorityOf[s]
    <3>1. r \in ToSet(scan.rest) /\ PriorityOf[r] <= PriorityOf[s] /\ r # s
      BY <1>7, <2>5, <2>6
    <3>2. r # next
      BY <1>2, <1>11, <2>4, <2>6, <3>1 DEF CanTakeOver
    <3> QED
      BY <1>1, <1>11, <2>4, <3>1, <3>2, NextInScan
  <2>7. ScanIsFair'
    <3>1. scan'.event.key = k /\ job'[scan'.worker].src = s
      BY <1>11
    <3>2. ASSUME NEW r \in Registered', Has(r, k)', ~Waiting(r, k)'
          PROVE  r \in ToSet(scan'.rest) /\ PriorityOf[r] <= PriorityOf[s]
      BY <1>2, <1>3, <1>6, <1>11, <2>1, <2>6, <3>2
    <3> QED
      BY <3>1, <3>2 DEF ScanIsFair
  <2> QED
    BY <2>1, <2>2, <2>3, <2>7 DEF Followed, Routes
<1> QED
  BY <1>9, <1>10, <1>11, LowerSourceOutcome

LEMMA OrderedIsNext == [OrderedNext]_vars => [Next]_vars
<1>1. ASSUME NEW w \in Workers, NEW s \in Sources, Start(w, s, 1) PROVE Next
  BY <1>1 DEF Start, Next
<1>2. ASSUME NEW s \in Sources, NEW t \in Threads, Change(s, t) \/ Report(s, t) PROVE Next
  BY <1>2 DEF Next, SourceStep
<1>3. CASE Overwriting
  BY <1>3 DEF Next, SourceStep
<1> QED
  BY <1>1, <1>2, <1>3 DEF OrderedNext, Next

LEMMA FollowedNext == Sound /\ Followed /\ [OrderedNext]_vars => Followed'
<1> SUFFICES ASSUME Sound, Followed, [OrderedNext]_vars PROVE Followed'
  OBVIOUS
<1>1. ASSUME NEW s \in Sources, NEW t \in Threads,
             \/ s # adding /\ (\A u \in Threads : staged[s][u] = {}) /\ Change(s, t)
             \/ Report(s, t)
      PROVE  Followed'
  BY <1>1, ChangeIsFollowed, ReportIsFollowed
<1>2. CASE AddSource
  BY <1>2, AddSourceKeysIsFollowed, AddSourceOnEventsIsFollowed DEF AddSource
<1>3. ASSUME NEW w \in Workers, NEW s \in Sources, InOrder(s), Start(w, s, 1) PROVE Followed'
  BY <1>3, StartIsFollowed
<1>4. ASSUME NEW w \in Workers, HandleEvent(w) PROVE Followed'
  <2>1. PICK ev \in IF job[w] = Idle THEN {} ELSE job[w].todo :
                HandleUpdatedEvent(w, ev) \/ HandleDeletedEvent(w, ev)
    BY <1>4 DEF HandleEvent
  <2> QED
    BY <2>1, HandleUpdatedEventIsFollowed, HandleDeletedEventIsFollowed
<1>5. ASSUME NEW w \in Workers, Dispatch(w) PROVE Followed'
  BY <1>5, DispatchIsFollowed
<1>6. CASE LowerSource
  BY <1>6, LowerSourceIsFollowed
<1>7. CASE Writing \/ UNCHANGED vars
  BY <1>7, QuietStep DEF Writing, Set, SetDefault, Delete, Write, vars, sourceVars, changeVars
<1>8. CASE Overwriting
  BY <1>8, OverwriteIsFollowed DEF Overwriting
<1> QED
  BY <1>1, <1>2, <1>3, <1>4, <1>5, <1>6, <1>7, <1>8 DEF OrderedNext, Handling

LEMMA AlwaysFollowed == OrderedSpec => [](Sound /\ Followed)
<1>1. Init => Sound /\ Followed
  BY SoundInit, FollowedInit
<1>2. (Sound /\ Followed) /\ [OrderedNext]_vars => (Sound /\ Followed)'
  BY SoundNext, FollowedNext, OrderedIsNext
<1> QED
  BY <1>1, <1>2, PTL DEF OrderedSpec

LEMMA QuietIsRouted ==
    ASSUME Sound, Followed, Quiet, NEW k \in Keys
    PROVE  RoutedRight(k)
<1>1. adding = NoSource /\ Registered \subseteq Sources
  BY ToSetType DEF Quiet, MutexFree, Sound, TypeOK, Registered
<1>2. ASSUME NEW s \in Sources PROVE ~Waiting(s, k)
  <2>1. inflight[s] = <<>> /\ DOMAIN inflight[s] = {}
    BY DEF Quiet
  <2> QED
    BY <2>1 DEF Quiet, Waiting, Later, InHand, Names
<1>3. RouteHeld(k) /\ RouteBest(k)
  BY DEF Followed, Routes
<1>4. /\ ksMap[k] \in Sources \cup {NoSource}
      /\ \A s \in Sources : PriorityOf[s] \in Int
  BY SourcesAssumption DEF Sound, TypeOK
<1>5. ASSUME ksMap[k] # NoSource PROVE ksMap[k] \in Registered /\ Has(ksMap[k], k)
  BY <1>1, <1>2, <1>3, <1>4, <1>5, SourcesAssumption DEF RouteHeld
<1>6. \A s \in Registered : Has(s, k) => Covered(s, k)
  BY <1>1, <1>2, <1>3 DEF RouteBest
<1> QED
  BY <1>1, <1>4, <1>5, <1>6 DEF RoutedRight, Covered

(* Once every event is handled each key is routed to the best source that  *)
(* has it (manager.go:237-289), however many sources changed in between,   *)
(* if each source's batches are handled in order.                          *)
THEOREM RoutesBecomeRight == OrderedSpec => []RoutedWhenQuiet
<1>1. Sound /\ Followed => RoutedWhenQuiet
  BY QuietIsRouted DEF RoutedWhenQuiet
<1> QED
  BY <1>1, AlwaysFollowed, PTL

(* The first of the sources that have the key, which is the one All        *)
(* applies last, is the one the key is routed to.                          *)
LEMMA FirstIsRouted ==
    ASSUME Sound, NEW k \in Keys, RoutedRight(k),
           \A r, s \in Sources : PriorityOf[r] = PriorityOf[s] => r = s,
           NEW having, having = {i \in DOMAIN sources : Has(sources[i], k)}
    PROVE  /\ having = {} <=> ksMap[k] = NoSource
           /\ having # {} => sources[Min(having)] = ksMap[k]
<1>1. /\ sources \in Seq(Sources) /\ DOMAIN sources = 1..Len(sources) /\ Len(sources) \in Nat
      /\ \A i \in DOMAIN sources : sources[i] \in Sources
      /\ HighToLow(sources) /\ \A s \in Sources : PriorityOf[s] \in Int
  BY LenProperties, ElementOfSeq, SourcesAssumption DEF Sound, TypeOK
<1>2. Registered = {sources[i] : i \in DOMAIN sources}
  BY DEF Registered, ToSet
<1>3. having = {} <=> ksMap[k] = NoSource
  BY <1>2 DEF RoutedRight
<1>4. ASSUME having # {} PROVE sources[Min(having)] = ksMap[k]
  <2>1. having \in SUBSET Nat
    BY <1>1
  <2>2. Min(having) \in having /\ \A i \in having : Min(having) <= i
    BY <1>4, <2>1, MinIsLeast
  <2>3. PICK first \in having : first = Min(having)
    BY <2>2
  <2>4. PICK i \in having : sources[i] = ksMap[k]
    BY <1>2, <1>3, <1>4 DEF RoutedRight
  <2>5. PriorityOf[sources[first]] <= PriorityOf[ksMap[k]]
    BY <1>2, <1>3, <1>4 DEF RoutedRight
  <2>6. PriorityOf[sources[first]] >= PriorityOf[sources[i]]
    <3>1. first <= i /\ first \in Nat /\ i \in Nat
      BY <2>1, <2>2, <2>3
    <3>2. CASE first = i
      BY <1>1, <3>2
    <3>3. CASE first # i
      BY <1>1, <3>1, <3>3 DEF HighToLow
    <3> QED
      BY <3>2, <3>3
  <2>7. sources[first] \in Sources /\ sources[i] \in Sources
    BY <1>1
  <2> QED
    BY <1>1, <2>3, <2>4, <2>5, <2>6, <2>7
<1> QED
  BY <1>3, <1>4

(* Get and Keys, which trust the routes, agree with All, which asks every  *)
(* source (manager.go:117-183), once every event is handled and if no two  *)
(* sources have one priority: with equal ones Get may answer from either,  *)
(* All from the one sort.Slice put first.                                  *)
THEOREM AnswersAgree ==
    ASSUME \A r, s \in Sources : PriorityOf[r] = PriorityOf[s] => r = s
    PROVE  OrderedSpec => []GetAgreesWithAll
<1>1. ASSUME Sound, Followed, Quiet PROVE \A k \in Keys : Get(k) = All[k]
  <2>1. ASSUME NEW k \in Keys PROVE Get(k) = All[k]
    <3> DEFINE having == {i \in DOMAIN sources : Has(sources[i], k)}
    <3>1. RoutedRight(k)
      BY <1>1, QuietIsRouted
    <3>2. /\ having = {} <=> ksMap[k] = NoSource
          /\ having # {} => sources[Min(having)] = ksMap[k]
      BY <1>1, <3>1, FirstIsRouted
    <3>3. All[k] = IF overrides[k] # Absent THEN overrides[k]
                   ELSE IF having # {} THEN view[sources[Min(having)]][k] ELSE defaults[k]
      BY DEF All
    <3> HIDE DEF having
    <3> QED
      BY <3>2, <3>3 DEF Get
  <2> QED
    BY <2>1
<1>2. ASSUME Sound, Followed, Quiet, NEW k \in Keys
      PROVE  k \in KeysOf <=> Get(k) # Absent
  <2>1. RoutedRight(k)
    BY <1>2, QuietIsRouted
  <2> QED
    BY <2>1 DEF KeysOf, Get, RoutedRight, Has
<1>3. Sound /\ Followed => GetAgreesWithAll
  BY <1>1, <1>2 DEF GetAgreesWithAll, KeysOf
<1> QED
  BY <1>3, AlwaysFollowed, PTL

-----------------------------------------------------------------------------
(* What the handlers pass on.                                              *)

(* What s has reported, or staged, and no goroutine has begun to handle.   *)
Reported(s) == UNION ({staged[s][t] : t \in Threads} \cup Range(inflight[s]))

LEMMA LaterIsReported ==
    ASSUME NEW s \in Sources, NEW k, Later(s, k, 0)
    PROVE  \E later \in Reported(s) : later.key = k
<1>1. CASE \E t \in Threads : Names(staged[s][t], k)
  BY <1>1 DEF Names, Reported
<1>2. CASE \E j \in DOMAIN inflight[s] : Names(inflight[s][j], k)
  <2>1. PICK j \in DOMAIN inflight[s] : \E later \in inflight[s][j] : later.key = k
    BY <1>2 DEF Names
  <2>2. inflight[s][j] \in Range(inflight[s])
    BY DEF Range
  <2> QED
    BY <2>1, <2>2 DEF Reported
<1> QED
  BY <1>1, <1>2 DEF Later

(* Whoever else works on a job says nothing new in this step.              *)
LEMMA OnlyOneTells ==
    ASSUME Sound, NEW w \in Workers, job[w] # Idle, NEW ev \in job[w].todo,
           NEW out \in Event, Handled(w, ev, out), NEW v \in Workers, NEW told \in Told(v)
    PROVE  v = w /\ told = out
<1>1. TypeOK
  BY DEF Sound
<1> QED
  BY <1>1, HandledLeaves DEF Told

LEMMA UpdatedTells ==
    ASSUME Sound, Followed, NEW w \in Workers, job[w] # Idle, NEW ev \in job[w].todo,
           HandleUpdatedEvent(w, ev), NEW v \in Workers
    PROVE  TellsTheAnswer(v)
<1>1. TypeOK
  BY DEF Sound
<1>2. PICK s, k : s = job[w].src /\ k = ev.key
  OBVIOUS
<1>3. /\ s \in Sources /\ k \in Keys /\ UNCHANGED <<view, overwritten, staged, inflight>>
      /\ \/ ksMap' = [ksMap EXCEPT ![k] = s]
         \/ ksMap' = ksMap /\ ksMap[k] # NoSource /\ (ksMap[k] = s \/ Outranked(s, k))
  BY <1>1, <1>2, UpdatedOutcome DEF sourceVars, changeVars
<1>4. PICK out \in Event : Handled(w, ev, out) /\ out.key = k /\ out.to = ev.to
  BY <1>1, <1>2, UpdatedOutcome
<1>5. Agrees(s, ev) \/ Later(s, k, 0)'
  BY <1>2, <1>3, <1>4, HandledIsFollowed
<1>6. CASE ksMap[k] # NoSource /\ Outranked(s, k)
  BY <1>2, <1>4, <1>6, OnlyOneTells DEF TellsTheAnswer
<1>7. CASE ksMap'[k] = s
  <2>1. s # NoSource
    BY <1>3, SourcesAssumption
  <2>2. Answered(k)' = view[s][k]
    BY <1>3, <1>7, <2>1 DEF Answered
  <2>3. (Has(s, k)' <=> Has(s, k)) /\ UNCHANGED overwritten
    BY <1>3 DEF Has
  <2>4. Later(s, k, 0)' => \E later \in Unhandled(s)' : later.key = k
    <3>1. Later(s, k, 0)' => Later(s, k, 0)
      BY <1>3 DEF Later, Names
    <3>2. Reported(s) \subseteq Unhandled(s)'
      BY <1>3 DEF Reported, Unhandled
    <3> QED
      BY <1>3, <3>1, <3>2, LaterIsReported
  <2>5. \/ ev.to = Answered(k)'
        \/ \E later \in Unhandled(s)' : later.key = k
        \/ k \in overwritten'[s] /\ ev.to # Absent /\ Has(s, k)'
    BY <1>2, <1>5, <2>2, <2>4, <2>3 DEF Agrees
  <2>6. ASSUME NEW told \in Told(v) PROVE told.to = ev.to /\ told.key = k
    BY <1>4, OnlyOneTells
  <2> QED
    BY <1>3, <1>7, <2>5, <2>6 DEF TellsTheAnswer
<1>8. ksMap'[k] = s \/ (ksMap[k] # NoSource /\ Outranked(s, k))
  BY <1>1, <1>3 DEF TypeOK
<1> QED
  BY <1>6, <1>7, <1>8

LEMMA DeletedTells ==
    ASSUME Sound, Followed, NEW w \in Workers, job[w] # Idle, NEW ev \in job[w].todo,
           HandleDeletedEvent(w, ev), NEW v \in Workers
    PROVE  TellsTheAnswer(v)
<1>1. ev \in Event /\ ev.action = "Deleted" /\ UNCHANGED ksMap
  BY DEF Sound, TypeOK, Job, HandleDeletedEvent
<1>2. ev.to = Absent
  BY <1>1 DEF Followed, EventsAreHonest, Honest
<1>3. CASE Handled(w, ev, ev) /\ ksMap[ev.key] = NoSource
  <2>1. Answered(ev.key)' = Absent
    BY <1>1, <1>3 DEF Answered
  <2> QED
    BY <1>1, <1>2, <1>3, <2>1, OnlyOneTells DEF TellsTheAnswer
<1>4. CASE Handled(w, ev, ev) /\ ksMap[ev.key] # NoSource /\ Outranked(job[w].src, ev.key)
  BY <1>1, <1>4, OnlyOneTells DEF TellsTheAnswer
<1>5. CASE UNCHANGED job
  BY <1>5 DEF Told, TellsTheAnswer
<1> QED
  BY <1>3, <1>4, <1>5 DEF HandleDeletedEvent

LEMMA LowerSourceTells ==
    ASSUME Sound, Followed, LowerSource, NEW v \in Workers
    PROVE  TellsTheAnswer(v)
<1>1. PICK w, ev, k, r : w = scan.worker /\ ev = scan.event /\ k = ev.key /\ r = Head(scan.rest)
  OBVIOUS
<1>2. /\ scan # NoScan /\ w \in Workers /\ ev \in Event /\ k \in Keys /\ job[w] # Idle
      /\ ev \in job[w].todo /\ ev.action = "Deleted" /\ UNCHANGED view
  BY <1>1, LowerSourceOutcome, ScanFacts DEF sourceVars
<1>3. ev.to = Absent
  BY <1>2 DEF Followed, EventsAreHonest, Honest
<1>4. ksMap \in [Keys -> Sources \cup {NoSource}]
  BY DEF Sound, TypeOK
<1>5. CASE Handled(w, ev, ev) /\ ksMap' = [ksMap EXCEPT ![k] = NoSource]
  <2>1. Answered(k)' = Absent
    BY <1>2, <1>4, <1>5 DEF Answered
  <2> QED
    BY <1>1, <1>2, <1>3, <1>5, <2>1, OnlyOneTells DEF TellsTheAnswer
<1>6. ASSUME scan.rest # <<>>, ksMap' = [ksMap EXCEPT ![k] = r],
             NEW out \in Event, Handled(w, ev, out), out.key = k, out.to = view[r][k]
      PROVE  TellsTheAnswer(v)
  <2>1. r # NoSource
    BY <1>1, <1>2, <1>6, NextInScan, SourcesAssumption
  <2>2. Answered(k)' = view[r][k]
    BY <1>2, <1>4, <1>6, <2>1 DEF Answered
  <2> QED
    BY <1>2, <1>6, <2>2, OnlyOneTells DEF TellsTheAnswer
<1>7. CASE UNCHANGED job
  BY <1>7 DEF Told, TellsTheAnswer
<1> QED
  BY <1>1, <1>5, <1>6, <1>7, LowerSourceOutcome

(* The event a handler passes on says what the key's source answers at     *)
(* that moment, or a later event of that source will, unless the event's   *)
(* own source is outranked (manager.go:237-289).  What the program has set *)
(* in the source (base.go:90) no event tells: then it says rightly that    *)
(* the key is there.                                                       *)
THEOREM ToldTruly == OrderedSpec => ToldIsAnswered
<1>1. ASSUME Sound, Followed, OrderedNext, NEW v \in Workers PROVE TellsTheAnswer(v)
  <2>1. ASSUME NEW w \in Workers, HandleEvent(w) PROVE TellsTheAnswer(v)
    <3>1. PICK ev \in IF job[w] = Idle THEN {} ELSE job[w].todo :
                  HandleUpdatedEvent(w, ev) \/ HandleDeletedEvent(w, ev)
      BY <2>1 DEF HandleEvent
    <3> QED
      BY <1>1, <3>1, UpdatedTells, DeletedTells
  <2>2. CASE LowerSource
    BY <1>1, <2>2, LowerSourceTells
  <2>3. ASSUME NEW w \in Workers, Dispatch(w) PROVE Told(v) = {}
    BY <1>1, <2>3 DEF Dispatch, Told, Sound, TypeOK
  <2>4. ASSUME NEW w \in Workers, NEW s \in Sources, Start(w, s, 1) PROVE Told(v) = {}
    BY <1>1, <2>4 DEF Start, Told, Sound, TypeOK
  <2>5. CASE UNCHANGED job
    BY <2>5 DEF Told, TellsTheAnswer
  <2>6. ASSUME NEW s \in Sources, NEW t \in Threads, Change(s, t) \/ Report(s, t)
        PROVE  UNCHANGED job
    BY <2>6 DEF Change, Report
  <2>7. AddSource \/ Writing => UNCHANGED job
    BY DEF AddSource, AddSourceKeys, AddSourceOnEvents, Writing, Set, SetDefault, Delete, Write
  <2>8. Overwriting => UNCHANGED job
    BY DEF Overwriting, Overwrite
  <2>9. Told(v) = {} => TellsTheAnswer(v)
    BY DEF TellsTheAnswer
  <2> QED
    BY <1>1, <2>1, <2>2, <2>3, <2>4, <2>5, <2>6, <2>7, <2>8, <2>9 DEF OrderedNext, Handling
<1>2. Sound /\ Followed /\ [OrderedNext]_vars
         => [\A w \in Workers : TellsTheAnswer(w)]_vars
  BY <1>1
<1> QED
  BY <1>2, AlwaysFollowed, PTL DEF OrderedSpec, ToldIsAnswered
=============================================================================
