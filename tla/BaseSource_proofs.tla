-------------------------- MODULE BaseSource_proofs -------------------------
(***************************************************************************)
(* What is proved of BaseSource for every set of keys, values, paths,      *)
(* calls and watchers, and for readings without end.                       *)
(***************************************************************************)
EXTENDS BaseSource, Sequence_lemmas

-----------------------------------------------------------------------------
(* One store more, and a sorting of the same stores.                       *)
LEMMA AppendStore ==
    ASSUME NEW s \in Seq(Calls), NEW c \in Calls
    PROVE  ToSet(Append(s, c)) = ToSet(s) \cup {c} /\ Append(s, c) \in Seq(Calls)
BY ToSetAppend

LEMMA SortingsAreOrders ==
    ASSUME NEW s \in Seq(Calls), NEW order \in Sortings(s)
    PROVE  order \in Seq(Calls) /\ ToSet(order) = ToSet(s) /\ HighToLow(order)
<1>1. DOMAIN s = 1..Len(s) /\ Len(s) \in Nat /\ ToSet(s) \subseteq Calls
  BY LenProperties, ElementOfSeq DEF ToSet
<1>2. order \in [1..Len(s) -> Calls]
  BY <1>1 DEF Sortings
<1> QED
  BY <1>1, <1>2, SeqDef DEF Sortings

-----------------------------------------------------------------------------
(* PathStore.                                                              *)

LEMMA RetainedType ==
    ASSUME NEW old \in Contents, NEW new \in Contents, NEW wd \in BOOLEAN
    PROVE  Retained(old, new, wd) \in Contents
BY DEF Retained, Contents

(* path.go:27-76: the events of an Update say exactly how the path changes *)
(* from what it was to what the caller then stores, whether or not the     *)
(* keys that disappeared are kept.                                         *)
THEOREM UpdateIsDiff ==
    ASSUME NEW old \in Contents, NEW new \in Contents, NEW wd \in BOOLEAN
    PROVE  Update(old, new, wd) = Diff(old, Retained(old, new, wd))
<1> DEFINE kept == Retained(old, new, wd)
<1>1. \A k \in Keys : kept[k] = IF new[k] = Absent /\ ~wd THEN old[k] ELSE new[k]
  BY DEF Retained
<1>2. \A k \in Keys : old[k] \in Optional /\ new[k] \in Optional
  BY DEF Contents
<1> HIDE DEF kept
<1>3. Update(old, new, wd) \subseteq Diff(old, kept)
  BY <1>1 DEF Update, Diff, HeldBy, Describe
<1>4. ASSUME NEW k \in Keys, old[k] # kept[k]
      PROVE  Describe(k, old[k], kept[k]) \in Update(old, new, wd)
  <2>1. CASE old[k] = Absent
    <3>1. k \in HeldBy(new) \ HeldBy(old) /\ kept[k] = new[k]
      BY <1>1, <1>4, <2>1 DEF HeldBy
    <3> QED
      BY <3>1, <2>1 DEF Update, Describe
  <2>2. CASE old[k] # Absent /\ kept[k] = Absent
    <3>1. k \in HeldBy(old) \ HeldBy(new) /\ wd
      BY <1>1, <1>4, <2>2 DEF HeldBy
    <3> QED
      BY <3>1, <2>2 DEF Update, Describe
  <2>3. CASE old[k] # Absent /\ kept[k] # Absent
    <3>1. k \in HeldBy(old) \cap HeldBy(new) /\ kept[k] = new[k]
      BY <1>1, <1>4, <2>3 DEF HeldBy
    <3> QED
      BY <3>1, <1>4, <2>3 DEF Update, Describe
  <2> QED
    BY <2>1, <2>2, <2>3
<1>5. Diff(old, kept) \subseteq Update(old, new, wd)
  BY <1>4 DEF Diff
<1> QED
  BY <1>3, <1>5 DEF kept

-----------------------------------------------------------------------------
(* One key of a merge.                                                     *)

Seen(cell) == IF cell = NoCell THEN Absent ELSE cell.value

(* The outcome for key k when the reading of store s becomes new.          *)
KeyOutcome(s, new, order, k) ==
    IF k = EmptyKey \/ vals[s][k] = new[k] THEN Outcome(values[k], {})
    ELSE Handle(s, Describe(k, vals[s][k], new[k]), order)

Say(k, from, to) == IF from = to THEN {} ELSE {Describe(k, from, to)}

(* findAnotherStore answers with the first of the other stores that have   *)
(* the key.                                                                *)
LEMMA HeirIsFirst ==
    ASSUME TypeOK, NEW s \in Calls, NEW k \in Keys, NEW order \in Seq(Calls),
           Others(k, s, order) # {}
    PROVE  LET heir == FindAnother(k, s, order) IN
           /\ heir \in ToSet(order) /\ heir \in Calls /\ heir # s
           /\ vals[heir][k] \in Values
           /\ HighToLow(order) => \A x \in ToSet(order) \ {s} :
                 vals[x][k] # Absent => PriOf[x] <= PriOf[heir]
<1> DEFINE others == Others(k, s, order)
           first  == Min(others)
<1>1. DOMAIN order = 1..Len(order) /\ Len(order) \in Nat
  BY LenProperties
<1>2. others \in SUBSET Nat /\ others \subseteq DOMAIN order
  BY <1>1 DEF Others
<1>3. first \in others /\ \A i \in others : first <= i
  BY <1>2, MinIsLeast
<1>4. \A i \in DOMAIN order : order[i] \in Calls
  BY <1>1, ElementOfSeq
<1>5. \A i \in others : order[i] # s /\ vals[order[i]][k] # Absent
  BY DEF Others
<1>6. \A c \in Calls : vals[c][k] \in Values \cup {Absent}
  BY DEF TypeOK, Contents, Optional
<1>7. ASSUME HighToLow(order), NEW x \in ToSet(order) \ {s}, vals[x][k] # Absent
      PROVE  PriOf[x] <= PriOf[order[first]]
  <2>1. PICK i \in DOMAIN order : x = order[i]
    BY <1>7 DEF ToSet
  <2>2. i \in others
    BY <1>7, <2>1 DEF Others
  <2>3. first <= i /\ first \in DOMAIN order
    BY <1>2, <1>3, <2>2
  <2>4. PriOf[x] \in Int
    BY <1>4, <2>1, CallsAssumption
  <2> HIDE DEF first, others
  <2>5. CASE first = i
    BY <2>1, <2>4, <2>5
  <2>6. CASE first # i
    <3>1. first < i
      BY <1>1, <2>3, <2>6
    <3> QED
      BY <3>1, <2>1, <2>3, <1>7, <1>4, CallsAssumption DEF HighToLow
  <2> QED
    BY <2>5, <2>6
<1> HIDE DEF first, others
<1>8. FindAnother(k, s, order) = order[first]
  BY DEF FindAnother, first, others
<1>9. order[first] \in ToSet(order)
  BY <1>2, <1>3 DEF ToSet
<1> QED
  BY <1>2, <1>3, <1>4, <1>5, <1>6, <1>7, <1>8, <1>9

(* A cell is never NoCell.                                                 *)
LEMMA CellFacts ==
    ASSUME NEW c \in Calls, NEW v \in Values
    PROVE  /\ [store |-> c, value |-> v] \in Cell
           /\ [store |-> c, value |-> v] # NoCell
BY NoCellAssumption DEF Cell

(* base.go:207-297: whatever the handler of a key does, it reports how the *)
(* value of the key in the merged configuration changed, and nothing if it *)
(* did not.                                                                *)
LEMMA OutcomeIsReported ==
    ASSUME TypeOK, NEW s \in Calls, NEW new \in Contents, NEW order \in Seq(Calls),
           NEW k \in Keys
    PROVE  /\ KeyOutcome(s, new, order, k).cell \in Cell \cup {NoCell}
           /\ KeyOutcome(s, new, order, k).reported =
                 Say(k, Seen(values[k]), Seen(KeyOutcome(s, new, order, k).cell))
<1> DEFINE old == vals[s][k]
           to == new[k]
           last == values[k]
           Good(o) == o.cell \in Cell \cup {NoCell} /\ o.reported = Say(k, Seen(last), Seen(o.cell))
<1> SUFFICES Good(KeyOutcome(s, new, order, k))
  OBVIOUS
<1>1. old \in Values \cup {Absent} /\ to \in Values \cup {Absent} /\ Absent \notin Values
  BY AbsentAssumption DEF TypeOK, Contents, Optional
<1>2. last \in Cell \cup {NoCell} /\ (last # NoCell => last.value \in Values)
  BY DEF TypeOK, Cell
<1>3. Good(Outcome(last, {}))
  BY <1>2 DEF Outcome, Say
<1>4. ASSUME NEW c \in Calls, NEW v \in Values, last # NoCell
      PROVE  Good(Outcome([store |-> c, value |-> v],
                          IF last.value = v THEN {} ELSE {NewEvent("Updated", k, last.value, v)}))
  BY <1>1, <1>2, <1>4, CellFacts DEF Outcome, Say, Seen, Describe
<1>5. ASSUME NEW v \in Values, last = NoCell
      PROVE  Good(Outcome([store |-> s, value |-> v], {NewEvent("Created", k, Absent, v)}))
  BY <1>1, <1>5, CellFacts DEF Outcome, Say, Seen, Describe
<1>6. ASSUME last # NoCell
      PROVE  Good(Outcome(NoCell, {NewEvent("Deleted", k, last.value, Absent)}))
  BY <1>1, <1>2, <1>6 DEF Outcome, Say, Seen, Describe
<1>7. CASE k = EmptyKey \/ old = to
  BY <1>3, <1>7 DEF KeyOutcome
<1>8. CASE ~(k = EmptyKey \/ old = to) /\ to # Absent
  <2> DEFINE ev == NewEvent(IF old = Absent THEN "Created" ELSE "Updated", k, old, to)
             o  == KeyOutcome(s, new, order, k)
  <2>1. o = IF old = Absent THEN HandleCreated(s, ev) ELSE HandleUpdated(s, ev)
    BY <1>8 DEF KeyOutcome, Describe, NewEvent, Handle
  <2>2. /\ last = NoCell => o = Outcome([store |-> s, value |-> to], {NewEvent("Created", k, Absent, to)})
        /\ last # NoCell => o = Assign(s, ev, last)
    BY <2>1, Zenon DEF HandleCreated, HandleUpdated, NewEvent
  <2>3. \/ Assign(s, ev, last) = Outcome(last, {})
        \/ Assign(s, ev, last) = Outcome([store |-> s, value |-> to],
              IF last.value = to THEN {} ELSE {NewEvent("Updated", k, last.value, to)})
    BY DEF Assign, NewEvent
  <2> HIDE DEF Good, o, ev, last, old, to
  <2> QED
    BY <1>1, <1>3, <1>4, <1>5, <1>8, <2>2, <2>3 DEF o
<1>9. CASE ~(k = EmptyKey \/ old = to) /\ to = Absent
  <2> DEFINE heir == FindAnother(k, s, order)
             o == KeyOutcome(s, new, order, k)
  <2>1. o = HandleDeleted(s, NewEvent("Deleted", k, old, Absent), order)
    BY <1>1, <1>9 DEF KeyOutcome, Describe, NewEvent, Handle
  <2>2. \/ o = Outcome(last, {})
        \/ last # NoCell /\ o = Outcome(NoCell, {NewEvent("Deleted", k, last.value, Absent)})
        \/ /\ last # NoCell /\ Others(k, s, order) # {}
           /\ o = Outcome([store |-> heir, value |-> vals[heir][k]],
                          IF last.value = vals[heir][k] THEN {}
                          ELSE {NewEvent("Updated", k, last.value, vals[heir][k])})
    BY <2>1 DEF HandleDeleted, NewEvent
  <2>3. Others(k, s, order) # {} => heir \in Calls /\ vals[heir][k] \in Values
    BY HeirIsFirst
  <2> HIDE DEF Good, o, last, old, to, heir
  <2> QED
    BY <1>3, <1>4, <1>6, <2>2, <2>3 DEF o
<1> QED
  BY <1>7, <1>8, <1>9

(* What Aggregated says of one key, for contents and added stores given.   *)
Best(k, cell, contents, added) ==
    LET holders == {x \in added : contents[x][k] # Absent} IN
    IF cell = NoCell THEN holders = {}
    ELSE /\ cell.store \in holders
         /\ cell.value = contents[cell.store][k]
         /\ \A x \in holders : PriOf[x] <= PriOf[cell.store]

LEMMA AggregatedIsBest ==
    Aggregated <=> \A k \in Keys \ {EmptyKey} : Best(k, values[k], vals, ToSet(stores))
BY DEF Aggregated, Best, Holders

(* Whatever the handler of a key does, the cell it leaves is the best one  *)
(* with the new reading of the store.                                      *)
LEMMA OutcomeIsBest ==
    ASSUME TypeOK, NEW s \in Calls, NEW new \in Contents, NEW order \in Seq(Calls),
           NEW k \in Keys \ {EmptyKey},
           HighToLow(order), s \in ToSet(order), ToSet(order) \subseteq Calls,
           Best(k, values[k], vals, ToSet(order))
    PROVE  Best(k, KeyOutcome(s, new, order, k).cell, [vals EXCEPT ![s] = new], ToSet(order))
<1> DEFINE old == vals[s][k]
           to == new[k]
           last == values[k]
           read == [vals EXCEPT ![s] = new]
           added == ToSet(order)
           o == KeyOutcome(s, new, order, k)
           heir == FindAnother(k, s, order)
           mine == [store |-> s, value |-> to]
<1>1. /\ read[s][k] = to
      /\ \A x \in Calls \ {s} : read[x][k] = vals[x][k]
  BY DEF TypeOK
<1>2. last \in Cell \cup {NoCell} /\ (last # NoCell => last.store \in Calls)
  BY DEF TypeOK, Cell
<1>3. \A c \in Calls : PriOf[c] \in Int
  BY CallsAssumption
<1>4. to # Absent => mine # NoCell /\ mine.store = s /\ mine.value = to
  BY CellFacts DEF Contents, Optional
<1>5. CASE old = to
  <2>1. o.cell = last
    BY <1>5 DEF KeyOutcome, Outcome
  <2>2. \A x \in added : read[x][k] = vals[x][k]
    BY <1>1, <1>5
  <2> HIDE DEF old, to, last, read, o
  <2> QED
    BY <2>1, <2>2 DEF Best, last, o, read
<1>6. CASE old # to /\ to # Absent
  <2> DEFINE ev == NewEvent(IF old = Absent THEN "Created" ELSE "Updated", k, old, to)
  <2>1. o = IF old = Absent THEN HandleCreated(s, ev) ELSE HandleUpdated(s, ev)
    BY <1>6 DEF KeyOutcome, Describe, NewEvent, Handle
  <2>2. /\ last = NoCell => \E rep : o = Outcome(mine, rep)
        /\ last # NoCell => o = Assign(s, ev, last)
    BY <2>1, Zenon DEF HandleCreated, HandleUpdated, NewEvent
  <2>3. /\ PriOf[s] < PriOf[last.store] => Assign(s, ev, last).cell = last
        /\ ~(PriOf[s] < PriOf[last.store]) => Assign(s, ev, last).cell = mine
    BY DEF Assign, NewEvent, Outcome
  <2> HIDE DEF old, to, last, read, o, ev, mine
  <2>4. CASE last = NoCell
    <3>1. o.cell = mine
      BY <2>2, <2>4 DEF Outcome
    <3> QED
      BY <1>1, <1>3, <1>4, <1>6, <2>4, <3>1 DEF Best, last, o, read
  <2>5. CASE last # NoCell /\ PriOf[s] < PriOf[last.store]
    BY <1>1, <1>2, <1>3, <2>2, <2>3, <2>5 DEF Best, last, o, read
  <2>6. CASE last # NoCell /\ ~(PriOf[s] < PriOf[last.store])
    BY <1>1, <1>2, <1>3, <1>4, <1>6, <2>2, <2>3, <2>6 DEF Best, last, o, read
  <2> QED
    BY <2>4, <2>5, <2>6
<1>7. CASE old # to /\ to = Absent
  <2>1. o = HandleDeleted(s, NewEvent("Deleted", k, old, Absent), order)
    BY <1>7 DEF KeyOutcome, Describe, NewEvent, Handle
  <2>2. \/ (last = NoCell \/ last.store # s) /\ o.cell = last
        \/ Others(k, s, order) = {} /\ o.cell = NoCell
        \/ Others(k, s, order) # {} /\ o.cell = [store |-> heir, value |-> vals[heir][k]]
    BY <2>1 DEF HandleDeleted, NewEvent, Outcome
  <2>3. Others(k, s, order) = {} => \A x \in added \ {s} : vals[x][k] = Absent
    BY DEF Others, ToSet
  <2>4. Others(k, s, order) # {} =>
          /\ heir \in added /\ heir # s /\ vals[heir][k] \in Values
          /\ \A x \in added \ {s} : vals[x][k] # Absent => PriOf[x] <= PriOf[heir]
    BY HeirIsFirst
  <2>5. \A c \in Calls, v \in Values : [store |-> c, value |-> v] # NoCell
    BY CellFacts
  <2> HIDE DEF old, to, last, read, o, heir, added
  <2>6. CASE (last = NoCell \/ last.store # s) /\ o.cell = last
    BY <1>1, <1>2, <1>7, <2>6 DEF Best, last, o, read, added
  <2>7. CASE Others(k, s, order) = {} /\ o.cell = NoCell
    BY <1>1, <1>7, <2>3, <2>7 DEF Best, o, read, added
  <2>8. CASE Others(k, s, order) # {} /\ o.cell = [store |-> heir, value |-> vals[heir][k]]
    BY <1>1, <1>7, <2>4, <2>5, <2>8, AbsentAssumption DEF Best, o, read, added
  <2> QED
    BY <2>2, <2>6, <2>7, <2>8
<1> QED
  BY <1>5, <1>6, <1>7

-----------------------------------------------------------------------------
(* populateEvents, key by key.                                             *)

NewReading(t, s) == Retained(vals[s], data[t], withDeleted)

LEMMA EventsOfReading ==
    ASSUME NEW old \in Contents, NEW new \in Contents
    PROVE  LET events == {e \in Diff(old, new) : e.key # EmptyKey} IN
           /\ \A k \in Keys : {e \in events : e.key = k} =
                IF k = EmptyKey \/ old[k] = new[k] THEN {} ELSE {Describe(k, old[k], new[k])}
           /\ \A e \in events : e.key \in Keys /\ e \in {e2 \in events : e2.key = e.key}
<1>1. \A k, v0, v1 : Describe(k, v0, v1).key = k
  BY DEF Describe, NewEvent
<1> QED
  BY <1>1 DEF Diff

LEMMA PopulateByKey ==
    ASSUME TypeOK, NEW t \in Threads, NEW s \in Calls, NEW order, Populate(t, s, order)
    PROVE  /\ NewReading(t, s) \in Contents
           /\ values' = [k \in Keys |-> KeyOutcome(s, NewReading(t, s), order, k).cell]
           /\ batch' = [batch EXCEPT ![t] =
                UNION {KeyOutcome(s, NewReading(t, s), order, k).reported : k \in Keys}]
           /\ vals' = [vals EXCEPT ![s] = NewReading(t, s)]
           /\ data' = [data EXCEPT ![t] = Empty]
<1> DEFINE old == vals[s]
           new == NewReading(t, s)
           events == {e \in Update(vals[s], data[t], withDeleted) : e.key # EmptyKey}
           About(k) == {e \in events : e.key = k}
           Same(k) == k = EmptyKey \/ old[k] = new[k]
<1>1. old \in Contents /\ data[t] \in Contents /\ withDeleted \in BOOLEAN
  BY DEF TypeOK
<1>2. new \in Contents /\ events = {e \in Diff(old, new) : e.key # EmptyKey}
  BY <1>1, UpdateIsDiff, RetainedType DEF NewReading
<1>3. /\ \A k \in Keys : About(k) = IF Same(k) THEN {} ELSE {Describe(k, old[k], new[k])}
      /\ \A e \in events : e.key \in Keys /\ e \in About(e.key)
  <2> HIDE DEF old, new
  <2> QED
    BY <1>1, <1>2, EventsOfReading
<1>4. /\ values' = [k \in Keys |-> IF About(k) = {} THEN values[k]
                        ELSE Handle(s, CHOOSE e \in About(k) : TRUE, order).cell]
      /\ batch' = [batch EXCEPT ![t] = UNION {Handle(s, e, order).reported : e \in events}]
      /\ vals' = [vals EXCEPT ![s] = new]
      /\ data' = [data EXCEPT ![t] = Empty]
  BY DEF Populate, NewReading
<1>5. \A k \in Keys : KeyOutcome(s, new, order, k) =
         IF Same(k) THEN Outcome(values[k], {}) ELSE Handle(s, Describe(k, old[k], new[k]), order)
  BY DEF KeyOutcome
<1> HIDE DEF old, new, events, About, Same
<1>6. ASSUME NEW k \in Keys
      PROVE  KeyOutcome(s, new, order, k).cell =
               IF About(k) = {} THEN values[k]
               ELSE Handle(s, CHOOSE e \in About(k) : TRUE, order).cell
  <2>1. CASE Same(k)
    BY <1>3, <1>5, <2>1 DEF Outcome
  <2>2. CASE ~Same(k)
    <3>1. About(k) = {Describe(k, old[k], new[k])}
      BY <1>3, <2>2
    <3>2. (CHOOSE e \in About(k) : TRUE) = Describe(k, old[k], new[k]) /\ About(k) # {}
      BY <3>1
    <3> QED
      BY <1>5, <2>2, <3>2
  <2> QED
    BY <2>1, <2>2
<1>7. UNION {Handle(s, e, order).reported : e \in events}
        = UNION {KeyOutcome(s, new, order, k).reported : k \in Keys}
  <2>1. ASSUME NEW e \in events
        PROVE  e.key \in Keys /\ Handle(s, e, order) = KeyOutcome(s, new, order, e.key)
    <3>1. e.key \in Keys /\ ~Same(e.key) /\ e = Describe(e.key, old[e.key], new[e.key])
      BY <1>3
    <3> QED
      BY <1>5, <3>1
  <2>2. ASSUME NEW k \in Keys, NEW x \in KeyOutcome(s, new, order, k).reported
        PROVE  \E e \in events : x \in Handle(s, e, order).reported
    <3>1. ~Same(k)
      BY <1>5, <2>2 DEF Outcome
    <3>2. Describe(k, old[k], new[k]) \in events
      BY <1>3, <3>1 DEF About
    <3> QED
      BY <1>5, <2>2, <3>1, <3>2
  <2> QED
    BY <2>1, <2>2
<1> QED
  BY <1>2, <1>4, <1>6, <1>7 DEF new

LEMMA DiffType ==
    ASSUME NEW old \in Contents, NEW new \in Contents
    PROVE  Diff(old, new) \in SUBSET Event
BY DEF Diff, Describe, NewEvent, Event, Actions, Contents, Optional

LEMMA SayingsAreDiff ==
    ASSUME NEW old, NEW new
    PROVE  UNION {Say(k, old[k], new[k]) : k \in Keys} = Diff(old, new)
<1>1. ASSUME NEW x \in Diff(old, new)
      PROVE  \E k \in Keys : x \in Say(k, old[k], new[k])
  BY DEF Diff, Say
<1>2. ASSUME NEW k \in Keys, NEW x \in Say(k, old[k], new[k])
      PROVE  x \in Diff(old, new)
  BY <1>2 DEF Diff, Say
<1> QED
  BY <1>1, <1>2

LEMMA ViewType ==
    ASSUME NEW cells \in [Keys -> Cell \cup {NoCell}]
    PROVE  /\ View(cells) \in Contents
           /\ \A k \in Keys : View(cells)[k] = Seen(cells[k])
BY DEF View, Seen, Contents, Optional, Cell

(* A merge keeps the types, and what is then left to report is the whole   *)
(* difference it made to the visible configuration.                        *)
LEMMA PopulateReports ==
    ASSUME TypeOK, NEW t \in Threads, NEW s \in Calls, NEW order \in Seq(Calls),
           Populate(t, s, order)
    PROVE  /\ values' \in [Keys -> Cell \cup {NoCell}]
           /\ vals' \in [Calls -> Contents]
           /\ data' \in [Threads -> Contents]
           /\ view \in Contents /\ view' \in Contents
           /\ batch' = [batch EXCEPT ![t] = Diff(view, view')]
           /\ batch' \in [Threads -> SUBSET Event]
<1> DEFINE new == NewReading(t, s)
           o(k) == KeyOutcome(s, new, order, k)
<1>1. /\ new \in Contents
      /\ values' = [k \in Keys |-> o(k).cell]
      /\ batch' = [batch EXCEPT ![t] = UNION {o(k).reported : k \in Keys}]
      /\ vals' = [vals EXCEPT ![s] = new]
      /\ data' = [data EXCEPT ![t] = Empty]
  BY PopulateByKey
<1> HIDE DEF new
<1>2. \A k \in Keys : /\ o(k).cell \in Cell \cup {NoCell}
                      /\ o(k).reported = Say(k, Seen(values[k]), Seen(o(k).cell))
  BY <1>1, OutcomeIsReported
<1> HIDE DEF o
<1>3. values \in [Keys -> Cell \cup {NoCell}] /\ values' \in [Keys -> Cell \cup {NoCell}]
  BY <1>1, <1>2 DEF TypeOK
<1>4. /\ view \in Contents /\ view' \in Contents
      /\ \A k \in Keys : view[k] = Seen(values[k]) /\ view'[k] = Seen(values'[k])
  BY <1>3, ViewType DEF view
<1>5. \A k \in Keys : o(k).reported = Say(k, view[k], view'[k])
  BY <1>1, <1>2, <1>4
<1>6. UNION {o(k).reported : k \in Keys} = Diff(view, view')
  <2>1. {o(k).reported : k \in Keys} = {Say(k, view[k], view'[k]) : k \in Keys}
    BY <1>5
  <2> QED
    BY <2>1, SayingsAreDiff
<1>7. Empty \in Contents
  BY DEF Empty, Contents, Optional
<1> QED
  BY <1>1, <1>3, <1>4, <1>6, <1>7, DiffType DEF TypeOK

-----------------------------------------------------------------------------
(* The inductive invariant: the types, what is true of the stores whatever *)
(* they hold, and Aggregated.                                              *)
StoresInOrder == HighToLow(stores)
NotAddedIsEmpty == \A c \in Calls : c \notin ToSet(stores) => vals[c] = Empty
WatchedIsAdded ==
    /\ watching \subseteq ToSet(stores)
    /\ \A c \in Calls : pc[c] = "watch" => c \in ToSet(stores)
    /\ \A w \in Watchers : pc[w] = "merge" => target[w] \in ToSet(stores)
ReportedBeforeNext == \A t \in Threads : pc[t] \notin {"watch", "report"} => batch[t] = {}

Stores == StoresInOrder /\ NotAddedIsEmpty /\ WatchedIsAdded /\ ReportedBeforeNext
Inductive == TypeOK /\ Stores /\ Aggregated

LEMMA FoundIsAdded ==
    ASSUME TypeOK, NEW c \in ToSet(stores)
    PROVE  FindStore(PathOf[c]) \in ToSet(stores)
<1> DEFINE matching == {i \in DOMAIN stores : PathOf[stores[i]] = PathOf[c]}
<1>1. DOMAIN stores = 1..Len(stores) /\ Len(stores) \in Nat
  BY LenProperties DEF TypeOK
<1>2. matching \in SUBSET Nat /\ matching # {}
  BY <1>1 DEF ToSet
<1>3. Min(matching) \in matching
  BY <1>2, MinIsLeast
<1> QED
  BY <1>3 DEF FindStore, ToSet

(* populateEvents keeps the merged configuration the best one.             *)
LEMMA MergeKeepsAggregated ==
    ASSUME Inductive, NEW t \in Threads, NEW s \in Calls, NEW order \in Seq(Calls),
           order = stores', HighToLow(order), ToSet(order) = ToSet(stores) \cup {s},
           Populate(t, s, order)
    PROVE  Aggregated' /\ NotAddedIsEmpty'
<1> DEFINE new == NewReading(t, s)
<1>1. /\ new \in Contents
      /\ values' = [k \in Keys |-> KeyOutcome(s, new, order, k).cell]
      /\ vals' = [vals EXCEPT ![s] = new]
  BY PopulateByKey DEF Inductive
<1> HIDE DEF new
<1>2. ToSet(order) \subseteq Calls /\ vals \in [Calls -> Contents]
  BY ToSetType DEF Inductive, TypeOK
<1>3. ASSUME NEW k \in Keys \ {EmptyKey}
      PROVE  Best(k, values'[k], vals', ToSet(stores'))
  <2>1. Best(k, values[k], vals, ToSet(stores))
    BY AggregatedIsBest DEF Inductive
  <2>2. \A x \in ToSet(order) \ ToSet(stores) : vals[x][k] = Absent
    BY <1>2 DEF Inductive, Stores, NotAddedIsEmpty, Empty
  <2>3. {x \in ToSet(order) : vals[x][k] # Absent} = {x \in ToSet(stores) : vals[x][k] # Absent}
    BY <2>2
  <2>4. Best(k, values[k], vals, ToSet(order))
    BY <2>1, <2>3 DEF Best
  <2>5. Best(k, KeyOutcome(s, new, order, k).cell, [vals EXCEPT ![s] = new], ToSet(order))
    BY <1>1, <1>2, <2>4, OutcomeIsBest DEF Inductive
  <2>6. values'[k] = KeyOutcome(s, new, order, k).cell
    BY <1>1
  <2> QED
    BY <1>1, <2>5, <2>6
<1>4. Aggregated'
  BY <1>3 DEF Aggregated, Best, Holders
<1>5. NotAddedIsEmpty'
  BY <1>1, <1>2 DEF NotAddedIsEmpty, Inductive, Stores
<1> QED
  BY <1>4, <1>5

LEMMA InductiveInit == Init => Inductive
<1> SUFFICES ASSUME Init PROVE Inductive
  OBVIOUS
<1>1. Empty \in Contents
  BY DEF Empty, Contents, Optional
<1>2. (CHOOSE c \in Calls : TRUE) \in Calls
  BY CallsAssumption
<1>3. ToSet(<<>>) = {} /\ HighToLow(<<>>) /\ <<>> \in Seq(Calls) /\ <<>> \in Seq(SUBSET Event)
  BY DEF ToSet, HighToLow
<1>4. TypeOK
  <2>1. pc \in [Threads -> {"start", "pull", "add", "watch", "report", "done", "idle", "merge"}]
    BY DEF Init
  <2>2. data \in [Threads -> Contents] /\ vals \in [Calls -> Contents]
    BY <1>1 DEF Init
  <2>3. target \in [Watchers -> Calls]
    BY <1>2 DEF Init
  <2>4. batch \in [Threads -> SUBSET Event]
    BY DEF Init
  <2>5. values \in [Keys -> Cell \cup {NoCell}]
    BY DEF Init
  <2>6. changes \in 0..MaxChanges
    BY CallsAssumption DEF Init
  <2>7. stores \in Seq(Calls) /\ inflight \in Seq(SUBSET Event)
    BY <1>3 DEF Init
  <2>8. watching \subseteq Calls /\ callback \in BOOLEAN /\ withDeleted \in BOOLEAN
    BY DEF Init
  <2> QED
    BY <2>1, <2>2, <2>3, <2>4, <2>5, <2>6, <2>7, <2>8 DEF TypeOK
<1>5. Stores
  BY <1>3, CallsAssumption DEF Init, Stores, StoresInOrder, NotAddedIsEmpty, WatchedIsAdded,
       ReportedBeforeNext, Threads
<1>6. Aggregated
  BY <1>3 DEF Init, Aggregated, Holders
<1> QED
  BY <1>4, <1>5, <1>6 DEF Inductive

(* Steps that leave the stores and the merged configuration alone.         *)
LEMMA AggregatedUnchanged ==
    ASSUME Aggregated, NotAddedIsEmpty, StoresInOrder, UNCHANGED <<stores, vals, values>>
    PROVE  Aggregated' /\ NotAddedIsEmpty' /\ StoresInOrder'
BY DEF Aggregated, Holders, NotAddedIsEmpty, StoresInOrder, HighToLow

LEMMA QuietStep ==
    ASSUME Inductive, UNCHANGED <<stores, vals, values>>,
           TypeOK', WatchedIsAdded', ReportedBeforeNext'
    PROVE  Inductive'
BY AggregatedUnchanged DEF Inductive, Stores

(* Where a thread goes.                                                    *)
LEMMA GotoType ==
    ASSUME TypeOK, NEW t \in Threads,
           NEW label \in {"start", "pull", "add", "watch", "report", "done", "idle", "merge"},
           Goto(t, label)
    PROVE  /\ pc' \in [Threads -> {"start", "pull", "add", "watch", "report", "done", "idle", "merge"}]
           /\ pc'[t] = label
           /\ \A u \in Threads \ {t} : pc'[u] = pc[u]
BY DEF TypeOK, Goto

LEMMA CallsAreThreads ==
    /\ Calls \subseteq Threads /\ Watchers \subseteq Threads
    /\ \A c \in Calls, w \in Watchers : c # w
BY CallsAssumption DEF Threads

LEMMA CheckStoreKeeps == ASSUME Inductive, NEW c \in Calls, CheckStore(c) PROVE Inductive'
<1>1. TypeOK /\ Stores
  BY DEF Inductive
<1>2. \E label \in {"done", "pull"} : Goto(c, label)
  BY DEF CheckStore
<1>3. PICK label \in {"done", "pull"} : Goto(c, label)
  BY <1>2
<1>4. /\ pc' \in [Threads -> {"start", "pull", "add", "watch", "report", "done", "idle", "merge"}]
      /\ pc'[c] = label /\ \A u \in Threads \ {c} : pc'[u] = pc[u]
  BY <1>1, <1>3, GotoType, CallsAreThreads
<1>5. /\ pc[c] = "start"
      /\ UNCHANGED <<withDeleted, data, target, batch, stores, vals, values, watching, callback, inflight, changes>>
  BY DEF CheckStore, locals
<1>6. TypeOK'
  BY <1>1, <1>4, <1>5 DEF TypeOK
<1>7. WatchedIsAdded'
  BY <1>1, <1>4, <1>5, CallsAreThreads DEF Stores, WatchedIsAdded
<1>8. ReportedBeforeNext'
  BY <1>1, <1>4, <1>5, CallsAreThreads DEF Stores, ReportedBeforeNext
<1> QED
  BY <1>5, <1>6, <1>7, <1>8, QuietStep

LEMMA PullKeeps == ASSUME Inductive, NEW c \in Calls, Pull(c) PROVE Inductive'
<1>1. TypeOK /\ Stores
  BY DEF Inductive
<1>2. /\ pc' \in [Threads -> {"start", "pull", "add", "watch", "report", "done", "idle", "merge"}]
      /\ pc'[c] = "add" /\ \A u \in Threads \ {c} : pc'[u] = pc[u]
  BY <1>1, GotoType, CallsAreThreads DEF Pull
<1>3. /\ pc[c] = "pull"
      /\ UNCHANGED <<withDeleted, target, batch, stores, vals, values, watching, callback, inflight, changes>>
  BY DEF Pull
<1>4. data' \in [Threads -> Contents]
  BY <1>1, CallsAreThreads DEF Pull, TypeOK
<1>5. TypeOK'
  BY <1>1, <1>2, <1>3, <1>4 DEF TypeOK
<1>6. WatchedIsAdded'
  BY <1>1, <1>2, <1>3, CallsAreThreads DEF Stores, WatchedIsAdded
<1>7. ReportedBeforeNext'
  BY <1>1, <1>2, <1>3, CallsAreThreads DEF Stores, ReportedBeforeNext
<1> QED
  BY <1>3, <1>5, <1>6, <1>7, QuietStep

LEMMA PullFailsKeeps == ASSUME Inductive, NEW c \in Calls, PullFails(c) PROVE Inductive'
<1>1. TypeOK /\ Stores
  BY DEF Inductive
<1>2. PICK label \in {"done", "add"} : Goto(c, label)
  <2>1. \E label \in {"done", "add"} : Goto(c, label)
    BY DEF PullFails
  <2> QED
    BY <2>1
<1>3. /\ pc' \in [Threads -> {"start", "pull", "add", "watch", "report", "done", "idle", "merge"}]
      /\ pc'[c] = label /\ \A u \in Threads \ {c} : pc'[u] = pc[u]
  BY <1>1, <1>2, GotoType, CallsAreThreads
<1>4. /\ pc[c] = "pull"
      /\ UNCHANGED <<withDeleted, data, target, batch, stores, vals, values, watching, callback, inflight, changes>>
  BY DEF PullFails, locals
<1>5. TypeOK'
  BY <1>1, <1>3, <1>4 DEF TypeOK
<1>6. WatchedIsAdded'
  BY <1>1, <1>3, <1>4, CallsAreThreads DEF Stores, WatchedIsAdded
<1>7. ReportedBeforeNext'
  BY <1>1, <1>3, <1>4, CallsAreThreads DEF Stores, ReportedBeforeNext
<1> QED
  BY <1>4, <1>5, <1>6, <1>7, QuietStep

LEMMA AddStoreKeeps == ASSUME Inductive, NEW c \in Calls, AddStore(c) PROVE Inductive'
<1>1. TypeOK /\ Stores
  BY DEF Inductive
<1>2. PICK order \in Sortings(Append(stores, c)) : stores' = order
  BY DEF AddStore
<1>3. /\ order \in Seq(Calls) /\ HighToLow(order)
      /\ ToSet(order) = ToSet(stores) \cup {c}
  BY <1>1, SortingsAreOrders, AppendStore DEF TypeOK
<1>4. /\ Populate(c, c, order) /\ Goto(c, "watch")
      /\ UNCHANGED <<withDeleted, target, watching, callback, inflight, changes>>
  BY <1>2 DEF AddStore
<1>5. Aggregated' /\ NotAddedIsEmpty'
  BY <1>2, <1>3, <1>4, MergeKeepsAggregated, CallsAreThreads
<1>6. /\ values' \in [Keys -> Cell \cup {NoCell}]
      /\ vals' \in [Calls -> Contents]
      /\ data' \in [Threads -> Contents]
      /\ batch' \in [Threads -> SUBSET Event]
      /\ batch' = [batch EXCEPT ![c] = Diff(view, view')]
  BY <1>1, <1>3, <1>4, PopulateReports, CallsAreThreads
<1>7. /\ pc' \in [Threads -> {"start", "pull", "add", "watch", "report", "done", "idle", "merge"}]
      /\ pc'[c] = "watch" /\ \A u \in Threads \ {c} : pc'[u] = pc[u]
  BY <1>1, <1>4, GotoType, CallsAreThreads
<1>8. TypeOK'
  BY <1>1, <1>2, <1>3, <1>4, <1>6, <1>7 DEF TypeOK
<1>9. StoresInOrder'
  BY <1>2, <1>3 DEF StoresInOrder, HighToLow
<1>10. WatchedIsAdded'
  BY <1>1, <1>2, <1>3, <1>4, <1>7, CallsAreThreads DEF Stores, WatchedIsAdded
<1>11. ReportedBeforeNext'
  BY <1>1, <1>6, <1>7, CallsAreThreads DEF Stores, ReportedBeforeNext, TypeOK
<1> QED
  BY <1>5, <1>8, <1>9, <1>10, <1>11 DEF Inductive, Stores

LEMMA WatchPathKeeps == ASSUME Inductive, NEW c \in Calls, WatchPath(c) PROVE Inductive'
<1>1. TypeOK /\ Stores
  BY DEF Inductive
<1>2. /\ pc' \in [Threads -> {"start", "pull", "add", "watch", "report", "done", "idle", "merge"}]
      /\ pc'[c] = "report" /\ \A u \in Threads \ {c} : pc'[u] = pc[u]
  BY <1>1, GotoType, CallsAreThreads DEF WatchPath
<1>3. /\ pc[c] = "watch" /\ watching' \in {watching, watching \cup {c}}
      /\ UNCHANGED <<withDeleted, data, target, batch, stores, vals, values, callback, inflight, changes>>
  BY DEF WatchPath, locals
<1>4. TypeOK'
  BY <1>1, <1>2, <1>3 DEF TypeOK
<1>5. WatchedIsAdded'
  BY <1>1, <1>2, <1>3, CallsAreThreads DEF Stores, WatchedIsAdded
<1>6. ReportedBeforeNext'
  BY <1>1, <1>2, <1>3, CallsAreThreads DEF Stores, ReportedBeforeNext
<1> QED
  BY <1>3, <1>4, <1>5, <1>6, QuietStep

LEMMA DispatchEventsKeeps ==
    ASSUME Inductive, NEW t \in Threads, DispatchEvents(t) PROVE Inductive'
<1>1. TypeOK /\ Stores
  BY DEF Inductive
<1>2. PICK label \in {"done", "idle"} : Goto(t, label)
  <2>1. \E label \in {"done", "idle"} : Goto(t, label)
    BY DEF DispatchEvents
  <2> QED
    BY <2>1
<1>3. /\ pc' \in [Threads -> {"start", "pull", "add", "watch", "report", "done", "idle", "merge"}]
      /\ pc'[t] = label /\ \A u \in Threads \ {t} : pc'[u] = pc[u]
  BY <1>1, <1>2, GotoType
<1>4. /\ pc[t] = "report" /\ batch' = [batch EXCEPT ![t] = {}]
      /\ inflight' \in {inflight, Append(inflight, batch[t])}
      /\ UNCHANGED <<withDeleted, data, target, stores, vals, values, watching, callback, changes>>
  BY DEF DispatchEvents, locals
<1>5. batch' \in [Threads -> SUBSET Event]
  BY <1>1, <1>4 DEF TypeOK
<1>6. inflight' \in Seq(SUBSET Event)
  <2>1. inflight \in Seq(SUBSET Event) /\ batch[t] \in SUBSET Event
    BY <1>1 DEF TypeOK
  <2>2. Append(inflight, batch[t]) \in Seq(SUBSET Event)
    BY <2>1, AppendProperties
  <2> QED
    BY <1>4, <2>1, <2>2
<1>7. TypeOK'
  BY <1>1, <1>3, <1>4, <1>5, <1>6 DEF TypeOK
<1>8. WatchedIsAdded'
  BY <1>1, <1>3, <1>4, CallsAreThreads DEF Stores, WatchedIsAdded
<1>9. ReportedBeforeNext'
  BY <1>1, <1>3, <1>4 DEF Stores, ReportedBeforeNext, TypeOK
<1> QED
  BY <1>4, <1>7, <1>8, <1>9, QuietStep

LEMMA FindPathKeeps ==
    ASSUME Inductive, NEW w \in Watchers, NEW c \in Calls, FindPath(w, c) PROVE Inductive'
<1>1. TypeOK /\ Stores
  BY DEF Inductive
<1>2. /\ pc' \in [Threads -> {"start", "pull", "add", "watch", "report", "done", "idle", "merge"}]
      /\ pc'[w] = "merge" /\ \A u \in Threads \ {w} : pc'[u] = pc[u]
  BY <1>1, GotoType, CallsAreThreads DEF FindPath
<1>3. /\ pc[w] = "idle" /\ c \in watching
      /\ target' = [target EXCEPT ![w] = FindStore(PathOf[c])]
      /\ UNCHANGED <<withDeleted, batch, stores, vals, values, watching, callback, inflight>>
  BY DEF FindPath
<1>4. data' \in [Threads -> Contents]
  BY <1>1, CallsAreThreads DEF FindPath, TypeOK
<1>5. FindStore(PathOf[c]) \in ToSet(stores) /\ FindStore(PathOf[c]) \in Calls
  BY <1>1, <1>3, FoundIsAdded, ToSetType DEF Stores, WatchedIsAdded, TypeOK
<1>6. changes' \in 0..MaxChanges
  BY <1>1, CallsAssumption DEF FindPath, TypeOK
<1>7. target' \in [Watchers -> Calls]
  BY <1>1, <1>3, <1>5 DEF TypeOK
<1>8. TypeOK'
  BY <1>1, <1>2, <1>3, <1>4, <1>6, <1>7 DEF TypeOK
<1>9. WatchedIsAdded'
  BY <1>1, <1>2, <1>3, <1>5, CallsAreThreads DEF Stores, WatchedIsAdded, TypeOK
<1>10. ReportedBeforeNext'
  BY <1>1, <1>2, <1>3, CallsAreThreads DEF Stores, ReportedBeforeNext
<1> QED
  BY <1>3, <1>8, <1>9, <1>10, QuietStep

LEMMA MergePathKeeps == ASSUME Inductive, NEW w \in Watchers, MergePath(w) PROVE Inductive'
<1>1. TypeOK /\ Stores
  BY DEF Inductive
<1>2. /\ pc[w] = "merge" /\ Populate(w, target[w], stores) /\ Goto(w, "report")
      /\ UNCHANGED <<withDeleted, target, stores, watching, callback, inflight, changes>>
  BY DEF MergePath
<1>3. target[w] \in Calls /\ target[w] \in ToSet(stores) /\ stores \in Seq(Calls)
  BY <1>1, <1>2 DEF Stores, WatchedIsAdded, TypeOK
<1>4. HighToLow(stores) /\ stores = stores' /\ ToSet(stores) = ToSet(stores) \cup {target[w]}
  BY <1>1, <1>2, <1>3 DEF Stores, StoresInOrder
<1>5. Aggregated' /\ NotAddedIsEmpty'
  BY <1>2, <1>3, <1>4, MergeKeepsAggregated, CallsAreThreads
<1>6. /\ values' \in [Keys -> Cell \cup {NoCell}]
      /\ vals' \in [Calls -> Contents]
      /\ data' \in [Threads -> Contents]
      /\ batch' \in [Threads -> SUBSET Event]
      /\ batch' = [batch EXCEPT ![w] = Diff(view, view')]
  BY <1>1, <1>2, <1>3, PopulateReports, CallsAreThreads
<1>7. /\ pc' \in [Threads -> {"start", "pull", "add", "watch", "report", "done", "idle", "merge"}]
      /\ pc'[w] = "report" /\ \A u \in Threads \ {w} : pc'[u] = pc[u]
  BY <1>1, <1>2, GotoType, CallsAreThreads
<1>8. TypeOK'
  BY <1>1, <1>2, <1>6, <1>7 DEF TypeOK
<1>9. StoresInOrder'
  BY <1>2, <1>4 DEF StoresInOrder, HighToLow
<1>10. WatchedIsAdded'
  BY <1>1, <1>2, <1>7, CallsAreThreads DEF Stores, WatchedIsAdded
<1>11. ReportedBeforeNext'
  BY <1>1, <1>6, <1>7, CallsAreThreads DEF Stores, ReportedBeforeNext, TypeOK
<1> QED
  BY <1>5, <1>8, <1>9, <1>10, <1>11 DEF Inductive, Stores

(* Set writes the same value into the stores and into the merged           *)
(* configuration, and only where there was one.                            *)
LEMMA SetKeeps ==
    ASSUME Inductive, NEW k \in Keys, NEW v \in Values, Set(k, v) PROVE Inductive'
<1>1. TypeOK /\ Stores
  BY DEF Inductive
<1>2. /\ vals' = [s \in Calls |-> IF s \in ToSet(stores) /\ vals[s][k] # Absent
                                  THEN [vals[s] EXCEPT ![k] = v] ELSE vals[s]]
      /\ values' = IF values[k] = NoCell THEN values ELSE [values EXCEPT ![k].value = v]
      /\ UNCHANGED <<withDeleted, pc, data, target, batch, stores, watching, callback, inflight>>
  BY DEF Set, locals
<1>3. v \in Optional /\ v # Absent
  BY AbsentAssumption DEF Optional
<1>4. vals' \in [Calls -> Contents]
  BY <1>1, <1>2, <1>3 DEF TypeOK, Contents
<1>5. \A s \in ToSet(stores), q \in Keys :
         vals'[s][q] = IF q = k /\ vals[s][q] # Absent THEN v ELSE vals[s][q]
  BY <1>1, <1>2, ToSetType DEF TypeOK, Contents
<1>6. \A q \in Keys \ {k} : values'[q] = values[q]
  BY <1>1, <1>2 DEF TypeOK
<1>7. /\ values[k] = NoCell => values'[k] = NoCell
      /\ values[k] # NoCell => values'[k] = [store |-> values[k].store, value |-> v]
  BY <1>1, <1>2 DEF TypeOK, Cell
<1>8. \A c \in Calls : [store |-> c, value |-> v] \in Cell /\ [store |-> c, value |-> v] # NoCell
  BY CellFacts
<1>9. values[k] # NoCell => values[k].store \in Calls
  BY <1>1 DEF TypeOK, Cell
<1>10. values' \in [Keys -> Cell \cup {NoCell}]
  <2>1. DOMAIN values' = Keys /\ values' = [q \in Keys |-> values'[q]]
    BY <1>1, <1>2 DEF TypeOK
  <2>2. \A q \in Keys : values'[q] \in Cell \cup {NoCell}
    BY <1>1, <1>6, <1>7, <1>8, <1>9 DEF TypeOK
  <2> QED
    BY <2>1, <2>2
<1>11. changes' \in 0..MaxChanges
  BY <1>1, CallsAssumption DEF Set, TypeOK
<1>12. TypeOK'
  BY <1>1, <1>2, <1>4, <1>10, <1>11 DEF TypeOK
<1>13. ASSUME NEW q \in Keys \ {EmptyKey}
       PROVE  Best(q, values'[q], vals', ToSet(stores'))
  <2> DEFINE added == ToSet(stores)
  <2>1. Best(q, values[q], vals, added)
    BY AggregatedIsBest DEF Inductive
  <2>2. {x \in added : vals'[x][q] # Absent} = {x \in added : vals[x][q] # Absent}
    BY <1>3, <1>5
  <2>3. stores' = stores
    BY <1>2
  <2>4. CASE q # k \/ values[q] = NoCell
    <3>1. values'[q] = values[q]
      BY <1>6, <1>7, <2>4
    <3>2. CASE values[q] = NoCell
      BY <2>1, <2>2, <2>3, <3>1, <3>2 DEF Best
    <3>3. CASE values[q] # NoCell /\ q # k
      <4>1. \A s \in added : vals'[s][q] = vals[s][q]
        BY <1>5, <3>3
      <4> QED
        BY <2>1, <2>2, <2>3, <3>1, <3>3, <4>1 DEF Best
    <3> QED
      BY <2>4, <3>2, <3>3
  <2>5. CASE q = k /\ values[q] # NoCell
    <3>1. /\ values'[q] = [store |-> values[q].store, value |-> v] /\ values'[q] # NoCell
      BY <1>7, <1>8, <1>9, <2>5
    <3>2. values[q].store \in {x \in added : vals[x][q] # Absent}
      BY <2>1, <2>5 DEF Best
    <3>3. vals'[values[q].store][q] = v
      BY <1>5, <2>5, <3>2
    <3> HIDE DEF added
    <3> QED
      BY <2>1, <2>2, <2>3, <2>5, <3>1, <3>2, <3>3 DEF Best, added
  <2> QED
    BY <2>4, <2>5
<1>14. Aggregated'
  BY <1>13 DEF Aggregated, Best, Holders
<1>15. StoresInOrder' /\ NotAddedIsEmpty'
  BY <1>1, <1>2 DEF Stores, StoresInOrder, HighToLow, NotAddedIsEmpty
<1>16. WatchedIsAdded' /\ ReportedBeforeNext'
  BY <1>1, <1>2 DEF Stores, WatchedIsAdded, ReportedBeforeNext
<1> QED
  BY <1>12, <1>14, <1>15, <1>16 DEF Inductive, Stores

LEMMA OnEventsKeeps == ASSUME Inductive, OnEvents PROVE Inductive'
<1>1. UNCHANGED <<withDeleted, pc, data, target, batch, stores, vals, values, watching, inflight, changes>>
  BY DEF OnEvents, locals
<1>2. TypeOK'
  BY <1>1 DEF Inductive, TypeOK, OnEvents
<1>3. WatchedIsAdded' /\ ReportedBeforeNext'
  BY <1>1 DEF Inductive, Stores, WatchedIsAdded, ReportedBeforeNext
<1> QED
  BY <1>1, <1>2, <1>3, QuietStep

LEMMA RunCallbackKeeps ==
    ASSUME Inductive, NEW i \in DOMAIN inflight, RunCallback(i) PROVE Inductive'
<1>1. UNCHANGED <<withDeleted, pc, data, target, batch, stores, vals, values, watching, callback, changes>>
  BY DEF RunCallback, locals
<1>2. inflight' \in Seq(SUBSET Event)
  BY RemoveAtType DEF Inductive, TypeOK, RunCallback
<1>3. TypeOK'
  BY <1>1, <1>2 DEF Inductive, TypeOK
<1>4. WatchedIsAdded' /\ ReportedBeforeNext'
  BY <1>1 DEF Inductive, Stores, WatchedIsAdded, ReportedBeforeNext
<1> QED
  BY <1>1, <1>3, <1>4, QuietStep

LEMMA InductiveNext == Inductive /\ [Next]_vars => Inductive'
<1> SUFFICES ASSUME Inductive, [Next]_vars PROVE Inductive'
  OBVIOUS
<1>1. CASE \E c \in Calls : AddPath(c)
  BY <1>1, CheckStoreKeeps, PullKeeps, PullFailsKeeps, AddStoreKeeps, WatchPathKeeps DEF AddPath
<1>2. CASE \E t \in Threads : DispatchEvents(t)
  BY <1>2, DispatchEventsKeeps
<1>3. CASE \E w \in Watchers, c \in Calls : FindPath(w, c)
  BY <1>3, FindPathKeeps
<1>4. CASE \E w \in Watchers : MergePath(w)
  BY <1>4, MergePathKeeps
<1>5. CASE \E k \in Keys, v \in Values : Set(k, v)
  BY <1>5, SetKeeps
<1>6. CASE OnEvents
  BY <1>6, OnEventsKeeps
<1>7. CASE \E i \in DOMAIN inflight : RunCallback(i)
  BY <1>7, RunCallbackKeeps
<1>8. CASE UNCHANGED vars
  <2>1. UNCHANGED <<withDeleted, pc, data, target, batch, stores, vals, values, watching, callback, inflight, changes>>
    BY <1>8 DEF vars
  <2>2. TypeOK'
    BY <2>1 DEF Inductive, TypeOK
  <2>3. WatchedIsAdded' /\ ReportedBeforeNext'
    BY <2>1 DEF Inductive, Stores, WatchedIsAdded, ReportedBeforeNext
  <2> QED
    BY <2>1, <2>2, <2>3, QuietStep
<1> QED
  BY <1>1, <1>2, <1>3, <1>4, <1>5, <1>6, <1>7, <1>8 DEF Next

LEMMA InductiveAlways == Spec => []Inductive
BY InductiveInit, InductiveNext, PTL DEF Spec

(* Every variable keeps its type, whatever the client reads and whenever.  *)
THEOREM TypeCorrect == Spec => []TypeOK
BY InductiveAlways, PTL DEF Inductive

(* base.go:25, 207-297: the merged configuration is always the one the     *)
(* priorities ask for: a key is there exactly if a path has it, with the   *)
(* value of a path of the highest priority among those that have it.       *)
THEOREM AggregatedCorrect == Spec => []Aggregated
BY InductiveAlways, PTL DEF Inductive

-----------------------------------------------------------------------------
(* BaseSource implements Source: a merge commits, a dispatch reports, a    *)
(* Set overwrites, and every other step is invisible.                      *)

Visible == <<view, batch, callback, inflight>>

(* Source means by a configuration and a difference what PathStore does.   *)
LEMMA SameWords ==
    /\ Contract!Empty = Empty /\ Contract!Contents = Contents
    /\ \A old, new \in Contents : Contract!Diff(old, new) = Diff(old, new)
    /\ \A seq, i : Contract!RemoveAt(seq, i) = RemoveAt(seq, i)
<1>1. Contract!Empty = Empty /\ Contract!Contents = Contents
  BY DEF Empty, Contract!Empty, Contents, Contract!Contents, Optional, Contract!Optional
<1>2. \A old, new \in Contents : Contract!Diff(old, new) = Diff(old, new)
  BY DEF Diff, Contract!Diff, Describe, Contract!Describe, NewEvent, Contract!NewEvent
<1>3. \A seq, i : Contract!RemoveAt(seq, i) = RemoveAt(seq, i)
  BY DEF RemoveAt, Contract!RemoveAt
<1> QED
  BY <1>1, <1>2, <1>3

LEMMA MergeCommits ==
    ASSUME Inductive, NEW t \in Threads, NEW s \in Calls, NEW order \in Seq(Calls),
           Populate(t, s, order), pc[t] \notin {"watch", "report"},
           UNCHANGED <<callback, inflight>>
    PROVE  Contract!Commit(t)
<1>1. /\ view \in Contents /\ view' \in Contents
      /\ batch' = [batch EXCEPT ![t] = Diff(view, view')]
  BY PopulateReports DEF Inductive
<1>2. batch[t] = {}
  BY DEF Inductive, Stores, ReportedBeforeNext
<1> QED
  BY <1>1, <1>2, SameWords DEF Contract!Commit

LEMMA AddPathImplements ==
    ASSUME Inductive, NEW c \in Calls, AddPath(c)
    PROVE  Contract!Commit(c) \/ UNCHANGED Visible
<1>1. CASE CheckStore(c) \/ Pull(c) \/ PullFails(c) \/ WatchPath(c)
  BY <1>1 DEF CheckStore, Pull, PullFails, WatchPath, Visible, view, View, locals
<1>2. CASE AddStore(c)
  <2>1. PICK order \in Sortings(Append(stores, c)) : stores' = order
    BY <1>2 DEF AddStore
  <2>2. order \in Seq(Calls)
    BY <2>1, SortingsAreOrders, AppendStore DEF Inductive, TypeOK
  <2>3. /\ Populate(c, c, order) /\ pc[c] = "add"
        /\ UNCHANGED <<callback, inflight>>
    BY <1>2, <2>1 DEF AddStore
  <2> QED
    BY <2>2, <2>3, MergeCommits, CallsAreThreads
<1> QED
  BY <1>1, <1>2 DEF AddPath

LEMMA MergePathImplements ==
    ASSUME Inductive, NEW w \in Watchers, MergePath(w)
    PROVE  Contract!Commit(w)
<1>1. /\ Populate(w, target[w], stores) /\ pc[w] = "merge"
      /\ UNCHANGED <<callback, inflight>>
  BY DEF MergePath
<1>2. target[w] \in Calls /\ stores \in Seq(Calls)
  BY DEF Inductive, TypeOK
<1> QED
  BY <1>1, <1>2, MergeCommits, CallsAreThreads

LEMMA DispatchEventsImplements ==
    ASSUME Inductive, NEW t \in Threads, DispatchEvents(t)
    PROVE  Contract!Report(t) \/ UNCHANGED Visible
<1>1. /\ inflight' = IF batch[t] # {} /\ callback THEN Append(inflight, batch[t]) ELSE inflight
      /\ batch' = [batch EXCEPT ![t] = {}]
      /\ UNCHANGED <<callback, values>>
  BY DEF DispatchEvents
<1>2. view' = view
  BY <1>1 DEF view, View
<1>3. CASE batch[t] = {}
  <2>1. batch' = batch /\ inflight' = inflight
    BY <1>1, <1>3 DEF Inductive, TypeOK
  <2> QED
    BY <1>1, <1>2, <2>1 DEF Visible
<1>4. CASE batch[t] # {}
  BY <1>1, <1>2, <1>4 DEF Contract!Report
<1> QED
  BY <1>3, <1>4

LEMMA SetImplements ==
    ASSUME Inductive, NEW k \in Keys, NEW v \in Values, Set(k, v)
    PROVE  Contract!Overwrite(k, v) \/ UNCHANGED Visible
<1>1. /\ values' = IF values[k] = NoCell THEN values ELSE [values EXCEPT ![k].value = v]
      /\ UNCHANGED <<batch, callback, inflight>>
  BY DEF Set
<1>2. values \in [Keys -> Cell \cup {NoCell}]
  BY DEF Inductive, TypeOK
<1>3. CASE values[k] = NoCell
  BY <1>1, <1>3 DEF Visible, view, View
<1>4. CASE values[k] # NoCell
  <2>1. values[k] \in Cell /\ values[k].value \in Values
    BY <1>2, <1>4 DEF Cell
  <2>2. view[k] # Absent
    BY <1>4, <2>1, AbsentAssumption DEF view, View
  <2>3. values'[k] = [store |-> values[k].store, value |-> v] /\ values'[k] # NoCell
    BY <1>1, <1>2, <1>4, <2>1, CellFacts DEF Cell
  <2>4. \A q \in Keys \ {k} : values'[q] = values[q]
    BY <1>1, <1>2, <1>4
  <2>5. \A q \in Keys : view'[q] = IF q = k THEN v ELSE view[q]
    BY <2>3, <2>4 DEF view, View
  <2>6. view' = [view EXCEPT ![k] = v]
    BY <2>5 DEF view, View
  <2> QED
    BY <1>1, <2>2, <2>6 DEF Contract!Overwrite
<1> QED
  BY <1>3, <1>4

(* source.go:11-44, base.go:299-339: the source keeps the promise the      *)
(* manager relies on: every change of what Get and All answer, Set's       *)
(* apart, is followed by one report that says exactly what changed.        *)
THEOREM ContractKept == Spec => Implements
<1>1. Init => Contract!Init
  BY SameWords DEF Init, Contract!Init, view, View, Empty
<1>2. Inductive /\ [Next]_vars => [Contract!Next]_Visible
  <2> SUFFICES ASSUME Inductive, [Next]_vars PROVE Contract!Next \/ UNCHANGED Visible
    OBVIOUS
  <2>1. CASE \E c \in Calls : AddPath(c)
    BY <2>1, AddPathImplements, CallsAreThreads DEF Contract!Next
  <2>2. CASE \E t \in Threads : DispatchEvents(t)
    BY <2>2, DispatchEventsImplements DEF Contract!Next
  <2>3. CASE \E w \in Watchers, c \in Calls : FindPath(w, c)
    BY <2>3 DEF FindPath, Visible, view, View
  <2>4. CASE \E w \in Watchers : MergePath(w)
    BY <2>4, MergePathImplements, CallsAreThreads DEF Contract!Next
  <2>5. CASE \E k \in Keys, v \in Values : Set(k, v)
    BY <2>5, SetImplements DEF Contract!Next
  <2>6. CASE OnEvents
    BY <2>6 DEF OnEvents, Contract!Next, Contract!OnEvents, view, View
  <2>7. CASE \E i \in DOMAIN inflight : RunCallback(i)
    BY <2>7, SameWords DEF RunCallback, Contract!Next, Contract!Run, view, View
  <2>8. CASE UNCHANGED vars
    BY <2>8 DEF vars, Visible, view, View
  <2> QED
    BY <2>1, <2>2, <2>3, <2>4, <2>5, <2>6, <2>7, <2>8 DEF Next
<1>3. Visible = Contract!vars
  BY DEF Visible, Contract!vars
<1> QED
  BY <1>1, <1>2, <1>3, InductiveAlways, PTL DEF Spec, Implements, Contract!Spec, Visible, Contract!vars

-----------------------------------------------------------------------------
(* What is merged stays merged.                                            *)

(* Where Aggregated holds before and after, a key stays while one of its   *)
(* holders does.                                                           *)
LEMMA HeldIsKept ==
    ASSUME Inductive, Inductive', NEW k \in Keys \ {EmptyKey},
           \A x \in ToSet(stores) : x \in ToSet(stores)' /\ (vals[x][k] # Absent => vals'[x][k] # Absent),
           view[k] # Absent
    PROVE  view'[k] # Absent
<1>1. /\ values[k] \in Cell \cup {NoCell}
      /\ values'[k] \in Cell \cup {NoCell}
  BY DEF Inductive, TypeOK
<1>2. values[k] # NoCell
  BY DEF view, View
<1>3. values[k].store \in ToSet(stores) /\ vals[values[k].store][k] # Absent
  BY <1>2 DEF Inductive, Aggregated, Holders
<1>4. values'[k] # NoCell
  BY <1>3 DEF Inductive, Aggregated, Holders
<1>5. values'[k].value \in Values
  BY <1>1, <1>4 DEF Cell
<1> QED
  BY <1>4, <1>5, AbsentAssumption DEF view, View

LEMMA MergeKeepsKeys ==
    ASSUME Inductive, Inductive', ~withDeleted, NEW t \in Threads, NEW s \in Calls,
           NEW order \in Seq(Calls), Populate(t, s, order),
           ToSet(stores) \subseteq ToSet(stores'),
           NEW k \in Keys, view[k] # Absent
    PROVE  view'[k] # Absent
<1> DEFINE new == NewReading(t, s)
<1>1. /\ values' = [q \in Keys |-> KeyOutcome(s, new, order, q).cell]
      /\ vals' = [vals EXCEPT ![s] = new]
  BY PopulateByKey DEF Inductive
<1>2. vals[s][k] # Absent => new[k] # Absent
  BY DEF NewReading, Retained
<1> HIDE DEF new
<1>3. CASE k = EmptyKey
  <2>1. KeyOutcome(s, new, order, k).cell = values[k]
    BY <1>3 DEF KeyOutcome, Outcome
  <2> QED
    BY <1>1, <2>1 DEF view, View
<1>4. CASE k # EmptyKey
  <2>1. ToSet(stores) \subseteq Calls /\ vals \in [Calls -> Contents]
    BY ToSetType DEF Inductive, TypeOK
  <2>2. \A x \in ToSet(stores) : vals[x][k] # Absent => vals'[x][k] # Absent
    BY <1>1, <1>2, <2>1
  <2> QED
    BY <1>4, <2>2, HeldIsKept
<1> QED
  BY <1>3, <1>4

(* options.go:25, path.go:26-75: without WithDeleted no step, whichever    *)
(* path it reads, takes away a key that was visible.                       *)
THEOREM KeysKept == Spec => KeysAreKept
<1> DEFINE Kept == withDeleted \/ \A k \in Keys : view[k] # Absent => view'[k] # Absent
<1>1. Inductive /\ Inductive' /\ [Next]_vars => [Kept]_vars
  <2> SUFFICES ASSUME Inductive, Inductive', Next, ~withDeleted,
                      NEW k \in Keys, view[k] # Absent
               PROVE  view'[k] # Absent
    OBVIOUS
  <2>1. CASE UNCHANGED values
    BY <2>1 DEF view, View
  <2>2. ASSUME NEW c \in Calls, AddStore(c) PROVE view'[k] # Absent
    <3>1. PICK order \in Sortings(Append(stores, c)) : stores' = order
      BY <2>2 DEF AddStore
    <3>2. order \in Seq(Calls) /\ ToSet(order) = ToSet(stores) \cup {c}
      BY <3>1, SortingsAreOrders, AppendStore DEF Inductive, TypeOK
    <3>3. Populate(c, c, order)
      BY <2>2, <3>1 DEF AddStore
    <3> QED
      BY <3>1, <3>2, <3>3, MergeKeepsKeys, CallsAreThreads
  <2>3. ASSUME NEW w \in Watchers, MergePath(w) PROVE view'[k] # Absent
    <3>1. target[w] \in Calls /\ stores \in Seq(Calls)
      BY DEF Inductive, TypeOK
    <3>2. Populate(w, target[w], stores) /\ stores' = stores
      BY <2>3 DEF MergePath
    <3> QED
      BY <3>1, <3>2, MergeKeepsKeys, CallsAreThreads
  <2>4. ASSUME NEW q \in Keys, NEW v \in Values, Set(q, v) PROVE view'[k] # Absent
    <3>1. CASE Contract!Overwrite(q, v)
      <4>1. view' = [view EXCEPT ![q] = v] /\ view \in Contents /\ v # Absent
        BY <3>1, ViewType, AbsentAssumption DEF Contract!Overwrite, Inductive, TypeOK, view
      <4> QED
        BY <4>1 DEF Contents
    <3>2. CASE UNCHANGED Visible
      BY <3>2 DEF Visible
    <3> QED
      BY <2>4, <3>1, <3>2, SetImplements
  <2> QED
    BY <2>1, <2>2, <2>3, <2>4 DEF Next, AddPath, CheckStore, Pull, PullFails, WatchPath,
         DispatchEvents, FindPath, OnEvents, RunCallback
<1> QED
  BY <1>1, InductiveAlways, PTL DEF Spec, KeysAreKept

-----------------------------------------------------------------------------
(***************************************************************************)
(* One AddPath at a time, which is how the manager calls it.               *)
(***************************************************************************)

(* The one call under way found no store of its path, and nobody has added *)
(* one since.                                                              *)
NotFound == \A c \in Calls : pc[c] \in {"pull", "add"} => ~Has(PathOf[c])

Serial == TypeOK /\ OneCall /\ NotFound /\ OneStorePerPath

(* No store comes twice in an order of a sequence in which none does.      *)
LEMMA SortingIsDistinct ==
    ASSUME NEW s \in Seq(Calls), Distinct(s), NEW order \in Sortings(s)
    PROVE  Distinct(order)
<1>1. order \in [1..Len(s) -> ToSet(s)] /\ ToSet(order) = ToSet(s)
  BY LenProperties DEF Sortings
<1> QED
  BY <1>1, RearrangedIsDistinct

LEMMA SerialInit == Init => Serial
<1> SUFFICES ASSUME Init PROVE Serial
  OBVIOUS
<1>1. TypeOK
  BY InductiveInit DEF Inductive
<1>2. OneCall /\ NotFound
  BY CallsAreThreads DEF Init, OneCall, NotFound
<1>3. OneStorePerPath
  BY DEF Init, OneStorePerPath
<1> QED
  BY <1>1, <1>2, <1>3 DEF Serial

(* Adding the store of a path that has none keeps one store per path.      *)
LEMMA AddStoreKeepsOne ==
    ASSUME Serial, NEW c \in Calls, AddStore(c)
    PROVE  OneStorePerPath'
<1>1. stores \in Seq(Calls) /\ stores' \in Sortings(Append(stores, c))
  BY DEF Serial, TypeOK, AddStore
<1>2. \A i, j \in DOMAIN stores : PathOf[stores[i]] = PathOf[stores[j]] => i = j
  BY DEF Serial, OneStorePerPath
<1>3. \A i \in DOMAIN stores : PathOf[stores[i]] # PathOf[c]
  BY DEF Serial, NotFound, Has, AddStore
<1> DEFINE more == Append(stores, c)
<1>4. /\ more \in Seq(Calls) /\ Len(stores) \in Nat
      /\ DOMAIN stores = 1..Len(stores) /\ DOMAIN more = 1..(Len(stores) + 1)
      /\ \A i \in 1..Len(stores) : more[i] = stores[i]
      /\ more[Len(stores) + 1] = c
  BY <1>1, LenProperties, AppendProperties
<1> HIDE DEF more
<1>5. \A i, j \in DOMAIN more : PathOf[more[i]] = PathOf[more[j]] => i = j
  <2> SUFFICES ASSUME NEW i \in DOMAIN more, NEW j \in DOMAIN more, PathOf[more[i]] = PathOf[more[j]]
               PROVE  i = j
    OBVIOUS
  <2>1. i \in DOMAIN stores \/ i = Len(stores) + 1
    BY <1>4
  <2>2. j \in DOMAIN stores \/ j = Len(stores) + 1
    BY <1>4
  <2> QED
    BY <1>2, <1>3, <1>4, <2>1, <2>2
<1>6. stores' \in Sortings(more) /\ Distinct(more)
  BY <1>1, <1>5 DEF more, Distinct
<1>7. Distinct(stores') /\ ToSet(stores') = ToSet(more)
  BY <1>4, <1>6, SortingIsDistinct, SortingsAreOrders
<1>8. \A x, y \in ToSet(more) : PathOf[x] = PathOf[y] => x = y
  BY <1>5 DEF ToSet
<1>9. \A i \in DOMAIN stores' : stores'[i] \in ToSet(more)
  BY <1>7 DEF ToSet
<1> QED
  BY <1>7, <1>8, <1>9 DEF OneStorePerPath, Distinct

LEMMA SerialNext == Serial /\ TypeOK' /\ [Next /\ OneCall']_vars => Serial'
<1> SUFFICES ASSUME Serial, TypeOK', [Next /\ OneCall']_vars PROVE Serial'
  OBVIOUS
<1> USE DEF Serial
<1>1. ASSUME UNCHANGED <<pc, stores>> PROVE Serial'
  BY <1>1 DEF OneCall, NotFound, Has, OneStorePerPath
<1>2. CASE UNCHANGED vars
  BY <1>1, <1>2 DEF vars
<1>3. CASE Next /\ OneCall'
  <2>0. pc \in [Threads -> {"start", "pull", "add", "watch", "report", "done", "idle", "merge"}]
        /\ Calls \subseteq Threads /\ Calls \cap Watchers = {} /\ Watchers \subseteq Threads
    BY CallsAssumption DEF TypeOK, Threads
  (* A step that adds no store, and makes no call look further than it     *)
  (* has found out, keeps everything.                                      *)
  <2>1. ASSUME UNCHANGED stores,
               \A c \in Calls : pc'[c] \in {"pull", "add"} => pc[c] \in {"pull", "add"} \/ ~Has(PathOf[c])
        PROVE  Serial'
    BY <1>3, <2>1 DEF NotFound, Has, OneStorePerPath
  <2>2. ASSUME NEW c \in Calls, CheckStore(c) PROVE Serial'
    BY <2>0, <2>1, <2>2 DEF CheckStore, Goto
  <2>3. ASSUME NEW c \in Calls, Pull(c) PROVE Serial'
    BY <2>0, <2>1, <2>3 DEF Pull, Goto
  <2>4. ASSUME NEW c \in Calls, PullFails(c) PROVE Serial'
    BY <2>0, <2>1, <2>4 DEF PullFails, Goto
  <2>5. ASSUME NEW c \in Calls, AddStore(c) PROVE Serial'
    <3>1. OneStorePerPath'
      BY <2>5, AddStoreKeepsOne
    <3>2. \A d \in Calls : pc'[d] \notin {"pull", "add"}
      <4>1. pc[c] = "add" /\ pc'[c] = "watch" /\ \A d \in Calls \ {c} : pc'[d] = pc[d]
        BY <2>0, <2>5 DEF AddStore, Goto
      <4> QED
        BY <4>1 DEF OneCall
    <3> QED
      BY <1>3, <3>1, <3>2 DEF NotFound
  <2>6. ASSUME NEW c \in Calls, WatchPath(c) PROVE Serial'
    BY <2>0, <2>1, <2>6 DEF WatchPath, Goto
  <2>7. ASSUME NEW t \in Threads, DispatchEvents(t) PROVE Serial'
    BY <2>0, <2>1, <2>7 DEF DispatchEvents, Goto
  <2>8. ASSUME NEW w \in Watchers, NEW c \in Calls, FindPath(w, c) PROVE Serial'
    BY <2>0, <2>1, <2>8 DEF FindPath, Goto
  <2>9. ASSUME NEW w \in Watchers, MergePath(w) PROVE Serial'
    BY <2>0, <2>1, <2>9 DEF MergePath, Goto
  <2>10. ASSUME NEW k \in Keys, NEW v \in Values, Set(k, v) PROVE Serial'
    BY <1>1, <2>10 DEF Set
  <2>11. ASSUME OnEvents PROVE Serial'
    BY <1>1, <2>11 DEF OnEvents
  <2>12. ASSUME NEW i \in DOMAIN inflight, RunCallback(i) PROVE Serial'
    BY <1>1, <2>12 DEF RunCallback
  <2> QED
    BY <1>3, <2>2, <2>3, <2>4, <2>5, <2>6, <2>7, <2>8, <2>9, <2>10, <2>11, <2>12 DEF Next, AddPath
<1> QED
  BY <1>2, <1>3

(* base.go:105-161, manager.go:106-115: with one AddPath at a time a path  *)
(* never has two stores, however many are added and watched, and in        *)
(* whatever order those of equal priority are sorted.                      *)
THEOREM OneStoreWhenSerial == SerialSpec => []OneStorePerPath
<1>1. SerialSpec => Spec
  BY PTL DEF SerialSpec, Spec
<1>2. SerialSpec => []TypeOK
  BY <1>1, TypeCorrect, PTL
<1>3. Serial => OneStorePerPath
  BY DEF Serial
<1> QED
  BY SerialInit, SerialNext, <1>2, <1>3, PTL DEF SerialSpec
=============================================================================
