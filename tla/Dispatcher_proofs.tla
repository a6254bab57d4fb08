------------------------- MODULE Dispatcher_proofs --------------------------
(***************************************************************************)
(* What is proved of the dispatcher, for any number of goroutines, watches *)
(* and batches: who hears of an event, how often and in which order.       *)
(***************************************************************************)
EXTENDS Dispatcher, SequenceTheorems, FiniteSetTheorems, TLAPS

Dispatched == [events : Seq(Keys), next : Nat, groups : [Handlers -> Seq(Keys)],
               got : [Handlers -> Seq(Keys)], always : SUBSET Wrapper, ever : SUBSET Wrapper]

Distinct(s) == \A i, j \in DOMAIN s : s[i] = s[j] => i = j
Place(events, k) == CHOOSE i \in DOMAIN events : events[i] = k

(* A sequence made of the events before the next one, in their order.      *)
Follows(seq, events, next) ==
    /\ \A i \in DOMAIN seq : \E p \in DOMAIN events : p < next /\ seq[i] = events[p]
    /\ \A i, j \in DOMAIN seq : i < j => Place(events, seq[i]) <= Place(events, seq[j])

Times(c, key) == [i \in 1..c |-> key]
Heard(r, k, h) == CountIn(k, r.groups[h]) + CountIn(k, r.got[h])

(* A handler is called once all events are looked up; its group is empty   *)
(* from then on.                                                           *)
CalledLast(r) == \A h \in Handlers : \/ r.got[h] = <<>>
                                     \/ r.groups[h] = <<>> /\ r.next > Len(r.events)

(* How often an event was heard of lies between the watches of always and  *)
(* those of ever, as soon as it is looked up.                              *)
Counted(r) == \A h \in Handlers :
    /\ \A k \in Keys : Heard(r, k, h) <= CountOf(k, h, r.ever)
    /\ \A p \in DOMAIN r.events :
          p < r.next => Heard(r, r.events[p], h) >= CountOf(r.events[p], h, r.always)

Good(r) ==
    /\ r.next \in 1..Len(r.events) + 1
    /\ Distinct(r.events)
    /\ \A h \in Handlers : /\ Follows(r.groups[h], r.events, r.next)
                           /\ Follows(r.got[h], r.events, r.next)
    /\ CalledLast(r) /\ Counted(r)
    /\ IsFiniteSet(r.ever)

Between(r, watches) == r.always \subseteq watches /\ watches \subseteq r.ever

Table == handlers \subseteq Wrapper /\ IsFiniteSet(handlers) /\ WatchesAreDistinct
Typed == batches \in 0..MaxBatches /\ run \in [Goroutines -> Dispatched \cup {NotRunning}]

Inductive ==
    /\ Table /\ Typed
    /\ \A g \in Running : Good(run[g]) /\ Between(run[g], handlers)

-----------------------------------------------------------------------------
LEMMA CountOfGrows ==
    ASSUME NEW S, NEW T, S \subseteq T, IsFiniteSet(T), NEW k, NEW h
    PROVE  /\ CountOf(k, h, S) \in Nat /\ CountOf(k, h, T) \in Nat
           /\ CountOf(k, h, S) <= CountOf(k, h, T)
<1> DEFINE Of(W) == {w \in W : w.handler = h /\ k \in Matches[w.pattern]}
<1>1. IsFiniteSet(Of(T)) /\ IsFiniteSet(Of(S))
  BY FS_Subset
<1>2. Of(S) \subseteq Of(T)
  OBVIOUS
<1> QED
  BY <1>1, <1>2, FS_Subset, FS_CardinalityType DEF CountOf

LEMMA CountInType ==
    ASSUME NEW seq \in Seq(Keys), NEW k
    PROVE  /\ IsFiniteSet({i \in DOMAIN seq : seq[i] = k}) /\ CountIn(k, seq) \in Nat
           /\ CountIn(k, seq) = 0 <=> k \notin ToSet(seq)
<1> DEFINE At == {i \in DOMAIN seq : seq[i] = k}
<1>1. IsFiniteSet(DOMAIN seq)
  BY LenProperties, FS_Interval
<1>2. IsFiniteSet(At)
  BY <1>1, FS_Subset
<1>3. At = {} <=> k \notin ToSet(seq)
  BY DEF ToSet
<1> QED
  BY <1>2, <1>3, FS_CardinalityType, FS_EmptySet DEF CountIn

LEMMA CountInConcat ==
    ASSUME NEW seq \in Seq(Keys), NEW key \in Keys, NEW c \in Nat, NEW k
    PROVE  /\ seq \o Times(c, key) \in Seq(Keys)
           /\ k = key => CountIn(k, seq \o Times(c, key)) = CountIn(k, seq) + c
           /\ k # key => CountIn(k, seq \o Times(c, key)) = CountIn(k, seq)
<1> DEFINE more == Times(c, key)
           n == Len(seq)
           Old == {i \in DOMAIN seq : seq[i] = k}
           New == IF k = key THEN n + 1..n + c ELSE {}
<1>1. more \in Seq(Keys) /\ Len(more) = c
  BY IsASeq, LenProperties DEF Times
<1>2. n \in Nat /\ DOMAIN seq = 1..n
  BY LenProperties
<1>3. /\ DOMAIN (seq \o more) = 1..n + c
      /\ \A i \in 1..n + c : (seq \o more)[i] = IF i <= n THEN seq[i] ELSE key
  <2>1. Len(seq \o more) = n + c /\ seq \o more \in Seq(Keys)
    BY <1>1, ConcatProperties
  <2>2. DOMAIN (seq \o more) = 1..n + c
    BY <2>1, LenProperties
  <2>3. \A i \in 1..n + c : (seq \o more)[i] = IF i <= n THEN seq[i] ELSE more[i - n]
    BY <1>1, ConcatProperties
  <2> QED
    BY <1>2, <2>2, <2>3 DEF Times
<1>4. {i \in DOMAIN (seq \o more) : (seq \o more)[i] = k} = Old \cup New
  BY <1>2, <1>3
<1>5. IsFiniteSet(Old)
  BY CountInType
<1>6. IsFiniteSet(New) /\ Cardinality(New) = IF k = key THEN c ELSE 0
  <2>1. IsFiniteSet(n + 1..n + c) /\ Cardinality(n + 1..n + c) = c
    <3>1. n + 1 \in Int /\ n + c \in Int
      BY <1>2
    <3>2. /\ IsFiniteSet(n + 1..n + c)
          /\ Cardinality(n + 1..n + c) = IF n + 1 > n + c THEN 0 ELSE (n + c) - (n + 1) + 1
      <4> HIDE DEF n
      <4> QED
        BY ONLY <3>1, FS_Interval
    <3> QED
      BY <1>2, <3>2
  <2>2. IsFiniteSet({}) /\ Cardinality({}) = 0
    BY FS_EmptySet
  <2> QED
    BY <2>1, <2>2
<1>7. Old \cap New = {}
  BY <1>2
<1>8. Cardinality(Old \cup New) = Cardinality(Old) + Cardinality(New)
  <2>1. Cardinality(Old \cap New) = 0
    BY <1>7, FS_EmptySet
  <2>2. Cardinality(Old) \in Nat /\ Cardinality(New) \in Nat
    BY <1>5, <1>6, FS_CardinalityType
  <2>3. Cardinality(Old \cup New)
          = Cardinality(Old) + Cardinality(New) - Cardinality(Old \cap New)
    <3> HIDE DEF Old, New
    <3> QED
      BY <1>5, <1>6, FS_Union
  <2> HIDE DEF Old, New
  <2> QED
    BY <2>1, <2>2, <2>3
<1>9. seq \o more \in Seq(Keys)
  BY <1>1, ConcatProperties
<1>10. CountIn(k, seq) \in Nat
  BY CountInType
<1> HIDE DEF Old, New, more
<1>11. CountIn(k, seq \o more) = CountIn(k, seq) + IF k = key THEN c ELSE 0
  BY <1>4, <1>6, <1>8 DEF CountIn, Old
<1> QED
  BY <1>9, <1>10, <1>11 DEF more

LEMMA Nothing ==
    /\ \A k : CountIn(k, <<>>) = 0
    /\ \A events, next : Follows(<<>>, events, next)
<1>1. \A k : {i \in DOMAIN <<>> : <<>>[i] = k} = {}
  OBVIOUS
<1> QED
  BY <1>1, FS_EmptySet DEF CountIn, Follows

LEMMA PlaceOfEvent ==
    ASSUME NEW events, Distinct(events), NEW p \in DOMAIN events
    PROVE  Place(events, events[p]) = p
  BY DEF Distinct, Place

(* What is put at the end of a sequence is the next event.                 *)
LEMMA FollowsOn ==
    ASSUME NEW events \in Seq(Keys), Distinct(events), NEW seq \in Seq(Keys), NEW c \in Nat,
           NEW next \in DOMAIN events, Follows(seq, events, next)
    PROVE  Follows(seq \o Times(c, events[next]), events, next + 1)
<1> DEFINE more == Times(c, events[next])
           n == Len(seq)
           all == seq \o more
<1>1. n \in Nat /\ DOMAIN seq = 1..n /\ DOMAIN events = 1..Len(events) /\ Len(events) \in Nat
  BY LenProperties
<1>2. events[next] \in Keys
  BY ElementOfSeq, LenProperties
<1>3. more \in Seq(Keys) /\ Len(more) = c
  BY <1>2, IsASeq, LenProperties DEF Times
<1>4. /\ DOMAIN all = 1..n + c
      /\ \A i \in 1..n + c : all[i] = IF i <= n THEN seq[i] ELSE events[next]
  <2>1. Len(all) = n + c /\ all \in Seq(Keys)
    BY <1>3, ConcatProperties
  <2>2. DOMAIN all = 1..n + c
    BY <2>1, LenProperties
  <2>3. \A i \in 1..n + c : all[i] = IF i <= n THEN seq[i] ELSE more[i - n]
    BY <1>3, ConcatProperties
  <2> QED
    BY <1>1, <2>2, <2>3 DEF Times
<1> HIDE DEF all, more, n
<1>5. \A i \in DOMAIN all : \E p \in DOMAIN events :
         p <= next /\ all[i] = events[p] /\ (i > n => p = next)
  BY <1>1, <1>4 DEF Follows
<1>6. ASSUME NEW i \in DOMAIN all, NEW j \in DOMAIN all, i < j
      PROVE  Place(events, all[i]) <= Place(events, all[j])
  <2>1. CASE j <= n
    <3>1. i \in DOMAIN seq /\ j \in DOMAIN seq /\ all[i] = seq[i] /\ all[j] = seq[j]
      BY <1>1, <1>4, <1>6, <2>1
    <3> QED
      BY <1>6, <3>1 DEF Follows
  <2>2. CASE j > n
    <3>1. PICK p \in DOMAIN events : p <= next /\ all[i] = events[p]
      BY <1>5
    <3>2. all[j] = events[next]
      BY <1>5, <2>2
    <3> QED
      BY <3>1, <3>2, PlaceOfEvent
  <2> QED
    BY <1>1, <1>4, <2>1, <2>2
<1>7. Follows(all, events, next + 1)
  BY <1>1, <1>5, <1>6 DEF Follows
<1> QED
  BY <1>7 DEF all, more

-----------------------------------------------------------------------------
LEMMA InductiveInit == Init => Inductive
<1> SUFFICES ASSUME Init PROVE Inductive
  OBVIOUS
<1>1. Table
  BY FS_EmptySet DEF Init, Table, WatchesAreDistinct
<1>2. Typed /\ Running = {}
  BY DispatcherAssumption DEF Init, Typed, Running
<1> QED
  BY <1>1, <1>2 DEF Inductive

LEMMA RunIsDispatched ==
    ASSUME Inductive, NEW g \in Running
    PROVE  g \in Goroutines /\ run[g] \in Dispatched /\ Good(run[g]) /\ Between(run[g], handlers)
  BY DEF Inductive, Typed, Running

(* A step of one goroutine is good if what it makes of its own Dispatch is.*)
LEMMA StepOfOne ==
    ASSUME Inductive, NEW g \in Goroutines, NEW r, run' = [run EXCEPT ![g] = r],
           r # NotRunning => r \in Dispatched /\ Good(r) /\ Between(r, handlers),
           handlers' = handlers, batches' \in 0..MaxBatches
    PROVE  Inductive'
<1>1. Typed'
  BY DEF Inductive, Typed
<1>2. Table'
  BY DEF Inductive, Table, WatchesAreDistinct
<1>3. ASSUME NEW x \in Running' PROVE Good(run'[x]) /\ Between(run'[x], handlers')
  <2>1. CASE x = g
    BY <1>3, <2>1 DEF Inductive, Typed, Running, Between
  <2>2. CASE x # g
    <3>1. x \in Running /\ run'[x] = run[x]
      BY <1>3, <2>2 DEF Inductive, Typed, Running
    <3> QED
      BY <3>1 DEF Inductive, Between
  <2> QED
    BY <2>1, <2>2
<1> QED
  BY <1>1, <1>2, <1>3 DEF Inductive, Between

(* More watches to count to, or fewer to count from, change nothing else.  *)
LEMMA LooserIsGood ==
    ASSUME NEW r \in Dispatched, Good(r), NEW always, NEW ever,
           always \subseteq r.always, r.ever \subseteq ever, IsFiniteSet(ever),
           r.always \subseteq r.ever,
           NEW q, q = [r EXCEPT !.always = always, !.ever = ever]
    PROVE  Good(q)
<1>1. /\ q.events = r.events /\ q.next = r.next /\ q.groups = r.groups /\ q.got = r.got
      /\ q.always = always /\ q.ever = ever
  BY DEF Dispatched
<1>2. ASSUME NEW h \in Handlers, NEW k \in Keys
      PROVE  Heard(q, k, h) = Heard(r, k, h) /\ Heard(r, k, h) \in Nat
  <2>1. r.groups[h] \in Seq(Keys) /\ r.got[h] \in Seq(Keys)
    BY DEF Dispatched
  <2>2. CountIn(k, r.groups[h]) \in Nat /\ CountIn(k, r.got[h]) \in Nat
    BY <2>1, CountInType
  <2> QED
    BY <1>1, <2>2 DEF Heard
<1>3. IsFiniteSet(r.ever) /\ IsFiniteSet(r.always)
  BY FS_Subset DEF Good
<1>4. ASSUME NEW h \in Handlers, NEW k \in Keys PROVE Heard(q, k, h) <= CountOf(k, h, q.ever)
  <2>1. Heard(r, k, h) <= CountOf(k, h, r.ever)
    BY DEF Good, Counted
  <2>2. CountOf(k, h, r.ever) <= CountOf(k, h, ever)
        /\ CountOf(k, h, r.ever) \in Nat /\ CountOf(k, h, ever) \in Nat
    BY CountOfGrows
  <2> QED
    BY <1>1, <1>2, <2>1, <2>2
<1>5. ASSUME NEW h \in Handlers, NEW p \in DOMAIN q.events, p < q.next
      PROVE  Heard(q, q.events[p], h) >= CountOf(q.events[p], h, q.always)
  <2> DEFINE k == r.events[p]
  <2>1. k \in Keys
    BY <1>1, <1>5, ElementOfSeq, LenProperties DEF Dispatched
  <2>2. Heard(r, k, h) >= CountOf(k, h, r.always)
    BY <1>1, <1>5 DEF Good, Counted
  <2>3. CountOf(k, h, always) <= CountOf(k, h, r.always)
        /\ CountOf(k, h, always) \in Nat /\ CountOf(k, h, r.always) \in Nat
    BY <1>3, CountOfGrows
  <2> QED
    BY <1>1, <1>2, <2>1, <2>2, <2>3
<1>6. Counted(q)
  BY <1>4, <1>5 DEF Counted
<1> QED
  BY <1>1, <1>6 DEF Good, CalledLast

LEMMA WatchKeeps ==
    ASSUME Inductive, NEW p \in Patterns, NEW h \in Handlers, Watch(p, h)
    PROVE  Inductive'
<1>1. PICK id \in Ids \ {w.id : w \in handlers} :
         LET w == [id |-> id, pattern |-> p, handler |-> h] IN
         /\ handlers' = handlers \cup {w}
         /\ run' = [g \in Goroutines |-> IF g \in Running
                       THEN [run[g] EXCEPT !.ever = @ \cup {w}] ELSE NotRunning]
  BY DEF Watch
<1> DEFINE w == [id |-> id, pattern |-> p, handler |-> h]
<1>2. w \in Wrapper /\ w.id = id /\ w.pattern = p /\ w.handler = h
  BY DEF Wrapper
<1>3. Table'
  <2>1. handlers' \subseteq Wrapper /\ IsFiniteSet(handlers')
    BY <1>1, <1>2, FS_AddElement DEF Inductive, Table
  <2>2. \A v \in handlers : v.id # id /\ (v.pattern # p \/ v.handler # h)
    BY DEF Watch
  <2>3. WatchesAreDistinct'
    BY <1>1, <1>2, <2>2 DEF Inductive, Table, WatchesAreDistinct
  <2> QED
    BY <2>1, <2>3 DEF Table
<1>4. ASSUME NEW g \in Running
      PROVE  run'[g] \in Dispatched /\ Good(run'[g]) /\ Between(run[g], handlers)
  <2> DEFINE r == run[g]
  <2>1. g \in Goroutines /\ r \in Dispatched /\ Good(r) /\ Between(r, handlers)
    BY RunIsDispatched
  <2>2. run'[g] = [r EXCEPT !.always = r.always, !.ever = r.ever \cup {w}]
    BY <1>1, <2>1 DEF Dispatched
  <2>3. IsFiniteSet(r.ever \cup {w})
    BY <2>1, FS_AddElement DEF Good
  <2>4. run'[g] \in Dispatched
    BY <1>2, <2>1, <2>2 DEF Dispatched
  <2>5. r.always \subseteq r.ever
    BY <2>1 DEF Between
  <2>6. Good(run'[g])
    <3> HIDE DEF r, w
    <3> QED
      BY <2>1, <2>2, <2>3, <2>5, LooserIsGood
  <2> QED
    BY <2>1, <2>4, <2>6
<1>5. Running' = Running \cap Running' /\ \A g \in Goroutines \ Running : run'[g] = NotRunning
  BY <1>1 DEF Running
<1>6. Typed'
  BY <1>1, <1>4, <1>5 DEF Inductive, Typed, Watch
<1>7. ASSUME NEW g \in Running' PROVE Good(run'[g]) /\ Between(run'[g], handlers')
  <2>1. g \in Running
    BY <1>5, <1>7
  <2>2. run[g] \in Dispatched /\ Between(run[g], handlers)
    BY <2>1, RunIsDispatched
  <2>3. run'[g].always = run[g].always /\ run'[g].ever = run[g].ever \cup {w}
    BY <1>1, <2>1, <2>2 DEF Dispatched, Running
  <2> QED
    BY <1>1, <1>4, <2>1, <2>2, <2>3 DEF Between
<1> QED
  BY <1>3, <1>6, <1>7 DEF Inductive, Between

LEMMA UnwatchKeeps ==
    ASSUME Inductive, NEW id \in Ids, Unwatch(id)
    PROVE  Inductive'
<1>1. handlers' \subseteq handlers
  BY DEF Unwatch
<1>2. Table'
  BY <1>1, FS_Subset DEF Inductive, Table, WatchesAreDistinct
<1>3. ASSUME NEW g \in Running
      PROVE  /\ run'[g] \in Dispatched /\ Good(run'[g])
             /\ run'[g].always \subseteq handlers' /\ handlers' \subseteq run'[g].ever
  <2> DEFINE r == run[g]
  <2>1. g \in Goroutines /\ r \in Dispatched /\ Good(r) /\ Between(r, handlers)
    BY RunIsDispatched
  <2>2. run'[g] = [r EXCEPT !.always = r.always \cap handlers', !.ever = r.ever]
    BY <2>1 DEF Unwatch, Dispatched
  <2>3. run'[g] \in Dispatched
    BY <2>1, <2>2 DEF Dispatched
  <2>4. Good(run'[g])
    <3>1. r.always \subseteq r.ever /\ IsFiniteSet(r.ever)
      BY <2>1 DEF Between, Good
    <3> HIDE DEF r
    <3> QED
      BY <2>1, <2>2, <3>1, LooserIsGood
  <2>5. run'[g].always = r.always \cap handlers' /\ run'[g].ever = r.ever
    BY <2>1, <2>2 DEF Dispatched
  <2> QED
    BY <1>1, <2>1, <2>3, <2>4, <2>5 DEF Between
<1>4. \A g \in Goroutines \ Running : run'[g] = NotRunning
  BY DEF Unwatch
<1>5. Typed'
  BY <1>3, <1>4 DEF Inductive, Typed, Unwatch
<1>6. Running' \subseteq Running
  BY <1>4 DEF Running
<1> QED
  BY <1>2, <1>3, <1>5, <1>6 DEF Inductive, Between

-----------------------------------------------------------------------------
LEMMA BatchIsDistinct ==
    ASSUME NEW events \in Batches
    PROVE  events \in Seq(Keys) /\ Distinct(events)
<1>1. PICK some \in SUBSET Keys : events \in SetToSeqs(some)
  BY DEF Batches
<1>2. Cardinality(some) \in Nat
  BY DispatcherAssumption, FS_Subset, FS_CardinalityType
<1>3. /\ events \in [1..Cardinality(some) -> Keys]
      /\ \A i, j \in 1..Cardinality(some) : i # j => events[i] # events[j]
  BY <1>1 DEF SetToSeqs
<1>4. events \in Seq(Keys)
  BY <1>2, <1>3, SeqDef
<1> QED
  BY <1>3, <1>4 DEF Distinct

LEMMA BeginIsGood ==
    ASSUME Inductive, NEW events \in Batches
    PROVE  /\ Begin(events) \in Dispatched /\ Good(Begin(events))
           /\ Between(Begin(events), handlers)
<1> DEFINE r == Begin(events)
<1>1. events \in Seq(Keys) /\ Distinct(events) /\ Len(events) \in Nat
  BY BatchIsDistinct, LenProperties
<1>2. NoEvents \in [Handlers -> Seq(Keys)] /\ \A h \in Handlers : NoEvents[h] = <<>>
  BY EmptySeq DEF NoEvents
<1>3. /\ r.events = events /\ r.next = 1 /\ r.groups = NoEvents /\ r.got = NoEvents
      /\ r.always = handlers /\ r.ever = handlers
  BY DEF Begin
<1>4. r \in Dispatched
  BY <1>1, <1>2 DEF Inductive, Table, Dispatched, Begin
<1>5. \A h \in Handlers : Follows(r.groups[h], r.events, r.next) /\ Follows(r.got[h], r.events, r.next)
  BY <1>2, <1>3 DEF Follows
<1>6. IsFiniteSet(handlers)
  BY DEF Inductive, Table
<1>7. Counted(r)
  <2>1. \A k \in Keys : CountIn(k, <<>>) = 0
    BY Nothing
  <2>2. \A h \in Handlers, k \in Keys : CountOf(k, h, handlers) \in Nat
    BY <1>6, CountOfGrows
  <2>3. \A h \in Handlers, k \in Keys : Heard(r, k, h) = 0
    BY <1>2, <1>3, <2>1 DEF Heard
  <2>4. \A p \in DOMAIN r.events : ~(p < r.next)
    BY <1>1, <1>3, LenProperties
  <2> HIDE DEF r
  <2> QED
    BY <1>3, <2>2, <2>3, <2>4 DEF Counted
<1>8. r.next \in 1..Len(r.events) + 1 /\ CalledLast(r)
  BY <1>1, <1>2, <1>3 DEF CalledLast
<1> QED
  BY <1>1, <1>3, <1>4, <1>5, <1>6, <1>7, <1>8 DEF Good, Between

LEMMA StartDispatchKeeps ==
    ASSUME Inductive, NEW g \in Goroutines, StartDispatch(g)
    PROVE  Inductive'
<1>1. PICK events \in Batches : run' = [run EXCEPT ![g] = Begin(events)]
  BY DEF StartDispatch
<1>2. handlers' = handlers /\ batches' \in 0..MaxBatches
  BY DispatcherAssumption DEF StartDispatch, Inductive, Typed
<1> QED
  BY <1>1, <1>2, BeginIsGood, StepOfOne

(* Looking an event up adds it to the groups of those who watch it now,    *)
(* who are among those of ever and include those of always.                *)
LEMMA LookUpIsGood ==
    ASSUME NEW r \in Dispatched, Good(r), Between(r, handlers), IsFiniteSet(handlers),
           r.next <= Len(r.events), NEW q,
           q.events = r.events, q.next = r.next + 1, q.got = r.got,
           q.always = r.always, q.ever = r.ever,
           \A h \in Handlers : q.groups[h] = r.groups[h] \o
                                   Times(Copies(r.events[r.next], h), r.events[r.next])
    PROVE  /\ \A h \in Handlers : q.groups[h] \in Seq(Keys)
           /\ Good(q) /\ Between(q, handlers)
<1> DEFINE n == r.next
           key == r.events[n]
<1> HIDE DEF n, key
<1>0. /\ n = r.next /\ key = r.events[n] /\ n <= Len(r.events) /\ q.next = n + 1
      /\ \A h \in Handlers : q.groups[h] = r.groups[h] \o Times(Copies(key, h), key)
  BY DEF n, key
<1>1. /\ r.events \in Seq(Keys) /\ n \in Nat /\ n \in DOMAIN r.events /\ key \in Keys
      /\ DOMAIN r.events = 1..Len(r.events) /\ Len(r.events) \in Nat
  BY <1>0, ElementOfSeq, LenProperties DEF Dispatched, Good
<1>2. \A h \in Handlers : Copies(key, h) = CountOf(key, h, handlers)
  BY <1>0 DEF Copies, CountOf, HandlersOf
<1>3. \A h \in Handlers : Copies(key, h) \in Nat
  BY <1>0, <1>2, CountOfGrows
<1>4. \A h \in Handlers : r.groups[h] \in Seq(Keys) /\ r.got[h] \in Seq(Keys)
  BY <1>0 DEF Dispatched
<1>5. ASSUME NEW h \in Handlers PROVE q.groups[h] \in Seq(Keys)
  <2>1. r.groups[h] \o Times(Copies(key, h), key) \in Seq(Keys)
    BY <1>0, <1>1, <1>3, <1>4, CountInConcat
  <2> QED
    BY <1>0, <2>1
<1>6. ASSUME NEW h \in Handlers
      PROVE  Follows(q.groups[h], q.events, q.next) /\ r.got[h] = <<>> /\ q.got[h] = <<>>
  <2>1. r.got[h] = <<>>
    BY <1>0, <1>1 DEF Good, CalledLast
  <2>2. Follows(r.groups[h], r.events, n) /\ Distinct(r.events)
    BY <1>0 DEF Good
  <2>3. Follows(r.groups[h] \o Times(Copies(key, h), key), r.events, n + 1)
    BY <1>0, <1>1, <1>3, <1>4, <2>2, FollowsOn
  <2> QED
    BY <1>0, <2>1, <2>3
<1>7. ASSUME NEW h \in Handlers, NEW k \in Keys
      PROVE  /\ Heard(r, k, h) \in Nat
             /\ Heard(q, k, h) = Heard(r, k, h) + IF k = key THEN Copies(key, h) ELSE 0
  <2>1. CountIn(k, r.groups[h]) \in Nat /\ CountIn(k, r.got[h]) \in Nat
    BY <1>0, <1>4, CountInType
  <2>2. CountIn(k, q.groups[h]) = CountIn(k, r.groups[h]) + IF k = key THEN Copies(key, h) ELSE 0
    <3> DEFINE c == Copies(key, h)
               seq == r.groups[h]
    <3>1. c \in Nat /\ seq \in Seq(Keys) /\ key \in Keys /\ q.groups[h] = seq \o Times(c, key)
      BY <1>0, <1>1, <1>3, <1>4
    <3>2. CountIn(k, q.groups[h]) = CountIn(k, seq) + IF k = key THEN c ELSE 0
      <4> HIDE DEF c, seq
      <4>1. k = key => CountIn(k, seq \o Times(c, key)) = CountIn(k, seq) + c
        BY ONLY <3>1, CountInConcat
      <4>2. k # key => CountIn(k, seq \o Times(c, key)) = CountIn(k, seq)
        BY ONLY <3>1, CountInConcat
      <4>3. CountIn(k, seq) \in Nat
        BY <3>1, CountInType
      <4> QED
        BY <3>1, <4>1, <4>2, <4>3
    <3> QED
      BY <3>2
  <2> QED
    BY <1>0, <1>3, <2>1, <2>2 DEF Heard
<1>8. ASSUME NEW h \in Handlers PROVE Heard(r, key, h) = 0
  <2>1. \A i \in DOMAIN r.groups[h] : r.groups[h][i] # key
    BY <1>0, <1>1 DEF Good, Follows, Distinct
  <2>2. key \notin ToSet(r.groups[h])
    BY <1>0, <2>1 DEF ToSet
  <2>4. CountIn(key, r.groups[h]) = 0
    BY <1>0, <1>4, <2>2, CountInType
  <2>5. CountIn(key, r.got[h]) = 0
    BY <1>0, <1>6, Nothing
  <2> QED
    BY <1>0, <2>4, <2>5 DEF Heard
<1>9. ASSUME NEW h \in Handlers
       PROVE  /\ CountOf(key, h, handlers) \in Nat
              /\ CountOf(key, h, r.always) \in Nat /\ CountOf(key, h, r.ever) \in Nat
              /\ CountOf(key, h, r.always) <= CountOf(key, h, handlers)
              /\ CountOf(key, h, handlers) <= CountOf(key, h, r.ever)
  <2>1. r.always \subseteq handlers /\ handlers \subseteq r.ever /\ IsFiniteSet(r.ever)
    BY <1>0 DEF Between, Good
  <2>2. CountOf(key, h, r.always) \in Nat /\ CountOf(key, h, r.always) <= CountOf(key, h, handlers)
    BY <1>0, <2>1, CountOfGrows
  <2>3. /\ CountOf(key, h, handlers) \in Nat /\ CountOf(key, h, r.ever) \in Nat
        /\ CountOf(key, h, handlers) <= CountOf(key, h, r.ever)
    BY <1>0, <2>1, CountOfGrows
  <2> QED
    BY <1>0, <2>2, <2>3
<1>10. ASSUME NEW h \in Handlers, NEW k \in Keys PROVE Heard(q, k, h) <= CountOf(k, h, q.ever)
  <2>1. CASE k = key
    BY <1>0, <1>2, <1>7, <1>8, <1>9, <2>1
  <2>2. CASE k # key
    <3>1. Heard(r, k, h) <= CountOf(k, h, r.ever)
      BY <1>0 DEF Good, Counted
    <3> QED
      BY <1>0, <1>7, <2>2, <3>1
  <2> QED
    BY <1>0, <2>1, <2>2
<1>11. ASSUME NEW h \in Handlers, NEW p \in DOMAIN q.events, p < q.next
       PROVE  Heard(q, q.events[p], h) >= CountOf(q.events[p], h, q.always)
  <2>1. CASE p = n
    BY <1>0, <1>1, <1>2, <1>7, <1>8, <1>9, <2>1
  <2>2. CASE p # n
    <3>1. p \in DOMAIN r.events /\ p < n
      BY <1>0, <1>1, <1>11, <2>2
    <3>2. r.events[p] # key /\ r.events[p] \in Keys
      BY <1>0, <1>1, <3>1, <2>2, ElementOfSeq DEF Good, Distinct
    <3>3. Heard(r, r.events[p], h) >= CountOf(r.events[p], h, r.always)
      BY <1>0, <3>1 DEF Good, Counted
    <3> QED
      BY <1>0, <1>7, <3>2, <3>3
  <2> QED
    BY <1>0, <2>1, <2>2
<1>12. Counted(q)
  BY <1>0, <1>10, <1>11 DEF Counted
<1>13. /\ q.next \in 1..Len(q.events) + 1 /\ CalledLast(q)
       /\ \A h \in Handlers : Follows(q.got[h], q.events, q.next)
  <2>1. \A h \in Handlers : Follows(q.got[h], q.events, q.next)
    BY <1>0, <1>6, Nothing
  <2>2. q.next \in 1..Len(q.events) + 1
    BY <1>0, <1>1 DEF Good
  <2> QED
    BY <1>0, <1>6, <2>1, <2>2 DEF CalledLast
<1> QED
  BY <1>0, <1>5, <1>6, <1>12, <1>13 DEF Good, Between

LEMMA LookUpKeeps ==
    ASSUME Inductive, NEW g \in Goroutines, LookUp(g)
    PROVE  Inductive'
<1> DEFINE r == run[g]
           key == r.events[r.next]
           q == [r EXCEPT !.next = r.next + 1,
                          !.groups = [h \in Handlers |-> r.groups[h] \o [i \in 1..Copies(key, h) |-> key]]]
<1>1. g \in Running /\ r \in Dispatched /\ Good(r) /\ Between(r, handlers) /\ r.next <= Len(r.events)
  BY RunIsDispatched DEF LookUp
<1>2. run' = [run EXCEPT ![g] = q]
  BY <1>1 DEF LookUp, Inductive, Typed, Dispatched
<1>3. IsFiniteSet(handlers) /\ handlers' = handlers /\ batches' \in 0..MaxBatches
  BY DEF LookUp, Inductive, Table, Typed
<1>4. /\ q.events = r.events /\ q.next = r.next + 1 /\ q.got = r.got
      /\ q.always = r.always /\ q.ever = r.ever
      /\ q.groups = [h \in Handlers |-> r.groups[h] \o Times(Copies(key, h), key)]
  BY <1>1 DEF Dispatched, Times
<1>5. (\A h \in Handlers : q.groups[h] \in Seq(Keys)) /\ Good(q) /\ Between(q, handlers)
  <2>1. \A h \in Handlers : q.groups[h] = r.groups[h] \o
            Times(Copies(r.events[r.next], h), r.events[r.next])
    <3> HIDE DEF q, r
    <3> QED
      BY <1>4
  <2> HIDE DEF r, q
  <2> QED
    BY <1>1, <1>3, <1>4, <2>1, LookUpIsGood
<1>6. q \in Dispatched
  <2> DEFINE groups == [h \in Handlers |-> r.groups[h] \o [i \in 1..Copies(key, h) |-> key]]
  <2>1. groups \in [Handlers -> Seq(Keys)]
    <3>1. q.groups = groups
      BY <1>4 DEF Times
    <3>2. \A h \in Handlers : groups[h] \in Seq(Keys)
      <4> HIDE DEF q, groups
      <4> QED
        BY <1>5, <3>1
    <3> QED
      BY <3>2
  <2>2. r.next + 1 \in Nat
    BY <1>1 DEF Dispatched
  <2>3. [r EXCEPT !.next = r.next + 1, !.groups = groups] \in Dispatched
    <3> DEFINE next == r.next + 1
    <3> HIDE DEF groups, r, q, next
    <3>1. [r EXCEPT !.next = next, !.groups = groups] \in Dispatched
      BY <1>1, <2>1, <2>2 DEF Dispatched, next
    <3> QED
      BY <3>1 DEF next
  <2> QED
    BY <2>3
<1> HIDE DEF q
<1> QED
  BY <1>2, <1>3, <1>5, <1>6, StepOfOne

(* A call of a handler moves its group to what it got.                     *)
LEMMA DeliverIsGood ==
    ASSUME NEW r \in Dispatched, Good(r), r.next > Len(r.events),
           NEW h \in Handlers, r.groups[h] # <<>>,
           NEW q, q.events = r.events, q.next = r.next, q.always = r.always, q.ever = r.ever,
           \A x \in Handlers : q.got[x] = IF x = h THEN r.groups[h] ELSE r.got[x],
           \A x \in Handlers : q.groups[x] = IF x = h THEN <<>> ELSE r.groups[x]
    PROVE  Good(q)
<1>1. r.got[h] = <<>>
  BY DEF Good, CalledLast
<1>2. ASSUME NEW x \in Handlers, NEW k \in Keys PROVE Heard(q, k, x) = Heard(r, k, x)
  <2>1. CASE x = h
    <3>1. CountIn(k, r.groups[h]) \in Nat
      BY CountInType DEF Dispatched
    <3> QED
      BY <1>1, <2>1, <3>1, Nothing DEF Heard
  <2>2. CASE x # h
    BY <2>2 DEF Heard
  <2> QED
    BY <2>1, <2>2
<1>3. Counted(q)
  <2>1. \A p \in DOMAIN r.events : r.events[p] \in Keys
    BY ElementOfSeq, LenProperties DEF Dispatched
  <2> QED
    BY <1>2, <2>1 DEF Good, Counted
<1>4. \A x \in Handlers : Follows(q.groups[x], q.events, q.next) /\ Follows(q.got[x], q.events, q.next)
  BY Nothing DEF Good
<1>5. CalledLast(q)
  BY DEF Good, CalledLast
<1> QED
  BY <1>3, <1>4, <1>5 DEF Good

LEMMA DeliverKeeps ==
    ASSUME Inductive, NEW g \in Goroutines, NEW h \in Handlers, Deliver(g, h)
    PROVE  Inductive'
<1> DEFINE r == run[g]
           got == [r.got EXCEPT ![h] = r.groups[h]]
           groups == [r.groups EXCEPT ![h] = <<>>]
           q == [r EXCEPT !.got = got, !.groups = groups]
<1>1. /\ g \in Running /\ r \in Dispatched /\ Good(r) /\ Between(r, handlers)
      /\ r.next > Len(r.events) /\ r.groups[h] # <<>>
  BY RunIsDispatched DEF Deliver, LookedUp, ToCall
<1>2. run' = [run EXCEPT ![g] = q]
  BY <1>1 DEF Deliver, Inductive, Typed, Dispatched
<1>3. handlers' = handlers /\ batches' \in 0..MaxBatches
  BY DEF Deliver, Inductive, Typed
<1>4. got \in [Handlers -> Seq(Keys)] /\ groups \in [Handlers -> Seq(Keys)]
  BY <1>1, EmptySeq DEF Dispatched
<1>5. /\ \A x \in Handlers : got[x] = IF x = h THEN r.groups[h] ELSE r.got[x]
      /\ \A x \in Handlers : groups[x] = IF x = h THEN <<>> ELSE r.groups[x]
  BY <1>1 DEF Dispatched
<1> HIDE DEF r, got, groups
<1>6. /\ q.events = r.events /\ q.next = r.next /\ q.always = r.always /\ q.ever = r.ever
      /\ q.got = got /\ q.groups = groups
  BY <1>1 DEF Dispatched
<1>7. q \in Dispatched
  BY <1>1, <1>4 DEF Dispatched
<1> HIDE DEF q
<1>8. Good(q)
  BY <1>1, <1>5, <1>6, DeliverIsGood
<1>9. Between(q, handlers)
  BY <1>1, <1>6 DEF Between
<1> QED
  BY <1>2, <1>3, <1>7, <1>8, <1>9, StepOfOne

LEMMA EndKeeps ==
    ASSUME Inductive, NEW g \in Goroutines, run' = [run EXCEPT ![g] = NotRunning],
           UNCHANGED <<handlers, batches>>
    PROVE  Inductive'
  BY StepOfOne DEF Inductive, Typed

LEMMA InductiveStep == Inductive /\ [Next]_vars => Inductive'
<1> SUFFICES ASSUME Inductive, [Next]_vars PROVE Inductive'
  OBVIOUS
<1>1. CASE UNCHANGED vars
  BY <1>1 DEF vars, Inductive, Table, WatchesAreDistinct, Typed, Running
<1>2. CASE \E p \in Patterns, h \in Handlers : Watch(p, h)
  BY <1>2, WatchKeeps
<1>3. CASE \E id \in Ids : Unwatch(id)
  BY <1>3, UnwatchKeeps
<1>4. ASSUME NEW g \in Goroutines, StartDispatch(g) \/ Dispatch(g) PROVE Inductive'
  <2>1. CASE StartDispatch(g)
    BY <2>1, StartDispatchKeeps
  <2>2. CASE LookUp(g)
    BY <2>2, LookUpKeeps
  <2>3. ASSUME NEW h \in Handlers, Deliver(g, h) PROVE Inductive'
    BY <2>3, DeliverKeeps
  <2>4. CASE Return(g) \/ \E h \in Handlers : Panic(g, h)
    BY <2>4, EndKeeps DEF Return, Panic
  <2> QED
    BY <1>4, <2>1, <2>2, <2>3, <2>4 DEF Dispatch
<1> QED
  BY <1>1, <1>2, <1>3, <1>4 DEF Next

(* event.go:57-111: the strengthening the theorems below rest on holds in  *)
(* every reachable state.                                                  *)
THEOREM AlwaysInductive == Spec => []Inductive
<1>1. Init => Inductive
  BY InductiveInit
<1>2. Inductive /\ [Next]_vars => Inductive'
  BY InductiveStep
<1> QED
  BY <1>1, <1>2, PTL DEF Spec

-----------------------------------------------------------------------------
LEMMA TypesOfInductive == Inductive => TypeOK
<1> SUFFICES ASSUME Inductive PROVE TypeOK
  OBVIOUS
<1>1. \A g \in Running : run[g] \in Dispatched /\ run[g].next \in 1..Len(run[g].events) + 1
  BY RunIsDispatched DEF Good
<1> QED
  BY <1>1 DEF Inductive, Table, Typed, TypeOK, Dispatched

LEMMA CountsOfInductive == Inductive => DeliversToWatchers
<1> SUFFICES ASSUME Inductive, NEW g \in Running, NEW h \in Handlers, NEW k \in Keys, LookedUp(g)
             PROVE  /\ Heard(run[g], k, h) <= CountOf(k, h, run[g].ever)
                    /\ k \in ToSet(run[g].events) =>
                          Heard(run[g], k, h) >= CountOf(k, h, run[g].always)
  BY DEF DeliversToWatchers, ToCall, Heard
<1>1. run[g] \in Dispatched /\ Counted(run[g])
  BY RunIsDispatched DEF Good
<1>2. \A p \in DOMAIN run[g].events : p < run[g].next
  BY <1>1, LenProperties DEF LookedUp, Dispatched
<1> QED
  BY <1>1, <1>2 DEF Counted, ToSet

LEMMA OrderOfInductive == Inductive => CompleteAndInOrder
<1> SUFFICES ASSUME Inductive, NEW g \in Running, LookedUp(g), ToCall(g) = {},
                    NEW h \in Handlers \ {NilHandler}
             PROVE  /\ \A k \in ToSet(run[g].events) :
                          CountOf(k, h, run[g].always) > 0 => k \in ToSet(run[g].got[h])
                    /\ \A i, j \in DOMAIN run[g].got[h] : i < j =>
                          Place(run[g].events, run[g].got[h][i])
                             <= Place(run[g].events, run[g].got[h][j])
  BY DEF CompleteAndInOrder, Place
<1> DEFINE r == run[g]
<1>1. r \in Dispatched /\ Good(r) /\ Between(r, handlers)
  BY RunIsDispatched
<1>2. r.groups[h] = <<>>
  BY DEF ToCall
<1> HIDE DEF r
<1>3. ASSUME NEW k \in ToSet(r.events), CountOf(k, h, r.always) > 0
      PROVE  k \in ToSet(r.got[h])
  <2>1. PICK p \in DOMAIN r.events : k = r.events[p]
    BY DEF ToSet
  <2>2. p < r.next /\ k \in Keys
    BY <1>1, <2>1, ElementOfSeq, LenProperties DEF LookedUp, Dispatched, r
  <2>3. Heard(r, k, h) >= CountOf(k, h, r.always)
    BY <1>1, <2>1, <2>2 DEF Good, Counted
  <2>4. CountOf(k, h, r.always) \in Nat
    BY <1>1, CountOfGrows DEF Between, Good
  <2>5. r.got[h] \in Seq(Keys) /\ CountIn(k, r.got[h]) \in Nat
    BY <1>1, CountInType DEF Dispatched
  <2>6. Heard(r, k, h) = CountIn(k, r.got[h])
    BY <1>2, <2>5, Nothing DEF Heard
  <2>7. CountIn(k, r.got[h]) # 0
    BY <1>3, <2>3, <2>4, <2>5, <2>6
  <2> QED
    BY <2>5, <2>7, CountInType
<1> QED
  BY <1>1, <1>3 DEF Good, Follows, r

(* event.go: every watch, every Dispatch under way and what it carries has *)
(* its type, and a Dispatch never looks beyond its batch.                  *)
THEOREM TypesAreKept == Spec => []TypeOK
  BY AlwaysInductive, TypesOfInductive, PTL

(* event.go:57-79: watches have ids of their own, and a handler watches a  *)
(* pattern at most once.                                                   *)
THEOREM WatchesStayDistinct == Spec => []WatchesAreDistinct
<1>1. Inductive => WatchesAreDistinct
  BY DEF Inductive, Table
<1> QED
  BY <1>1, AlwaysInductive, PTL

(* event.go:81-111: a handler hears of an event at least once for every    *)
(* watch that stood throughout, at most once for every one that stood at   *)
(* some time, whatever is watched, unwatched and dispatched meanwhile.     *)
THEOREM HeardByWatchers == Spec => []DeliversToWatchers
  BY AlwaysInductive, CountsOfInductive, PTL

(* event.go:93-111: a Dispatch that ends has called every handler that     *)
(* watched throughout, with the events in the batch's order.               *)
THEOREM HeardInOrder == Spec => []CompleteAndInOrder
  BY AlwaysInductive, OrderOfInductive, PTL
=============================================================================
