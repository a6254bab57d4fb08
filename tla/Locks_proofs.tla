---------------------------- MODULE Locks_proofs ----------------------------
(***************************************************************************)
(* Nobody waits in a circle, and handlers run with no lock held, for any   *)
(* number of goroutines and sources and clients of every kind.             *)
(*                                                                         *)
(* The argument: every operation keeps a discipline.  It lets go of what   *)
(* it takes, takes locks only in the order of Rank and calls handlers with *)
(* nothing.  Being put together of parts that do (one after another, or    *)
(* one inside a section under a lock) is enough, so this is shown along    *)
(* the definitions of the operations.  A thread in the middle of one then  *)
(* has what the rest of its steps can begin with, whatever others do.      *)
(***************************************************************************)
EXTENDS Locks, Sequence_lemmas

(* What a thread has: how often each lock for reading, which for writing.  *)
Held == [reads : [Locks -> Nat], writes : SUBSET Locks]
Free == [reads |-> [l \in Locks |-> 0], writes |-> {}]
Has(h, l) == h.reads[l] > 0 \/ l \in h.writes

(* The manager's mutex comes first, then a client's, then its source's; the *)
(* dispatcher's is never held with another.                                *)
Rank(l) == CASE l.of = "manager" -> 2 [] l.of = "client" -> 3 [] l.of = "source" -> 4
             [] OTHER -> 5

Acquires(st) == st.do \in {"rlock", "lock"}
OnLock(st)   == st.do \in {"rlock", "runlock", "lock", "unlock"}

(* An expansion handler of the program that calls Get.                     *)
Again(st) == ReadsAgain /\ st.do \in {"rlock", "runlock"} /\ st.on = Manager

(* What a thread that has h may do next, and what it has then.             *)
Allowed(h, st) ==
    /\ Acquires(st) => \A l \in Locks : Has(h, l) =>
                           \/ Rank(l) < Rank(st.on)
                           \/ Again(st) /\ l = Manager /\ l \notin h.writes
    /\ st.do = "runlock" => h.reads[st.on] > 0
    /\ st.do = "unlock"  => st.on \in h.writes
    /\ st.do = "call"    => h = Free

After(h, st) ==
    [reads  |-> [l \in Locks |-> IF l = st.on /\ st.do = "rlock"   THEN h.reads[l] + 1
                                 ELSE IF l = st.on /\ st.do = "runlock" THEN h.reads[l] - 1
                                 ELSE h.reads[l]],
     writes |-> IF st.do = "lock" THEN h.writes \cup {st.on}
                ELSE IF st.do = "unlock" THEN h.writes \ {st.on} ELSE h.writes]

(* With what a thread may find itself that still has to do certain steps,  *)
(* if it can always go on and in the end has nothing.                      *)
Plans == [Seq(Step) -> SUBSET Held]
GoesWell(plan) ==
    \A s \in Seq(Step) : \A h \in plan[s] :
        IF s = <<>> THEN h = Free
        ELSE Allowed(h, Head(s)) /\ After(h, Head(s)) \in plan[Tail(s)]

Disciplined(s, h) == \E plan \in Plans : GoesWell(plan) /\ h \in plan[s]

(* Steps that take locks beyond level n only, and call nobody meanwhile;   *)
(* the manager's mutex is beyond level 1 for those who read it again.      *)
Beyond(n) ==
    {st \in Step : IF OnLock(st) THEN Rank(st.on) > n /\ (st.on = Manager /\ n = 1 => Again(st))
                   ELSE st.do = "call" => n = 0}

HeldBeyond(n) ==
    {h \in Held : \A l \in Locks :
        /\ h.reads[l] > 0 => Rank(l) > n
        /\ l \in h.writes => Rank(l) > n /\ (l = Manager => n # 1)}

(* Operations that begin and end with nothing held.                        *)
Within(plan, n) ==
    \A s \in Seq(Step) : \A h \in plan[s] : s \in Seq(Beyond(n)) /\ h \in HeldBeyond(n)

Balanced(n) ==
    {s \in Seq(Beyond(n)) :
        \E plan \in Plans : GoesWell(plan) /\ Within(plan, n) /\ Free \in plan[s]}

-----------------------------------------------------------------------------
(* Sequences of steps.                                                     *)

LEMMA HeadOfConcat ==
    ASSUME NEW S, NEW a \in Seq(S), NEW b \in Seq(S), a # <<>>
    PROVE  /\ a \o b # <<>> /\ Head(a \o b) = Head(a) /\ Tail(a \o b) = Tail(a) \o b
           /\ a \o b \in Seq(S) /\ Tail(a) \in Seq(S) /\ Head(a) \in S
<1>1. Len(a) \in Nat \ {0} /\ Len(b) \in Nat /\ Len(a \o b) = Len(a) + Len(b) /\ a \o b \in Seq(S)
  BY EmptySeq, LenProperties, ConcatProperties
<1>2. Tail(a) \in Seq(S) /\ Head(a) \in S /\ Len(Tail(a)) = Len(a) - 1
  BY HeadTailProperties
<1>3. a \o b # <<>>
  BY <1>1, EmptySeq
<1>4. Head(a \o b) = Head(a)
  BY <1>1, ConcatProperties
<1>5. Tail(a \o b) = Tail(a) \o b
  <2>1. Tail(a \o b) \in Seq(S) /\ Tail(a) \o b \in Seq(S)
    BY <1>1, <1>2, <1>3, HeadTailProperties, ConcatProperties
  <2>2. Len(Tail(a \o b)) = Len(a) + Len(b) - 1 /\ Len(Tail(a) \o b) = Len(a) + Len(b) - 1
    BY <1>1, <1>2, <1>3, HeadTailProperties, ConcatProperties
  <2>3. ASSUME NEW i \in 1..Len(Tail(a \o b)) PROVE Tail(a \o b)[i] = (Tail(a) \o b)[i]
    <3>1. i \in Nat /\ i >= 1 /\ i <= Len(a) + Len(b) - 1
      BY <1>1, <2>2
    <3>2. Tail(a \o b)[i] = (a \o b)[i + 1]
      BY <1>1, <1>3, HeadTailProperties
    <3>3. (a \o b)[i + 1] = IF i + 1 <= Len(a) THEN a[i + 1] ELSE b[i + 1 - Len(a)]
      BY <1>1, <3>1, ConcatProperties
    <3>4. (Tail(a) \o b)[i] = IF i <= Len(a) - 1 THEN Tail(a)[i] ELSE b[i - (Len(a) - 1)]
      BY <1>1, <1>2, <3>1, ConcatProperties
    <3>5. i <= Len(a) - 1 => Tail(a)[i] = a[i + 1]
      BY <1>1, <1>2, <3>1, HeadTailProperties
    <3> QED
      BY <1>1, <3>1, <3>2, <3>3, <3>4, <3>5
  <2> QED
    BY <2>1, <2>2, <2>3, SeqEqual
<1> QED
  BY <1>1, <1>2, <1>3, <1>4, <1>5

LEMMA HeadOfOne ==
    ASSUME NEW S, NEW x \in S, NEW b \in Seq(S)
    PROVE  /\ <<x>> \o b \in Seq(S) /\ <<x>> \o b # <<>>
           /\ Head(<<x>> \o b) = x /\ Tail(<<x>> \o b) = b
<1>1. <<x>> \in Seq(S) /\ <<x>> # <<>> /\ Head(<<x>>) = x /\ Tail(<<x>>) = <<>>
  OBVIOUS
<1> QED
  BY <1>1, HeadOfConcat, ConcatEmptySeq

LEMMA StepTypes ==
    ASSUME NEW st \in Step
    PROVE  /\ st.do \in {"rlock", "runlock", "lock", "unlock", "wait", "go", "call"}
           /\ OnLock(st) => st.on \in Locks
BY DEF Step, OnLock

LEMMA AfterTypes ==
    ASSUME NEW st \in Step, NEW h \in Held, Acquires(st) \/ Allowed(h, st)
    PROVE  After(h, st) \in Held
<1>1. /\ h.reads \in [Locks -> Nat] /\ h.writes \in SUBSET Locks
  BY DEF Held
<1>2. ASSUME NEW l \in Locks
      PROVE  (IF l = st.on /\ st.do = "rlock"   THEN h.reads[l] + 1
              ELSE IF l = st.on /\ st.do = "runlock" THEN h.reads[l] - 1
              ELSE h.reads[l]) \in Nat
  BY <1>1 DEF Allowed, Acquires
<1>3. (IF st.do = "lock" THEN h.writes \cup {st.on}
       ELSE IF st.do = "unlock" THEN h.writes \ {st.on} ELSE h.writes) \in SUBSET Locks
  BY <1>1, StepTypes DEF OnLock
<1> QED
  BY <1>2, <1>3 DEF After, Held

LEMMA FreeType == Free \in Held
BY DEF Free, Held

-----------------------------------------------------------------------------
(* The ways operations are put together keep the discipline.               *)

LEMMA FreeIsBeyond == ASSUME NEW n \in Nat PROVE Free \in HeldBeyond(n)
BY FreeType DEF HeldBeyond, Free

LEMMA NothingIsBalanced == ASSUME NEW n \in Nat PROVE <<>> \in Balanced(n)
<1> DEFINE plan == [s \in Seq(Step) |-> IF s = <<>> THEN {Free} ELSE {}]
<1>1. plan \in Plans
  BY FreeType DEF Plans
<1>2. \A s \in Seq(Step) : plan[s] = IF s = <<>> THEN {Free} ELSE {}
  OBVIOUS
<1>3. <<>> \in Seq(Step) /\ <<>> \in Seq(Beyond(n))
  BY EmptySeq
<1> HIDE DEF plan
<1>4. GoesWell(plan)
  BY <1>2 DEF GoesWell
<1>5. Within(plan, n)
  BY <1>2, <1>3, FreeIsBeyond DEF Within
<1>6. Free \in plan[<<>>]
  BY <1>2, <1>3
<1> QED
  BY <1>1, <1>3, <1>4, <1>5, <1>6 DEF Balanced

LEMMA BeyondLess ==
    ASSUME NEW n \in Nat, NEW m \in Nat, n <= m
    PROVE  /\ Beyond(m) \subseteq Beyond(n) /\ HeldBeyond(m) \subseteq HeldBeyond(n)
           /\ Balanced(m) \subseteq Balanced(n)
<1>1. \A l : Rank(l) \in 2..5
  BY DEF Rank
<1>2. Rank(Manager) = 2
  BY DEF Rank, Manager
<1>3. Beyond(m) \subseteq Beyond(n)
  BY <1>1, <1>2 DEF Beyond
<1>4. HeldBeyond(m) \subseteq HeldBeyond(n)
  BY <1>1, <1>2 DEF HeldBeyond
<1>5. \A s \in Seq(Beyond(m)) : s \in Seq(Beyond(n))
  BY <1>3, SeqMonotonic
<1>6. ASSUME NEW s \in Balanced(m) PROVE s \in Balanced(n)
  <2>1. PICK plan \in Plans : GoesWell(plan) /\ Within(plan, m) /\ Free \in plan[s]
    BY DEF Balanced
  <2>2. Within(plan, n)
    BY <1>4, <1>5, <2>1 DEF Within
  <2> QED
    BY <1>5, <2>1, <2>2 DEF Balanced
<1> QED
  BY <1>3, <1>4, <1>6

LEMMA ConcatGoesWell ==
    ASSUME NEW a \in Seq(Step), NEW b \in Seq(Step), NEW h, NEW n \in Nat, b \in Seq(Beyond(n)),
           NEW first \in Plans, GoesWell(first), Within(first, n), h \in first[a],
           NEW second \in Plans, GoesWell(second), Within(second, n), Free \in second[b]
    PROVE  \E plan \in Plans : GoesWell(plan) /\ Within(plan, n) /\ h \in plan[a \o b]
<1> DEFINE joined(s) == {k \in Held : \E u \in Seq(Step) : s = u \o b /\ k \in first[u]}
           plan == [s \in Seq(Step) |-> second[s] \cup joined(s)]
<1>1. plan \in Plans
  BY DEF Plans
<1>2. \A s \in Seq(Step) : plan[s] = second[s] \cup joined(s)
  OBVIOUS
<1>3. \A s \in Seq(Step) : first[s] \subseteq Held
  BY DEF Plans
<1> HIDE DEF plan
<1>4. \A u \in Seq(Step) : u \o b \in Seq(Step) /\ first[u] \subseteq plan[u \o b]
  BY <1>2, <1>3, ConcatProperties
<1>5. Within(plan, n)
  <2> SUFFICES ASSUME NEW s \in Seq(Step), NEW k \in plan[s] PROVE s \in Seq(Beyond(n)) /\ k \in HeldBeyond(n)
    BY DEF Within
  <2>1. CASE k \in second[s]
    BY <2>1 DEF Within
  <2>2. ASSUME NEW u \in Seq(Step), s = u \o b, k \in first[u]
        PROVE  s \in Seq(Beyond(n)) /\ k \in HeldBeyond(n)
    <3>1. u \in Seq(Beyond(n)) /\ k \in HeldBeyond(n)
      BY <2>2 DEF Within
    <3> QED
      BY <2>2, <3>1, ConcatProperties
  <2> QED
    BY <1>2, <2>1, <2>2
<1>6. GoesWell(plan)
  <2> SUFFICES ASSUME NEW s \in Seq(Step), NEW k \in plan[s]
               PROVE  IF s = <<>> THEN k = Free
                      ELSE Allowed(k, Head(s)) /\ After(k, Head(s)) \in plan[Tail(s)]
    BY DEF GoesWell
  <2>1. ASSUME k \in second[s]
        PROVE  IF s = <<>> THEN k = Free
               ELSE Allowed(k, Head(s)) /\ After(k, Head(s)) \in second[Tail(s)]
    BY <2>1 DEF GoesWell
  <2>2. ASSUME NEW u \in Seq(Step), s = u \o b, k \in first[u], u = <<>>
        PROVE  k \in second[s]
    BY <2>2, ConcatEmptySeq DEF GoesWell
  <2>3. ASSUME NEW u \in Seq(Step), s = u \o b, k \in first[u], u # <<>>
        PROVE  s # <<>> /\ Allowed(k, Head(s)) /\ After(k, Head(s)) \in plan[Tail(s)]
    <3>1. s # <<>> /\ Head(s) = Head(u) /\ Tail(s) = Tail(u) \o b /\ Tail(u) \in Seq(Step)
      BY <2>3, HeadOfConcat
    <3>2. Allowed(k, Head(u)) /\ After(k, Head(u)) \in first[Tail(u)]
      BY <2>3 DEF GoesWell
    <3> QED
      BY <1>4, <3>1, <3>2
  <2>4. s # <<>> => Tail(s) \in Seq(Step)
    BY HeadTailProperties
  <2> QED
    BY <1>2, <2>1, <2>2, <2>3, <2>4
<1>7. h \in plan[a \o b]
  BY <1>4
<1> QED
  BY <1>1, <1>5, <1>6, <1>7

LEMMA ConcatIsBalanced ==
    ASSUME NEW n \in Nat, NEW a \in Balanced(n), NEW b \in Balanced(n)
    PROVE  a \o b \in Balanced(n)
<1>1. PICK first \in Plans :
          GoesWell(first) /\ Within(first, n) /\ Free \in first[a]
  BY DEF Balanced
<1>2. PICK second \in Plans :
          GoesWell(second) /\ Within(second, n) /\ Free \in second[b]
  BY DEF Balanced
<1>3. a \in Seq(Beyond(n)) /\ b \in Seq(Beyond(n))
  BY DEF Balanced
<1>4. a \in Seq(Step) /\ b \in Seq(Step)
  BY <1>3, SeqMonotonic DEF Beyond
<1>5. \E plan \in Plans :
          GoesWell(plan) /\ Within(plan, n) /\ Free \in plan[a \o b]
  BY <1>1, <1>2, <1>3, <1>4, ConcatGoesWell
<1>6. a \o b \in Seq(Beyond(n))
  BY <1>3, ConcatProperties
<1> QED
  BY <1>5, <1>6 DEF Balanced

(* What l is taken with, for operations of level n within it.              *)
Opens(st, n) ==
    /\ st \in Step /\ n \in Nat \ {0}
    /\ \/ st.do = "rlock" /\ (Rank(st.on) <= n \/ st.on = Manager)
       \/ st.do = "lock" /\ Rank(st.on) <= n

Closing(st) == [do |-> IF st.do = "lock" THEN "unlock" ELSE "runlock", on |-> st.on]

LEMMA RankFacts ==
    /\ \A l : Rank(l) \in 2..5
    /\ Manager \in Locks /\ Rank(Manager) = 2
    /\ \A l \in Locks : Rank(l) = 2 => l = Manager
BY DEF Rank, Manager, Locks, Client, Source, Dispatcher

(* A step allowed with k is allowed with one lock more below it, and leads *)
(* to one lock more.                                                       *)
LEMMA UnderLock ==
    ASSUME NEW n, NEW open, Opens(open, n), NEW st \in Beyond(n),
           NEW k \in HeldBeyond(n), Allowed(k, st)
    PROVE  /\ Allowed(After(k, open), st)
           /\ After(After(k, open), st) = After(After(k, st), open)
<1>1. /\ k.reads \in [Locks -> Nat] /\ k.writes \in SUBSET Locks
      /\ n \in Nat /\ n >= 1 /\ st \in Step /\ open \in Step /\ open.on \in Locks
      /\ open.do \in {"rlock", "lock"}
  BY StepTypes DEF HeldBeyond, Held, Beyond, Opens, OnLock
<1>2. PICK held : held = After(k, open)
  OBVIOUS
<1>3. /\ held.reads = [l \in Locks |-> IF l = open.on /\ open.do = "rlock"
                                       THEN k.reads[l] + 1 ELSE k.reads[l]]
      /\ held.writes = IF open.do = "lock" THEN k.writes \cup {open.on} ELSE k.writes
  BY <1>1, <1>2 DEF After
<1>4. ASSUME Acquires(st), NEW l \in Locks, Has(held, l)
      PROVE  \/ Rank(l) < Rank(st.on)
             \/ Again(st) /\ l = Manager /\ l \notin held.writes
  <2>1. Rank(st.on) > n /\ (st.on = Manager /\ n = 1 => Again(st)) /\ st.on \in Locks
    BY <1>1, <1>4, StepTypes DEF Beyond, OnLock, Acquires
  <2>2. CASE l = open.on
    <3>1. CASE Rank(l) <= n
      BY <1>1, <2>1, <3>1, RankFacts
    <3>2. CASE open.do = "rlock" /\ l = Manager
      <4>1. Rank(st.on) > Rank(l) \/ st.on = Manager
        BY <2>1, <3>2, RankFacts
      <4>2. CASE st.on = Manager
        <5>1. n = 1
          BY <1>1, <2>1, <4>2, RankFacts
        <5>2. Manager \notin k.writes
          BY <1>1, <5>1, RankFacts DEF HeldBeyond
        <5> QED
          BY <1>3, <2>1, <3>2, <4>2, <5>1, <5>2
      <4> QED
        BY <4>1, <4>2, RankFacts
    <3> QED
      BY <2>2, <3>1, <3>2 DEF Opens
  <2>3. CASE l # open.on
    <3>1. Has(k, l) /\ (l \in held.writes => l \in k.writes)
      BY <1>1, <1>3, <1>4, <2>3 DEF Has
    <3> QED
      BY <1>4, <3>1 DEF Allowed
  <2> QED
    BY <2>2, <2>3
<1>5. st.do = "runlock" => held.reads[st.on] > 0
  BY <1>1, <1>3, StepTypes DEF Allowed, OnLock
<1>6. st.do = "unlock" => st.on \in held.writes
  BY <1>3 DEF Allowed
<1>7. st.do # "call"
  BY <1>1 DEF Beyond, OnLock
<1>8. Allowed(held, st)
  BY <1>4, <1>5, <1>6, <1>7 DEF Allowed
<1>9. st.do = "unlock" /\ open.do = "lock" => st.on # open.on
  BY <1>1, RankFacts DEF Beyond, Opens, OnLock
<1>10. After(held, st) = After(After(k, st), open)
  <2>1. After(held, st).reads = After(After(k, st), open).reads
    BY <1>1, <1>3 DEF After
  <2>2. After(held, st).writes = After(After(k, st), open).writes
    BY <1>1, <1>3, <1>9 DEF After
  <2> QED
    BY <2>1, <2>2 DEF After
<1> QED
  BY <1>2, <1>8, <1>10

LEMMA BracketsMatch ==
    ASSUME NEW n, NEW open, Opens(open, n)
    PROVE  /\ Closing(open) \in Step /\ Allowed(Free, open)
           /\ Allowed(After(Free, open), Closing(open))
           /\ After(After(Free, open), Closing(open)) = Free
<1>1. open \in Step /\ open.on \in Locks /\ open.do \in {"rlock", "lock"}
  BY StepTypes DEF Opens, OnLock
<1>2. Closing(open) \in Step
  BY <1>1 DEF Closing, Step
<1>3. Allowed(Free, open)
  BY <1>1 DEF Allowed, Free, Has
<1>4. /\ After(Free, open).reads = [l \in Locks |-> IF l = open.on /\ open.do = "rlock" THEN 1 ELSE 0]
      /\ After(Free, open).writes = IF open.do = "lock" THEN {open.on} ELSE {}
  BY <1>1 DEF After, Free
<1>5. Allowed(After(Free, open), Closing(open))
  BY <1>1, <1>4 DEF Allowed, Closing, Acquires
<1>6. After(After(Free, open), Closing(open)) = Free
  <2>1. After(After(Free, open), Closing(open)).reads = [l \in Locks |-> 0]
    BY <1>1, <1>4 DEF After, Closing
  <2>2. After(After(Free, open), Closing(open)).writes = {}
    BY <1>1, <1>4 DEF After, Closing
  <2> QED
    BY <2>1, <2>2 DEF After, Free
<1> QED
  BY <1>2, <1>3, <1>5, <1>6

LEMMA HeldWithOneMore ==
    ASSUME NEW n \in Nat, NEW k \in HeldBeyond(n), NEW open \in Beyond(n),
           Acquires(open)
    PROVE  After(k, open) \in HeldBeyond(n)
<1>1. k \in Held /\ open \in Step /\ OnLock(open)
  BY DEF HeldBeyond, Beyond, OnLock, Acquires
<1>2. After(k, open) \in Held
  BY <1>1, AfterTypes
<1>3. \A l \in Locks : After(k, open).reads[l] > 0 => k.reads[l] > 0 \/ l = open.on
  BY <1>1 DEF After, Acquires, Held
<1>4. \A l \in Locks : l \in After(k, open).writes =>
                        l \in k.writes \/ (l = open.on /\ open.do = "lock")
  BY <1>1 DEF After, Acquires
<1>5. Rank(open.on) > n /\ (open.do = "lock" /\ open.on = Manager => n # 1)
  BY <1>1 DEF Beyond, Again
<1> QED
  BY <1>2, <1>3, <1>4, <1>5 DEF HeldBeyond

LEMMA BracketGoesWell ==
    ASSUME NEW n \in Nat, NEW m \in Nat, n <= m, NEW open, Opens(open, m),
           open \in Beyond(n), Closing(open) \in Beyond(n), NEW body \in Balanced(m)
    PROVE  <<open>> \o body \o <<Closing(open)>> \in Balanced(n)
<1>1. PICK inner \in Plans : GoesWell(inner) /\ Within(inner, m) /\ Free \in inner[body]
  BY DEF Balanced
<1>2. PICK end : end = <<Closing(open)>>
  OBVIOUS
<1>3. /\ end \in Seq(Step) /\ end \in Seq(Beyond(n)) /\ end # <<>> /\ Head(end) = Closing(open)
      /\ Tail(end) = <<>>
  BY <1>2, BracketsMatch
<1>4. body \in Seq(Beyond(m)) /\ body \in Seq(Beyond(n)) /\ body \in Seq(Step)
  <2>1. Beyond(m) \subseteq Beyond(n) /\ Beyond(n) \subseteq Step
    BY BeyondLess DEF Beyond
  <2> QED
    BY <2>1, SeqMonotonic DEF Balanced
<1>5. PICK whole : whole = <<open>> \o body \o end
  OBVIOUS
<1>6. /\ whole \in Seq(Beyond(n)) /\ whole \in Seq(Step) /\ whole # <<>>
      /\ Head(whole) = open /\ Tail(whole) = body \o end
  <2>1. ASSUME NEW S, open \in S, body \in Seq(S), end \in Seq(S)
        PROVE  whole \in Seq(S) /\ whole # <<>> /\ Head(whole) = open /\ Tail(whole) = body \o end
    <3>1. /\ <<open>> \o body \in Seq(S) /\ <<open>> \o body # <<>>
          /\ Head(<<open>> \o body) = open /\ Tail(<<open>> \o body) = body
      BY <2>1, HeadOfOne
    <3> QED
      BY <1>5, <2>1, <3>1, HeadOfConcat
  <2>2. open \in Step
    BY DEF Beyond
  <2> QED
    BY <1>3, <1>4, <2>1, <2>2
<1> DEFINE inside(s) == {k \in Held : \E u \in Seq(Step) : \E j \in inner[u] :
                                       s = u \o end /\ k = After(j, open)}
           plan == [s \in Seq(Step) |-> IF s = <<>> \/ s = whole THEN {Free} \cup inside(s)
                                        ELSE inside(s)]
<1>7. plan \in Plans
  BY FreeType DEF Plans
<1>8. \A s \in Seq(Step) : plan[s] = IF s = <<>> \/ s = whole THEN {Free} \cup inside(s) ELSE inside(s)
  OBVIOUS
<1> HIDE DEF plan
<1>9. ASSUME NEW u \in Seq(Step), NEW j \in inner[u]
      PROVE  /\ u \in Seq(Beyond(m)) /\ u \in Seq(Beyond(n)) /\ j \in HeldBeyond(m)
             /\ After(j, open) \in HeldBeyond(n) /\ After(j, open) \in Held
             /\ u \o end \in Seq(Step) /\ After(j, open) \in plan[u \o end]
  <2>1. u \in Seq(Beyond(m)) /\ j \in HeldBeyond(m) /\ Beyond(m) \subseteq Beyond(n) /\ j \in HeldBeyond(n)
    BY <1>1, BeyondLess DEF Within
  <2>2. u \in Seq(Beyond(n)) /\ u \o end \in Seq(Step)
    BY <1>3, <2>1, SeqMonotonic, ConcatProperties
  <2>3. After(j, open) \in HeldBeyond(n)
    BY <2>1, HeldWithOneMore DEF Opens, Acquires
  <2> QED
    BY <1>8, <2>1, <2>2, <2>3 DEF HeldBeyond
<1>10. Within(plan, n)
  <2> SUFFICES ASSUME NEW s \in Seq(Step), NEW k \in plan[s]
               PROVE  s \in Seq(Beyond(n)) /\ k \in HeldBeyond(n)
    BY DEF Within
  <2>1. CASE (s = <<>> \/ s = whole) /\ k = Free
    BY <1>6, <2>1, FreeIsBeyond, EmptySeq
  <2>2. ASSUME NEW u \in Seq(Step), NEW j \in inner[u], s = u \o end, k = After(j, open)
        PROVE  s \in Seq(Beyond(n)) /\ k \in HeldBeyond(n)
    BY <1>3, <1>9, <2>2, ConcatProperties
  <2>3. \/ (s = <<>> \/ s = whole) /\ k = Free
        \/ \E u \in Seq(Step) : \E j \in inner[u] : s = u \o end /\ k = After(j, open)
    BY <1>8
  <2> QED
    BY <2>1, <2>2, <2>3
<1>11. GoesWell(plan)
  <2> SUFFICES ASSUME NEW s \in Seq(Step), NEW k \in plan[s]
               PROVE  IF s = <<>> THEN k = Free
                      ELSE Allowed(k, Head(s)) /\ After(k, Head(s)) \in plan[Tail(s)]
    BY DEF GoesWell
  <2>1. CASE s = <<>> /\ k = Free
    BY <2>1
  <2>2. CASE s = whole /\ k = Free
    <3>1. Allowed(Free, open) /\ After(Free, open) \in plan[body \o end]
      BY <1>1, <1>4, <1>9, BracketsMatch
    <3> QED
      BY <1>6, <2>2, <3>1
  <2>3. ASSUME NEW u \in Seq(Step), NEW j \in inner[u], s = u \o end, k = After(j, open)
        PROVE  s # <<>> /\ Allowed(k, Head(s)) /\ After(k, Head(s)) \in plan[Tail(s)]
    <3>1. CASE u = <<>>
      <4>1. j = Free /\ s = end
        BY <1>1, <1>3, <2>3, <3>1, ConcatEmptySeq DEF GoesWell
      <4>2. Free \in plan[<<>>]
        BY <1>8, EmptySeq
      <4> QED
        BY <1>3, <2>3, <4>1, <4>2, BracketsMatch
    <3>2. CASE u # <<>>
      <4>1. s # <<>> /\ Head(s) = Head(u) /\ Tail(s) = Tail(u) \o end /\ Tail(u) \in Seq(Step)
        BY <1>3, <2>3, <3>2, HeadOfConcat
      <4>2. Allowed(j, Head(u)) /\ After(j, Head(u)) \in inner[Tail(u)]
        BY <1>1, <3>2 DEF GoesWell
      <4>3. Head(u) \in Beyond(m) /\ j \in HeldBeyond(m)
        BY <1>9, <3>2, HeadTailProperties
      <4>4. Allowed(k, Head(u)) /\ After(k, Head(u)) = After(After(j, Head(u)), open)
        BY <2>3, <4>2, <4>3, UnderLock
      <4> QED
        BY <1>9, <4>1, <4>2, <4>4
    <3> QED
      BY <3>1, <3>2
  <2>4. \/ (s = <<>> \/ s = whole) /\ k = Free
        \/ \E u \in Seq(Step) : \E j \in inner[u] : s = u \o end /\ k = After(j, open)
    BY <1>8
  <2> QED
    BY <2>1, <2>2, <2>3, <2>4
<1> QED
  BY <1>2, <1>5, <1>6, <1>7, <1>8, <1>10, <1>11 DEF Balanced

-----------------------------------------------------------------------------
(* The operations keep the discipline.                                     *)

LEMMA LockRanks ==
    ASSUME NEW s \in Sources
    PROVE  /\ Client(s) \in Locks /\ Rank(Client(s)) = 3 /\ Client(s) # Manager
           /\ Source(s) \in Locks /\ Rank(Source(s)) = 4 /\ Source(s) # Manager
           /\ Dispatcher \in Locks /\ Rank(Dispatcher) = 5 /\ Dispatcher # Manager
BY DEF Locks, Client, Source, Manager, Dispatcher, Rank

(* A section under a lock, of what takes others beyond it.                 *)
LEMMA SectionIsBalanced ==
    ASSUME NEW l \in Locks, NEW n \in Nat, n < Rank(l), n = 1 => l # Manager,
           NEW body \in Balanced(Rank(l))
    PROVE  Shared(l, body) \in Balanced(n) /\ Exclusive(l, body) \in Balanced(n)
<1> DEFINE r == [do |-> "rlock", on |-> l]
           w == [do |-> "lock", on |-> l]
<1>1. Rank(l) \in Nat \ {0}
  BY RankFacts
<1>2. /\ r \in Step /\ Opens(r, Rank(l)) /\ r \in Beyond(n) /\ Closing(r) \in Beyond(n)
      /\ Closing(r) = [do |-> "runlock", on |-> l]
  BY <1>1 DEF Step, Opens, Beyond, Closing, OnLock
<1>3. /\ w \in Step /\ Opens(w, Rank(l)) /\ w \in Beyond(n) /\ Closing(w) \in Beyond(n)
      /\ Closing(w) = [do |-> "unlock", on |-> l]
  BY <1>1 DEF Step, Opens, Beyond, Closing, OnLock
<1> HIDE DEF r, w
<1>4. <<r>> \o body \o <<Closing(r)>> \in Balanced(n)
  BY <1>1, <1>2, BracketGoesWell
<1>5. <<w>> \o body \o <<Closing(w)>> \in Balanced(n)
  BY <1>1, <1>3, BracketGoesWell
<1> QED
  BY <1>2, <1>3, <1>4, <1>5 DEF Shared, Exclusive, r, w

LEMMA EmptySections ==
    ASSUME NEW l \in Locks, NEW n \in Nat, n < Rank(l), n = 1 => l # Manager
    PROVE  Reads(l) \in Balanced(n) /\ Writes(l) \in Balanced(n)
<1>1. <<>> \in Balanced(Rank(l))
  BY NothingIsBalanced, RankFacts
<1> QED
  BY <1>1, SectionIsBalanced DEF Reads, Writes

(* A step without a lock.                                                  *)
LEMMA OneStepIsBalanced ==
    ASSUME NEW n \in Nat, NEW st \in Beyond(n), ~OnLock(st)
    PROVE  <<st>> \in Balanced(n)
<1>1. <<st>> \in Seq(Beyond(n)) /\ <<st>> \in Seq(Step) /\ st \in Step
  BY DEF Beyond
<1>2. <<st>> # <<>> /\ Head(<<st>>) = st /\ Tail(<<st>>) = <<>>
  OBVIOUS
<1> DEFINE plan == [s \in Seq(Step) |-> IF s = <<>> \/ s = <<st>> THEN {Free} ELSE {}]
<1>3. plan \in Plans
  BY FreeType DEF Plans
<1>4. \A s \in Seq(Step) : plan[s] = IF s = <<>> \/ s = <<st>> THEN {Free} ELSE {}
  OBVIOUS
<1> HIDE DEF plan
<1>5. Allowed(Free, st)
  BY DEF Allowed, OnLock, Acquires
<1>6. After(Free, st) = Free
  BY DEF After, OnLock, Free
<1>7. GoesWell(plan)
  <2> SUFFICES ASSUME NEW s \in Seq(Step), NEW k \in plan[s]
               PROVE  IF s = <<>> THEN k = Free
                      ELSE Allowed(k, Head(s)) /\ After(k, Head(s)) \in plan[Tail(s)]
    BY DEF GoesWell
  <2>1. k = Free /\ (s = <<>> \/ s = <<st>>)
    BY <1>4
  <2>2. Free \in plan[<<>>]
    BY <1>4, EmptySeq
  <2>3. CASE s = <<st>>
    BY <1>2, <1>5, <1>6, <2>1, <2>2, <2>3
  <2> QED
    BY <2>1, <2>3
<1>8. Within(plan, n)
  BY <1>1, <1>4, FreeIsBeyond, EmptySeq DEF Within
<1> QED
  BY <1>1, <1>3, <1>4, <1>7, <1>8 DEF Balanced

LEMMA LocklessAreBalanced ==
    /\ \A n \in Nat : WaitForServer \in Balanced(n) /\ DispatchEvents \in Balanced(n)
    /\ OnPropertyChange \in Balanced(0)
<1> DEFINE step(what) == [do |-> what, on |-> Nothing]
<1>1. ASSUME NEW n \in Nat, NEW what \in {"wait", "go", "call"}, what = "call" => n = 0
      PROVE  <<step(what)>> \in Balanced(n)
  <2>1. step(what) \in Step /\ ~OnLock(step(what)) /\ step(what).do = what
    BY DEF Step, OnLock
  <2>2. step(what) \in Beyond(n)
    BY <1>1, <2>1 DEF Beyond
  <2> HIDE DEF step
  <2> QED
    BY <2>1, <2>2, OneStepIsBalanced
<1>2. /\ WaitForServer = <<step("wait")>> /\ DispatchEvents = <<step("go")>>
      /\ OnPropertyChange = <<step("call")>>
  BY DEF WaitForServer, DispatchEvents, OnPropertyChange
<1> HIDE DEF step
<1> QED
  BY <1>1, <1>2

LEMMA PullIsBalanced ==
    ASSUME kind \in [Sources -> Kinds], NEW s \in Sources
    PROVE  Pull(s) \in Balanced(2)
<1>1. kind[s] \in {"file", "etcd", "consul", "nacos", "apollo"}
  BY LocksAssumption DEF ClientKinds
<1>2. Writes(Client(s)) \in Balanced(2)
  BY LockRanks, EmptySections
<1>3. WaitForServer \in Balanced(2) /\ <<>> \in Balanced(2)
  BY LocklessAreBalanced, NothingIsBalanced
<1>4. WaitForServer \o Writes(Client(s)) \in Balanced(2)
  BY <1>2, <1>3, ConcatIsBalanced
<1> QED
  BY <1>1, <1>2, <1>3, <1>4 DEF Pull

LEMMA SourceAddPathIsBalanced ==
    ASSUME kind \in [Sources -> Kinds], NEW s \in Sources
    PROVE  SourceAddPath(s) \subseteq Balanced(2)
<1>1. /\ Reads(Source(s)) \in Balanced(2) /\ Writes(Source(s)) \in Balanced(2)
      /\ WatchPath(s) \in Balanced(2) /\ DispatchEvents \in Balanced(2) /\ Pull(s) \in Balanced(2)
  BY LockRanks, EmptySections, LocklessAreBalanced, PullIsBalanced DEF WatchPath
<1>2. PICK pulled : pulled = Reads(Source(s)) \o Pull(s)
  OBVIOUS
<1>3. PICK merged : merged = pulled \o Writes(Source(s))
  OBVIOUS
<1>4. PICK watched : watched = merged \o WatchPath(s)
  OBVIOUS
<1>5. pulled \in Balanced(2)
  BY <1>1, <1>2, ConcatIsBalanced
<1>6. merged \in Balanced(2)
  BY <1>1, <1>3, <1>5, ConcatIsBalanced
<1>7. watched \in Balanced(2)
  BY <1>1, <1>4, <1>6, ConcatIsBalanced
<1>8. merged \o DispatchEvents \in Balanced(2) /\ watched \o DispatchEvents \in Balanced(2)
  BY <1>1, <1>6, <1>7, ConcatIsBalanced
<1>9. SourceAddPath(s) = {Reads(Source(s)), pulled, merged \o DispatchEvents, watched \o DispatchEvents}
  BY <1>2, <1>3, <1>4 DEF SourceAddPath
<1> QED
  BY <1>1, <1>5, <1>8, <1>9

LEMMA HandlePathUpdatedIsBalanced ==
    ASSUME NEW s \in Sources
    PROVE  HandlePathUpdated(s) \subseteq Balanced(3)
<1>1. /\ Reads(Source(s)) \in Balanced(3) /\ Writes(Source(s)) \in Balanced(3)
      /\ DispatchEvents \in Balanced(3)
  BY LockRanks, EmptySections, LocklessAreBalanced
<1>2. PICK merged : merged = Reads(Source(s)) \o Writes(Source(s))
  OBVIOUS
<1>3. merged \in Balanced(3)
  BY <1>1, <1>2, ConcatIsBalanced
<1>4. merged \o DispatchEvents \in Balanced(3)
  BY <1>1, <1>3, ConcatIsBalanced
<1>5. HandlePathUpdated(s) = {Reads(Source(s)), merged \o DispatchEvents}
  BY <1>2 DEF HandlePathUpdated
<1> QED
  BY <1>1, <1>4, <1>5

LEMMA CallbackIsBalanced ==
    ASSUME kind \in [Sources -> Kinds], NEW s \in Sources
    PROVE  Callback(s) \subseteq Balanced(0)
<1>1. kind[s] \in {"file", "etcd", "consul", "nacos", "apollo"}
  BY LocksAssumption DEF ClientKinds
<1>2. /\ Reads(Client(s)) \in Balanced(0) /\ Writes(Client(s)) \in Balanced(0)
      /\ Client(s) \in Locks /\ Rank(Client(s)) = 3
  BY LockRanks, EmptySections
<1>3. PICK polled : polled = Reads(Client(s)) \o Writes(Client(s)) \o Reads(Client(s))
  OBVIOUS
<1>4. polled \in Balanced(0)
  BY <1>2, <1>3, ConcatIsBalanced
<1>5. ASSUME NEW h \in HandlePathUpdated(s)
      PROVE  /\ Exclusive(Client(s), h) \in Balanced(0) /\ h \in Balanced(0)
             /\ Reads(Client(s)) \o h \in Balanced(0) /\ Writes(Client(s)) \o h \in Balanced(0)
             /\ polled \o h \in Balanced(0)
  <2>1. h \in Balanced(3) /\ h \in Balanced(0)
    BY HandlePathUpdatedIsBalanced, BeyondLess
  <2> QED
    BY <1>2, <1>4, <2>1, SectionIsBalanced, ConcatIsBalanced
<1>6. ASSUME NEW op \in Callback(s)
      PROVE  \E h \in HandlePathUpdated(s) :
                op \in {Exclusive(Client(s), h), h, Reads(Client(s)) \o h, Writes(Client(s)) \o h,
                        polled \o h}
  BY <1>1, <1>3 DEF Callback
<1> QED
  BY <1>5, <1>6

LEMMA AskedIsBalanced == Asked \subseteq Balanced(2)
BY LockRanks, EmptySections, NothingIsBalanced DEF Asked

(* A source is asked with the manager's mutex, for reading or for writing. *)
LEMMA UnderManager ==
    ASSUME NEW a \in Balanced(2)
    PROVE  Shared(Manager, a) \in Balanced(0) /\ Exclusive(Manager, a) \in Balanced(0)
BY RankFacts, SectionIsBalanced

LEMMA GetIsBalanced == Get \subseteq Balanced(0)
<1>1. ASSUME NEW a \in Asked, ReadsAgain
      PROVE  Shared(Manager, Shared(Manager, a)) \in Balanced(0)
  <2> DEFINE r == [do |-> "rlock", on |-> Manager]
             c == [do |-> "runlock", on |-> Manager]
  <2>1. Closing(r) = c /\ \A b : Shared(Manager, b) = <<r>> \o b \o <<Closing(r)>>
    BY DEF Closing, Shared
  <2>2. r.do = "rlock" /\ r.on = Manager /\ r \in Step
    BY RankFacts DEF Step
  <2>3. c.do = "runlock" /\ c.on = Manager /\ c \in Step
    BY RankFacts DEF Step
  <2> HIDE DEF r, c
  <2>4. Opens(r, 2) /\ Opens(r, 1)
    BY <2>2 DEF Opens
  <2>5. /\ r \in Beyond(0) /\ Closing(r) \in Beyond(0)
        /\ r \in Beyond(1) /\ Closing(r) \in Beyond(1)
    <3>1. ASSUME NEW st \in Step, st.do \in {"rlock", "runlock"}, st.on = Manager
          PROVE  st \in Beyond(0) /\ st \in Beyond(1)
      BY <1>1, <3>1, RankFacts DEF Beyond, Again
    <3> QED
      BY <2>1, <2>2, <2>3, <3>1
  <2>6. a \in Balanced(2)
    BY AskedIsBalanced
  <2>7. PICK b : b = Shared(Manager, a)
    OBVIOUS
  <2>8. b \in Balanced(1)
    <3>1. <<r>> \o a \o <<Closing(r)>> \in Balanced(1)
      BY <2>4, <2>5, <2>6, BracketGoesWell
    <3> QED
      BY <2>1, <2>7, <3>1
  <2>9. <<r>> \o b \o <<Closing(r)>> \in Balanced(0)
    BY <2>4, <2>5, <2>8, BracketGoesWell
  <2> QED
    BY <2>1, <2>7, <2>9
<1> QED
  BY <1>1, AskedIsBalanced, UnderManager DEF Get, Nested

LEMMA CallsAreBalanced ==
    ASSUME kind \in [Sources -> Kinds]
    PROVE  Calls \subseteq Balanced(0)
<1>1. Set \subseteq Balanced(0) /\ Watch \subseteq Balanced(0)
  BY RankFacts, EmptySections DEF Set, Watch, Locks, Rank, Dispatcher
<1>2. ASSUME NEW s \in Sources
      PROVE  /\ SourceAddPath(s) \subseteq Balanced(0)
             /\ Reads(Source(s)) \in Balanced(0) /\ Writes(Source(s)) \in Balanced(0)
             /\ Exclusive(Manager, Reads(Source(s))) \in Balanced(0)
             /\ \A p \in SourceAddPath(s) : Exclusive(Manager, p) \in Balanced(0)
  BY LockRanks, EmptySections, SourceAddPathIsBalanced, UnderManager, BeyondLess
<1>3. AddSource \subseteq Balanced(0) /\ ManagerAddPath \subseteq Balanced(0)
  BY <1>2 DEF AddSource, ManagerAddPath
<1> QED
  BY <1>1, <1>2, <1>3, GetIsBalanced DEF Calls

LEMMA HandleSourceEventsIsBalanced == HandleSourceEvents \subseteq Balanced(0)
<1> SUFFICES ASSUME NEW a \in Asked
             PROVE  Exclusive(Manager, a) \o Reads(Dispatcher) \o OnPropertyChange \in Balanced(0)
  BY DEF HandleSourceEvents
<1>1. Exclusive(Manager, a) \in Balanced(0)
  BY AskedIsBalanced, UnderManager
<1>2. Reads(Dispatcher) \in Balanced(0)
  BY EmptySections DEF Locks, Rank, Dispatcher
<1>3. OnPropertyChange \in Balanced(0)
  BY LocklessAreBalanced
<1>4. Exclusive(Manager, a) \o Reads(Dispatcher) \in Balanced(0)
  BY <1>1, <1>2, ConcatIsBalanced
<1> QED
  BY <1>3, <1>4, ConcatIsBalanced

-----------------------------------------------------------------------------
(* Threads keep the discipline.                                            *)

(* What thread t has.                                                      *)
Mine(t) == [reads  |-> [l \in Locks |-> readers[l][t]],
            writes |-> {l \in Locks : writer[l] = t}]

(* Whoever asks is about to lock, and nobody asks for what is being written. *)
Announced ==
    \A l \in Locks :
        /\ \A t \in Threads : asking[l] = t => Comes(t, "lock") /\ On(t) = l
        /\ asking[l] = Nobody \/ writer[l] = Nobody

InDiscipline == \A t \in Threads : Disciplined(todo[t], Mine(t))

Orderly == TypeOK /\ Announced /\ InDiscipline

LEMMA MineType ==
    ASSUME TypeOK, NEW t \in Threads
    PROVE  Mine(t) \in Held
BY DEF TypeOK, Mine, Held

(* What a thread that keeps the discipline does next.                      *)
LEMMA NextIsAllowed ==
    ASSUME Orderly, NEW t \in Threads, todo[t] # <<>>
    PROVE  /\ Allowed(Mine(t), Head(todo[t])) /\ Head(todo[t]) \in Step
           /\ Disciplined(Tail(todo[t]), After(Mine(t), Head(todo[t])))
           /\ Tail(todo[t]) \in Seq(Step)
<1>1. todo[t] \in Seq(Step) /\ Disciplined(todo[t], Mine(t))
  BY DEF Orderly, TypeOK, InDiscipline
<1>2. Head(todo[t]) \in Step /\ Tail(todo[t]) \in Seq(Step)
  BY <1>1, HeadTailProperties
<1>3. PICK plan \in Plans : GoesWell(plan) /\ Mine(t) \in plan[todo[t]]
  BY <1>1 DEF Disciplined
<1> QED
  BY <1>1, <1>2, <1>3 DEF GoesWell, Disciplined

LEMMA IdleIsFree ==
    ASSUME Orderly, NEW t \in Threads, todo[t] = <<>>
    PROVE  Mine(t) = Free
<1>1. PICK plan \in Plans : GoesWell(plan) /\ Mine(t) \in plan[<<>>]
  BY DEF Orderly, InDiscipline, Disciplined
<1> QED
  BY <1>1, EmptySeq DEF GoesWell

LEMMA BalancedIsDisciplined ==
    ASSUME NEW op \in Balanced(0)
    PROVE  Disciplined(op, Free) /\ op \in Seq(Step)
<1>1. op \in Seq(Step)
  BY SeqMonotonic DEF Balanced, Beyond
<1> QED
  BY <1>1 DEF Balanced, Disciplined

LEMMA InitIsOrderly == Init => Orderly
<1> SUFFICES ASSUME Init PROVE Orderly
  OBVIOUS
<1>1. TypeOK
  BY EmptySeq, LocksAssumption DEF Init, TypeOK
<1>2. Announced
  BY LocksAssumption DEF Init, Announced
<1>3. ASSUME NEW t \in Threads PROVE Disciplined(todo[t], Mine(t))
  <2>1. todo[t] = <<>>
    BY DEF Init
  <2>2. Mine(t) = Free
    BY LocksAssumption DEF Init, Mine, Free
  <2>3. <<>> \in Balanced(0)
    BY NothingIsBalanced
  <2> QED
    BY <2>1, <2>2, <2>3, BalancedIsDisciplined
<1> QED
  BY <1>1, <1>2, <1>3 DEF Orderly, InDiscipline

(* What a thread has changes as its step says, and that of others does not. *)
LEMMA MineAfter ==
    ASSUME NEW t \in Threads, NEW st,
           \A l \in Locks : readers'[l][t] = IF l = st.on /\ st.do = "rlock" THEN readers[l][t] + 1
                                            ELSE IF l = st.on /\ st.do = "runlock" THEN readers[l][t] - 1
                                            ELSE readers[l][t],
           {l \in Locks : writer'[l] = t} =
              IF st.do = "lock" THEN {l \in Locks : writer[l] = t} \cup {st.on}
              ELSE IF st.do = "unlock" THEN {l \in Locks : writer[l] = t} \ {st.on}
              ELSE {l \in Locks : writer[l] = t}
    PROVE  Mine(t)' = After(Mine(t), st)
<1>1. \A l \in Locks : Mine(t).reads[l] = readers[l][t]
  BY DEF Mine
<1>2. Mine(t).writes = {l \in Locks : writer[l] = t}
  BY DEF Mine
<1>3. [l \in Locks |-> readers'[l][t]] = After(Mine(t), st).reads
  BY <1>1 DEF After
<1>4. {l \in Locks : writer'[l] = t} = After(Mine(t), st).writes
  BY <1>2 DEF After
<1>5. Mine(t)' = [reads |-> [l \in Locks |-> readers'[l][t]], writes |-> {l \in Locks : writer'[l] = t}]
  BY DEF Mine
<1>6. After(Mine(t), st) = [reads |-> After(Mine(t), st).reads, writes |-> After(Mine(t), st).writes]
  BY DEF After
<1> QED
  BY <1>3, <1>4, <1>5, <1>6

LEMMA MineStays ==
    ASSUME NEW u \in Threads,
           \A l \in Locks : readers'[l][u] = readers[l][u] /\ (writer'[l] = u <=> writer[l] = u)
    PROVE  Mine(u)' = Mine(u)
<1>1. [l \in Locks |-> readers'[l][u]] = [l \in Locks |-> readers[l][u]]
  OBVIOUS
<1>2. {l \in Locks : writer'[l] = u} = {l \in Locks : writer[l] = u}
  OBVIOUS
<1> QED
  BY <1>1, <1>2 DEF Mine

LEMMA StepKeepsDiscipline ==
    ASSUME Orderly, NEW t \in Threads, todo[t] # <<>>, Done(t),
           Mine(t)' = After(Mine(t), Head(todo[t])),
           \A u \in Threads : u # t => Mine(u)' = Mine(u)
    PROVE  InDiscipline' /\ todo' \in [Threads -> Seq(Step)]
<1>1. todo \in [Threads -> Seq(Step)] /\ Tail(todo[t]) \in Seq(Step)
  BY NextIsAllowed DEF Orderly, TypeOK
<1>2. Disciplined(todo'[t], Mine(t)')
  BY <1>1, NextIsAllowed DEF Done
<1>3. ASSUME NEW u \in Threads, u # t PROVE Disciplined(todo'[u], Mine(u)')
  <2>1. Mine(u)' = Mine(u) /\ todo'[u] = todo[u]
    BY <1>1, <1>3 DEF Done
  <2> QED
    BY <2>1 DEF Orderly, InDiscipline
<1>4. InDiscipline'
  BY <1>2, <1>3 DEF InDiscipline
<1> QED
  BY <1>1, <1>4 DEF Done

(* Whoever goes on in another way than locking does not disturb the asking. *)
LEMMA StepKeepsAnnounced ==
    ASSUME Orderly, NEW t \in Threads, ~Comes(t, "lock"),
           \A u \in Threads : u # t => todo'[u] = todo[u] \/ todo[u] = <<>>,
           UNCHANGED asking, \A l \in Locks : writer'[l] \in {writer[l], Nobody}
    PROVE  Announced'
<1>1. ASSUME NEW l \in Locks, NEW u \in Threads, asking'[l] = u
      PROVE  Comes(u, "lock")' /\ On(u)' = l
  <2>1. Comes(u, "lock") /\ On(u) = l
    BY <1>1 DEF Orderly, Announced
  <2>2. todo'[u] = todo[u]
    BY <2>1 DEF Comes
  <2> QED
    BY <2>1, <2>2 DEF Comes, On
<1>2. \A l \in Locks : asking'[l] = Nobody \/ writer'[l] = Nobody
  BY DEF Orderly, Announced
<1> QED
  BY <1>1, <1>2 DEF Announced

LEMMA RLockKeeps ==
    ASSUME Orderly, NEW t \in Threads, RLock(t)
    PROVE  Orderly'
<1>1. PICK l : l = On(t)
  OBVIOUS
<1>2. /\ todo[t] # <<>> /\ Head(todo[t]).do = "rlock" /\ Head(todo[t]).on = l /\ l \in Locks
      /\ writer[l] = Nobody /\ readers' = [readers EXCEPT ![l][t] = @ + 1]
      /\ UNCHANGED <<kind, asking, writer>> /\ Done(t)
  BY <1>1, NextIsAllowed, StepTypes DEF RLock, Comes, On, OnLock
<1>3. TypeOK
  BY DEF Orderly
<1>4. /\ readers' \in [Locks -> [Threads -> Nat]]
      /\ \A m \in Locks : \A u \in Threads :
            readers'[m][u] = IF m = l /\ u = t THEN readers[m][u] + 1 ELSE readers[m][u]
  BY <1>2, <1>3 DEF TypeOK
<1>5. Mine(t)' = After(Mine(t), Head(todo[t]))
  BY <1>2, <1>4, MineAfter
<1>6. ASSUME NEW u \in Threads, u # t PROVE Mine(u)' = Mine(u)
  BY <1>2, <1>4, <1>6, MineStays
<1>7. InDiscipline' /\ todo' \in [Threads -> Seq(Step)]
  BY <1>2, <1>5, <1>6, StepKeepsDiscipline
<1>8. Announced'
  <2>1. \A u \in Threads : u # t => todo'[u] = todo[u]
    BY <1>2, <1>3 DEF Done, TypeOK
  <2> QED
    BY <1>2, <2>1, StepKeepsAnnounced DEF Comes
<1>9. TypeOK'
  BY <1>2, <1>3, <1>4, <1>7 DEF TypeOK
<1> QED
  BY <1>7, <1>8, <1>9 DEF Orderly

LEMMA RUnlockKeeps ==
    ASSUME Orderly, NEW t \in Threads, RUnlock(t)
    PROVE  Orderly'
<1>1. PICK l : l = On(t)
  OBVIOUS
<1>2. /\ todo[t] # <<>> /\ Head(todo[t]).do = "runlock" /\ Head(todo[t]).on = l /\ l \in Locks
      /\ readers' = [readers EXCEPT ![l][t] = @ - 1]
      /\ UNCHANGED <<kind, asking, writer>> /\ Done(t)
  BY <1>1, NextIsAllowed, StepTypes DEF RUnlock, Comes, On, OnLock
<1>3. TypeOK
  BY DEF Orderly
<1>4. readers[l][t] > 0
  BY <1>2, NextIsAllowed DEF Allowed, Mine
<1>5. \A m \in Locks : \A u \in Threads :
         readers'[m][u] = IF m = l /\ u = t THEN readers[m][u] - 1 ELSE readers[m][u]
  BY <1>2, <1>3 DEF TypeOK
<1>6. readers' \in [Locks -> [Threads -> Nat]]
  <2>1. readers[l][t] - 1 \in Nat
    BY <1>2, <1>3, <1>4 DEF TypeOK
  <2> QED
    BY <1>2, <1>3, <2>1 DEF TypeOK
<1>7. Mine(t)' = After(Mine(t), Head(todo[t]))
  BY <1>2, <1>5, MineAfter
<1>8. ASSUME NEW u \in Threads, u # t PROVE Mine(u)' = Mine(u)
  BY <1>2, <1>5, <1>8, MineStays
<1>9. InDiscipline' /\ todo' \in [Threads -> Seq(Step)]
  BY <1>2, <1>7, <1>8, StepKeepsDiscipline
<1>10. Announced'
  <2>1. \A u \in Threads : u # t => todo'[u] = todo[u]
    BY <1>2, <1>3 DEF Done, TypeOK
  <2> QED
    BY <1>2, <2>1, StepKeepsAnnounced DEF Comes
<1>11. ASSUME NEW m \in Locks, writer[m] # Nobody, NEW u \in Threads PROVE readers'[m][u] = 0
  BY <1>2, <1>3, <1>4, <1>5, <1>11 DEF TypeOK
<1>12. TypeOK'
  BY <1>2, <1>3, <1>6, <1>9, <1>11 DEF TypeOK
<1> QED
  BY <1>9, <1>10, <1>12 DEF Orderly

LEMMA AskKeeps ==
    ASSUME Orderly, NEW t \in Threads, Ask(t)
    PROVE  Orderly'
<1>1. PICK l : l = On(t)
  OBVIOUS
<1>2. /\ Comes(t, "lock") /\ l \in Locks /\ asking[l] = Nobody /\ writer[l] = Nobody
      /\ asking' = [asking EXCEPT ![l] = t] /\ UNCHANGED <<kind, todo, readers, writer>>
  BY <1>1, NextIsAllowed, StepTypes DEF Ask, Comes, On, OnLock
<1>3. TypeOK
  BY DEF Orderly
<1>4. TypeOK'
  BY <1>2, <1>3 DEF TypeOK
<1>5. InDiscipline'
  <2>1. \A u \in Threads : Mine(u)' = Mine(u)
    BY <1>2 DEF Mine
  <2> QED
    BY <1>2, <2>1 DEF Orderly, InDiscipline
<1>6. ASSUME NEW m \in Locks, NEW u \in Threads, asking'[m] = u
      PROVE  Comes(u, "lock")' /\ On(u)' = m
  <2>1. Comes(u, "lock") /\ On(u) = m
    BY <1>1, <1>2, <1>3, <1>6 DEF Orderly, Announced, TypeOK
  <2> QED
    BY <1>2, <2>1 DEF Comes, On
<1>7. \A m \in Locks : asking'[m] = Nobody \/ writer'[m] = Nobody
  BY <1>2, <1>3 DEF Orderly, Announced, TypeOK
<1> QED
  BY <1>4, <1>5, <1>6, <1>7 DEF Orderly, Announced

LEMMA LockKeeps ==
    ASSUME Orderly, NEW t \in Threads, Lock(t)
    PROVE  Orderly'
<1>1. PICK l : l = On(t)
  OBVIOUS
<1>2. /\ todo[t] # <<>> /\ Head(todo[t]).do = "lock" /\ Head(todo[t]).on = l /\ l \in Locks
      /\ asking[l] = t /\ writer' = [writer EXCEPT ![l] = t]
      /\ asking' = [asking EXCEPT ![l] = Nobody] /\ UNCHANGED <<kind, readers>> /\ Done(t)
      /\ \A u \in Threads : readers[l][u] = 0
  BY <1>1, NextIsAllowed, StepTypes DEF Lock, Comes, On, OnLock
<1>3. TypeOK
  BY DEF Orderly
<1>4. writer[l] = Nobody /\ t # Nobody
  BY <1>2, LocksAssumption DEF Orderly, Announced
<1>5. \A m \in Locks : writer'[m] = IF m = l THEN t ELSE writer[m]
  BY <1>2, <1>3 DEF TypeOK
<1>6. Mine(t)' = After(Mine(t), Head(todo[t]))
  BY <1>2, <1>5, MineAfter
<1>7. ASSUME NEW u \in Threads, u # t PROVE Mine(u)' = Mine(u)
  BY <1>2, <1>4, <1>5, <1>7, MineStays, LocksAssumption
<1>8. InDiscipline' /\ todo' \in [Threads -> Seq(Step)]
  BY <1>2, <1>6, <1>7, StepKeepsDiscipline
<1>9. ASSUME NEW m \in Locks, NEW u \in Threads, asking'[m] = u
      PROVE  Comes(u, "lock")' /\ On(u)' = m
  <2>1. m # l /\ asking[m] = u
    BY <1>2, <1>3, <1>9, LocksAssumption DEF TypeOK
  <2>2. Comes(u, "lock") /\ On(u) = m
    BY <2>1 DEF Orderly, Announced
  <2>3. u # t
    BY <1>1, <2>1, <2>2
  <2>4. todo'[u] = todo[u]
    BY <1>2, <1>3, <2>3 DEF Done, TypeOK
  <2> QED
    BY <2>2, <2>4 DEF Comes, On
<1>10. \A m \in Locks : asking'[m] = Nobody \/ writer'[m] = Nobody
  BY <1>2, <1>3, <1>5 DEF Orderly, Announced, TypeOK
<1>11. TypeOK'
  BY <1>2, <1>3, <1>5, <1>8 DEF TypeOK
<1> QED
  BY <1>8, <1>9, <1>10, <1>11 DEF Orderly, Announced

LEMMA UnlockKeeps ==
    ASSUME Orderly, NEW t \in Threads, Unlock(t)
    PROVE  Orderly'
<1>1. PICK l : l = On(t)
  OBVIOUS
<1>2. /\ todo[t] # <<>> /\ Head(todo[t]).do = "unlock" /\ Head(todo[t]).on = l /\ l \in Locks
      /\ writer' = [writer EXCEPT ![l] = Nobody] /\ UNCHANGED <<kind, readers, asking>> /\ Done(t)
  BY <1>1, NextIsAllowed, StepTypes DEF Unlock, Comes, On, OnLock
<1>3. TypeOK
  BY DEF Orderly
<1>4. writer[l] = t
  BY <1>2, NextIsAllowed DEF Allowed, Mine
<1>5. \A m \in Locks : writer'[m] = IF m = l THEN Nobody ELSE writer[m]
  BY <1>2, <1>3 DEF TypeOK
<1>6. Mine(t)' = After(Mine(t), Head(todo[t]))
  <2>1. {m \in Locks : writer'[m] = t} = {m \in Locks : writer[m] = t} \ {l}
    BY <1>4, <1>5, LocksAssumption
  <2> QED
    BY <1>2, <2>1, MineAfter
<1>7. ASSUME NEW u \in Threads, u # t PROVE Mine(u)' = Mine(u)
  BY <1>2, <1>4, <1>5, <1>7, MineStays, LocksAssumption
<1>8. InDiscipline' /\ todo' \in [Threads -> Seq(Step)]
  BY <1>2, <1>6, <1>7, StepKeepsDiscipline
<1>9. Announced'
  <2>1. \A u \in Threads : u # t => todo'[u] = todo[u]
    BY <1>2, <1>3 DEF Done, TypeOK
  <2> QED
    BY <1>2, <1>5, <2>1, StepKeepsAnnounced DEF Comes
<1>10. TypeOK'
  BY <1>2, <1>3, <1>5, <1>8 DEF TypeOK
<1> QED
  BY <1>8, <1>9, <1>10 DEF Orderly

(* Steps without a lock: t may do something else first, and an idle thread *)
(* g may begin.                                                            *)
LEMMA LocklessKeeps ==
    ASSUME Orderly, NEW t \in Threads, ~Comes(t, "lock"), UNCHANGED <<kind, readers, asking, writer>>,
           todo' \in [Threads -> Seq(Step)],
           Disciplined(todo'[t], Mine(t)),
           \A u \in Threads : u # t => \/ todo'[u] = todo[u]
                                       \/ todo[u] = <<>> /\ todo'[u] \in Balanced(0)
    PROVE  Orderly'
<1>1. TypeOK'
  BY DEF Orderly, TypeOK
<1>2. Announced'
  BY StepKeepsAnnounced
<1>3. ASSUME NEW u \in Threads PROVE Disciplined(todo'[u], Mine(u)')
  <2>1. Mine(u)' = Mine(u)
    BY MineStays
  <2>2. CASE u = t \/ todo'[u] = todo[u]
    BY <2>1, <2>2 DEF Orderly, InDiscipline
  <2>3. CASE todo[u] = <<>> /\ todo'[u] \in Balanced(0)
    BY <2>1, <2>3, IdleIsFree, BalancedIsDisciplined
  <2> QED
    BY <2>2, <2>3
<1> QED
  BY <1>1, <1>2, <1>3 DEF Orderly, InDiscipline

LEMMA AfterLockless ==
    ASSUME NEW h \in Held, NEW st, ~OnLock(st)
    PROVE  After(h, st) = h
BY DEF After, OnLock, Held

LEMMA BeginKeeps ==
    ASSUME Orderly, NEW t \in Threads, Begin(t)
    PROVE  Orderly'
<1>1. kind \in [Sources -> Kinds] /\ todo \in [Threads -> Seq(Step)]
  BY DEF Orderly, TypeOK
<1>2. PICK op \in Balanced(0) : todo' = [todo EXCEPT ![t] = op]
  BY <1>1, CallsAreBalanced, CallbackIsBalanced DEF Begin
<1>3. todo[t] = <<>> /\ UNCHANGED <<kind, readers, asking, writer>>
  BY DEF Begin
<1>4. todo' \in [Threads -> Seq(Step)] /\ todo'[t] = op /\ \A u \in Threads : u # t => todo'[u] = todo[u]
  BY <1>1, <1>2, BalancedIsDisciplined
<1>5. Disciplined(todo'[t], Mine(t))
  BY <1>3, <1>4, IdleIsFree, BalancedIsDisciplined
<1> QED
  BY <1>3, <1>4, <1>5, LocklessKeeps DEF Comes

LEMMA ReturnKeeps ==
    ASSUME Orderly, NEW t \in Threads, Return(t)
    PROVE  Orderly'
<1>1. todo[t] # <<>> /\ ~OnLock(Head(todo[t])) /\ ~Comes(t, "lock") /\ TypeOK
  BY DEF Return, Comes, OnLock, Orderly
<1>2. Disciplined(Tail(todo[t]), Mine(t)) /\ Tail(todo[t]) \in Seq(Step)
  BY <1>1, NextIsAllowed, MineType, AfterLockless
<1>3. todo' = [todo EXCEPT ![t] = Tail(todo[t])] /\ UNCHANGED <<kind, readers, asking, writer>>
  BY DEF Return, Done
<1>4. todo' \in [Threads -> Seq(Step)] /\ todo'[t] = Tail(todo[t])
      /\ \A u \in Threads : u # t => todo'[u] = todo[u]
  BY <1>1, <1>2, <1>3 DEF TypeOK
<1> QED
  BY <1>1, <1>2, <1>3, <1>4, LocklessKeeps

LEMMA GoKeeps ==
    ASSUME Orderly, NEW t \in Threads, Go(t)
    PROVE  Orderly'
<1>1. /\ todo[t] # <<>> /\ ~OnLock(Head(todo[t])) /\ ~Comes(t, "lock") /\ TypeOK
      /\ UNCHANGED <<kind, readers, asking, writer>>
  BY DEF Go, Comes, OnLock, Orderly
<1>2. Disciplined(Tail(todo[t]), Mine(t)) /\ Tail(todo[t]) \in Seq(Step)
  BY <1>1, NextIsAllowed, MineType, AfterLockless
<1>3. CASE Done(t)
  <2>1. todo' \in [Threads -> Seq(Step)] /\ todo'[t] = Tail(todo[t])
        /\ \A u \in Threads : u # t => todo'[u] = todo[u]
    BY <1>1, <1>2, <1>3 DEF TypeOK, Done
  <2> QED
    BY <1>1, <1>2, <2>1, LocklessKeeps
<1>4. ASSUME NEW g \in Goroutines, todo[g] = <<>>, g # t, NEW op \in HandleSourceEvents,
             todo' = [todo EXCEPT ![t] = Tail(@), ![g] = op]
      PROVE  Orderly'
  <2>1. op \in Balanced(0) /\ op \in Seq(Step) /\ g \in Threads
    BY HandleSourceEventsIsBalanced, BalancedIsDisciplined DEF Threads
  <2>2. todo' \in [Threads -> Seq(Step)] /\ todo'[t] = Tail(todo[t])
        /\ \A u \in Threads : u # t => todo'[u] = todo[u] \/ (u = g /\ todo'[u] = op)
    BY <1>1, <1>2, <1>4, <2>1 DEF TypeOK
  <2> QED
    BY <1>1, <1>2, <1>4, <2>1, <2>2, LocklessKeeps
<1> QED
  BY <1>3, <1>4 DEF Go

LEMMA DisciplinedAfter ==
    ASSUME NEW op \in Balanced(0), NEW rest \in Seq(Step), Disciplined(rest, Free)
    PROVE  Disciplined(op \o rest, Free)
<1>1. Beyond(0) = Step /\ HeldBeyond(0) = Held
  BY RankFacts DEF Beyond, HeldBeyond
<1>2. ASSUME NEW plan \in Plans PROVE Within(plan, 0)
  BY <1>1 DEF Within, Plans
<1>3. PICK first \in Plans : GoesWell(first) /\ Free \in first[op]
  BY DEF Balanced
<1>4. PICK second \in Plans : GoesWell(second) /\ Free \in second[rest]
  BY DEF Disciplined
<1>5. op \in Seq(Step)
  BY BalancedIsDisciplined
<1>6. \E plan \in Plans : GoesWell(plan) /\ Within(plan, 0) /\ Free \in plan[op \o rest]
  BY <1>1, <1>2, <1>3, <1>4, <1>5, ConcatGoesWell
<1> QED
  BY <1>6 DEF Disciplined

LEMMA CallKeeps ==
    ASSUME Orderly, NEW t \in Threads, Call(t)
    PROVE  Orderly'
<1>1. /\ todo[t] # <<>> /\ ~OnLock(Head(todo[t])) /\ Head(todo[t]).do = "call"
      /\ ~Comes(t, "lock") /\ TypeOK /\ UNCHANGED <<kind, readers, asking, writer>>
  BY DEF Call, Comes, OnLock, Orderly
<1>2. Disciplined(Tail(todo[t]), Free) /\ Tail(todo[t]) \in Seq(Step) /\ Mine(t) = Free
  BY <1>1, NextIsAllowed, MineType, AfterLockless DEF Allowed
<1>3. PICK op \in Balanced(0) : todo' = [todo EXCEPT ![t] = op \o Tail(todo[t])]
  <2>1. kind \in [Sources -> Kinds]
    BY <1>1 DEF TypeOK
  <2> QED
    BY <2>1, CallsAreBalanced, NothingIsBalanced DEF Call
<1>4. op \in Seq(Step) /\ op \o Tail(todo[t]) \in Seq(Step)
  BY <1>2, BalancedIsDisciplined, ConcatProperties
<1>5. Disciplined(op \o Tail(todo[t]), Free)
  BY <1>2, DisciplinedAfter
<1>6. todo' \in [Threads -> Seq(Step)] /\ todo'[t] = op \o Tail(todo[t])
      /\ \A u \in Threads : u # t => todo'[u] = todo[u]
  BY <1>1, <1>3, <1>4 DEF TypeOK
<1> QED
  BY <1>1, <1>2, <1>5, <1>6, LocklessKeeps

LEMMA NextIsOrderly == Orderly /\ [Next]_vars => Orderly'
<1> SUFFICES ASSUME Orderly, [Next]_vars PROVE Orderly'
  OBVIOUS
<1>1. ASSUME NEW t \in Threads, Begin(t) \/ GoesOn(t) \/ Return(t) PROVE Orderly'
  BY <1>1, BeginKeeps, ReturnKeeps, RLockKeeps, RUnlockKeeps, AskKeeps, LockKeeps, UnlockKeeps,
     GoKeeps, CallKeeps DEF GoesOn
<1>2. CASE UNCHANGED vars
  <2>1. TypeOK' /\ Announced'
    BY <1>2 DEF vars, Orderly, TypeOK, Announced, Comes, On
  <2>2. ASSUME NEW t \in Threads PROVE Disciplined(todo'[t], Mine(t)')
    <3>1. Mine(t)' = Mine(t)
      BY <1>2, MineStays DEF vars
    <3> QED
      BY <1>2, <3>1 DEF vars, Orderly, InDiscipline
  <2> QED
    BY <2>1, <2>2 DEF Orderly, InDiscipline
<1> QED
  BY <1>1, <1>2 DEF Next

LEMMA AlwaysOrderly == Spec => []Orderly
BY InitIsOrderly, NextIsOrderly, PTL DEF Spec

(* A lock is never had for reading and for writing, nobody lets go of a    *)
(* lock for reading that he has not, and what is left to do is steps.      *)
THEOREM TypeCorrect == Spec => []TypeOK
<1>1. Orderly => TypeOK
  BY DEF Orderly
<1> QED
  BY <1>1, AlwaysOrderly, PTL

(* event.go:81-110: whatever calls what, a handler of the program runs with *)
(* no lock of this library held by its goroutine.                          *)
THEOREM HandlersRunFree == Spec => []HandlersAreFree
<1>1. Orderly => HandlersAreFree
  <2> SUFFICES ASSUME Orderly, NEW t \in Threads, Comes(t, "call"), NEW l \in Locks
               PROVE  ~Holds(t, l)
    BY DEF HandlersAreFree
  <2>1. Mine(t) = Free
    BY NextIsAllowed DEF Comes, Allowed
  <2>2. Mine(t).reads[l] = readers[l][t] /\ (l \in Mine(t).writes <=> writer[l] = t)
    BY DEF Mine
  <2>3. Free.reads[l] = 0 /\ l \notin Free.writes
    BY DEF Free
  <2> QED
    BY <2>1, <2>2, <2>3 DEF Holds
<1> QED
  BY <1>1, AlwaysOrderly, PTL

(* Who waits for whom climbs: to one who waits for a later lock, or who is *)
(* the next to have the lock that both want.                               *)
Height(t) == 2 * Rank(On(t)) + IF asking[On(t)] = t THEN 1 ELSE 0

LEMMA WaitingClimbs ==
    ASSUME Orderly, ~ReadsAgain, NEW t \in Threads, Waits(t), NEW u \in Before(t), Waits(u)
    PROVE  Height(t) < Height(u)
<1>1. PICK l : l = On(t)
  OBVIOUS
<1>2. PICK m : m = On(u)
  OBVIOUS
<1>3. u \in Threads /\ l \in Locks /\ m \in Locks /\ Rank(l) \in 2..5 /\ Rank(m) \in 2..5
  BY <1>1, <1>2, NextIsAllowed, StepTypes, RankFacts DEF Before, Waits, Comes, On, OnLock
<1>4. Height(t) = 2 * Rank(l) + (IF asking[l] = t THEN 1 ELSE 0)
      /\ Height(u) = 2 * Rank(m) + (IF asking[m] = u THEN 1 ELSE 0)
  BY <1>1, <1>2 DEF Height
<1>5. CASE Holds(u, l)
  <2>1. Has(Mine(u), l)
    BY <1>3, <1>5 DEF Has, Mine, Holds
  <2>2. Acquires(Head(todo[u])) /\ Allowed(Mine(u), Head(todo[u])) /\ Head(todo[u]).on = m
    BY <1>2, <1>3, NextIsAllowed DEF Waits, Comes, On, Acquires
  <2>3. Rank(l) < Rank(m)
    BY <1>3, <2>1, <2>2 DEF Allowed, Again
  <2> QED
    BY <1>3, <1>4, <2>3
<1>6. CASE asking[l] = u /\ u # t
  <2>1. m = l
    BY <1>2, <1>3, <1>6 DEF Orderly, Announced
  <2> QED
    BY <1>3, <1>4, <1>6, <2>1
<1> QED
  BY <1>1, <1>5, <1>6 DEF Before, Holds

(* manager.go:54-115, base.go:46-204, event.go:51-90, file.go:71-113: with *)
(* any number of goroutines, sources and clients of any kind, nobody waits *)
(* in a circle, unless an expansion handler of the program reads again.    *)
THEOREM NoCircle ==
    ASSUME ~ReadsAgain
    PROVE  Spec => []NoCircularWait
<1>1. Orderly => NoCircularWait
  <2> SUFFICES ASSUME Orderly, NEW ts \in SUBSET Threads, ts # {},
                      \A t \in ts : Waits(t) /\ Before(t) \cap ts # {}
               PROVE  FALSE
    BY DEF NoCircularWait
  <2>1. ASSUME NEW t \in ts PROVE \E u \in ts : Height(t) < Height(u)
    <3>1. PICK u \in ts : u \in Before(t)
      OBVIOUS
    <3> QED
      BY <3>1, WaitingClimbs
  <2>2. ASSUME NEW t \in ts PROVE Height(t) \in 4..11
    BY RankFacts DEF Height
  <2> DEFINE room == {11 - Height(t) : t \in ts}
  <2>3. room \in SUBSET Nat /\ room # {}
    BY <2>2
  <2>4. PICK r \in room : \A x \in room : r <= x
    <3> HIDE DEF room
    <3> QED
      BY <2>3, MinIsLeast
  <2>5. PICK t \in ts : r = 11 - Height(t)
    OBVIOUS
  <2>6. PICK u \in ts : Height(t) < Height(u)
    BY <2>1
  <2>7. r <= 11 - Height(u)
    BY <2>4
  <2> QED
    BY <2>2, <2>5, <2>6, <2>7
<1> QED
  BY <1>1, AlwaysOrderly, PTL
=============================================================================
