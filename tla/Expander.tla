------------------------------ MODULE Expander ------------------------------
(***************************************************************************)
(* The expander (pkg/expander/expander.go): ${key} references inside       *)
(* values.                                                                 *)
(*                                                                         *)
(* A string value is a template: a sequence of parts, each a literal or a  *)
(* reference; what a reference stands for is found by expanding its key in *)
(* turn.  The expander is one object per manager, its cache and pending    *)
(* maps are fields of it, and manager.Get holds only the read lock: every  *)
(* goroutine that reads the configuration expands with the same two maps.  *)
(*                                                                         *)
(* Each reader is a stack of doExpand calls.  One action is one entry of   *)
(* doExpand, one part of a template, or one return; the two maps are read  *)
(* and written in entries and returns.  Only the built-in pattern is       *)
(* modelled, and the configuration stays as it is while it is read.        *)
(***************************************************************************)
EXTENDS Integers, Sequences, FiniteSets, SequencesExt

CONSTANTS
    Keys,
    Literals,       \* pieces of text without references
    Objects,        \* values that are no strings
    Castable,       \* objects cast.ToStringE turns into a text
    Raws,           \* what a key may hold
    Readers,        \* goroutines that call Get
    NoKey,          \* a reader that has not asked yet
    MaxReads        \* bound: calls of Get, all readers together

(***************************************************************************)
(* A value is a template, or an object, or there is none; a result is a    *)
(* text, given by the pieces it was put together from, an object, or an    *)
(* error.                                                                  *)
(***************************************************************************)
Lit(x) == [kind |-> "lit", of |-> x]
Ref(k) == [kind |-> "ref", of |-> k]
Part   == {Lit(x) : x \in Literals} \cup {Ref(k) : k \in Keys}

Template(parts) == [kind |-> "template", of |-> parts]
Object(x)       == [kind |-> "object", of |-> x]
Missing         == [kind |-> "missing"]
Text(pieces)    == [kind |-> "text", of |-> pieces]
Error           == [kind |-> "error"]
Nothing         == [kind |-> "nothing"]

Piece == Literals \cup Objects

IsTemplate(v) == v.of \in Seq(Part) /\ v = Template(v.of)
IsObject(v)   == \E x \in Objects : v = Object(x)
IsText(v)     == v.of \in Seq(Piece) /\ v = Text(v.of)
IsResult(v)   == IsObject(v) \/ IsText(v)

ASSUME ExpanderAssumption ==
    /\ \A v \in Raws : v = Missing \/ IsObject(v) \/ IsTemplate(v)
    /\ Castable \subseteq Objects /\ Literals \cap Objects = {}
    /\ IsFiniteSet(Keys) /\ NoKey \notin Keys /\ MaxReads \in Nat

VARIABLES
    raw,        \* what unsafeGet answers, per key
    cache,      \* e.cache
    pending,    \* e.pending
    stack,      \* per reader: the calls of doExpand, innermost last
    ret,        \* per reader: what the call that just returned answered
    asked,      \* per reader: the key of its Get
    reads       \* how much of MaxReads has been spent

vars == <<raw, cache, pending, stack, ret, asked, reads>>

(* A call of doExpand: its key, the parts of the value still to do, what   *)
(* the builder holds, and whether a reference was replaced.                *)
Frame(k, parts) == [key |-> k, rest |-> parts, built |-> <<>>, expanded |-> FALSE]

NoCache == [k \in Keys |-> Nothing]

Init == /\ raw \in [Keys -> Raws]
        /\ cache = NoCache
        /\ pending = {}
        /\ stack = [r \in Readers |-> <<>>]
        /\ ret = [r \in Readers |-> Nothing]
        /\ asked = [r \in Readers |-> NoKey]
        /\ reads = 0

-----------------------------------------------------------------------------
(* e.valueOf: a text from the cache has no references left.                *)
AsTemplate(v) == IF v.kind = "text"
                 THEN Template([i \in DOMAIN v.of |-> Lit(v.of[i])]) ELSE v
ValueOf(k, cached) == IF cached[k] # Nothing THEN AsTemplate(cached[k]) ELSE raw[k]

(* Mistake: an error is logged, and nobody is told.                        *)
Fail_silently(r) == stack' = [stack EXCEPT ![r] = <<>>] /\ ret' = [ret EXCEPT ![r] = Nothing]

(* An error is handed up through every call; none of them touches the maps *)
(* on the way, so their keys stay pending.                                 *)
Fail(r) == stack' = [stack EXCEPT ![r] = <<>>] /\ ret' = [ret EXCEPT ![r] = Error]

(* doExpand(k) up to its loop, called from the calls given and with the    *)
(* maps as they are then.                                                  *)
Enter(r, k, calls, cached, open) ==
    LET v == ValueOf(k, cached) IN
    /\ cache' = cached
    /\ \/ /\ k \in open \/ v = Missing
          /\ Fail(r)
          /\ pending' = open
       \/ /\ k \notin open /\ v.kind = "object"
          /\ stack' = [stack EXCEPT ![r] = calls]
          /\ ret' = [ret EXCEPT ![r] = v]
          /\ pending' = open
       \/ /\ k \notin open /\ v.kind = "template"
          /\ stack' = [stack EXCEPT ![r] = Append(calls, Frame(k, v.of))]
          /\ ret' = [ret EXCEPT ![r] = Nothing]
          /\ pending' = open \cup {k}

(* Manager.Get and Expand: new maps, whoever is using the old ones.        *)
Get(r, k) ==
    /\ stack[r] = <<>> /\ ret[r] = Nothing
    /\ reads < MaxReads /\ reads' = reads + 1
    /\ asked' = [asked EXCEPT ![r] = k]
    /\ Enter(r, k, <<>>, NoCache, {})
    /\ UNCHANGED raw

Top(r)   == Last(stack[r])
Below(r) == Front(stack[r])

(* hasNext: where the next reference is, 0 if there is none.               *)
RefsIn(parts)   == {i \in DOMAIN parts : parts[i].kind = "ref"}
HasNext(parts)  == RefsIn(parts) # {}
NextRef_last(parts) == Max(RefsIn(parts))   \* mistake: the last one
NextRef(parts)  == Min(RefsIn(parts))
Pieces(parts)   == [i \in DOMAIN parts |-> parts[i].of]

(* Mistake: the result is cached under the key that was asked for.         *)
Finish_underAsked(r, value, expanded) ==
    /\ cache' = IF expanded THEN [cache EXCEPT ![asked[r]] = value] ELSE cache
    /\ pending' = pending \ {Top(r).key}
    /\ stack' = [stack EXCEPT ![r] = Below(r)]
    /\ ret' = [ret EXCEPT ![r] = value]

(* Mistake: the key stays pending.                                         *)
Finish_stillPending(r, value, expanded) ==
    /\ cache' = IF expanded THEN [cache EXCEPT ![Top(r).key] = value] ELSE cache
    /\ stack' = [stack EXCEPT ![r] = Below(r)]
    /\ ret' = [ret EXCEPT ![r] = value]
    /\ UNCHANGED pending

(* The end of doExpand: the value is cached if anything was replaced.      *)
Finish(r, value, expanded) ==
    /\ cache' = IF expanded THEN [cache EXCEPT ![Top(r).key] = value] ELSE cache
    /\ pending' = pending \ {Top(r).key}
    /\ stack' = [stack EXCEPT ![r] = Below(r)]
    /\ ret' = [ret EXCEPT ![r] = value]

(* doOne finds a reference and calls the handler, which expands its key.   *)
CallHandler(r) ==
    /\ stack[r] # <<>> /\ ret[r] = Nothing
    /\ HasNext(Top(r).rest)
    /\ Enter(r, Top(r).rest[NextRef(Top(r).rest)].of, stack[r], cache, pending)
    /\ UNCHANGED <<raw, asked, reads>>

(* Mistake: what was built before is lost.                                 *)
NoMoreReferences_restOnly(r) ==
    /\ stack[r] # <<>> /\ ret[r] = Nothing
    /\ ~HasNext(Top(r).rest)
    /\ Finish(r, Text(Pieces(Top(r).rest)), Top(r).expanded)
    /\ UNCHANGED <<raw, asked, reads>>

(* doOne finds none: what is left is copied, and the value is complete.    *)
NoMoreReferences(r) ==
    /\ stack[r] # <<>> /\ ret[r] = Nothing
    /\ ~HasNext(Top(r).rest)
    /\ Finish(r, Text(Top(r).built \o Pieces(Top(r).rest)), Top(r).expanded)
    /\ UNCHANGED <<raw, asked, reads>>

CanCast(dst) == dst.kind = "text" \/ dst.of \in Castable
Cast(dst)    == IF dst.kind = "text" THEN dst.of ELSE <<dst.of>>

(* The handler has answered.  If what was left of the value is just the    *)
(* reference, the answer is the value, and the builder is dropped;         *)
(* otherwise text and answer go to the builder and the loop goes on.       *)
Substitute(r) ==
    LET rest == Top(r).rest
        next == NextRef(rest)
        dst  == ret[r]
    IN  /\ stack[r] # <<>> /\ ret[r] # Nothing
        /\ \/ /\ next = 1 /\ Len(rest) = 1
              /\ Finish(r, dst, TRUE)
           \/ /\ ~(next = 1 /\ Len(rest) = 1) /\ ~CanCast(dst)
              /\ Fail(r)
              /\ UNCHANGED <<cache, pending>>
           \/ /\ ~(next = 1 /\ Len(rest) = 1) /\ CanCast(dst)
              /\ LET before == Pieces(SubSeq(rest, 1, next - 1))
                     frame == [Top(r) EXCEPT !.rest = SubSeq(rest, next + 1, Len(rest)),
                                             !.built = @ \o before \o Cast(dst),
                                             !.expanded = TRUE]
                 IN  stack' = [stack EXCEPT ![r] = Append(Below(r), frame)]
              /\ ret' = [ret EXCEPT ![r] = Nothing]
              /\ UNCHANGED <<cache, pending>>
        /\ UNCHANGED <<raw, asked, reads>>

(* Get returns; an error is logged and becomes ok = false.                 *)
Answer(r) ==
    /\ stack[r] = <<>> /\ ret[r] # Nothing
    /\ ret' = [ret EXCEPT ![r] = Nothing]
    /\ UNCHANGED <<raw, cache, pending, stack, asked, reads>>

Step(r) == CallHandler(r) \/ NoMoreReferences(r) \/ Substitute(r) \/ Answer(r)

Next == \E r \in Readers : Step(r) \/ \E k \in Keys : Get(r, k)

Spec == Init /\ [][Next]_vars
FairSpec == Spec /\ \A r \in Readers : WF_vars(Step(r))

-----------------------------------------------------------------------------
(***************************************************************************)
(* What a key means: the value with every reference replaced by what its   *)
(* key means, an object where a value is one reference to it and nothing   *)
(* else.  A chain of more references than there are keys is a cycle.       *)
(***************************************************************************)
PartMeaning(part, m) == IF part.kind = "lit" THEN Text(<<part.of>>) ELSE m[part.of]

IsReference(parts)     == Len(parts) = 1 /\ parts[1].kind = "ref"
PartMeanings(parts, m) == [i \in DOMAIN parts |-> PartMeaning(parts[i], m)]
IsNoText(each)         == \E i \in DOMAIN each : each[i] = Error \/ ~CanCast(each[i])
Joined(each)           == Text(FlattenSeq([i \in DOMAIN each |-> Cast(each[i])]))

TemplateMeaning(parts, m) ==
    IF IsReference(parts) THEN PartMeaning(parts[1], m)
    ELSE IF IsNoText(PartMeanings(parts, m)) THEN Error
    ELSE Joined(PartMeanings(parts, m))

MeaningUpTo[n \in 0..Cardinality(Keys)] ==
    [k \in Keys |->
       IF n = 0 \/ raw[k] = Missing THEN Error
       ELSE IF raw[k].kind = "object" THEN raw[k]
       ELSE TemplateMeaning(raw[k].of, MeaningUpTo[n-1])]

Meaning(k) == MeaningUpTo[Cardinality(Keys)][k]

Answered(r) == stack[r] = <<>> /\ ret[r] # Nothing

(* What is under way; a text from the cache may hold an object's text.     *)
Calls == [key : Keys, rest : Seq(Part \cup {Lit(x) : x \in Objects}),
          built : Seq(Piece), expanded : BOOLEAN]

TypeOK ==
    /\ raw \in [Keys -> Raws]
    /\ DOMAIN cache = Keys /\ \A k \in Keys : cache[k] = Nothing \/ IsResult(cache[k])
    /\ pending \subseteq Keys
    /\ stack \in [Readers -> Seq(Calls)]
    /\ DOMAIN ret = Readers /\ \A r \in Readers : ret[r] \in {Nothing, Error} \/ IsResult(ret[r])
    /\ asked \in [Readers -> Keys \cup {NoKey}]
    /\ reads \in 0..MaxReads

(* expander.go:121-168: Get answers what the key means, an error if it     *)
(* names a missing key or depends on itself.                               *)
AnswersMeaning == \A r \in Readers : Answered(r) => ret[r] = Meaning(asked[r])

(* expander.go:58-67, 152, 158: a cached result is what its key means,     *)
(* whichever reference filled it in.                                       *)
CacheIsMeaning == \A k \in Keys : cache[k] # Nothing => cache[k] = Meaning(k)

(* expander.go:124, 138, 160: a key is pending exactly while a doExpand of *)
(* it is under way, so no key is entered twice and the depth is bounded.   *)
PendingIsStack ==
    \A r \in Readers : stack[r] # <<>> =>
        /\ pending = {stack[r][i].key : i \in DOMAIN stack[r]}
        /\ Cardinality(pending) = Len(stack[r])

(* expander.go:123-126: an error is reported only for a key that has no    *)
(* meaning: a circular dependency is one.                                  *)
ErrorsAreReal == \A r \in Readers : Answered(r) /\ ret[r] = Error => Meaning(asked[r]) = Error

(* Every Get is answered, values that depend on themselves included.       *)
EveryGetAnswers == \A r \in Readers : stack[r] # <<>> ~> Answered(r)
=============================================================================
