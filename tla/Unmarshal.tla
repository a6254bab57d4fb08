----------------------------- MODULE Unmarshal ------------------------------
(***************************************************************************)
(* Unmarshal (unmarshal.go): paths are loaded and parsed, the key/values   *)
(* of one lie over those of another, and callers read them back into       *)
(* variables, describing structs on their way in a cache all callers share *)
(* (pkg/structinfo).                                                       *)
(*                                                                         *)
(* A path is loaded as modules PathStore and BaseSource have it; here it   *)
(* matters what the contents are.  A call asks for the keys once, then for *)
(* one value after another.  All values are read in one action, which says *)
(* what comes of it when nothing was loaded meanwhile; else the answer may *)
(* be a mixture, and none is said to come of it.                           *)
(***************************************************************************)
EXTENDS Decoder, Parser

CONSTANTS
    Paths,          \* in order, the one of highest priority first
    Contents,       \* what may be loaded from each path
    Root,           \* the key all paths are put under,
    Prefix,         \* and how the source spells it: with a dot at the end or without
    Callers,
    Asks,           \* what they unmarshal: a type, a tag, a prefix and the names it adds to Root
    MaxLoads        \* bound on the loads after the first ones

ASSUME UnmarshalAssumption ==
    /\ MaxLoads \in Nat /\ Paths \in Seq(Range(Paths))
    /\ \A p \in Range(Paths) : \A c \in Contents[p] : IsContents(c)
    /\ Root \in Seq(STRING \ {""}) /\ Prefix \in {Root, Append(Root, "")}
    /\ \A a \in Asks : /\ a.type \in Types /\ a.tag \in {""} \cup ToSet(SupportedTags)
                      /\ a.below \in Seq(STRING \ {""})
                      /\ a.prefix \in {Root \o a.below, Root \o a.below \o <<"">>}

VARIABLES
    held,       \* the key/values of each path (pathStore.values)
    stands,     \* the document that is loaded from each path, for reference
    withDeleted,
    loads,      \* how many there were
    cache,      \* structinfo.cache
    call        \* of each caller: how far it is, and what it has

vars == <<held, stands, withDeleted, loads, cache, call>>

NoInfos == <<>>
Idle == [at |-> "idle"]
None == [value |-> Null, errs |-> {}]
Panic == [value |-> <<"panic">>, errs |-> {}]
Mixture == [value |-> <<"mixture">>, errs |-> {}]

Config == Layered([i \in DOMAIN Paths |-> held[Paths[i]]])
Loaded(c) == Parse(c, Prefix).values

Init ==
    /\ withDeleted \in BOOLEAN /\ loads = 0
    /\ \E first \in [Range(Paths) -> UNION {Contents[p] : p \in Range(Paths)}] :
          /\ \A p \in Range(Paths) : first[p] \in Contents[p]
          /\ held = [p \in Range(Paths) |-> Loaded(first[p])]
          /\ stands = [p \in Range(Paths) |-> Meaning(first[p])]
    /\ cache = NoInfos
    /\ call = [r \in Callers |-> Idle]

(* Keys that are there no more stay, unless deletions count.               *)
Load(p, c) ==
    /\ loads < MaxLoads /\ loads' = loads + 1
    /\ held' = [held EXCEPT ![p] = IF withDeleted THEN Loaded(c) ELSE Over(Loaded(c), @)]
    /\ stands' = [stands EXCEPT ![p] = IF withDeleted THEN Meaning(c) ELSE Laid(<<Meaning(c), @>>)]
    /\ call' = [r \in Callers |->
                   IF call[r].at = "idle" THEN Idle ELSE [call[r] EXCEPT !.steady = FALSE]]
    /\ UNCHANGED <<withDeleted, cache>>

Begin(r, a) ==
    /\ call[r].at # "decoding"
    /\ call' = [call EXCEPT ![r] = [at |-> "decoding", ask |-> a, keys |-> DOMAIN Config, infos |-> NoInfos,
                                    frames |-> <<>>, answer |-> None, steady |-> TRUE]]
    /\ UNCHANGED <<held, stands, withDeleted, loads, cache>>

-----------------------------------------------------------------------------
Stripped(prefix) == IF prefix # <<>> /\ Last(prefix) = "" THEN Front(prefix) ELSE prefix
Outcome(r) == Decode(call[r].ask.type, Stripped(call[r].ask.prefix),
                     [keys |-> call[r].keys, get |-> Config, infos |-> call[r].infos])

Decoding(r) == call[r].at = "decoding" /\ call[r].frames = <<>>
Describing(r, looked) == /\ call[r].at = "decoding" /\ call[r].frames # <<>>
                         /\ Head(call[r].frames).looked = looked
Top(r) == Head(call[r].frames).of
Asked(st) == [of |-> st, looked |-> FALSE]
Known(r, st, info) == [call EXCEPT ![r].frames = Tail(@), ![r].infos = Over(Single(st, info), @)]

(* The call comes to a struct and asks structinfo.Get for its description. *)
Meet(r) ==
    /\ Decoding(r)
    /\ \E st \in Outcome(r).needs : call' = [call EXCEPT ![r].frames = <<Asked(st)>>]
    /\ UNCHANGED <<held, stands, withDeleted, loads, cache>>

LookUp(r) ==
    /\ Describing(r, FALSE)
    /\ \/ Top(r) \in DOMAIN cache /\ call' = Known(r, Top(r), cache[Top(r)])
       \/ Top(r) \notin DOMAIN cache /\ call' = [call EXCEPT ![r].frames[1].looked = TRUE]
    /\ UNCHANGED <<held, stands, withDeleted, loads, cache>>

(* The fields are taken in order, up to an inlined struct not asked for    *)
(* yet, if any.                                                            *)
Missing(r) == {i \in Inlined(Top(r), call[r].ask.tag) :
                  Fields[Top(r)][i].type.base \notin DOMAIN call[r].infos}
SoFar(r) ==
    DescribeUpTo(IF Missing(r) = {} THEN Len(Fields[Top(r)]) ELSE Min(Missing(r)) - 1,
                 Top(r), call[r].ask.tag, call[r].infos)

(* Mistake: the description is put into the cache before it is complete.   *)
Descend_unfinished(r) ==
    /\ Describing(r, TRUE) /\ Missing(r) # {} /\ SoFar(r).ok
    /\ cache' = Over(Single(Top(r), SoFar(r)), cache)
    /\ call' = [call EXCEPT ![r].frames = <<Asked(Fields[Top(r)][Min(Missing(r))].type.base)>> \o @]
    /\ UNCHANGED <<held, stands, withDeleted, loads>>

Descend(r) ==
    /\ Describing(r, TRUE) /\ Missing(r) # {} /\ SoFar(r).ok
    /\ call' = [call EXCEPT ![r].frames = <<Asked(Fields[Top(r)][Min(Missing(r))].type.base)>> \o @]
    /\ UNCHANGED <<held, stands, withDeleted, loads, cache>>

(* Mistake: errors are only looked at afterwards.                          *)
Store_invalid(r) ==
    /\ Describing(r, TRUE) /\ Missing(r) = {}
    /\ cache' = Over(Single(Top(r), SoFar(r)), cache)
    /\ call' = Known(r, Top(r), SoFar(r))
    /\ UNCHANGED <<held, stands, withDeleted, loads>>

Store(r) ==
    /\ Describing(r, TRUE) /\ Missing(r) = {} /\ SoFar(r).ok
    /\ cache' = Over(Single(Top(r), SoFar(r)), cache)
    /\ call' = Known(r, Top(r), SoFar(r))
    /\ UNCHANGED <<held, stands, withDeleted, loads>>

(* A struct that cannot be described makes Unmarshal panic.                *)
Fail(r) ==
    /\ Describing(r, TRUE) /\ ~SoFar(r).ok
    /\ call' = [call EXCEPT ![r].at = "done", ![r].frames = <<>>, ![r].answer = Panic]
    /\ UNCHANGED <<held, stands, withDeleted, loads, cache>>

Answer(r) ==
    /\ Decoding(r)
    /\ \E out \in {Outcome(r)} :
          /\ out.needs = {}
          /\ call' = [call EXCEPT ![r].at = "done",
                                  ![r].answer = IF call[r].steady THEN [value |-> out.value, errs |-> out.errs]
                                                ELSE Mixture]
    /\ UNCHANGED <<held, stands, withDeleted, loads, cache>>

Next ==
    \/ \E p \in Range(Paths) : \E c \in Contents[p] : Load(p, c)
    \/ \E r \in Callers :
          \/ \E a \in Asks : Begin(r, a)
          \/ Meet(r) \/ LookUp(r) \/ Descend(r) \/ Store(r) \/ Fail(r) \/ Answer(r)

Spec == Init /\ [][Next]_vars
-----------------------------------------------------------------------------
(* Structs asked for under one tag name only, they and what is in them:    *)
(* the cache has a description for each struct, whatever the tag name.     *)
OneTag ==
    {st \in Structs : \A a, b \in Asks :
        StructsOf(a.type) \cap StructsOf(b.type) \cap StructsOf([outer |-> <<>>, base |-> st]) # {}
           => a.tag = b.tag}

AsAsked(r, st) == call[r].infos[st] = Described(st, call[r].ask.tag)

(* Types; only descriptions without errors are kept, and describing one    *)
(* struct never leads back to it.                                          *)
TypeOK ==
    /\ loads \in 0..MaxLoads /\ withDeleted \in BOOLEAN
    /\ DOMAIN cache \subseteq Structs /\ \A st \in DOMAIN cache : cache[st].ok
    /\ \A r \in Callers : call[r].at # "idle" =>
          /\ call[r].ask \in Asks /\ DOMAIN call[r].infos \subseteq Structs
          /\ \A i, j \in DOMAIN call[r].frames : i # j => call[r].frames[i].of # call[r].frames[j].of

(* What the documents say together.                                        *)
Document == Laid([i \in DOMAIN Paths |-> stands[Paths[i]]])

IsMeant(answer, meant) == meant.fits => answer = [value |-> meant.value, errs |-> {}]

(* unmarshal.go:466-488: flattening documents, laying their keys over one  *)
(* another and putting values together from keys again gives what laying   *)
(* the documents over one another would have given, with no errors.        *)
UnmarshalledAsMeant ==
    \A r \in Callers :
       call[r].at = "done" /\ call[r].steady /\ call[r].answer # Panic =>
          LET a == call[r].ask
          IN  (\A st \in DOMAIN call[r].infos : AsAsked(r, st)) =>
                 IsMeant(call[r].answer, Meant(a.type, a.below, Document, a.tag))

(* pkg/structinfo/struct.go:31-158: callers describe structs at the same   *)
(* time, each from what it finds in the cache of structs inlined in them,  *)
(* in an order nobody knows; a call gets what its own tag name says of     *)
(* every struct that is asked for under no other, also when other structs  *)
(* are.                                                                    *)
DescribesSoleTag ==
    \A r \in Callers : call[r].at # "idle" =>
       \A st \in DOMAIN call[r].infos \cap OneTag : AsAsked(r, st)

(* src/README.md:92, unmarshal.go:26: a call gets what its tag name says   *)
(* of every struct, whoever asked for it before.                           *)
DescribesAskedTag ==
    \A r \in Callers : call[r].at # "idle" =>
       \A st \in DOMAIN call[r].infos : AsAsked(r, st)
=============================================================================
