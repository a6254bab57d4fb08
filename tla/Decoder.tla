------------------------------- MODULE Decoder ------------------------------
(***************************************************************************)
(* What Unmarshal makes of a flat configuration (unmarshal.go), given the  *)
(* descriptions of the structs it meets.                                   *)
(*                                                                         *)
(* A value is a scalar, a map whose keys are sequences of pieces, a list,  *)
(* or a struct: a function from the ways to its fields to their values.    *)
(***************************************************************************)
EXTENDS Flatter, StructInfo

CONSTANTS
    Numerals,       \* the numbers that texts stand for
    ArrayLimit      \* how far a list without a length is counted

ASSUME DecoderAssumption == ArrayLimit \in Nat

MapOf(f)    == <<"map", f>>
ListOf(s)   == <<"list", s>>
StructOf(f) == <<"struct", f>>

(* The keys below a key, and the names that come next in them.             *)
ChildKeysOf(key, keys) ==
    {k \in keys : /\ Len(k) > Len(key) /\ SubSeq(k, 1, Len(key)) = key
                  /\ key = <<>> \/ ~IsIndex(k[Len(key) + 1])}
ChildName(full, key) ==
    LET dots == {i \in Len(key) + 2..Len(full) : ~IsIndex(full[i])}
    IN  SubSeq(full, Len(key) + 1, IF dots = {} THEN Len(full) ELSE Min(dots) - 1)
ChildNames(key, keys) == {ChildName(k, key) : k \in ChildKeysOf(key, keys)}

HasElement(key, i, keys) ==
    Append(key, Index[i]) \in keys \/ ChildKeysOf(Append(key, Index[i]), keys) # {}
Counted(key, keys) ==
    Max({n \in 0..ArrayLimit : n <= Len(Index) /\ \A i \in 1..n : HasElement(key, i, keys)})

(* Mistake: the elements are counted although the length is written down.  *)
ArraySize_counted(key, u) == Counted(key, u.keys)

(* The number under the list's own key is its length, and any other value  *)
(* makes it empty; without one the elements are counted.                   *)
ArraySize(key, u) ==
    IF key \notin DOMAIN u.get THEN Counted(key, u.keys)
    ELSE IF Kind(u.get[key]) # "int" THEN 0
    ELSE IF Of(u.get[key]) > Len(Index) THEN Len(Index) ELSE Of(u.get[key])

Zero(type) == CASE KindOf(type) = "text" -> Text("") [] KindOf(type) = "int" -> Number(0) [] OTHER -> Null
Convertible(type, v) == KindOf(type) # "int" \/ Kind(v) = "int" \/ Of(v) \in DOMAIN Numerals
Converted(type, v) ==
    CASE KindOf(type) = "text" /\ Kind(v) = "int" -> Text(CHOOSE t \in DOMAIN Numerals : Numerals[t] = Of(v))
      [] KindOf(type) = "int" /\ Kind(v) = "text" -> Number(Numerals[Of(v)])
      [] OTHER -> v

-----------------------------------------------------------------------------
(* The outcome: the value, whether it was good, the keys of errors, and    *)
(* the structs met of which there is no description yet.                   *)
Good(value)     == [value |-> value, good |-> TRUE,  errs |-> {},    needs |-> {}]
Bad(key, value) == [value |-> value, good |-> FALSE, errs |-> {key}, needs |-> {}]
Made(value, parts) ==
    [value |-> value, good |-> TRUE, errs  |-> UNION {p.errs : p \in parts},
                                     needs |-> UNION {p.needs : p \in parts}]

HandleBasic(type, key, u) ==
    LET v == u.get[key]
    IN  IF key \notin DOMAIN u.get \/ Kind(v) = "null" THEN Good(Zero(type))
        ELSE IF Convertible(type, v) THEN Good(Converted(type, v)) ELSE Bad(key, Zero(type))

(* d is the outcome for what is inside the variable; u is the decoder: the *)
(* keys it knows, the configuration it gets values of, and the             *)
(* descriptions it has.                                                    *)
HandleMap(d, type, key, u) ==
    LET got == [n \in ChildNames(key, u.keys) |-> d[<<Elem(type), key \o n>>]]
    IN  Made(MapOf([n \in {m \in DOMAIN got : got[m].good} |-> got[n].value]), Range(got))

HandleSlice(d, type, key, u) ==
    LET got == [i \in 1..ArraySize(key, u) |-> d[<<Elem(type), Append(key, Index[i])>>]]
    IN  Made(ListOf([i \in DOMAIN got |-> got[i].value]), Range(got))

PathsOf(info) == {f.path : f \in info.fields}
FieldAt(info, path) == CHOOSE f \in info.fields : f.path = path
InlineElem(st, info) == Elem(Fields[st][info.inlineMap].type)
Others(info, key, u) == ChildNames(key, u.keys) \ {<<k>> : k \in KeysOf(info) \cup {""}}

HandleStruct(d, st, key, u) ==
    LET info  == u.infos[st]
        got   == [p \in PathsOf(info) |-> d[<<FieldAt(info, p).type, Append(key, FieldAt(info, p).key)>>]]
        plain == [p \in DOMAIN got |-> got[p].value]
        more  == [n \in Others(info, key, u) |-> d[<<InlineElem(st, info), key \o n>>]]
        other == MapOf([n \in DOMAIN more |-> more[n].value])
    IN  IF info.inlineMap = 0 THEN Made(StructOf(plain), Range(got))
        ELSE Made(StructOf(Over(Single(<<info.inlineMap>>, other), plain)), Range(got) \cup Range(more))

Handle(d, type, key, u) ==
    CASE KindOf(type) = "map"   -> HandleMap(d, type, key, u)
      [] KindOf(type) = "slice" -> HandleSlice(d, type, key, u)
      [] KindOf(type) = "struct" ->
            IF type.base \in DOMAIN u.infos THEN HandleStruct(d, type.base, key, u)
            ELSE [Good(Null) EXCEPT !.needs = {type.base}]
      [] OTHER -> HandleBasic(type, key, u)

Outcomes(u) == LET d[at \in Types \X Keys] == Handle(d, at[1], at[2], u) IN d
Decode(type, key, u) == Outcomes(u)[<<type, key>>]

-----------------------------------------------------------------------------
(* For reference: the value a document stands for at a way into it,        *)
(* whatever keys it has become, and whether that can be said.  It cannot   *)
(* of a document of another shape than the variable, or with a text where  *)
(* a number is needed, of a list beside an inline map or among the entries *)
(* of a map, nor of a list that has to be counted too far or over elements *)
(* that left no key.                                                       *)
(*                                                                         *)
(* An empty map leaves no key, so it is as good as none.                   *)
NoNode == <<"none">>
NodeAt(doc, way) == IF way \in DOMAIN doc THEN doc[way] ELSE NoNode
NamesIn(doc, way) == {leaf[Len(way) + 1] : leaf \in ChildKeysOf(way, Leaves(doc))}
Shows(doc, way) == way \in Leaves(doc) \/ NamesIn(doc, way) # {}
NoList(doc, way) == \A i \in DOMAIN Index : Append(way, Index[i]) \notin DOMAIN doc

Length(doc, way) ==
    IF Kind(NodeAt(doc, way)) = "list" THEN Of(NodeAt(doc, way))
    ELSE Min({n \in 0..Len(Index) : n = Len(Index) \/ Append(way, Index[n + 1]) \notin DOMAIN doc})

MeantMap(m, type, way, doc) ==
    LET got == [n \in {<<name>> : name \in NamesIn(doc, way)} |-> m[<<Elem(type), way \o n>>]]
    IN  [value |-> MapOf([n \in DOMAIN got |-> got[n].value]),
         fits  |-> /\ NodeAt(doc, way) \in {NoNode, AMap}
                   /\ \A n \in DOMAIN got : got[n].fits /\ NoList(doc, way \o n)]

MeantSlice(m, type, way, doc) ==
    LET got == [i \in {j \in DOMAIN Index : j <= Length(doc, way)} |->
                   m[<<Elem(type), Append(way, Index[i])>>]]
    IN  [value |-> ListOf([i \in DOMAIN got |-> got[i].value]),
         fits  |-> /\ \/ /\ NodeAt(doc, way) \in {NoNode, Items} /\ Length(doc, way) <= ArrayLimit
                         /\ \A i \in DOMAIN got : Shows(doc, Append(way, Index[i]))
                      \/ Kind(NodeAt(doc, way)) = "list" /\ Length(doc, way) <= Len(Index)
                   /\ \A i \in DOMAIN got : got[i].fits]

MeantStruct(m, st, info, way, doc) ==
    LET got   == [p \in PathsOf(info) |-> m[<<FieldAt(info, p).type, Append(way, FieldAt(info, p).key)>>]]
        plain == [p \in DOMAIN got |-> got[p].value]
        rest  == {<<name>> : name \in NamesIn(doc, way) \ KeysOf(info)}
        more  == [n \in rest |-> m[<<InlineElem(st, info), way \o n>>]]
        other == MapOf([n \in rest |-> more[n].value])
    IN  [value |-> StructOf(IF info.inlineMap = 0 THEN plain
                            ELSE Over(Single(<<info.inlineMap>>, other), plain)),
         fits  |-> /\ info.ok /\ NodeAt(doc, way) \in {NoNode, AMap}
                   /\ \A p \in DOMAIN got : got[p].fits
                   /\ info.inlineMap # 0 =>
                         /\ \A n \in rest : more[n].fits
                         /\ \A name \in NamesIn(doc, way) : NoList(doc, Append(way, name))]

MeantBasic(type, node) ==
    [value |-> IF node \in {NoNode, Null} THEN Zero(type) ELSE Converted(type, node),
     fits  |-> \/ node \in {NoNode, Null}
               \/ node \in Scalar /\ Convertible(type, node)]

MeantAt(m, type, way, doc, useTag) ==
    CASE KindOf(type) = "map"    -> MeantMap(m, type, way, doc)
      [] KindOf(type) = "slice"  -> MeantSlice(m, type, way, doc)
      [] KindOf(type) = "struct" -> MeantStruct(m, type.base, Described(type.base, useTag), way, doc)
      [] OTHER                   -> MeantBasic(type, NodeAt(doc, way))

Meanings(doc, useTag) ==
    LET m[at \in Types \X Keys] == MeantAt(m, at[1], at[2], doc, useTag) IN m
Meant(type, way, doc, useTag) == Meanings(doc, useTag)[<<type, way>>]
=============================================================================
