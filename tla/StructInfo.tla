----------------------------- MODULE StructInfo -----------------------------
(***************************************************************************)
(* How a struct is described (pkg/structinfo): under which keys its fields *)
(* are looked up, those of inlined structs included.                       *)
(*                                                                         *)
(* The type of a variable is a text, an int, anything, or a struct, inside *)
(* any maps and slices: outer names these from the outside in.             *)
(***************************************************************************)
EXTENDS Integers, Sequences, SequencesExt, FiniteSets, FiniteSetsExt

CONSTANT Fields     \* the fields of each struct type, in order

Structs == DOMAIN Fields
Basic   == {"text", "int", "any"}
Types   == [outer : Seq({"map", "slice"}), base : Basic \cup Structs]

KindOf(type) == IF type.outer # <<>> THEN Head(type.outer)
                ELSE IF type.base \in Structs THEN "struct" ELSE type.base
Elem(type) == [outer |-> Tail(type.outer), base |-> type.base]

(* A field: the name toCamelString makes of the Go one, its type, and for  *)
(* each tag name the tag, split at the commas into a name and flags.       *)
SupportedTags == <<"prop", "yaml", "json">>
NoTag   == [name |-> "", flags |-> {}]
Dash    == [name |-> "-", flags |-> {}]
Tag     == [name : STRING, flags : SUBSET STRING]
Field   == [camel : STRING, type : Types, tags : [ToSet(SupportedTags) -> Tag]]

(* Go has no struct that contains itself, but through a map or a slice.    *)
ASSUME FieldsAssumption ==
    /\ IsFiniteSet(Structs) /\ Structs \subseteq STRING \ (Basic \cup {"map", "slice", "struct"})
    /\ \A st \in Structs : Fields[st] \in Seq(Field)
    /\ \E depth \in [Structs -> 1..Cardinality(Structs)] :
          \A st \in Structs : \A i \in DOMAIN Fields[st] :
             KindOf(Fields[st][i].type) = "struct" => depth[Fields[st][i].type.base] < depth[st]

TagOf(field, useTag) ==
    LET given == {i \in DOMAIN SupportedTags : field.tags[SupportedTags[i]] # NoTag}
    IN  IF useTag # "" THEN field.tags[useTag]
        ELSE IF given = {} THEN NoTag ELSE field.tags[SupportedTags[Min(given)]]
KeyOf(field, useTag) ==
    LET tag == TagOf(field, useTag) IN IF tag.name # "" THEN tag.name ELSE field.camel
IsInline(field, useTag) == "inline" \in TagOf(field, useTag).flags
Misflagged(field, useTag) == ~ TagOf(field, useTag).flags \subseteq {"omitempty", "flow", "inline"}

(* A description: whether there is one, the fields with the way to them    *)
(* through inlined structs, and the field that is an inline map, 0 if none.*)
Invalid    == [ok |-> FALSE, fields |-> {}, inlineMap |-> 0]
KeysOf(info) == {f.key : f \in info.fields}

InlineOf(kind, st, useTag) ==
    {i \in DOMAIN Fields[st] : /\ IsInline(Fields[st][i], useTag)
                               /\ ~Misflagged(Fields[st][i], useTag)
                               /\ KindOf(Fields[st][i].type) = kind}
Inlined(st, useTag) == InlineOf("struct", st, useTag)

(* Field number i gives the description its own key, or the fields of the  *)
(* struct it inlines.  An inline map of that struct is forgotten.          *)
FieldsFrom(i, st, useTag, known) ==
    LET field == Fields[st][i]
    IN  IF i \in Inlined(st, useTag)
        THEN {[f EXCEPT !.path = <<i>> \o @] : f \in known[field.type.base].fields}
        ELSE IF IsInline(field, useTag) \/ TagOf(field, useTag) = Dash THEN {}
        ELSE {[key |-> KeyOf(field, useTag), path |-> <<i>>, type |-> field.type]}

(* What makes an error of field i.                                         *)
IsWrong(i, st, useTag, known) ==
    LET field == Fields[st][i]
    IN  \/ Misflagged(field, useTag)
        \/ /\ IsInline(field, useTag)
           /\ KindOf(field.type) = "struct" => ~known[field.type.base].ok
           /\ KindOf(field.type) # "map"

(* The first n fields, given the descriptions of inlined structs.  Two     *)
(* fields of one key are an error, and so are two inline maps.             *)
DescribeUpTo(n, st, useTag, known) ==
    LET fields == UNION {FieldsFrom(i, st, useTag, known) : i \in 1..n}
        maps   == {i \in InlineOf("map", st, useTag) : i <= n}
    IN  IF \/ \E i \in 1..n : IsWrong(i, st, useTag, known)
           \/ \E f, g \in fields : f # g /\ f.key = g.key
           \/ \E i, j \in maps : i # j
        THEN Invalid
        ELSE [ok |-> TRUE, fields |-> fields,
              inlineMap |-> IF maps = {} THEN 0 ELSE CHOOSE i \in maps : TRUE]
Describe(st, useTag, known) == DescribeUpTo(Len(Fields[st]), st, useTag, known)

(* For reference: the descriptions a tag name asks for, with no cache.     *)
Descriptions ==
    [useTag \in {""} \cup ToSet(SupportedTags) |->
       LET info[st \in Structs] ==
             Describe(st, useTag, [t \in {Fields[st][i].type.base : i \in Inlined(st, useTag)} |-> info[t]])
       IN  info]
Described(st, useTag) == Descriptions[useTag][st]

(* The structs a variable of a type is made of.                            *)
Closed(sts) == \A st \in sts : \A i \in DOMAIN Fields[st] :
                  Fields[st][i].type.base \in Structs => Fields[st][i].type.base \in sts
StructsOf(type) ==
    {st \in Structs : \A sts \in SUBSET Structs :
                         Closed(sts) /\ (type.base \in Structs => type.base \in sts) => st \in sts}
=============================================================================
