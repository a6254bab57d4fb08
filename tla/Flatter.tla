------------------------------- MODULE Flatter ------------------------------
(***************************************************************************)
(* Nested documents and flat configurations (pkg/flatter, mergeKey).       *)
(*                                                                         *)
(* A key is a string cut into pieces: at its dots, and before each index,  *)
(* so "a.b[0].c" is <<"a", "b", "[0]", "c">>.  A dot at the end leaves an  *)
(* empty last piece.  A configuration is a function from keys to scalars.  *)
(*                                                                         *)
(* A document is a function from the ways into it, sequences of names and  *)
(* indices, to what is there: a scalar, a map, or a list with its length.  *)
(* Items is a list whose length nobody writes down: the keys a[0], a[1]    *)
(* ... of a properties file.                                               *)
(***************************************************************************)
EXTENDS Integers, Sequences, SequencesExt, FiniteSets

CONSTANT Index      \* bound: the elements a list may have, as keys spell them

ASSUME IndexAssumption ==
    Index \in Seq(STRING) /\ \A i, j \in DOMAIN Index : Index[i] = Index[j] => i = j

Keys == Seq(STRING)
IsIndex(piece) == \E i \in DOMAIN Index : Index[i] = piece

Text(s)   == <<"text", s>>
Number(n) == <<"int", n>>
Null      == <<"null">>
AMap      == <<"map">>
AList(n)  == <<"list", n>>
Items     == <<"items">>

Kind(node) == node[1]
Of(node)   == node[2]
Scalar == ({"text"} \X STRING) \cup ({"int"} \X Int) \cup {Null}
Node   == Scalar \cup {AMap, Items} \cup ({"list"} \X Nat)

(* A document: names are not empty and do not look like an index, elements *)
(* are in lists, names in maps, and it is a map itself.                    *)
IsDocument(doc) ==
    /\ IsFiniteSet(DOMAIN doc) /\ DOMAIN doc \subseteq Seq(STRING \ {""})
    /\ <<>> \in DOMAIN doc /\ doc[<<>>] = AMap
    /\ \A way \in DOMAIN doc : doc[way] \in Node
    /\ \A way \in DOMAIN doc \ {<<>>} :
          /\ Front(way) \in DOMAIN doc
          /\ IF IsIndex(Last(way)) THEN doc[Front(way)] = Items \/ Kind(doc[Front(way)]) = "list"
                                    ELSE doc[Front(way)] = AMap

NoKeys == <<>>
Single(key, value) == [k \in {key} |-> value]
Over(new, old) ==
    [k \in DOMAIN new \cup DOMAIN old |-> IF k \in DOMAIN new THEN new[k] ELSE old[k]]

(* Configurations over one another, the first at the top.                  *)
FirstWith(k, fs) == CHOOSE i \in DOMAIN fs : /\ k \in DOMAIN fs[i]
                                             /\ \A j \in 1..i - 1 : k \notin DOMAIN fs[j]
Layered(fs) == [k \in UNION {DOMAIN fs[i] : i \in DOMAIN fs} |-> fs[FirstWith(k, fs)][k]]

(* A dot at the end of the prefix is left out.                             *)
MergeKey(prefix, child) ==
    IF prefix # <<>> /\ Last(prefix) = "" THEN Front(prefix) \o child ELSE prefix \o child

(* A map or a list gives way to what is in it; a list leaves its length    *)
(* under its own key, and an empty map leaves nothing.                     *)
Leaves(doc) == {way \in DOMAIN doc : doc[way] \notin {AMap, Items}}
Flatten(doc, key) ==
    [k \in {MergeKey(key, way) : way \in Leaves(doc)} |->
        LET node == doc[CHOOSE way \in Leaves(doc) : MergeKey(key, way) = k]
        IN  IF Kind(node) = "list" THEN Number(Of(node)) ELSE node]

-----------------------------------------------------------------------------
(* For reference: documents over one another, the first at the top.  What  *)
(* the upper ones have at a way counts, but a map, or a list without a     *)
(* length, gives way to a lower document that has more to say there.       *)
Laid(docs) ==
    [way \in UNION {DOMAIN docs[i] : i \in DOMAIN docs} |->
        LET leaves == [i \in DOMAIN docs |-> [w \in Leaves(docs[i]) |-> docs[i][w]]]
        IN  IF way \in DOMAIN Layered(leaves) THEN Layered(leaves)[way] ELSE Layered(docs)[way]]
=============================================================================
