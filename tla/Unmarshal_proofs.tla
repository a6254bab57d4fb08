-------------------------- MODULE Unmarshal_proofs --------------------------
(***************************************************************************)
(* What holds of Unmarshal whatever the structs, the documents, the paths  *)
(* and the number of callers.                                              *)
(*                                                                         *)
(* IInv says that a path holds what flattening the document that stands in *)
(* it gives (HoldsWhatStands), that the cache has what is asked for of     *)
(* structs asked for under one tag name (CacheFits), and that the structs  *)
(* a call is describing lie inside one another (CallFits).  SteadyFits     *)
(* adds what a call knows while nothing is loaded.                         *)
(*                                                                         *)
(* The rest is about the operators.  Flattening and laying over one        *)
(* another commute (FlattenLaid).  Decode, Meant and Described are         *)
(* recursive functions: that each is well defined, and that the first two  *)
(* agree (DecodedAsMeant), is shown by the least counterexample there      *)
(* would be, over a measure that falls from a place to what is inside it   *)
(* (Mu): keys become longer, up to the longest there is, and then structs  *)
(* less deep.                                                              *)
(***************************************************************************)
EXTENDS Unmarshal, Sequence_lemmas

-----------------------------------------------------------------------------
(***************************************************************************)
(* Configurations over one another, and flattening.                        *)
(***************************************************************************)
LEMMA AppendIs ==
    ASSUME NEW S, NEW s \in Seq(S), NEW e \in S
    PROVE  /\ Append(s, e) \in Seq(S) /\ Append(s, e) # <<>>
           /\ Last(Append(s, e)) = e /\ Front(Append(s, e)) = s
<1>1. /\ Append(s, e) \in Seq(S) /\ Len(Append(s, e)) = Len(s) + 1 /\ Append(s, e)[Len(s) + 1] = e
      /\ \A i \in 1..Len(s) : Append(s, e)[i] = s[i] /\ Len(s) \in Nat
  BY AppendProperties, LenProperties
<1>2. Append(s, e) # <<>>
  BY <1>1, EmptySeq
<1>3. Last(Append(s, e)) = e
  BY <1>1 DEF Last
<1>4. Front(Append(s, e)) = s
  <2> DEFINE a == Append(s, e)
  <2> HIDE DEF a
  <2>1. \A i \in 1..Len(s) : a[i] \in S
    BY <1>1, ElementOfSeq DEF a
  <2>2. SubSeq(a, 1, Len(s)) = s
    <3>1. /\ SubSeq(a, 1, Len(s)) \in Seq(S) /\ Len(SubSeq(a, 1, Len(s))) = Len(s)
          /\ \A i \in 1..Len(s) : SubSeq(a, 1, Len(s))[i] = a[i]
      BY <1>1, <2>1, SubSeqProperties
    <3> QED
      BY <1>1, <3>1, SeqEqual DEF a
  <2> QED
    BY <1>1, <2>2 DEF Front, a
<1> QED
  BY <1>1, <1>2, <1>3, <1>4

(* Configurations over one another.                                        *)
LEMMA FirstWithIs ==
    ASSUME NEW n \in Nat, NEW fs, DOMAIN fs = 1..n, NEW k, NEW j \in 1..n, k \in DOMAIN fs[j]
    PROVE  /\ FirstWith(k, fs) \in 1..j /\ k \in DOMAIN fs[FirstWith(k, fs)]
           /\ \A i \in 1..FirstWith(k, fs) - 1 : k \notin DOMAIN fs[i]
<1> DEFINE S == {i \in 1..n : k \in DOMAIN fs[i]}
<1>1. S \in SUBSET Nat /\ j \in S
  OBVIOUS
<1>2. Min(S) \in S /\ \A i \in S : Min(S) <= i
  BY <1>1, MinIsLeast
<1>3. \A i \in 1..Min(S) - 1 : k \notin DOMAIN fs[i]
  BY <1>2
<1>4. \E i \in DOMAIN fs : k \in DOMAIN fs[i] /\ \A m \in 1..i - 1 : k \notin DOMAIN fs[m]
  BY <1>2, <1>3
<1>5. /\ FirstWith(k, fs) \in DOMAIN fs /\ k \in DOMAIN fs[FirstWith(k, fs)]
      /\ \A i \in 1..FirstWith(k, fs) - 1 : k \notin DOMAIN fs[i]
  BY <1>4 DEF FirstWith
<1> QED
  BY <1>5

LEMMA FirstWithOnly ==
    ASSUME NEW n \in Nat, NEW fs, DOMAIN fs = 1..n, NEW k, NEW i \in 1..n, k \in DOMAIN fs[i],
           \A j \in 1..i - 1 : k \notin DOMAIN fs[j]
    PROVE  FirstWith(k, fs) = i
<1>1. /\ FirstWith(k, fs) \in 1..i /\ k \in DOMAIN fs[FirstWith(k, fs)]
  BY FirstWithIs
<1> QED
  BY <1>1

LEMMA LayeredIs ==
    ASSUME NEW n \in Nat, NEW fs, DOMAIN fs = 1..n
    PROVE  /\ \A k : k \in DOMAIN Layered(fs) <=> \E i \in 1..n : k \in DOMAIN fs[i]
           /\ \A k \in DOMAIN Layered(fs) : Layered(fs)[k] = fs[FirstWith(k, fs)][k]
           /\ Layered(fs) = [k \in DOMAIN Layered(fs) |-> Layered(fs)[k]]
BY DEF Layered

(* Of configurations with the same keys each.                              *)
LEMMA OverIsLayered ==
    ASSUME NEW new, NEW old
    PROVE  Over(new, old) = Layered(<<new, old>>)
<1> DEFINE fs == <<new, old>>
<1>1. DOMAIN fs = 1..2 /\ fs[1] = new /\ fs[2] = old
  OBVIOUS
<1> HIDE DEF fs
<1>2. DOMAIN Layered(fs) = DOMAIN new \cup DOMAIN old
  BY <1>1 DEF Layered
<1>3. ASSUME NEW k \in DOMAIN Layered(fs)
      PROVE  Layered(fs)[k] = IF k \in DOMAIN new THEN new[k] ELSE old[k]
  <2>1. Layered(fs)[k] = fs[FirstWith(k, fs)][k]
    BY <1>1, <1>3, LayeredIs
  <2>2. CASE k \in DOMAIN new
    <3>1. FirstWith(k, fs) = 1
      <4>1. 2 \in Nat /\ 1 \in 1..2 /\ \A j \in 1..1 - 1 : k \notin DOMAIN fs[j]
        OBVIOUS
      <4> QED
        BY <1>1, <2>2, <4>1, FirstWithOnly
    <3> QED
      BY <1>1, <2>1, <2>2, <3>1
  <2>3. CASE k \notin DOMAIN new
    <3>1. k \in DOMAIN old
      BY <1>2, <1>3, <2>3
    <3>2. FirstWith(k, fs) = 2
      <4>1. 2 \in Nat /\ 2 \in 1..2 /\ \A j \in 1..2 - 1 : k \notin DOMAIN fs[j]
        BY <1>1, <2>3
      <4> QED
        BY <1>1, <3>1, <4>1, FirstWithOnly
    <3> QED
      BY <1>1, <2>1, <2>3, <3>2
  <2> QED
    BY <2>2, <2>3
<1>4. Layered(fs) = [k \in DOMAIN Layered(fs) |-> Layered(fs)[k]]
  BY <1>1, LayeredIs
<1> QED
  BY <1>2, <1>3, <1>4 DEF Over, fs

-----------------------------------------------------------------------------
(* What is left of a node when it is flattened.                            *)
Written(node) == IF Kind(node) = "list" THEN Number(Of(node)) ELSE node

Name == STRING \ {""}

LEMMA NamesAreStrings == Name \subseteq STRING
BY DEF Name

Spells(prefix, root) == prefix \in {root, Append(root, "")}

LEMMA RootIs == Root \in Seq(Name) /\ Spells(Prefix, Root)
BY UnmarshalAssumption DEF Name, Spells

LEMMA StrippedIs ==
    ASSUME NEW root \in Seq(Name), NEW prefix, Spells(prefix, root)
    PROVE  Stripped(prefix) = root
<1>1. Len(root) \in Nat /\ \A i \in 1..Len(root) : root[i] \in Name
  BY LenProperties, ElementOfSeq
<1>2. ASSUME prefix = root PROVE Stripped(prefix) = root
  <2>1. prefix # <<>> => Last(prefix) # ""
    <3> SUFFICES ASSUME prefix # <<>> PROVE Last(prefix) # ""
      OBVIOUS
    <3>1. Len(root) \in 1..Len(root)
      BY <1>1, <1>2, EmptySeq
    <3> QED
      BY <1>1, <1>2, <3>1 DEF Last, Name
  <2> QED
    BY <1>2, <2>1 DEF Stripped
<1>3. ASSUME prefix = Append(root, "") PROVE Stripped(prefix) = root
  <2> DEFINE S == STRING \cup {""}
  <2>1. Name \subseteq S /\ "" \in S
    BY DEF Name
  <2>2. root \in Seq(S)
    BY <2>1, SeqMonotonic
  <2>3. prefix # <<>> /\ Last(prefix) = "" /\ Front(prefix) = root
    <3> HIDE DEF S
    <3> QED
      BY <1>3, <2>1, <2>2, AppendIs
  <2> QED
    BY <2>3 DEF Stripped
<1> QED
  BY <1>2, <1>3 DEF Spells

LEMMA MergeKeyIs ==
    ASSUME NEW root \in Seq(Name), NEW prefix, Spells(prefix, root), NEW way
    PROVE  MergeKey(prefix, way) = root \o way
<1>1. MergeKey(prefix, way) = Stripped(prefix) \o way
  BY Zenon DEF MergeKey, Stripped
<1> QED
  BY <1>1, StrippedIs

LEMMA SameBelow ==
    ASSUME NEW root \in Seq(STRING), NEW v \in Seq(STRING), NEW w \in Seq(STRING), root \o v = root \o w
    PROVE  v = w
BY ConcatSimplifications

(* Flattening: the leaves under the root.                                  *)
LEMMA FlattenIs ==
    ASSUME NEW root \in Seq(Name), NEW prefix, Spells(prefix, root),
           NEW doc, DOMAIN doc \subseteq Seq(STRING)
    PROVE  /\ DOMAIN Flatten(doc, prefix) = {root \o way : way \in Leaves(doc)}
           /\ \A way \in Leaves(doc) : Flatten(doc, prefix)[root \o way] = Written(doc[way])
           /\ Flatten(doc, prefix) = [k \in DOMAIN Flatten(doc, prefix) |-> Flatten(doc, prefix)[k]]
<1>1. \A way : MergeKey(prefix, way) = root \o way
  BY MergeKeyIs
<1>2. DOMAIN Flatten(doc, prefix) = {root \o way : way \in Leaves(doc)}
  BY <1>1 DEF Flatten
<1>3. ASSUME NEW way \in Leaves(doc)
      PROVE  Flatten(doc, prefix)[root \o way] = Written(doc[way])
  <2>1. root \in Seq(STRING)
    BY NamesAreStrings, SeqMonotonic
  <2>2. \A w \in Leaves(doc) : w \in Seq(STRING)
    BY DEF Leaves
  <2>3. \A w \in Leaves(doc) : MergeKey(prefix, w) = root \o way => w = way
    BY <1>1, <1>3, <2>1, <2>2, SameBelow
  <2>4. MergeKey(prefix, way) = root \o way
    BY <1>1
  <2>5. (CHOOSE w \in Leaves(doc) : MergeKey(prefix, w) = root \o way) = way
    BY <2>3, <2>4
  <2>6. root \o way \in {MergeKey(prefix, w) : w \in Leaves(doc)}
    BY <2>4
  <2> QED
    BY <2>5, <2>6 DEF Flatten, Written
<1>4. Flatten(doc, prefix) = [k \in DOMAIN Flatten(doc, prefix) |-> Flatten(doc, prefix)[k]]
  <2> DEFINE K == {MergeKey(prefix, way) : way \in Leaves(doc)}
             E(k) == LET node == doc[CHOOSE way \in Leaves(doc) : MergeKey(prefix, way) = k]
                     IN  IF Kind(node) = "list" THEN Number(Of(node)) ELSE node
  <2>1. Flatten(doc, prefix) = [k \in K |-> E(k)]
    BY DEF Flatten
  <2> HIDE DEF K, E
  <2> QED
    BY <2>1
<1> QED
  BY <1>2, <1>3, <1>4

-----------------------------------------------------------------------------
(***************************************************************************)
(* Documents over one another.                                             *)
(***************************************************************************)
(* Documents over one another: the leaves of all of them.                  *)
LEMMA LaidIs ==
    ASSUME NEW n \in Nat, NEW ds, DOMAIN ds = 1..n
    PROVE  /\ \A w : w \in DOMAIN Laid(ds) <=> \E i \in 1..n : w \in DOMAIN ds[i]
           /\ \A w \in DOMAIN Laid(ds) : \E i \in 1..n : w \in DOMAIN ds[i] /\ Laid(ds)[w] = ds[i][w]
           /\ \A w : w \in Leaves(Laid(ds)) <=> \E i \in 1..n : w \in Leaves(ds[i])
           /\ \A i \in 1..n : \A w \in Leaves(ds[i]) :
                 (\A j \in 1..i - 1 : w \notin Leaves(ds[j])) => Laid(ds)[w] = ds[i][w]
<1> DEFINE leaves == [i \in DOMAIN ds |-> [w \in Leaves(ds[i]) |-> ds[i][w]]]
           D == UNION {DOMAIN ds[i] : i \in DOMAIN ds}
<1>1. Laid(ds) = [w \in D |-> IF w \in DOMAIN Layered(leaves) THEN Layered(leaves)[w] ELSE Layered(ds)[w]]
  BY DEF Laid
<1>2. \A i \in 1..n : DOMAIN leaves[i] = Leaves(ds[i]) /\ \A w \in Leaves(ds[i]) : leaves[i][w] = ds[i][w]
  OBVIOUS
<1>3. DOMAIN leaves = 1..n
  OBVIOUS
<1>4. \A w : w \in D <=> \E i \in 1..n : w \in DOMAIN ds[i]
  OBVIOUS
<1>5. \A i \in 1..n : Leaves(ds[i]) \subseteq DOMAIN ds[i]
  BY DEF Leaves
<1> HIDE DEF leaves, D
<1>6. \A w : w \in DOMAIN Laid(ds) <=> \E i \in 1..n : w \in DOMAIN ds[i]
  BY <1>1, <1>4
<1>7. ASSUME NEW i \in 1..n, NEW w \in Leaves(ds[i]), \A j \in 1..i - 1 : w \notin Leaves(ds[j])
      PROVE  Laid(ds)[w] = ds[i][w]
  <2>1. w \in DOMAIN Layered(leaves)
    BY <1>2, <1>3, LayeredIs
  <2>2. Layered(leaves)[w] = leaves[FirstWith(w, leaves)][w]
    BY <1>3, <2>1, LayeredIs
  <2>3. FirstWith(w, leaves) = i
    <3>1. w \in DOMAIN leaves[i] /\ \A j \in 1..i - 1 : w \notin DOMAIN leaves[j]
      BY <1>2, <1>7
    <3> QED
      BY <1>3, <3>1, FirstWithOnly
  <2>4. w \in D
    BY <1>4, <1>5
  <2> QED
    BY <1>1, <1>2, <2>1, <2>2, <2>3, <2>4
<1>8. ASSUME NEW w \in DOMAIN Laid(ds), \A i \in 1..n : w \notin Leaves(ds[i])
      PROVE  \E i \in 1..n : w \in DOMAIN ds[i] /\ Laid(ds)[w] = ds[i][w]
  <2>1. w \notin DOMAIN Layered(leaves)
    BY <1>2, <1>3, <1>8, LayeredIs
  <2>2. PICK i \in 1..n : w \in DOMAIN ds[i]
    BY <1>6, <1>8
  <2>3. w \in DOMAIN Layered(ds) /\ Layered(ds)[w] = ds[FirstWith(w, ds)][w]
    BY <2>2, LayeredIs
  <2>4. FirstWith(w, ds) \in 1..i /\ w \in DOMAIN ds[FirstWith(w, ds)]
    BY <2>2, FirstWithIs
  <2>5. w \in D
    BY <1>4, <2>2
  <2> QED
    BY <1>1, <2>1, <2>3, <2>4, <2>5
<1>9. ASSUME NEW w, NEW i \in 1..n, w \in Leaves(ds[i])
      PROVE  \E j \in 1..i : w \in Leaves(ds[j]) /\ Laid(ds)[w] = ds[j][w]
  <2> DEFINE S == {j \in 1..n : w \in Leaves(ds[j])}
  <2>1. S \in SUBSET Nat /\ i \in S
    BY <1>9
  <2>2. Min(S) \in S /\ \A j \in S : Min(S) <= j
    BY <2>1, MinIsLeast
  <2>3. \A j \in 1..Min(S) - 1 : w \notin Leaves(ds[j])
    BY <2>2
  <2> QED
    BY <1>7, <2>1, <2>2, <2>3
<1>10. ASSUME NEW w PROVE w \in Leaves(Laid(ds)) <=> \E i \in 1..n : w \in Leaves(ds[i])
  <2>1. ASSUME NEW i \in 1..n, w \in Leaves(ds[i]) PROVE w \in Leaves(Laid(ds))
    <3>1. PICK j \in 1..i : w \in Leaves(ds[j]) /\ Laid(ds)[w] = ds[j][w]
      BY <1>9, <2>1
    <3>2. w \in DOMAIN Laid(ds)
      BY <1>5, <1>6, <2>1
    <3> QED
      BY <3>1, <3>2 DEF Leaves
  <2>2. ASSUME w \in Leaves(Laid(ds)), \A i \in 1..n : w \notin Leaves(ds[i]) PROVE FALSE
    <3>1. w \in DOMAIN Laid(ds) /\ Laid(ds)[w] \notin {AMap, Items}
      BY <2>2 DEF Leaves
    <3>2. PICK i \in 1..n : w \in DOMAIN ds[i] /\ Laid(ds)[w] = ds[i][w]
      BY <1>8, <2>2, <3>1
    <3> QED
      BY <2>2, <3>1, <3>2 DEF Leaves
  <2> QED
    BY <2>1, <2>2
<1>11. ASSUME NEW w \in DOMAIN Laid(ds)
       PROVE  \E i \in 1..n : w \in DOMAIN ds[i] /\ Laid(ds)[w] = ds[i][w]
  <2>1. CASE \E i \in 1..n : w \in Leaves(ds[i])
    <3>1. PICK i \in 1..n : w \in Leaves(ds[i])
      BY <2>1
    <3>2. PICK j \in 1..i : w \in Leaves(ds[j]) /\ Laid(ds)[w] = ds[j][w]
      BY <1>9, <3>1
    <3> QED
      BY <1>5, <3>2
  <2>2. CASE \A i \in 1..n : w \notin Leaves(ds[i])
    BY <1>8, <2>2
  <2> QED
    BY <2>1, <2>2
<1> QED
  BY <1>6, <1>7, <1>10, <1>11

(* Flattening documents and laying the keys over one another is as good as *)
(* laying the documents over one another first.                            *)
LEMMA FlattenLaid ==
    ASSUME NEW root \in Seq(Name), NEW prefix, Spells(prefix, root),
           NEW n \in Nat, NEW ds, DOMAIN ds = 1..n, \A i \in 1..n : DOMAIN ds[i] \subseteq Seq(STRING),
           NEW fs, DOMAIN fs = 1..n, \A i \in 1..n : fs[i] = Flatten(ds[i], prefix)
    PROVE  Layered(fs) = Flatten(Laid(ds), prefix)
<1> DEFINE whole == Laid(ds)
           flat  == Flatten(whole, prefix)
<1>1. DOMAIN whole \subseteq Seq(STRING)
  BY LaidIs
<1>2. /\ DOMAIN flat = {root \o w : w \in Leaves(whole)}
      /\ \A w \in Leaves(whole) : flat[root \o w] = Written(whole[w])
      /\ flat = [k \in DOMAIN flat |-> flat[k]]
  <2> HIDE DEF whole
  <2> QED
    BY <1>1, FlattenIs
<1>3. \A i \in 1..n : /\ DOMAIN fs[i] = {root \o w : w \in Leaves(ds[i])}
                      /\ \A w \in Leaves(ds[i]) : fs[i][root \o w] = Written(ds[i][w])
  <2> TAKE i \in 1..n
  <2> DEFINE d == ds[i]
  <2>0. DOMAIN d \subseteq Seq(STRING)
    OBVIOUS
  <2>1. fs[i] = Flatten(d, prefix)
    OBVIOUS
  <2> HIDE DEF d
  <2>2. /\ DOMAIN Flatten(d, prefix) = {root \o way : way \in Leaves(d)}
        /\ \A way \in Leaves(d) : Flatten(d, prefix)[root \o way] = Written(d[way])
        /\ Flatten(d, prefix) = [k \in DOMAIN Flatten(d, prefix) |-> Flatten(d, prefix)[k]]
    BY <2>0, FlattenIs
  <2> QED
    BY <2>1, <2>2 DEF d
<1>4. \A w : w \in Leaves(whole) <=> \E i \in 1..n : w \in Leaves(ds[i])
  BY LaidIs
<1>5. \A k : k \in DOMAIN Layered(fs) <=> \E i \in 1..n : k \in DOMAIN fs[i]
  BY LayeredIs
<1>6. DOMAIN Layered(fs) = DOMAIN flat
  <2> HIDE DEF whole, flat
  <2>1. ASSUME NEW k \in DOMAIN flat PROVE k \in DOMAIN Layered(fs)
    <3>1. PICK w \in Leaves(whole) : k = root \o w
      BY <1>2
    <3>2. PICK i \in 1..n : w \in Leaves(ds[i])
      BY <1>4
    <3> QED
      BY <1>3, <1>5, <3>1, <3>2
  <2>2. ASSUME NEW k \in DOMAIN Layered(fs) PROVE k \in DOMAIN flat
    <3>1. PICK i \in 1..n : k \in DOMAIN fs[i]
      BY <1>5
    <3>2. PICK w \in Leaves(ds[i]) : k = root \o w
      BY <1>3, <3>1
    <3> QED
      BY <1>2, <1>4, <3>2
  <2> QED
    BY <2>1, <2>2
<1>7. root \in Seq(STRING) /\ \A i \in 1..n : Leaves(ds[i]) \subseteq Seq(STRING)
  BY NamesAreStrings, SeqMonotonic DEF Leaves
<1>8. ASSUME NEW k \in DOMAIN Layered(fs)
      PROVE  Layered(fs)[k] = flat[k]
  <2>1. PICK j \in 1..n : k \in DOMAIN fs[j]
    BY <1>5, <1>8
  <2>2. PICK i \in 1..n : /\ k \in DOMAIN fs[i] /\ \A m \in 1..i - 1 : k \notin DOMAIN fs[m]
                          /\ i = FirstWith(k, fs)
    <3> DEFINE i == FirstWith(k, fs)
    <3>1. i \in 1..j /\ k \in DOMAIN fs[i] /\ \A m \in 1..i - 1 : k \notin DOMAIN fs[m]
      BY <2>1, FirstWithIs
    <3> HIDE DEF i
    <3>2. i \in 1..n
      BY <2>1, <3>1
    <3> QED
      BY <3>1, <3>2 DEF i
  <2>3. Layered(fs)[k] = fs[i][k]
    BY <1>8, <2>2, LayeredIs
  <2>4. PICK w \in Leaves(ds[i]) : k = root \o w
    <3>1. DOMAIN fs[i] = {root \o w : w \in Leaves(ds[i])}
      BY <1>3, <2>2
    <3> QED
      BY <2>2, <3>1
  <2>5. ASSUME NEW m \in 1..i - 1 PROVE w \notin Leaves(ds[m])
    <3>1. m \in 1..n
      BY <2>2
    <3> QED
      BY <1>3, <2>2, <2>4, <3>1
  <2>6. whole[w] = ds[i][w]
    <3>1. \A m \in 1..n : \A v \in Leaves(ds[m]) :
             (\A l \in 1..m - 1 : v \notin Leaves(ds[l])) => whole[v] = ds[m][v]
      BY LaidIs
    <3> QED
      BY <2>2, <2>4, <2>5, <3>1
  <2>7. w \in Leaves(whole)
    BY <1>4, <2>2, <2>4
  <2> HIDE DEF whole, flat
  <2>8. flat[k] = Written(whole[w]) /\ fs[i][k] = Written(ds[i][w])
    BY <1>2, <1>3, <2>2, <2>4, <2>7
  <2> QED
    BY <2>3, <2>6, <2>8
<1>9. Layered(fs) = [k \in DOMAIN Layered(fs) |-> Layered(fs)[k]]
  BY LayeredIs
<1> HIDE DEF flat
<1>10. Layered(fs) = flat
  BY <1>2, <1>6, <1>8, <1>9
<1> QED
  BY <1>10 DEF flat

-----------------------------------------------------------------------------
(***************************************************************************)
(* What is true of a document, however many it was laid together from.     *)
(***************************************************************************)
LEMMA StartOf ==
    ASSUME NEW S, NEW w \in Seq(S), NEW n \in 0..Len(w)
    PROVE  /\ SubSeq(w, 1, n) \in Seq(S) /\ Len(SubSeq(w, 1, n)) = n
           /\ \A i \in 1..n : SubSeq(w, 1, n)[i] = w[i]
           /\ \A m \in 0..n : SubSeq(SubSeq(w, 1, n), 1, m) = SubSeq(w, 1, m)
<1>1. Len(w) \in Nat /\ \A i \in 1..Len(w) : w[i] \in S
  BY LenProperties, ElementOfSeq
<1>2. ASSUME NEW m \in 0..Len(w)
      PROVE  /\ SubSeq(w, 1, m) \in Seq(S) /\ Len(SubSeq(w, 1, m)) = m
             /\ \A i \in 1..m : SubSeq(w, 1, m)[i] = w[i]
  <2>1. m \in Int /\ 1 \in Int /\ \A i \in 1..m : w[i] \in S
    BY <1>1
  <2>2. /\ SubSeq(w, 1, m) \in Seq(S)
        /\ Len(SubSeq(w, 1, m)) = IF 1 <= m THEN m - 1 + 1 ELSE 0
        /\ \A i \in 1..m - 1 + 1 : SubSeq(w, 1, m)[i] = w[1 + i - 1]
    BY <2>1, SubSeqProperties
  <2>3. m - 1 + 1 = m /\ (IF 1 <= m THEN m - 1 + 1 ELSE 0) = m
    BY <1>1
  <2>4. ASSUME NEW i \in 1..m PROVE SubSeq(w, 1, m)[i] = w[i]
    <3>1. 1 + i - 1 = i /\ i \in 1..m - 1 + 1
      BY <2>3
    <3> QED
      BY <2>2, <3>1
  <2> QED
    BY <2>2, <2>3, <2>4
<1>3. ASSUME NEW m \in 0..n
      PROVE  SubSeq(SubSeq(w, 1, n), 1, m) = SubSeq(w, 1, m)
  <2> DEFINE v == SubSeq(w, 1, n)
  <2>1. v \in Seq(S) /\ Len(v) = n /\ \A i \in 1..n : v[i] = w[i]
    BY <1>2
  <2>2. m \in 0..Len(w) /\ m \in Int /\ 1 \in Int
    BY <1>1
  <2>3. /\ SubSeq(w, 1, m) \in Seq(S) /\ Len(SubSeq(w, 1, m)) = m
        /\ \A i \in 1..m : SubSeq(w, 1, m)[i] = w[i]
    BY <1>2, <2>2
  <2> HIDE DEF v
  <2>4. \A i \in 1..m : v[i] \in S /\ v[i] = w[i]
    BY <1>1, <2>1
  <2>5. /\ SubSeq(v, 1, m) \in Seq(S)
        /\ Len(SubSeq(v, 1, m)) = IF 1 <= m THEN m - 1 + 1 ELSE 0
        /\ \A i \in 1..m - 1 + 1 : SubSeq(v, 1, m)[i] = v[1 + i - 1]
    BY <2>2, <2>4, SubSeqProperties
  <2>6. Len(SubSeq(v, 1, m)) = m
    BY <2>2, <2>5
  <2>7. ASSUME NEW i \in 1..m PROVE SubSeq(v, 1, m)[i] = SubSeq(w, 1, m)[i]
    <3>1. 1 + i - 1 = i /\ i \in 1..m - 1 + 1
      BY <2>2
    <3> QED
      BY <2>3, <2>4, <2>5, <3>1
  <2>8. SubSeq(v, 1, m) = SubSeq(w, 1, m)
    BY <2>3, <2>5, <2>6, <2>7, SeqEqual
  <2> QED
    BY <2>8 DEF v
<1> QED
  BY <1>2, <1>3

(* What is true of documents, and still of documents over one another.     *)
Readable(doc) ==
    /\ IsFiniteSet(DOMAIN doc) /\ DOMAIN doc \subseteq Seq(Name)
    /\ \A w \in DOMAIN doc : doc[w] \in Node
    /\ \A w \in DOMAIN doc : \A n \in 0..Len(w) : SubSeq(w, 1, n) \in DOMAIN doc
    /\ \A w \in DOMAIN doc : w # <<>> => ~IsIndex(w[1])

LEMMA DocumentsAreReadable ==
    ASSUME NEW doc, IsDocument(doc)
    PROVE  Readable(doc)
<1>1. /\ IsFiniteSet(DOMAIN doc) /\ DOMAIN doc \subseteq Seq(Name)
      /\ doc[<<>>] = AMap
      /\ \A way \in DOMAIN doc : doc[way] \in Node
      /\ \A way \in DOMAIN doc \ {<<>>} :
            /\ Front(way) \in DOMAIN doc
            /\ IF IsIndex(Last(way)) THEN doc[Front(way)] = Items \/ Kind(doc[Front(way)]) = "list"
                                     ELSE doc[Front(way)] = AMap
  BY Zenon DEF IsDocument, Name
<1>2. ASSUME NEW w \in DOMAIN doc, NEW n \in 0..Len(w)
      PROVE  SubSeq(w, 1, n) \in DOMAIN doc
  <2> DEFINE Well == {m \in Nat : m <= Len(w) => SubSeq(w, 1, Len(w) - m) \in DOMAIN doc}
  <2>1. w \in Seq(Name) /\ Len(w) \in Nat
    BY <1>1, LenProperties
  <2>2. ASSUME NEW m \in Nat, m \notin Well PROVE FALSE
    <3>1. PICK k \in Nat : k <= m /\ k \notin Well /\ \A i \in 0..k - 1 : i \in Well
      <4> HIDE DEF Well
      <4> QED
        BY <2>2, Least
    <3>2. k <= Len(w) /\ SubSeq(w, 1, Len(w) - k) \notin DOMAIN doc
      BY <3>1
    <3>3. CASE k = 0
      <4>1. Len(w) - k = Len(w)
        BY <2>1, <3>3
      <4>2. SubSeq(w, 1, Len(w)) = w
        BY <2>1, SubSeqFull
      <4> QED
        BY <3>2, <4>1, <4>2
    <3>4. CASE k # 0
      <4>1. k - 1 \in 0..k - 1 /\ k - 1 <= Len(w)
        BY <2>1, <3>1, <3>2, <3>4
      <4>2. SubSeq(w, 1, Len(w) - (k - 1)) \in DOMAIN doc
        BY <3>1, <4>1
      <4> DEFINE v == SubSeq(w, 1, Len(w) - (k - 1))
      <4>3. Len(w) - (k - 1) \in 0..Len(w) /\ Len(w) - k \in 0..Len(w) - (k - 1)
        BY <2>1, <3>1, <3>2, <3>4
      <4>4. Len(v) = Len(w) - (k - 1) /\ SubSeq(v, 1, Len(w) - k) = SubSeq(w, 1, Len(w) - k)
        BY <2>1, <4>3, StartOf
      <4>5. v # <<>> /\ Len(v) - 1 = Len(w) - k
        <5>1. Len(v) # 0 /\ Len(v) - 1 = Len(w) - k
          BY <2>1, <3>1, <3>2, <4>4
        <5>2. Len(<<>>) = 0
          BY EmptySeq
        <5> QED
          BY <5>1, <5>2
      <4> HIDE DEF v
      <4>6. Front(v) \in DOMAIN doc
        BY <1>1, <4>2, <4>5 DEF v
      <4> QED
        BY <3>2, <4>4, <4>5, <4>6 DEF Front
    <3> QED
      BY <3>3, <3>4
  <2>3. Len(w) - n \in Well
    BY <2>1, <2>2
  <2>4. Len(w) - n <= Len(w) /\ Len(w) - (Len(w) - n) = n
    BY <2>1
  <2> QED
    BY <2>3, <2>4
<1>3. ASSUME NEW w \in DOMAIN doc, w # <<>>
      PROVE  ~IsIndex(w[1])
  <2> DEFINE v == SubSeq(w, 1, 1)
  <2>1. w \in Seq(Name) /\ Len(w) \in Nat \ {0}
    BY <1>1, <1>3, EmptySeq
  <2>2. 1 \in 0..Len(w) /\ v \in DOMAIN doc
    BY <1>2, <2>1
  <2>3. Len(v) = 1 /\ v[1] = w[1]
    BY <2>1, <2>2, StartOf
  <2>4. Last(v) = w[1]
    BY <2>3 DEF Last
  <2>5. Front(v) = <<>>
    BY <2>3, SubSeqEmpty DEF Front
  <2> HIDE DEF v
  <2>6. v # <<>>
    <3>1. Len(<<>>) = 0
      BY EmptySeq
    <3> QED
      BY <2>3, <3>1
  <2>7. IsIndex(w[1]) => doc[<<>>] = Items \/ Kind(doc[<<>>]) = "list"
    BY <1>1, <2>2, <2>4, <2>5, <2>6
  <2>8. AMap # Items /\ Kind(AMap) # "list"
    BY DEF AMap, Items, Kind
  <2> QED
    BY <1>1, <2>7, <2>8
<1> QED
  BY <1>1, <1>2, <1>3 DEF Readable

LEMMA LaidIsReadable ==
    ASSUME NEW n \in Nat, NEW ds, DOMAIN ds = 1..n, \A i \in 1..n : Readable(ds[i])
    PROVE  Readable(Laid(ds))
<1> DEFINE whole == Laid(ds)
<1>1. /\ \A w : w \in DOMAIN whole <=> \E i \in 1..n : w \in DOMAIN ds[i]
      /\ \A w \in DOMAIN whole : \E i \in 1..n : w \in DOMAIN ds[i] /\ whole[w] = ds[i][w]
  BY LaidIs
<1> HIDE DEF whole
<1>2. IsFiniteSet(DOMAIN whole)
  <2> DEFINE f == [i \in 1..n |-> DOMAIN ds[i]]
             T == {DOMAIN ds[i] : i \in 1..n}
  <2>1. f \in Surjection(1..n, T)
    BY DEF Surjection
  <2>2. IsFiniteSet(1..n)
    BY FS_Interval
  <2>3. IsFiniteSet(T)
    <3> HIDE DEF f, T
    <3> QED
      BY <2>1, <2>2, FS_Surjection
  <2>4. \A U \in T : IsFiniteSet(U)
    BY DEF Readable
  <2>5. IsFiniteSet(UNION T)
    <3> HIDE DEF T
    <3> QED
      BY <2>3, <2>4, FS_UNION
  <2>6. DOMAIN whole = UNION T
    BY <1>1
  <2> QED
    BY <2>5, <2>6
<1>3. \A w \in DOMAIN whole : w \in Seq(Name) /\ whole[w] \in Node
  BY <1>1 DEF Readable
<1>4. \A w \in DOMAIN whole : \A m \in 0..Len(w) : SubSeq(w, 1, m) \in DOMAIN whole
  BY <1>1 DEF Readable
<1>5. \A w \in DOMAIN whole : w # <<>> => ~IsIndex(w[1])
  BY <1>1 DEF Readable
<1> QED
  BY <1>2, <1>3, <1>4, <1>5 DEF Readable, whole

-----------------------------------------------------------------------------
(***************************************************************************)
(* Parsing.  What a path holds is what flattening the document that stands *)
(* in it gives.                                                            *)
(***************************************************************************)
LEMMA ReadableWays == ASSUME NEW doc, Readable(doc) PROVE DOMAIN doc \subseteq Seq(STRING)
BY NamesAreStrings, SeqMonotonic DEF Readable

LEMMA ReverseIs ==
    ASSUME NEW n \in Nat, NEW s, s = [i \in 1..n |-> s[i]]
    PROVE  DOMAIN Reverse(s) = 1..n /\ \A i \in 1..n : n - i + 1 \in 1..n /\ Reverse(s)[i] = s[n - i + 1]
<1>1. s \in [1..n -> {s[i] : i \in 1..n}]
  OBVIOUS
<1>2. Len(s) = n
  <2>1. s \in Seq({s[i] : i \in 1..n})
    BY <1>1, SeqDef
  <2>2. DOMAIN s = 1..Len(s) /\ Len(s) \in Nat
    BY <2>1, LenProperties
  <2>3. 1..n = 1..Len(s)
    BY <1>1, <2>2
  <2> QED
    BY <2>2, <2>3
<1> QED
  BY <1>2 DEF Reverse

(* Contents become what flattening their meaning gives.                    *)
LEMMA ParseIs ==
    ASSUME NEW c, IsContents(c)
    PROVE  Readable(Meaning(c)) /\ Loaded(c) = Flatten(Meaning(c), Prefix)
<1> DEFINE n == Len(c.docs)
           ds == Reverse(c.docs)
           flat == [i \in DOMAIN c.docs |-> Flatten(c.docs[i], Prefix)]
<1>1. /\ c.docs \in Seq(Range(c.docs)) /\ \A i \in DOMAIN c.docs : IsDocument(c.docs[i])
      /\ \/ c.format = "yaml"
         \/ c.format \in {"json", "props"} /\ n = 1
         \/ c.format = "broken" /\ c.docs = <<>>
  BY DEF IsContents
<1>2. /\ n \in Nat /\ DOMAIN c.docs = 1..n /\ c.docs = [i \in 1..n |-> c.docs[i]]
      /\ \A i \in 1..n : Readable(c.docs[i])
  BY <1>1, LenProperties, DocumentsAreReadable
<1> HIDE DEF n
<1>3. /\ DOMAIN ds = 1..n
      /\ \A i \in 1..n : n - i + 1 \in 1..n /\ ds[i] = c.docs[n - i + 1]
  BY <1>2, ReverseIs
<1>4. \A i \in 1..n : Readable(ds[i])
  BY <1>2, <1>3
<1>5. /\ DOMAIN Reverse(flat) = 1..n
      /\ \A i \in 1..n : Reverse(flat)[i] = flat[n - i + 1]
  <2>1. flat = [i \in 1..n |-> flat[i]]
    BY <1>2
  <2> HIDE DEF flat
  <2> QED
    BY <1>2, <2>1, ReverseIs
<1>6. \A i \in 1..n : Reverse(flat)[i] = Flatten(ds[i], Prefix)
  BY <1>2, <1>3, <1>5
<1> HIDE DEF ds, flat
<1>7. Meaning(c) = Laid(ds) /\ Readable(Meaning(c))
  BY <1>2, <1>3, <1>4, LaidIsReadable DEF Meaning, ds
<1>8. \A i \in 1..n : DOMAIN ds[i] \subseteq Seq(STRING)
  BY <1>4, ReadableWays
<1>9. Layered(Reverse(flat)) = Flatten(Meaning(c), Prefix)
  <2> DEFINE fs == Reverse(flat)
  <2>1. DOMAIN fs = 1..n /\ \A i \in 1..n : fs[i] = Flatten(ds[i], Prefix)
    BY <1>5, <1>6
  <2> HIDE DEF fs
  <2>2. Layered(fs) = Flatten(Laid(ds), Prefix)
    BY <1>2, <1>3, <1>8, <2>1, RootIs, FlattenLaid
  <2> QED
    BY <1>7, <2>2 DEF fs
<1>10. CASE c.format \in {"yaml", "json"}
  <2>1. ParseYAML(c, Prefix) = Is(Layered(Reverse(flat)))
    BY <1>10 DEF ParseYAML, flat
  <2>2. Is(Layered(Reverse(flat))).ok /\ Is(Layered(Reverse(flat))).values = Layered(Reverse(flat))
    BY DEF Is
  <2> QED
    BY <1>7, <1>9, <2>1, <2>2 DEF Loaded, Parse
<1>11. CASE c.format = "props" /\ n = 1
  <2>1. Loaded(c) = Flatten(c.docs[1], Prefix)
    BY <1>11 DEF Loaded, Parse, ParseYAML, ParseJSON, ParseProps, Is, Fails
  <2>2. ds[1] = c.docs[1] /\ DOMAIN ds = 1..1
    BY <1>3, <1>11
  <2> DEFINE d == c.docs[1]
             f == Flatten(d, Prefix)
  <2>3. DOMAIN Reverse(flat) = 1..1 /\ Reverse(flat)[1] = f
    BY <1>5, <1>6, <1>11, <2>2
  <2> HIDE DEF d, f
  <2>4. /\ 1 \in Nat /\ 1 \in 1..1 /\ DOMAIN Layered(Reverse(flat)) = DOMAIN f
        /\ \A k \in DOMAIN Layered(Reverse(flat)) :
              Layered(Reverse(flat))[k] = Reverse(flat)[FirstWith(k, Reverse(flat))][k]
    <3> DEFINE fs == Reverse(flat)
    <3>1. 1 \in Nat /\ DOMAIN fs = 1..1 /\ fs[1] = f
      BY <2>3
    <3> HIDE DEF fs
    <3>2. /\ \A k : k \in DOMAIN Layered(fs) <=> \E i \in 1..1 : k \in DOMAIN fs[i]
          /\ \A k \in DOMAIN Layered(fs) : Layered(fs)[k] = fs[FirstWith(k, fs)][k]
      BY <3>1, LayeredIs
    <3>3. \A k : k \in DOMAIN Layered(fs) <=> k \in DOMAIN f
      BY <3>1, <3>2
    <3>4. DOMAIN Layered(fs) = DOMAIN f
      BY <3>3
    <3> QED
      BY <3>2, <3>4 DEF fs
  <2>5. \A k \in DOMAIN f : Layered(Reverse(flat))[k] = f[k]
    <3> TAKE k \in DOMAIN f
    <3>1. FirstWith(k, Reverse(flat)) \in 1..1
      BY <2>3, <2>4, FirstWithIs
    <3>2. Layered(Reverse(flat))[k] = Reverse(flat)[FirstWith(k, Reverse(flat))][k]
      BY <2>4
    <3> QED
      BY <2>3, <3>1, <3>2
  <2>6. f = [k \in DOMAIN f |-> f[k]]
    <3>1. DOMAIN d \subseteq Seq(STRING)
      BY <1>2, <1>11, ReadableWays DEF d
    <3> QED
      BY <3>1, RootIs, FlattenIs DEF f
  <2>7. Layered(Reverse(flat)) = [k \in DOMAIN Layered(Reverse(flat)) |-> Layered(Reverse(flat))[k]]
    BY <2>3, LayeredIs
  <2>8. Layered(Reverse(flat)) = f
    BY <2>4, <2>5, <2>6, <2>7
  <2> QED
    BY <1>7, <1>9, <2>1, <2>8 DEF f, d
<1>12. CASE c.format = "broken" /\ c.docs = <<>>
  <2>1. Loaded(c) = <<>>
    BY <1>12 DEF Loaded, Parse, ParseYAML, ParseJSON, ParseProps, Is, Fails, NoKeys
  <2>2. n = 0
    BY <1>12, EmptySeq DEF n
  <2>3. DOMAIN Layered(Reverse(flat)) = {}
    <3>1. DOMAIN Reverse(flat) = 1..0 /\ 0 \in Nat /\ 1..0 = {}
      BY <1>5, <2>2
    <3> QED
      BY <3>1, LayeredIs
  <2>4. Layered(Reverse(flat)) = [k \in DOMAIN Layered(Reverse(flat)) |-> Layered(Reverse(flat))[k]]
    BY <1>5, <2>2, LayeredIs
  <2>5. Layered(Reverse(flat)) = <<>>
    BY <2>3, <2>4
  <2> QED
    BY <1>7, <1>9, <2>1, <2>5
<1> QED
  BY <1>1, <1>10, <1>11, <1>12

-----------------------------------------------------------------------------
(* What a path holds is what stands in it.                                 *)
HoldsWhatStands ==
    /\ DOMAIN held = Range(Paths) /\ DOMAIN stands = Range(Paths)
    /\ \A p \in Range(Paths) : Readable(stands[p]) /\ held[p] = Flatten(stands[p], Prefix)

LEMMA HoldsAtFirst == Init => HoldsWhatStands
<1> SUFFICES ASSUME Init PROVE HoldsWhatStands
  OBVIOUS
<1>1. PICK first : /\ \A p \in Range(Paths) : first[p] \in Contents[p]
                   /\ held = [p \in Range(Paths) |-> Loaded(first[p])]
                   /\ stands = [p \in Range(Paths) |-> Meaning(first[p])]
  BY DEF Init
<1>2. \A p \in Range(Paths) : IsContents(first[p])
  BY <1>1, UnmarshalAssumption, Zenon
<1>3. \A p \in Range(Paths) : Readable(stands[p]) /\ held[p] = Flatten(stands[p], Prefix)
  BY <1>1, <1>2, ParseIs
<1> QED
  BY <1>1, <1>3 DEF HoldsWhatStands

LEMMA HoldsAfterLoad ==
    ASSUME HoldsWhatStands, NEW p \in Range(Paths), NEW c \in Contents[p], Load(p, c)
    PROVE  HoldsWhatStands'
<1> DEFINE new == IF withDeleted THEN Meaning(c) ELSE Laid(<<Meaning(c), stands[p]>>)
           keys == IF withDeleted THEN Loaded(c) ELSE Over(Loaded(c), held[p])
<1>1. Readable(Meaning(c)) /\ Loaded(c) = Flatten(Meaning(c), Prefix)
  <2>1. IsContents(c)
    BY UnmarshalAssumption, Zenon
  <2> QED
    BY <2>1, ParseIs
<1>2. Readable(stands[p]) /\ held[p] = Flatten(stands[p], Prefix)
  BY DEF HoldsWhatStands
<1>3. Readable(new) /\ keys = Flatten(new, Prefix)
  <2>1. CASE withDeleted
    BY <1>1, <2>1
  <2>2. CASE ~withDeleted
    <3> DEFINE ds == <<Meaning(c), stands[p]>>
               fs == <<Loaded(c), held[p]>>
    <3>1. /\ 2 \in Nat /\ DOMAIN ds = 1..2 /\ \A i \in 1..2 : Readable(ds[i])
          /\ DOMAIN fs = 1..2 /\ \A i \in 1..2 : fs[i] = Flatten(ds[i], Prefix)
      BY <1>1, <1>2
    <3>2. Layered(fs) = Over(Loaded(c), held[p])
      BY OverIsLayered
    <3> HIDE DEF ds, fs
    <3>3. Readable(Laid(ds))
      BY <3>1, LaidIsReadable
    <3>4. \A i \in 1..2 : DOMAIN ds[i] \subseteq Seq(STRING)
      BY <3>1, ReadableWays
    <3>5. Layered(fs) = Flatten(Laid(ds), Prefix)
      BY <3>1, <3>4, RootIs, FlattenLaid
    <3> QED
      BY <2>2, <3>2, <3>3, <3>5 DEF ds
  <2> QED
    BY <2>1, <2>2
<1>4. held' = [held EXCEPT ![p] = keys] /\ stands' = [stands EXCEPT ![p] = new]
  BY DEF Load
<1> HIDE DEF keys, new
<1> QED
  BY <1>3, <1>4 DEF HoldsWhatStands

LEMMA ConfigIs ==
    ASSUME HoldsWhatStands
    PROVE  Readable(Document) /\ Config = Flatten(Document, Prefix)
<1> DEFINE ds == [i \in DOMAIN Paths |-> stands[Paths[i]]]
           fs == [i \in DOMAIN Paths |-> held[Paths[i]]]
           n  == Len(Paths)
<1>1. n \in Nat /\ DOMAIN Paths = 1..n /\ \A i \in 1..n : Paths[i] \in Range(Paths)
  <2>1. Paths \in Seq(Range(Paths))
    BY UnmarshalAssumption, Zenon
  <2> QED
    BY <2>1, LenProperties, ElementOfSeq
<1> HIDE DEF n
<1>2. /\ DOMAIN ds = 1..n /\ \A i \in 1..n : Readable(ds[i])
      /\ DOMAIN fs = 1..n /\ \A i \in 1..n : fs[i] = Flatten(ds[i], Prefix)
  BY <1>1 DEF HoldsWhatStands
<1>3. Document = Laid(ds) /\ Config = Layered(fs)
  BY DEF Document, Config
<1> HIDE DEF ds, fs
<1>4. Readable(Laid(ds))
  BY <1>1, <1>2, LaidIsReadable
<1>5. \A i \in 1..n : DOMAIN ds[i] \subseteq Seq(STRING)
  BY <1>2, ReadableWays
<1>6. Layered(fs) = Flatten(Laid(ds), Prefix)
  BY <1>1, <1>2, <1>5, RootIs, FlattenLaid
<1> QED
  BY <1>3, <1>4, <1>6

-----------------------------------------------------------------------------
(***************************************************************************)
(* Tags and types.                                                         *)
(***************************************************************************)
TagNames == {""} \cup ToSet(SupportedTags)

LEMMA KeyOfIs ==
    ASSUME NEW field \in Field, NEW useTag \in TagNames
    PROVE  KeyOf(field, useTag) \in STRING
<1> DEFINE tag == TagOf(field, useTag)
           given == {i \in DOMAIN SupportedTags : field.tags[SupportedTags[i]] # NoTag}
           F == ToSet(SupportedTags)
<1>1. field.camel \in STRING /\ field.tags \in [F -> Tag]
  BY DEF Field
<1>2. \A i \in DOMAIN SupportedTags : SupportedTags[i] \in F
  BY DEF ToSet
<1>3. given # {} => Min(given) \in DOMAIN SupportedTags
  <2> SUFFICES ASSUME given # {} PROVE Min(given) \in DOMAIN SupportedTags
    OBVIOUS
  <2>1. DOMAIN SupportedTags \subseteq Nat
    BY DEF SupportedTags
  <2>2. given \in SUBSET Nat /\ given \subseteq DOMAIN SupportedTags
    BY <2>1
  <2> HIDE DEF given
  <2>3. Min(given) \in given
    BY <2>2, MinIsLeast
  <2> QED
    BY <2>2, <2>3
<1>4. \A n \in F : field.tags[n].name \in STRING
  BY <1>1 DEF Tag
<1>5. useTag # "" => useTag \in F
  BY Zenon DEF TagNames
<1>6. NoTag.name = ""
  BY DEF NoTag
<1> HIDE DEF F
<1>7. tag.name # "" => tag.name \in STRING
  <2>1. CASE useTag # ""
    <3>1. tag = field.tags[useTag]
      BY <2>1, Zenon DEF TagOf
    <3> QED
      BY <1>4, <1>5, <2>1, <3>1, Zenon
  <2>2. CASE useTag = "" /\ given = {}
    <3>1. tag = NoTag
      BY <2>2, Zenon DEF TagOf
    <3> QED
      BY <1>6, <3>1, Zenon
  <2>3. CASE useTag = "" /\ given # {}
    <3>1. tag = field.tags[SupportedTags[Min(given)]]
      BY <2>3, Zenon DEF TagOf
    <3> QED
      BY <1>2, <1>3, <1>4, <2>3, <3>1, Zenon
  <2> QED
    BY <2>1, <2>2, <2>3, Zenon
<1> QED
  BY <1>1, <1>7, Zenon DEF KeyOf

-----------------------------------------------------------------------------
(* How deep structs are inside one another.                                *)
IsDepth(depth) ==
    \A st \in Structs : \A i \in DOMAIN Fields[st] :
       KindOf(Fields[st][i].type) = "struct" => depth[Fields[st][i].type.base] < depth[st]
Most  == Cardinality(Structs)
Depth == CHOOSE depth \in [Structs -> 1..Most] : IsDepth(depth)

LEMMA DepthIs == Most \in Nat /\ Depth \in [Structs -> 1..Most] /\ IsDepth(Depth)
<1>1. \E depth \in [Structs -> 1..Most] : IsDepth(depth)
  BY FieldsAssumption DEF IsDepth, Most
<1>2. Most \in Nat
  BY FieldsAssumption, FS_CardinalityType DEF Most
<1> QED
  BY <1>1, <1>2 DEF Depth

LEMMA Kinds ==
    ASSUME NEW type \in Types
    PROVE  /\ KindOf(type) = "struct" <=> type.outer = <<>> /\ type.base \in Structs
           /\ KindOf(type) = "map" \/ KindOf(type) = "slice" <=> type.outer # <<>>
           /\ KindOf(type) = "map" \/ KindOf(type) = "slice" => Elem(type) \in Types /\ Elem(type).base = type.base
<1>1. /\ type.outer \in Seq({"map", "slice"}) /\ type.base \in Basic \cup Structs
      /\ type.base \in Structs => type.base \notin Basic \cup {"map", "slice", "struct"}
  BY FieldsAssumption DEF Types
<1>2. CASE type.outer # <<>>
  <2>1. Head(type.outer) \in {"map", "slice"} /\ Tail(type.outer) \in Seq({"map", "slice"})
    BY <1>1, <1>2, HeadTailProperties
  <2>2. Elem(type) \in Types /\ Elem(type).base = type.base
    BY <1>1, <2>1 DEF Elem, Types
  <2> QED
    BY <1>2, <2>1, <2>2 DEF KindOf
<1>3. CASE type.outer = <<>>
  BY <1>1, <1>3 DEF KindOf, Basic
<1> QED
  BY <1>2, <1>3

LEMMA FieldIs ==
    ASSUME NEW st \in Structs, NEW i \in DOMAIN Fields[st]
    PROVE  /\ Fields[st][i] \in Field /\ Fields[st][i].type \in Types
           /\ DOMAIN Fields[st] = 1..Len(Fields[st]) /\ Len(Fields[st]) \in Nat
<1>1. Fields[st] \in Seq(Field)
  BY FieldsAssumption
<1>2. Fields[st][i] \in Field /\ DOMAIN Fields[st] = 1..Len(Fields[st]) /\ Len(Fields[st]) \in Nat
  BY <1>1, LenProperties, ElementOfSeq
<1> QED
  BY <1>2 DEF Field

(* The structs that are inlined in a struct.                               *)
InlinedStructs(st, useTag) == {Fields[st][i].type.base : i \in Inlined(st, useTag)}

LEMMA InlinedAreLower ==
    ASSUME NEW st \in Structs, NEW useTag, NEW t \in InlinedStructs(st, useTag)
    PROVE  /\ t \in Structs /\ Depth[t] \in 1..Most /\ Depth[st] \in 1..Most /\ Depth[t] < Depth[st]
           /\ \A sts \in SUBSET Structs : Closed(sts) /\ st \in sts => t \in sts
<1>1. PICK i \in Inlined(st, useTag) : t = Fields[st][i].type.base
  BY DEF InlinedStructs
<1>2. i \in DOMAIN Fields[st] /\ KindOf(Fields[st][i].type) = "struct"
  BY <1>1 DEF Inlined, InlineOf
<1>3. t \in Structs
  BY <1>1, <1>2, FieldIs, Kinds
<1>4. Depth[t] < Depth[st]
  BY <1>1, <1>2, DepthIs DEF IsDepth
<1>5. \A sts \in SUBSET Structs : Closed(sts) /\ st \in sts => t \in sts
  BY <1>1, <1>2, <1>3 DEF Closed
<1> QED
  BY <1>3, <1>4, <1>5, DepthIs

-----------------------------------------------------------------------------
(***************************************************************************)
(* Descriptions of structs.                                                *)
(***************************************************************************)
(* What is true of the description of a struct: its fields have types that *)
(* are known, of structs less deep if they are structs; its inline map is  *)
(* a map.                                                                  *)
FieldFits(f, st) ==
    /\ f.key \in STRING /\ f.type \in Types
    /\ KindOf(f.type) = "struct" => Depth[f.type.base] < Depth[st]
    /\ \A sts \in SUBSET Structs :
          Closed(sts) /\ st \in sts /\ f.type.base \in Structs => f.type.base \in sts
Sound(info, st) ==
    /\ \A f \in info.fields : FieldFits(f, st)
    /\ info.inlineMap # 0 => /\ info.inlineMap \in DOMAIN Fields[st]
                             /\ KindOf(Fields[st][info.inlineMap].type) = "map"

LEMMA FieldsFromFit ==
    ASSUME NEW st \in Structs, NEW useTag \in TagNames, NEW known,
           \A t \in InlinedStructs(st, useTag) : Sound(known[t], t),
           NEW i \in DOMAIN Fields[st], NEW g \in FieldsFrom(i, st, useTag, known)
    PROVE  FieldFits(g, st)
<1> DEFINE field == Fields[st][i]
<1>1. field \in Field /\ field.type \in Types
  BY FieldIs
<1>2. CASE i \in Inlined(st, useTag)
  <2>1. PICK f \in known[field.type.base].fields : g = [f EXCEPT !.path = <<i>> \o @]
    BY <1>2 DEF FieldsFrom
  <2>2. field.type.base \in InlinedStructs(st, useTag)
    BY <1>2 DEF InlinedStructs
  <2> DEFINE t == field.type.base
  <2> HIDE DEF t, field
  <2>3. FieldFits(f, t)
    BY <2>1, <2>2 DEF Sound, t
  <2>4. g.key = f.key /\ g.type = f.type
    BY <2>1
  <2>5. /\ t \in Structs /\ Depth[t] \in 1..Most /\ Depth[st] \in 1..Most /\ Depth[t] < Depth[st]
        /\ \A sts \in SUBSET Structs : Closed(sts) /\ st \in sts => t \in sts
    BY <2>2, InlinedAreLower DEF t
  <2>6. KindOf(f.type) = "struct" => Depth[f.type.base] < Depth[st]
    <3> SUFFICES ASSUME KindOf(f.type) = "struct" PROVE Depth[f.type.base] < Depth[st]
      OBVIOUS
    <3>1. Depth[f.type.base] < Depth[t] /\ f.type.base \in Structs
      BY <2>3, Kinds DEF FieldFits
    <3>2. Depth[f.type.base] \in 1..Most /\ Most \in Nat
      BY <3>1, DepthIs
    <3> QED
      BY <2>5, <3>1, <3>2
  <2>7. \A sts \in SUBSET Structs :
           Closed(sts) /\ st \in sts /\ f.type.base \in Structs => f.type.base \in sts
    BY <2>3, <2>5 DEF FieldFits
  <2> QED
    BY <2>3, <2>4, <2>6, <2>7 DEF FieldFits
<1>3. CASE i \notin Inlined(st, useTag)
  <2>1. g = [key |-> KeyOf(field, useTag), path |-> <<i>>, type |-> field.type]
    BY <1>3 DEF FieldsFrom
  <2>2. g.key = KeyOf(field, useTag) /\ g.type = field.type
    BY <2>1
  <2>3. KeyOf(field, useTag) \in STRING
    BY <1>1, KeyOfIs
  <2>4. KindOf(field.type) = "struct" => Depth[field.type.base] < Depth[st]
    BY DepthIs DEF IsDepth
  <2>5. \A sts \in SUBSET Structs :
           Closed(sts) /\ st \in sts /\ field.type.base \in Structs => field.type.base \in sts
    BY DEF Closed
  <2> HIDE DEF field
  <2> QED
    BY <1>1, <2>2, <2>3, <2>4, <2>5 DEF FieldFits
<1> QED
  BY <1>2, <1>3

LEMMA DescribeIsSound ==
    ASSUME NEW st \in Structs, NEW useTag \in TagNames, NEW known, NEW n \in 0..Len(Fields[st]),
           \A t \in InlinedStructs(st, useTag) : Sound(known[t], t)
    PROVE  Sound(DescribeUpTo(n, st, useTag, known), st)
<1> DEFINE fields == UNION {FieldsFrom(i, st, useTag, known) : i \in 1..n}
           maps   == {i \in InlineOf("map", st, useTag) : i <= n}
           info   == [ok |-> TRUE, fields |-> fields,
                      inlineMap |-> IF maps = {} THEN 0 ELSE CHOOSE i \in maps : TRUE]
<1>1. DescribeUpTo(n, st, useTag, known) \in {Invalid, info}
  BY DEF DescribeUpTo
<1>2. Sound(Invalid, st)
  BY DEF Sound, Invalid
<1>3. 1..n \subseteq DOMAIN Fields[st]
  <2>1. Fields[st] \in Seq(Field)
    BY FieldsAssumption
  <2>2. DOMAIN Fields[st] = 1..Len(Fields[st]) /\ Len(Fields[st]) \in Nat
    BY <2>1, LenProperties
  <2> QED
    BY <2>2
<1>4. \A g \in fields : FieldFits(g, st)
  <2> TAKE g \in fields
  <2>1. PICK i \in 1..n : g \in FieldsFrom(i, st, useTag, known)
    OBVIOUS
  <2> QED
    BY <1>3, <2>1, FieldsFromFit
<1>5. \A i \in maps : i \in DOMAIN Fields[st] /\ KindOf(Fields[st][i].type) = "map"
  BY DEF InlineOf
<1>6. Sound(info, st)
  <2> HIDE DEF fields, maps
  <2>1. info.fields = fields /\ info.inlineMap = IF maps = {} THEN 0 ELSE CHOOSE i \in maps : TRUE
    OBVIOUS
  <2>2. maps # {} => (CHOOSE i \in maps : TRUE) \in maps
    OBVIOUS
  <2>3. info.inlineMap # 0 => info.inlineMap \in maps
    BY <2>1, <2>2
  <2> HIDE DEF info
  <2> QED
    BY <1>4, <1>5, <2>1, <2>3 DEF Sound
<1> QED
  BY <1>1, <1>2, <1>6

(* A description depends on those of inlined structs only.                 *)
LEMMA DescribeDependsOn ==
    ASSUME NEW st \in Structs, NEW useTag, NEW n \in 0..Len(Fields[st]), NEW known, NEW other,
           \A t \in InlinedStructs(st, useTag) : known[t] = other[t]
    PROVE  DescribeUpTo(n, st, useTag, known) = DescribeUpTo(n, st, useTag, other)
<1>1. 1..n \subseteq DOMAIN Fields[st]
  <2>1. Fields[st] \in Seq(Field)
    BY FieldsAssumption
  <2>2. DOMAIN Fields[st] = 1..Len(Fields[st]) /\ Len(Fields[st]) \in Nat
    BY <2>1, LenProperties
  <2> QED
    BY <2>2
<1>2. \A i \in 1..n : FieldsFrom(i, st, useTag, known) = FieldsFrom(i, st, useTag, other)
  <2> TAKE i \in 1..n
  <2>1. CASE i \in Inlined(st, useTag)
    <3>1. Fields[st][i].type.base \in InlinedStructs(st, useTag)
      BY <2>1 DEF InlinedStructs
    <3>2. known[Fields[st][i].type.base] = other[Fields[st][i].type.base]
      BY <3>1
    <3> QED
      BY <2>1, <3>2 DEF FieldsFrom
  <2>2. CASE i \notin Inlined(st, useTag)
    BY <2>2 DEF FieldsFrom
  <2> QED
    BY <2>1, <2>2
<1>3. \A i \in 1..n : IsWrong(i, st, useTag, known) <=> IsWrong(i, st, useTag, other)
  <2> TAKE i \in 1..n
  <2> DEFINE field == Fields[st][i]
  <2>1. CASE Misflagged(field, useTag) \/ ~IsInline(field, useTag) \/ KindOf(field.type) # "struct"
    BY <2>1 DEF IsWrong
  <2>2. CASE ~Misflagged(field, useTag) /\ IsInline(field, useTag) /\ KindOf(field.type) = "struct"
    <3>1. i \in Inlined(st, useTag)
      BY <1>1, <2>2 DEF Inlined, InlineOf
    <3>2. known[field.type.base] = other[field.type.base]
      BY <3>1 DEF InlinedStructs
    <3> QED
      BY <2>2, <3>2 DEF IsWrong
  <2> QED
    BY <2>1, <2>2
<1>4. {FieldsFrom(i, st, useTag, known) : i \in 1..n} = {FieldsFrom(i, st, useTag, other) : i \in 1..n}
  BY <1>2
<1> QED
  BY <1>3, <1>4 DEF DescribeUpTo

-----------------------------------------------------------------------------
(* Descriptions without a cache are well defined: struct by struct, those  *)
(* less deep first.                                                        *)
Shallow(n) == {st \in Structs : Depth[st] <= n}
OneMore(st, useTag, info) == Describe(st, useTag, [t \in InlinedStructs(st, useTag) |-> info[t]])

LEMMA OneMoreDependsOn ==
    ASSUME NEW st \in Structs, NEW useTag, NEW info, NEW other,
           \A t \in InlinedStructs(st, useTag) : info[t] = other[t]
    PROVE  OneMore(st, useTag, info) = OneMore(st, useTag, other)
<1>1. [t \in InlinedStructs(st, useTag) |-> info[t]] = [t \in InlinedStructs(st, useTag) |-> other[t]]
  OBVIOUS
<1> QED
  BY <1>1 DEF OneMore

LEMMA DescriptionsExist ==
    ASSUME NEW useTag, NEW n \in Nat
    PROVE  \E h : h = [st \in Shallow(n) |-> OneMore(st, useTag, h)]
<1> DEFINE Well == {m \in Nat : \E h : h = [st \in Shallow(m) |-> OneMore(st, useTag, h)]}
<1> SUFFICES ASSUME n \notin Well PROVE FALSE
  OBVIOUS
<1>1. PICK m \in Nat : m \notin Well /\ \A i \in 0..m - 1 : i \in Well
  <2> HIDE DEF Well
  <2> QED
    BY Least
<1>2. CASE m = 0
  <2> DEFINE h == [st \in {} |-> <<>>]
  <2>1. Shallow(0) = {}
    BY DepthIs DEF Shallow
  <2>2. h = [st \in Shallow(0) |-> OneMore(st, useTag, h)]
    BY <2>1
  <2> QED
    BY <1>1, <1>2, <2>2
<1>3. CASE m # 0
  <2>1. m - 1 \in Well
    BY <1>1, <1>3
  <2>2. PICK h : h = [st \in Shallow(m - 1) |-> OneMore(st, useTag, h)]
    BY <2>1
  <2> DEFINE g == [st \in Shallow(m) |-> OneMore(st, useTag, h)]
  <2>3. ASSUME NEW st \in Shallow(m), NEW t \in InlinedStructs(st, useTag) PROVE g[t] = h[t]
    <3>1. t \in Structs /\ Depth[t] \in 1..Most /\ Depth[st] \in 1..Most /\ Depth[t] < Depth[st]
      BY InlinedAreLower DEF Shallow
    <3>2. Depth[st] <= m /\ Most \in Nat
      BY DepthIs DEF Shallow
    <3>3. t \in Shallow(m - 1) /\ t \in Shallow(m)
      BY <3>1, <3>2 DEF Shallow
    <3>4. h[t] = OneMore(t, useTag, h)
      BY <2>2, <3>3
    <3> QED
      BY <3>3, <3>4
  <2>4. \A st \in Shallow(m) : g[st] = OneMore(st, useTag, g)
    <3> TAKE st \in Shallow(m)
    <3>1. st \in Structs /\ g[st] = OneMore(st, useTag, h)
      BY DEF Shallow
    <3>2. OneMore(st, useTag, g) = OneMore(st, useTag, h)
      <4>1. \A t \in InlinedStructs(st, useTag) : g[t] = h[t]
        BY <2>3
      <4> HIDE DEF g
      <4> QED
        BY <3>1, <4>1, OneMoreDependsOn
    <3> QED
      BY <3>1, <3>2
  <2>5. g = [st \in Shallow(m) |-> OneMore(st, useTag, g)]
    BY <2>4
  <2> QED
    BY <1>1, <2>5
<1> QED
  BY <1>2, <1>3

LEMMA DescribedIs ==
    ASSUME NEW useTag \in TagNames, NEW st \in Structs
    PROVE  Described(st, useTag) = OneMore(st, useTag, Descriptions[useTag])
<1>1. Shallow(Most) = Structs
  BY DepthIs DEF Shallow
<1>2. \E h : h = [s \in Structs |-> OneMore(s, useTag, h)]
  <2>1. Most \in Nat
    BY DepthIs
  <2>2. \E h : h = [s \in Shallow(Most) |-> OneMore(s, useTag, h)]
    BY <2>1, DescriptionsExist
  <2> QED
    BY <1>1, <2>2
<1>3. Descriptions[useTag] = CHOOSE h : h = [s \in Structs |-> OneMore(s, useTag, h)]
  BY DEF Descriptions, OneMore, InlinedStructs, TagNames
<1>4. Descriptions[useTag] = [s \in Structs |-> OneMore(s, useTag, Descriptions[useTag])]
  BY <1>2, <1>3
<1> QED
  BY <1>4 DEF Described

(* A call that has all the descriptions it needs makes the right one.      *)
LEMMA DescribedFrom ==
    ASSUME NEW useTag \in TagNames, NEW st \in Structs, NEW known,
           \A t \in InlinedStructs(st, useTag) : known[t] = Described(t, useTag)
    PROVE  DescribeUpTo(Len(Fields[st]), st, useTag, known) = Described(st, useTag)
<1> DEFINE other == [t \in InlinedStructs(st, useTag) |-> Descriptions[useTag][t]]
<1>1. \A t \in InlinedStructs(st, useTag) : known[t] = other[t]
  BY DEF Described
<1>2. Len(Fields[st]) \in 0..Len(Fields[st])
  <2>1. Fields[st] \in Seq(Field)
    BY FieldsAssumption
  <2>2. Len(Fields[st]) \in Nat
    BY <2>1, LenProperties
  <2> QED
    BY <2>2
<1>3. Described(st, useTag) = DescribeUpTo(Len(Fields[st]), st, useTag, other)
  BY DescribedIs DEF OneMore, Describe
<1> HIDE DEF other
<1>4. DescribeUpTo(Len(Fields[st]), st, useTag, known) = DescribeUpTo(Len(Fields[st]), st, useTag, other)
  <2> DEFINE n == Len(Fields[st])
  <2>1. n \in 0..Len(Fields[st])
    BY <1>2
  <2> HIDE DEF n
  <2>2. DescribeUpTo(n, st, useTag, known) = DescribeUpTo(n, st, useTag, other)
    BY <1>1, <2>1, DescribeDependsOn
  <2> QED
    BY <2>2 DEF n
<1> QED
  BY <1>3, <1>4

LEMMA DescribedIsSound ==
    ASSUME NEW useTag \in TagNames, NEW st \in Structs
    PROVE  Sound(Described(st, useTag), st)
<1> DEFINE Well == {n \in Nat : \A s \in Structs : Depth[s] = n => Sound(Described(s, useTag), s)}
<1>1. Depth[st] \in Nat /\ \A s \in Structs : Depth[s] \in Nat
  BY DepthIs
<1> SUFFICES ASSUME Depth[st] \notin Well PROVE FALSE
  BY <1>1
<1>2. PICK m \in Nat : m \notin Well /\ \A i \in 0..m - 1 : i \in Well
  <2> HIDE DEF Well
  <2> QED
    BY <1>1, Least
<1>3. PICK s \in Structs : Depth[s] = m /\ ~Sound(Described(s, useTag), s)
  BY <1>2
<1>4. \A t \in InlinedStructs(s, useTag) : Sound(Described(t, useTag), t)
  <2> TAKE t \in InlinedStructs(s, useTag)
  <2>1. t \in Structs /\ Depth[t] \in 1..Most /\ Depth[t] < Depth[s]
    BY <1>3, InlinedAreLower
  <2>2. Depth[t] \in 0..m - 1
    BY <1>3, <2>1, DepthIs
  <2>3. Depth[t] \in Well
    BY <1>2, <2>2
  <2> QED
    BY <2>1, <2>3
<1>5. Len(Fields[s]) \in 0..Len(Fields[s])
  <2>1. Fields[s] \in Seq(Field)
    BY <1>3, FieldsAssumption
  <2>2. Len(Fields[s]) \in Nat
    BY <2>1, LenProperties
  <2> QED
    BY <2>2
<1> DEFINE other == [t \in InlinedStructs(s, useTag) |-> Descriptions[useTag][t]]
<1>6. \A t \in InlinedStructs(s, useTag) : Sound(other[t], t)
  BY <1>4 DEF Described
<1>7. Described(s, useTag) = DescribeUpTo(Len(Fields[s]), s, useTag, other)
  BY <1>3, DescribedIs DEF OneMore, Describe
<1> HIDE DEF other
<1> QED
  BY <1>3, <1>5, <1>6, <1>7, DescribeIsSound

-----------------------------------------------------------------------------
(***************************************************************************)
(* The keys a decoder looks for.                                           *)
(***************************************************************************)
LEMMA MaxIsMost ==
    ASSUME NEW b \in Nat, NEW S \in SUBSET 0..b, S # {}
    PROVE  Max(S) \in S /\ \A x \in S : x <= Max(S)
<1> DEFINE T == {b - x : x \in S}
<1>1. T \in SUBSET Nat /\ T # {}
  <2>1. \A x \in S : x \in 0..b /\ b - x \in Nat
    OBVIOUS
  <2>2. \A y \in T : y \in Nat
    BY <2>1
  <2>3. T # {}
    OBVIOUS
  <2> QED
    BY <2>2, <2>3
<1>2. PICK m \in T : \A y \in T : m <= y
  <2> HIDE DEF T
  <2> QED
    BY <1>1, MinIsLeast
<1>3. PICK x \in S : m = b - x
  BY <1>2
<1>4. \A y \in S : x >= y
  <2> TAKE y \in S
  <2>1. b - x <= b - y
    BY <1>2, <1>3
  <2> QED
    BY <2>1
<1>5. Max(S) \in S /\ \A y \in S : Max(S) >= y
  BY <1>3, <1>4 DEF Max
<1> QED
  BY <1>5

LEMMA IndexIs ==
    /\ Len(Index) \in Nat /\ DOMAIN Index = 1..Len(Index) /\ Index \in Seq(STRING)
    /\ \A i \in 1..Len(Index) : Index[i] \in STRING /\ IsIndex(Index[i])
<1>1. Index \in Seq(STRING)
  BY IndexAssumption
<1>2. Len(Index) \in Nat /\ DOMAIN Index = 1..Len(Index)
  BY <1>1, LenProperties
<1>3. \A i \in 1..Len(Index) : Index[i] \in STRING
  BY <1>1, ElementOfSeq
<1> QED
  BY <1>1, <1>2, <1>3 DEF IsIndex

(* Sets of keys have a longest key.                                        *)
LEMMA Longest ==
    ASSUME NEW S, NEW keys, IsFiniteSet(keys), keys \subseteq Seq(S)
    PROVE  \E most \in Nat : \A k \in keys : Len(k) <= most
<1>1. PICK n \in Nat : ExistsSurjection(1..n, keys)
  BY FS_NatSurjection
<1>2. PICK f : f \in Surjection(1..n, keys)
  BY <1>1 DEF ExistsSurjection
<1>3. \A i \in 1..n : f[i] \in keys /\ Len(f[i]) \in Nat
  <2> TAKE i \in 1..n
  <2>1. f[i] \in keys
    BY <1>2 DEF Surjection
  <2> QED
    BY <2>1, LenProperties
<1>4. \A k \in keys : \E i \in 1..n : f[i] = k
  BY <1>2 DEF Surjection
<1> DEFINE Well == {m \in Nat : \E most \in Nat : \A i \in 1..m : i <= n => Len(f[i]) <= most}
<1>5. n \in Well
  <2> SUFFICES ASSUME n \notin Well PROVE FALSE
    OBVIOUS
  <2>1. PICK m \in Nat : m \notin Well /\ \A i \in 0..m - 1 : i \in Well
    <3> HIDE DEF Well
    <3> QED
      BY Least
  <2>2. 0 \in Well
    OBVIOUS
  <2>3. m # 0
    BY <2>1, <2>2
  <2>4. m - 1 \in Well
    <3>1. m - 1 \in 0..m - 1
      BY <2>1, <2>3
    <3> HIDE DEF Well
    <3> QED
      BY <2>1, <3>1
  <2>5. PICK most \in Nat : \A i \in 1..m - 1 : i <= n => Len(f[i]) <= most
    BY <2>4
  <2>6. CASE m <= n
    <3> DEFINE last == Len(f[m])
               more == IF last <= most THEN most ELSE last
    <3>1. last \in Nat /\ more \in Nat /\ most <= more /\ last <= more
      <4>1. m \in 1..n
        BY <2>1, <2>3, <2>6
      <4>2. last \in Nat
        BY <1>3, <4>1
      <4> HIDE DEF last
      <4> QED
        BY <2>5, <4>2
    <3> HIDE DEF more
    <3>2. \A i \in 1..m : i <= n => Len(f[i]) <= more
      <4> TAKE i \in 1..m
      <4>1. CASE i = m
        BY <3>1, <4>1
      <4>2. CASE i # m
        <5>1. i \in 1..m - 1
          BY <4>2
        <5> HAVE i <= n
        <5>2. Len(f[i]) <= most /\ Len(f[i]) \in Nat
          BY <1>3, <2>5, <5>1
        <5> QED
          BY <3>1, <5>2
      <4> QED
        BY <4>1, <4>2
    <3> QED
      BY <2>1, <3>1, <3>2
  <2>7. CASE m > n
    <3>1. \A i \in 1..m : i <= n => Len(f[i]) <= most
      BY <2>5, <2>7
    <3> QED
      BY <2>1, <3>1
  <2> QED
    BY <2>6, <2>7
<1>6. PICK most \in Nat : \A i \in 1..n : i <= n => Len(f[i]) <= most
  BY <1>5
<1>7. \A k \in keys : Len(k) <= most
  <2> TAKE k \in keys
  <2>1. PICK i \in 1..n : f[i] = k
    BY <1>4
  <2>2. i <= n
    BY <2>1
  <2> QED
    BY <1>6, <2>1, <2>2
<1> QED
  BY <1>6, <1>7

LEMMA ChildKeys ==
    ASSUME NEW key \in Keys, NEW keys \in SUBSET Keys, NEW k \in ChildKeysOf(key, keys)
    PROVE  /\ k \in keys /\ k \in Keys /\ Len(key) \in Nat /\ Len(k) \in Nat /\ Len(k) > Len(key)
           /\ SubSeq(k, 1, Len(key)) = key /\ \A i \in 1..Len(k) : k[i] \in STRING
<1>1. k \in keys /\ k \in Seq(STRING) /\ key \in Seq(STRING) /\ Len(k) > Len(key) /\ SubSeq(k, 1, Len(key)) = key
  BY DEF ChildKeysOf, Keys
<1>2. Len(k) \in Nat /\ Len(key) \in Nat /\ \A i \in 1..Len(k) : k[i] \in STRING
  BY <1>1, LenProperties, ElementOfSeq
<1> QED
  BY <1>1, <1>2 DEF Keys

LEMMA ChildNameIs ==
    ASSUME NEW key \in Keys, NEW keys \in SUBSET Keys, NEW k \in ChildKeysOf(key, keys)
    PROVE  ChildName(k, key) \in Seq(STRING) /\ Len(ChildName(k, key)) \in Nat \ {0}
<1> DEFINE dots == {i \in Len(key) + 2..Len(k) : ~IsIndex(k[i])}
           last == IF dots = {} THEN Len(k) ELSE Min(dots) - 1
<1>1. /\ k \in Keys /\ Len(key) \in Nat /\ Len(k) \in Nat /\ Len(k) > Len(key)
      /\ \A i \in 1..Len(k) : k[i] \in STRING
  BY ChildKeys
<1>2. last \in Len(key) + 1..Len(k)
  <2>1. CASE dots = {}
    BY <1>1, <2>1
  <2>2. CASE dots # {}
    <3>1. dots \in SUBSET Nat /\ dots \subseteq Len(key) + 2..Len(k)
      BY <1>1
    <3> HIDE DEF dots
    <3>2. Min(dots) \in dots
      BY <2>2, <3>1, MinIsLeast
    <3>3. Min(dots) \in Len(key) + 2..Len(k)
      BY <3>1, <3>2
    <3> QED
      BY <1>1, <2>2, <3>3
  <2> QED
    BY <2>1, <2>2
<1>3. ChildName(k, key) = SubSeq(k, Len(key) + 1, last)
  BY DEF ChildName
<1> HIDE DEF last, dots
<1>4. \A i \in Len(key) + 1..last : k[i] \in STRING
  BY <1>1, <1>2
<1>5. /\ SubSeq(k, Len(key) + 1, last) \in Seq(STRING)
      /\ Len(SubSeq(k, Len(key) + 1, last)) = IF Len(key) + 1 <= last THEN last - (Len(key) + 1) + 1 ELSE 0
  <2>1. Len(key) + 1 \in Int /\ last \in Int
    BY <1>1, <1>2
  <2> QED
    BY <1>4, <2>1, SubSeqProperties
<1>6. Len(SubSeq(k, Len(key) + 1, last)) \in Nat \ {0}
  BY <1>1, <1>2, <1>5
<1> QED
  BY <1>3, <1>5, <1>6

LEMMA Longer ==
    ASSUME NEW key \in Keys
    PROVE  /\ Len(key) \in Nat
           /\ \A n \in Seq(STRING) : key \o n \in Keys /\ Len(key \o n) = Len(key) + Len(n)
           /\ \A piece \in STRING : Append(key, piece) \in Keys /\ Len(Append(key, piece)) = Len(key) + 1
<1>1. key \in Seq(STRING)
  BY DEF Keys
<1> QED
  BY <1>1, LenProperties, ConcatProperties, AppendProperties DEF Keys

-----------------------------------------------------------------------------
(* What a decoder works with: sound descriptions, and no key longer than   *)
(* the longest.                                                            *)
Usable(u, longest) ==
    /\ longest \in Nat /\ u.keys \subseteq Keys /\ DOMAIN u.get \subseteq Keys
    /\ \A k \in u.keys \cup DOMAIN u.get : Len(k) <= longest
    /\ \A k \in DOMAIN u.get : u.get[k] \in Scalar
    /\ \A st \in DOMAIN u.infos : st \in Structs /\ Sound(u.infos[st], st)

LEMMA ScalarIs ==
    ASSUME NEW v \in Scalar
    PROVE  /\ Kind(v) \in {"text", "int", "null"}
           /\ Kind(v) = "null" <=> v = Null
           /\ Kind(v) = "int" => Of(v) \in Int
BY DEF Scalar, Kind, Of, Null

LEMMA CountedIs ==
    ASSUME NEW key \in Keys, NEW keys \in SUBSET Keys
    PROVE  /\ Counted(key, keys) \in 0..Len(Index) /\ Counted(key, keys) <= ArrayLimit
           /\ \A i \in 1..Counted(key, keys) : HasElement(key, i, keys)
           /\ \A n \in 0..Len(Index) : n <= ArrayLimit /\ (\A i \in 1..n : HasElement(key, i, keys)) =>
                 n <= Counted(key, keys)
<1> DEFINE S == {n \in 0..ArrayLimit : n <= Len(Index) /\ \A i \in 1..n : HasElement(key, i, keys)}
<1>1. ArrayLimit \in Nat /\ Len(Index) \in Nat
  BY DecoderAssumption, IndexIs
<1>2. S \in SUBSET 0..ArrayLimit /\ 0 \in S
  BY <1>1
<1>3. Max(S) \in S /\ \A x \in S : x <= Max(S)
  <2> HIDE DEF S
  <2> QED
    BY <1>1, <1>2, MaxIsMost
<1>4. Counted(key, keys) = Max(S)
  BY DEF Counted
<1>5. \A n \in 0..Len(Index) : n <= ArrayLimit /\ (\A i \in 1..n : HasElement(key, i, keys)) => n \in S
  BY <1>1
<1>6. Max(S) \in 0..Len(Index) /\ Max(S) <= ArrayLimit /\ \A i \in 1..Max(S) : HasElement(key, i, keys)
  BY <1>1, <1>3
<1> HIDE DEF S
<1> QED
  BY <1>3, <1>4, <1>5, <1>6

LEMMA ArraySizeIs ==
    ASSUME NEW longest, NEW u, Usable(u, longest), NEW key \in Keys, NEW i \in 1..ArraySize(key, u)
    PROVE  i \in 1..Len(Index) /\ Len(key) <= longest
<1>1. key \in DOMAIN u.get => Len(key) <= longest
  BY DEF Usable
<1>2. CASE key \in DOMAIN u.get
  <2>1. u.get[key] \in Scalar
    BY <1>2 DEF Usable
  <2>2. CASE Kind(u.get[key]) # "int"
    BY <1>2, <2>2 DEF ArraySize
  <2>3. CASE Kind(u.get[key]) = "int"
    <3>1. Of(u.get[key]) \in Int
      BY <2>1, <2>3, ScalarIs
    <3>2. ArraySize(key, u) = IF Of(u.get[key]) > Len(Index) THEN Len(Index) ELSE Of(u.get[key])
      BY <1>2, <2>3 DEF ArraySize
    <3> QED
      BY <1>1, <1>2, <3>1, <3>2, IndexIs
  <2> QED
    BY <2>2, <2>3
<1>3. CASE key \notin DOMAIN u.get
  <2>1. u.keys \in SUBSET Keys
    BY DEF Usable
  <2>2. /\ Counted(key, u.keys) \in 0..Len(Index)
        /\ \A j \in 1..Counted(key, u.keys) : HasElement(key, j, u.keys)
    BY <2>1, CountedIs
  <2>3. ArraySize(key, u) = Counted(key, u.keys)
    BY <1>3 DEF ArraySize
  <2>4. i \in 1..Len(Index) /\ HasElement(key, i, u.keys)
    BY <2>2, <2>3, IndexIs
  <2> DEFINE at == Append(key, Index[i])
  <2>5. at \in Keys /\ Len(at) = Len(key) + 1 /\ Len(key) \in Nat
    BY <2>4, IndexIs, Longer
  <2>6. at \in u.keys \/ ChildKeysOf(at, u.keys) # {}
    BY <2>4 DEF HasElement
  <2> HIDE DEF at
  <2>7. CASE at \in u.keys
    <3>1. Len(at) <= longest /\ longest \in Nat
      BY <2>7 DEF Usable
    <3> QED
      BY <2>4, <2>5, <3>1
  <2>8. CASE ChildKeysOf(at, u.keys) # {}
    <3>1. PICK k \in ChildKeysOf(at, u.keys) : TRUE
      BY <2>8
    <3>2. k \in u.keys /\ Len(k) \in Nat /\ Len(k) > Len(at)
      BY <2>1, <2>5, <3>1, ChildKeys
    <3>3. Len(k) <= longest /\ longest \in Nat
      BY <3>2 DEF Usable
    <3> QED
      BY <2>4, <2>5, <3>2, <3>3
  <2> QED
    BY <2>6, <2>7, <2>8
<1> QED
  BY <1>2, <1>3

LEMMA ChildNamesAre ==
    ASSUME NEW longest, NEW u, Usable(u, longest), NEW key \in Keys, NEW n \in ChildNames(key, u.keys)
    PROVE  n \in Seq(STRING) /\ Len(n) \in Nat \ {0} /\ Len(key) <= longest
<1>1. u.keys \in SUBSET Keys /\ longest \in Nat
  BY DEF Usable
<1>2. PICK k \in ChildKeysOf(key, u.keys) : n = ChildName(k, key)
  BY DEF ChildNames
<1>3. k \in u.keys /\ Len(k) \in Nat /\ Len(key) \in Nat /\ Len(k) > Len(key)
  BY <1>1, <1>2, ChildKeys
<1>4. Len(k) <= longest
  BY <1>3 DEF Usable
<1>5. n \in Seq(STRING) /\ Len(n) \in Nat \ {0}
  BY <1>1, <1>2, ChildNameIs
<1> QED
  BY <1>1, <1>3, <1>4, <1>5

-----------------------------------------------------------------------------
(***************************************************************************)
(* How the decoder goes inside.                                            *)
(***************************************************************************)
(* How far a place, a type and a key, is from the innermost ones: keys     *)
(* become longer on the way inside, and past the longest there are only    *)
(* structs in structs.                                                     *)
Mu(at, longest) ==
    IF Len(at[2]) <= longest THEN Most + 1 + (longest - Len(at[2]))
    ELSE IF KindOf(at[1]) = "struct" THEN Depth[at[1].base] ELSE 0

(* The place at is one step inside the place of type at key.               *)
IsInside(at, type, key, longest) ==
    /\ at \in Types \X Keys /\ Len(at[2]) > Len(key)
    /\ \/ Len(key) <= longest
       \/ /\ KindOf(type) = "struct"
          /\ KindOf(at[1]) = "struct" => Depth[at[1].base] < Depth[type.base]
    /\ \A sts \in SUBSET Structs :
          Closed(sts) /\ (type.base \in Structs => type.base \in sts) /\ at[1].base \in Structs =>
             at[1].base \in sts

LEMMA MuIs ==
    ASSUME NEW at \in Types \X Keys, NEW longest \in Nat
    PROVE  Mu(at, longest) \in Nat /\ Mu(at, longest) <= Most + 1 + longest
<1>1. at[1] \in Types /\ at[2] \in Keys
  OBVIOUS
<1>2. Len(at[2]) \in Nat /\ Most \in Nat
  BY <1>1, Longer, DepthIs
<1>3. KindOf(at[1]) = "struct" => Depth[at[1].base] \in 1..Most
  BY <1>1, Kinds, DepthIs
<1> QED
  BY <1>2, <1>3 DEF Mu

LEMMA MuFalls ==
    ASSUME NEW longest \in Nat, NEW type \in Types, NEW key \in Keys, NEW at,
           IsInside(at, type, key, longest)
    PROVE  at \in Types \X Keys /\ Mu(at, longest) < Mu(<<type, key>>, longest)
<1> DEFINE t == at[1]
           k == at[2]
<1>1. t \in Types /\ k \in Keys /\ Len(k) > Len(key) /\ at \in Types \X Keys
  BY DEF IsInside
<1>2. Len(k) \in Nat /\ Len(key) \in Nat /\ Most \in Nat
  BY <1>1, Longer, DepthIs
<1>3. KindOf(t) = "struct" => Depth[t.base] \in 1..Most
  BY <1>1, Kinds, DepthIs
<1>4. KindOf(type) = "struct" => Depth[type.base] \in 1..Most
  BY Kinds, DepthIs
<1>5. Mu(at, longest) = IF Len(k) <= longest THEN Most + 1 + (longest - Len(k))
                        ELSE IF KindOf(t) = "struct" THEN Depth[t.base] ELSE 0
  BY DEF Mu
<1>6. Mu(<<type, key>>, longest) = IF Len(key) <= longest THEN Most + 1 + (longest - Len(key))
                                   ELSE IF KindOf(type) = "struct" THEN Depth[type.base] ELSE 0
  BY DEF Mu
<1>7. \/ Len(key) <= longest
      \/ /\ KindOf(type) = "struct"
         /\ KindOf(t) = "struct" => Depth[t.base] < Depth[type.base]
  BY DEF IsInside
<1> HIDE DEF t, k
<1> QED
  BY <1>1, <1>2, <1>3, <1>4, <1>5, <1>6, <1>7

-----------------------------------------------------------------------------
(* The places a step of the decoder looks into.                            *)
FieldPlaces(info, key) ==
    {<<FieldAt(info, p).type, Append(key, FieldAt(info, p).key)>> : p \in PathsOf(info)}
Inside(type, key, u) ==
    IF KindOf(type) = "map" THEN {<<Elem(type), key \o n>> : n \in ChildNames(key, u.keys)}
    ELSE IF KindOf(type) = "slice" THEN {<<Elem(type), Append(key, Index[i])>> : i \in 1..ArraySize(key, u)}
    ELSE IF KindOf(type) = "struct" /\ type.base \in DOMAIN u.infos
         THEN FieldPlaces(u.infos[type.base], key) \cup
              IF u.infos[type.base].inlineMap = 0 THEN {}
              ELSE {<<InlineElem(type.base, u.infos[type.base]), key \o n>> :
                       n \in Others(u.infos[type.base], key, u)}
    ELSE {}

LEMMA FieldAtIs ==
    ASSUME NEW info, NEW p \in PathsOf(info)
    PROVE  FieldAt(info, p) \in info.fields /\ FieldAt(info, p).path = p
BY DEF PathsOf, FieldAt

LEMMA FieldsAreInside ==
    ASSUME NEW longest \in Nat, NEW type \in Types, KindOf(type) = "struct", NEW key \in Keys,
           NEW info, Sound(info, type.base), NEW p \in PathsOf(info)
    PROVE  IsInside(<<FieldAt(info, p).type, Append(key, FieldAt(info, p).key)>>, type, key, longest)
<1> DEFINE f == FieldAt(info, p)
           k == Append(key, f.key)
<1>1. FieldFits(f, type.base)
  BY FieldAtIs DEF Sound
<1>2. type.outer = <<>> /\ type.base \in Structs
  BY Kinds
<1> HIDE DEF f
<1>3. f.key \in STRING /\ f.type \in Types
  BY <1>1 DEF FieldFits
<1>4. k \in Keys /\ Len(k) = Len(key) + 1 /\ Len(key) \in Nat
  BY <1>3, Longer
<1> DEFINE at == <<f.type, k>>
<1>5. at[1] = f.type /\ at[2] = k /\ at \in Types \X Keys
  BY <1>3, <1>4
<1> HIDE DEF k, at
<1>6. Len(at[2]) > Len(key)
  BY <1>4, <1>5
<1>7. KindOf(at[1]) = "struct" => Depth[at[1].base] < Depth[type.base]
  BY <1>1, <1>5 DEF FieldFits
<1>8. \A sts \in SUBSET Structs :
          Closed(sts) /\ (type.base \in Structs => type.base \in sts) /\ at[1].base \in Structs =>
             at[1].base \in sts
  BY <1>1, <1>2, <1>5 DEF FieldFits
<1>9. IsInside(at, type, key, longest)
  BY <1>5, <1>6, <1>7, <1>8 DEF IsInside
<1> QED
  BY <1>9 DEF at, f, k

(* An element of a map or a slice, or of an inline map.                    *)
LEMMA ElementsAreInside ==
    ASSUME NEW longest \in Nat, NEW type \in Types, NEW key \in Keys, Len(key) <= longest,
           NEW t \in Types, NEW k \in Keys, Len(k) > Len(key),
           \/ t.base = type.base
           \/ /\ type.base \in Structs
              /\ \A sts \in SUBSET Structs :
                    Closed(sts) /\ type.base \in sts /\ t.base \in Structs => t.base \in sts
    PROVE  IsInside(<<t, k>>, type, key, longest)
<1> DEFINE at == <<t, k>>
<1>1. at[1] = t /\ at[2] = k /\ at \in Types \X Keys
  OBVIOUS
<1> HIDE DEF at
<1>2. \A sts \in SUBSET Structs :
          Closed(sts) /\ (type.base \in Structs => type.base \in sts) /\ at[1].base \in Structs =>
             at[1].base \in sts
  BY <1>1
<1>3. IsInside(at, type, key, longest)
  BY <1>1, <1>2 DEF IsInside
<1> QED
  BY <1>3 DEF at

LEMMA InlineElemIs ==
    ASSUME NEW st \in Structs, NEW info, Sound(info, st), info.inlineMap # 0
    PROVE  /\ InlineElem(st, info) \in Types
           /\ \A sts \in SUBSET Structs :
                 Closed(sts) /\ st \in sts /\ InlineElem(st, info).base \in Structs =>
                    InlineElem(st, info).base \in sts
<1> DEFINE i == info.inlineMap
           type == Fields[st][i].type
<1>1. i \in DOMAIN Fields[st] /\ KindOf(type) = "map"
  BY DEF Sound
<1>2. type \in Types
  BY <1>1, FieldIs
<1>3. InlineElem(st, info) = Elem(type)
  BY DEF InlineElem
<1>4. \A sts \in SUBSET Structs : Closed(sts) /\ st \in sts /\ type.base \in Structs => type.base \in sts
  BY <1>1 DEF Closed
<1> HIDE DEF type
<1>5. Elem(type) \in Types /\ Elem(type).base = type.base
  BY <1>1, <1>2, Kinds
<1> QED
  BY <1>3, <1>4, <1>5

LEMMA InsideIs ==
    ASSUME NEW longest, NEW u, Usable(u, longest), NEW type \in Types, NEW key \in Keys,
           NEW at \in Inside(type, key, u)
    PROVE  IsInside(at, type, key, longest)
<1>1. longest \in Nat
  BY DEF Usable
<1>2. CASE KindOf(type) = "map"
  <2>1. PICK n \in ChildNames(key, u.keys) : at = <<Elem(type), key \o n>>
    BY <1>2 DEF Inside
  <2>2. n \in Seq(STRING) /\ Len(n) \in Nat \ {0} /\ Len(key) <= longest
    BY ChildNamesAre
  <2>3. key \o n \in Keys /\ Len(key \o n) = Len(key) + Len(n) /\ Len(key) \in Nat
    BY <2>2, Longer
  <2>4. Elem(type) \in Types /\ Elem(type).base = type.base
    BY <1>2, Kinds
  <2>5. Len(key \o n) > Len(key)
    BY <2>2, <2>3
  <2> DEFINE t == Elem(type)
             k == key \o n
  <2>6. t \in Types /\ t.base = type.base /\ k \in Keys /\ Len(k) > Len(key) /\ at = <<t, k>>
    BY <2>1, <2>3, <2>4, <2>5
  <2> HIDE DEF t, k
  <2> QED
    BY <1>1, <2>2, <2>6, ElementsAreInside
<1>3. CASE KindOf(type) = "slice"
  <2>1. PICK i \in 1..ArraySize(key, u) : at = <<Elem(type), Append(key, Index[i])>>
    BY <1>3 DEF Inside
  <2>2. i \in 1..Len(Index) /\ Len(key) <= longest
    BY ArraySizeIs
  <2>3. Append(key, Index[i]) \in Keys /\ Len(Append(key, Index[i])) = Len(key) + 1 /\ Len(key) \in Nat
    BY <2>2, IndexIs, Longer
  <2>4. Elem(type) \in Types /\ Elem(type).base = type.base
    BY <1>3, Kinds
  <2>5. Len(Append(key, Index[i])) > Len(key)
    BY <2>3
  <2> DEFINE t == Elem(type)
             k == Append(key, Index[i])
  <2>6. t \in Types /\ t.base = type.base /\ k \in Keys /\ Len(k) > Len(key) /\ at = <<t, k>>
    BY <2>1, <2>3, <2>4, <2>5
  <2> HIDE DEF t, k
  <2> QED
    BY <1>1, <2>2, <2>6, ElementsAreInside
<1>4. CASE KindOf(type) = "struct" /\ type.base \in DOMAIN u.infos
  <2> DEFINE info == u.infos[type.base]
  <2>1. type.base \in Structs /\ Sound(info, type.base)
    BY <1>4 DEF Usable
  <2>2. \/ at \in FieldPlaces(info, key)
        \/ /\ info.inlineMap # 0
           /\ at \in {<<InlineElem(type.base, info), key \o n>> : n \in Others(info, key, u)}
    BY <1>4 DEF Inside
  <2> HIDE DEF info
  <2>3. CASE at \in FieldPlaces(info, key)
    <3>1. PICK p \in PathsOf(info) : at = <<FieldAt(info, p).type, Append(key, FieldAt(info, p).key)>>
      BY <2>3 DEF FieldPlaces
    <3> QED
      BY <1>1, <1>4, <2>1, <3>1, FieldsAreInside
  <2>4. CASE info.inlineMap # 0 /\ at \in {<<InlineElem(type.base, info), key \o n>> : n \in Others(info, key, u)}
    <3>1. PICK n \in Others(info, key, u) : at = <<InlineElem(type.base, info), key \o n>>
      BY <2>4
    <3>2. n \in ChildNames(key, u.keys)
      BY <3>1 DEF Others
    <3>3. n \in Seq(STRING) /\ Len(n) \in Nat \ {0} /\ Len(key) <= longest
      BY <3>2, ChildNamesAre
    <3>4. key \o n \in Keys /\ Len(key \o n) = Len(key) + Len(n) /\ Len(key) \in Nat
      BY <3>3, Longer
    <3> DEFINE t == InlineElem(type.base, info)
               k == key \o n
    <3>5. /\ t \in Types
          /\ \A sts \in SUBSET Structs :
                Closed(sts) /\ type.base \in sts /\ t.base \in Structs => t.base \in sts
      BY <2>1, <2>4, InlineElemIs
    <3>6. k \in Keys /\ Len(k) > Len(key) /\ at = <<t, k>>
      BY <3>1, <3>3, <3>4
    <3> HIDE DEF t, k
    <3> QED
      BY <1>1, <2>1, <3>3, <3>5, <3>6, ElementsAreInside
  <2> QED
    BY <2>2, <2>3, <2>4
<1> QED
  BY <1>2, <1>3, <1>4 DEF Inside

-----------------------------------------------------------------------------
(***************************************************************************)
(* What the decoder does depends on what is inside only.                   *)
(***************************************************************************)
LEMMA HandleDependsOn ==
    ASSUME NEW u, NEW type, NEW key, NEW d, NEW e,
           \A at \in Inside(type, key, u) : d[at] = e[at]
    PROVE  Handle(d, type, key, u) = Handle(e, type, key, u)
<1>1. CASE KindOf(type) = "map"
  <2>1. \A n \in ChildNames(key, u.keys) : d[<<Elem(type), key \o n>>] = e[<<Elem(type), key \o n>>]
    BY <1>1 DEF Inside
  <2>2. HandleMap(d, type, key, u) = HandleMap(e, type, key, u)
    <3>1. [n \in ChildNames(key, u.keys) |-> d[<<Elem(type), key \o n>>]] =
          [n \in ChildNames(key, u.keys) |-> e[<<Elem(type), key \o n>>]]
      BY <2>1
    <3> QED
      BY <3>1, Zenon DEF HandleMap
  <2> QED
    BY <1>1, <2>2 DEF Handle
<1>2. CASE KindOf(type) = "slice"
  <2>1. \A i \in 1..ArraySize(key, u) :
           d[<<Elem(type), Append(key, Index[i])>>] = e[<<Elem(type), Append(key, Index[i])>>]
    BY <1>2 DEF Inside
  <2>2. HandleSlice(d, type, key, u) = HandleSlice(e, type, key, u)
    <3>1. [i \in 1..ArraySize(key, u) |-> d[<<Elem(type), Append(key, Index[i])>>]] =
          [i \in 1..ArraySize(key, u) |-> e[<<Elem(type), Append(key, Index[i])>>]]
      BY <2>1
    <3> QED
      BY <3>1, Zenon DEF HandleSlice
  <2> QED
    BY <1>2, <2>2 DEF Handle
<1>3. CASE KindOf(type) = "struct" /\ type.base \in DOMAIN u.infos
  <2> DEFINE st   == type.base
             info == u.infos[st]
  <2>1. /\ \A at \in FieldPlaces(info, key) : d[at] = e[at]
        /\ info.inlineMap # 0 =>
              \A n \in Others(info, key, u) : d[<<InlineElem(st, info), key \o n>>] = e[<<InlineElem(st, info), key \o n>>]
    BY <1>3 DEF Inside
  <2> HIDE DEF info
  <2>2. [p \in PathsOf(info) |-> d[<<FieldAt(info, p).type, Append(key, FieldAt(info, p).key)>>]] =
        [p \in PathsOf(info) |-> e[<<FieldAt(info, p).type, Append(key, FieldAt(info, p).key)>>]]
    BY <2>1 DEF FieldPlaces
  <2>3. info.inlineMap # 0 =>
           [n \in Others(info, key, u) |-> d[<<InlineElem(st, info), key \o n>>]] =
           [n \in Others(info, key, u) |-> e[<<InlineElem(st, info), key \o n>>]]
    BY <2>1
  <2>4. HandleStruct(d, st, key, u) = HandleStruct(e, st, key, u)
    <3>1. CASE info.inlineMap = 0
      BY <2>2, <3>1, Zenon DEF HandleStruct, info
    <3>2. CASE info.inlineMap # 0
      BY <2>2, <2>3, <3>2, Zenon DEF HandleStruct, info
    <3> QED
      BY <3>1, <3>2
  <2> QED
    BY <1>3, <2>4 DEF Handle
<1>4. CASE /\ KindOf(type) # "map" /\ KindOf(type) # "slice"
           /\ ~(KindOf(type) = "struct" /\ type.base \in DOMAIN u.infos)
  BY <1>4 DEF Handle
<1> QED
  BY <1>1, <1>2, <1>3, <1>4

Within(n, longest) == {at \in Types \X Keys : Mu(at, longest) <= n}

LEMMA WithinIs ==
    ASSUME NEW longest \in Nat
    PROVE  Within(Most + 1 + longest, longest) = Types \X Keys /\ Most + 1 + longest \in Nat
<1>1. Most \in Nat
  BY DepthIs
<1>2. \A at \in Types \X Keys : Mu(at, longest) <= Most + 1 + longest
  BY MuIs
<1> QED
  BY <1>1, <1>2 DEF Within

(* What is inside a place is within a lower bound.                         *)
LEMMA InsideIsWithin ==
    ASSUME NEW longest \in Nat, NEW m \in Nat, NEW at \in Within(m, longest), NEW of,
           IsInside(of, at[1], at[2], longest)
    PROVE  m # 0 /\ of \in Within(m - 1, longest) /\ of \in Within(m, longest)
<1>1. at \in Types \X Keys /\ at[1] \in Types /\ at[2] \in Keys /\ at = <<at[1], at[2]>> /\ Mu(at, longest) <= m
  BY DEF Within
<1>2. of \in Types \X Keys /\ Mu(of, longest) < Mu(at, longest)
  <2>1. of \in Types \X Keys /\ Mu(of, longest) < Mu(<<at[1], at[2]>>, longest)
    BY <1>1, MuFalls
  <2> QED
    BY <1>1, <2>1
<1>3. Mu(of, longest) \in Nat /\ Mu(at, longest) \in Nat
  BY <1>1, <1>2, MuIs
<1> QED
  BY <1>1, <1>2, <1>3 DEF Within

-----------------------------------------------------------------------------
(* The decoder is well defined: place by place, the inner ones first.      *)
LEMMA OutcomesExist ==
    ASSUME NEW longest, NEW u, Usable(u, longest), NEW n \in Nat
    PROVE  \E h : h = [at \in Within(n, longest) |-> Handle(h, at[1], at[2], u)]
<1> DEFINE Exists(m) == \E h : h = [at \in Within(m, longest) |-> Handle(h, at[1], at[2], u)]
           Well == {m \in Nat : Exists(m)}
<1>0. longest \in Nat
  BY DEF Usable
<1> SUFFICES ASSUME n \notin Well PROVE FALSE
  OBVIOUS
<1>1. PICK m \in Nat : m \notin Well /\ \A i \in 0..m - 1 : i \in Well
  <2> HIDE DEF Well
  <2> QED
    BY Least
<1>2. \E h : m # 0 => h = [at \in Within(m - 1, longest) |-> Handle(h, at[1], at[2], u)]
  <2>1. CASE m = 0
    BY <2>1
  <2>2. CASE m # 0
    <3>1. m - 1 \in 0..m - 1
      BY <1>1, <2>2
    <3>2. m - 1 \in Well
      BY <1>1, <3>1
    <3>3. Exists(m - 1)
      BY <3>2
    <3> QED
      BY <3>3
  <2> QED
    BY <2>1, <2>2
<1>3. PICK h : m # 0 => h = [at \in Within(m - 1, longest) |-> Handle(h, at[1], at[2], u)]
  BY <1>2
<1> DEFINE g == [at \in Within(m, longest) |-> Handle(h, at[1], at[2], u)]
<1>4. ASSUME NEW at \in Within(m, longest), NEW of \in Inside(at[1], at[2], u) PROVE g[of] = h[of]
  <2>1. at[1] \in Types /\ at[2] \in Keys
    BY DEF Within
  <2>2. IsInside(of, at[1], at[2], longest)
    BY <2>1, InsideIs
  <2>3. m # 0 /\ of \in Within(m - 1, longest) /\ of \in Within(m, longest)
    BY <1>0, <1>1, <2>2, InsideIsWithin
  <2>4. h[of] = Handle(h, of[1], of[2], u)
    BY <1>3, <2>3
  <2> QED
    BY <2>3, <2>4
<1>5. \A at \in Within(m, longest) : g[at] = Handle(g, at[1], at[2], u)
  <2> TAKE at \in Within(m, longest)
  <2>1. g[at] = Handle(h, at[1], at[2], u)
    OBVIOUS
  <2>2. \A of \in Inside(at[1], at[2], u) : g[of] = h[of]
    BY <1>4
  <2>3. Handle(g, at[1], at[2], u) = Handle(h, at[1], at[2], u)
    <3> DEFINE t == at[1]
               k == at[2]
    <3> HIDE DEF g, t, k
    <3>1. \A of \in Inside(t, k, u) : g[of] = h[of]
      BY <2>2 DEF t, k
    <3>2. Handle(g, t, k, u) = Handle(h, t, k, u)
      BY <3>1, HandleDependsOn
    <3> QED
      BY <3>2 DEF t, k
  <2> QED
    BY <2>1, <2>3
<1>6. g = [at \in Within(m, longest) |-> Handle(g, at[1], at[2], u)]
  BY <1>5
<1> HIDE DEF g
<1>7. Exists(m)
  BY <1>6
<1> QED
  BY <1>1, <1>7

LEMMA OutcomesAre ==
    ASSUME NEW longest, NEW u, Usable(u, longest), NEW type \in Types, NEW key \in Keys
    PROVE  Outcomes(u)[<<type, key>>] = Handle(Outcomes(u), type, key, u)
<1>0. longest \in Nat
  BY DEF Usable
<1>1. \E h : h = [at \in Types \X Keys |-> Handle(h, at[1], at[2], u)]
  <2>1. Within(Most + 1 + longest, longest) = Types \X Keys /\ Most + 1 + longest \in Nat
    BY <1>0, WithinIs
  <2> DEFINE n == Most + 1 + longest
  <2>2. n \in Nat
    BY <2>1
  <2> HIDE DEF n
  <2>3. \E h : h = [at \in Within(n, longest) |-> Handle(h, at[1], at[2], u)]
    BY <2>2, OutcomesExist
  <2> QED
    BY <2>1, <2>3 DEF n
<1>2. Outcomes(u) = CHOOSE h : h = [at \in Types \X Keys |-> Handle(h, at[1], at[2], u)]
  BY DEF Outcomes
<1>3. Outcomes(u) = [at \in Types \X Keys |-> Handle(Outcomes(u), at[1], at[2], u)]
  BY <1>1, <1>2
<1>4. <<type, key>> \in Types \X Keys
  OBVIOUS
<1> HIDE DEF Outcomes
<1> QED
  BY <1>3, <1>4

-----------------------------------------------------------------------------
(* The structs a variable is made of: with its own struct, if it is one,   *)
(* and those of its fields.                                                *)
LEMMA StructsOfIs ==
    ASSUME NEW type
    PROVE  /\ StructsOf(type) \in SUBSET Structs /\ Closed(StructsOf(type))
           /\ type.base \in Structs => type.base \in StructsOf(type)
<1>1. Closed(StructsOf(type))
  <2> SUFFICES ASSUME NEW st \in StructsOf(type), NEW i \in DOMAIN Fields[st],
                      Fields[st][i].type.base \in Structs
               PROVE  Fields[st][i].type.base \in StructsOf(type)
    BY DEF Closed
  <2>1. ASSUME NEW sts \in SUBSET Structs, Closed(sts), type.base \in Structs => type.base \in sts
        PROVE  Fields[st][i].type.base \in sts
    <3>1. st \in sts
      BY <2>1 DEF StructsOf
    <3> QED
      BY <2>1, <3>1 DEF Closed
  <2> QED
    BY <2>1 DEF StructsOf
<1> QED
  BY <1>1 DEF StructsOf

(* What a call needs are structs of the variable.                          *)
LEMMA NeedsAre ==
    ASSUME NEW longest, NEW u, Usable(u, longest), NEW type \in Types, NEW key \in Keys,
           NEW sts \in SUBSET Structs, Closed(sts), type.base \in Structs => type.base \in sts
    PROVE  Outcomes(u)[<<type, key>>].needs \subseteq sts
<1> DEFINE d == Outcomes(u)
           Fine(at) == (at[1].base \in Structs => at[1].base \in sts) => d[at].needs \subseteq sts
           Well == {n \in Nat : \A at \in Types \X Keys : Mu(at, longest) = n => Fine(at)}
<1>0. longest \in Nat /\ \A at \in Types \X Keys : Mu(at, longest) \in Nat
  BY MuIs DEF Usable
<1>1. <<type, key>> \in Types \X Keys /\ <<type, key>>[1] = type
  OBVIOUS
<1> SUFFICES ASSUME Mu(<<type, key>>, longest) \notin Well PROVE FALSE
  <2>1. Mu(<<type, key>>, longest) \in Well => Fine(<<type, key>>)
    BY <1>1
  <2> QED
    BY <1>1, <2>1
<1>2. PICK m \in Nat : m \notin Well /\ \A i \in 0..m - 1 : i \in Well
  <2> HIDE DEF Well
  <2> QED
    BY <1>0, <1>1, Least
<1>3. PICK at \in Types \X Keys : Mu(at, longest) = m /\ ~Fine(at)
  BY <1>2
<1> DEFINE t == at[1]
           k == at[2]
<1>4. t \in Types /\ k \in Keys /\ at = <<t, k>>
  OBVIOUS
<1>5. (t.base \in Structs => t.base \in sts) /\ ~(d[<<t, k>>].needs \subseteq sts)
  BY <1>3, <1>4
<1>6. ASSUME NEW of \in Inside(t, k, u) PROVE d[of].needs \subseteq sts
  <2>1. IsInside(of, t, k, longest)
    BY <1>4, InsideIs
  <2>2. of \in Types \X Keys /\ Mu(of, longest) < Mu(at, longest)
    <3>1. of \in Types \X Keys /\ Mu(of, longest) < Mu(<<t, k>>, longest)
      BY <1>0, <1>4, <2>1, MuFalls
    <3> QED
      BY <1>4, <3>1
  <2>3. Mu(of, longest) \in 0..m - 1
    BY <1>0, <1>3, <2>2
  <2>4. Mu(of, longest) \in Well
    BY <1>2, <2>3
  <2>5. Fine(of)
    BY <2>2, <2>4
  <2>6. of[1].base \in Structs => of[1].base \in sts
    BY <1>5, <2>1 DEF IsInside
  <2> QED
    BY <2>5, <2>6
<1>7. d[<<t, k>>] = Handle(d, t, k, u)
  BY <1>4, OutcomesAre
<1> HIDE DEF d, Fine, Well, t, k
<1>8. \A v, parts : (\A p \in parts : p.needs \subseteq sts) => Made(v, parts).needs \subseteq sts
  BY DEF Made
<1>9. \A v, c : Good(v).needs = {} /\ Bad(c, v).needs = {}
  BY DEF Good, Bad
<1>10. CASE KindOf(t) = "map"
  <2> DEFINE got == [n \in ChildNames(k, u.keys) |-> d[<<Elem(t), k \o n>>]]
             v   == MapOf([n \in {m0 \in DOMAIN got : got[m0].good} |-> got[n].value])
  <2>1. \A p \in Range(got) : p.needs \subseteq sts
    BY <1>6, <1>10 DEF Inside, Range
  <2>2. Handle(d, t, k, u) = Made(v, Range(got))
    BY <1>10 DEF Handle, HandleMap
  <2> HIDE DEF got, v
  <2> QED
    BY <1>5, <1>7, <1>8, <2>1, <2>2
<1>11. CASE KindOf(t) = "slice"
  <2> DEFINE got == [i \in 1..ArraySize(k, u) |-> d[<<Elem(t), Append(k, Index[i])>>]]
             v   == ListOf([i \in DOMAIN got |-> got[i].value])
  <2>1. \A p \in Range(got) : p.needs \subseteq sts
    BY <1>6, <1>11 DEF Inside, Range
  <2>2. Handle(d, t, k, u) = Made(v, Range(got))
    BY <1>11 DEF Handle, HandleSlice
  <2> HIDE DEF got, v
  <2> QED
    BY <1>5, <1>7, <1>8, <2>1, <2>2
<1>12. CASE KindOf(t) = "struct" /\ t.base \in DOMAIN u.infos
  <2> DEFINE info == u.infos[t.base]
             got  == [p \in PathsOf(info) |-> d[<<FieldAt(info, p).type, Append(k, FieldAt(info, p).key)>>]]
             more == [n \in Others(info, k, u) |-> d[<<InlineElem(t.base, info), k \o n>>]]
  <2>1. \A p \in Range(got) : p.needs \subseteq sts
    BY <1>6, <1>12 DEF Inside, FieldPlaces, Range
  <2>2. info.inlineMap # 0 => \A p \in Range(more) : p.needs \subseteq sts
    BY <1>6, <1>12 DEF Inside, Range
  <2>3. Handle(d, t, k, u) = HandleStruct(d, t.base, k, u)
    BY <1>12 DEF Handle
  <2>4. IF info.inlineMap = 0 THEN \E v : HandleStruct(d, t.base, k, u) = Made(v, Range(got))
                              ELSE \E v : HandleStruct(d, t.base, k, u) = Made(v, Range(got) \cup Range(more))
    <3>1. CASE info.inlineMap = 0
      BY <3>1, Zenon DEF HandleStruct
    <3>2. CASE info.inlineMap # 0
      BY <3>2, Zenon DEF HandleStruct
    <3> QED
      BY <3>1, <3>2
  <2> HIDE DEF got, more, info
  <2>5. CASE info.inlineMap = 0
    BY <1>5, <1>7, <1>8, <2>1, <2>3, <2>4, <2>5
  <2>6. CASE info.inlineMap # 0
    <3> DEFINE all == Range(got) \cup Range(more)
    <3>1. \A p \in all : p.needs \subseteq sts
      BY <2>1, <2>2, <2>6
    <3>2. PICK v : Handle(d, t, k, u) = Made(v, all)
      BY <2>3, <2>4, <2>6
    <3> HIDE DEF all
    <3> QED
      BY <1>5, <1>7, <1>8, <3>1, <3>2
  <2> QED
    BY <2>5, <2>6
<1>13. CASE KindOf(t) = "struct" /\ t.base \notin DOMAIN u.infos
  <2>1. t.base \in sts
    BY <1>4, <1>5, <1>13, Kinds
  <2>2. Handle(d, t, k, u).needs = {t.base}
    BY <1>13 DEF Handle, Good
  <2> QED
    BY <1>5, <1>7, <2>1, <2>2
<1>14. CASE KindOf(t) # "map" /\ KindOf(t) # "slice" /\ KindOf(t) # "struct"
  <2>1. Handle(d, t, k, u) = HandleBasic(t, k, u)
    BY <1>14 DEF Handle
  <2>2. \E v, c : HandleBasic(t, k, u) \in {Good(v), Bad(c, v)}
    <3>1. \/ HandleBasic(t, k, u) = Good(Zero(t))
          \/ HandleBasic(t, k, u) = Good(Converted(t, u.get[k]))
          \/ HandleBasic(t, k, u) = Bad(k, Zero(t))
      BY Zenon DEF HandleBasic
    <3> QED
      BY <3>1
  <2> QED
    BY <1>5, <1>7, <1>9, <2>1, <2>2
<1> QED
  BY <1>10, <1>11, <1>12, <1>13, <1>14

-----------------------------------------------------------------------------
(***************************************************************************)
(* What is asked for, and of which configuration.                          *)
(***************************************************************************)
LEMMA AskIs ==
    ASSUME NEW a \in Asks
    PROVE  /\ a.type \in Types /\ a.tag \in TagNames /\ a.below \in Seq(Name)
           /\ Root \o a.below \in Seq(Name) /\ Root \o a.below \in Keys
           /\ Stripped(a.prefix) = Root \o a.below
<1>1. a.type \in Types /\ a.tag \in TagNames /\ a.below \in Seq(Name)
  BY UnmarshalAssumption, Zenon DEF TagNames, Name
<1>2. Root \o a.below \in Seq(Name)
  BY <1>1, RootIs, ConcatProperties
<1>3. Spells(a.prefix, Root \o a.below)
  <2>1. a.prefix \in {Root \o a.below, Root \o a.below \o <<"">>}
    BY UnmarshalAssumption, Zenon
  <2>2. \A s \in Seq(Name) : \A e : s \o <<e>> = Append(s, e)
    <3> TAKE s \in Seq(Name)
    <3> TAKE e
    <3> DEFINE S == Name \cup {e}
    <3>1. s \in Seq(S) /\ e \in S
      BY SeqMonotonic
    <3> QED
      BY <3>1, AppendIsConcat
  <2> DEFINE s == Root \o a.below
  <2>3. s \in Seq(Name)
    BY <1>2
  <2>4. s \o <<"">> = Append(s, "")
    <3> HIDE DEF s
    <3> QED
      BY <2>2, <2>3, Zenon
  <2> QED
    BY <2>1, <2>4, Zenon DEF Spells
<1>4. Root \o a.below \in Keys
  BY <1>2, NamesAreStrings, SeqMonotonic DEF Keys
<1>5. Stripped(a.prefix) = Root \o a.below
  <2> DEFINE root == Root \o a.below
  <2>1. root \in Seq(Name) /\ Spells(a.prefix, root)
    BY <1>2, <1>3
  <2> HIDE DEF root
  <2>2. Stripped(a.prefix) = root
    BY <2>1, StrippedIs
  <2> QED
    BY <2>2 DEF root
<1> QED
  BY <1>1, <1>2, <1>4, <1>5

(* The configuration has finitely many keys, and scalars under them.       *)
LEMMA ConfigHas ==
    ASSUME HoldsWhatStands
    PROVE  /\ DOMAIN Config \subseteq Keys /\ IsFiniteSet(DOMAIN Config)
           /\ \A k \in DOMAIN Config : Config[k] \in Scalar
<1> DEFINE doc == Document
<1>1. Readable(doc) /\ Config = Flatten(doc, Prefix)
  BY ConfigIs
<1> HIDE DEF doc
<1>2. DOMAIN doc \subseteq Seq(STRING) /\ IsFiniteSet(DOMAIN doc) /\ \A w \in DOMAIN doc : doc[w] \in Node
  BY <1>1, ReadableWays DEF Readable
<1>3. /\ DOMAIN Config = {Root \o way : way \in Leaves(doc)}
      /\ \A way \in Leaves(doc) : Config[Root \o way] = Written(doc[way])
  <2>1. Root \in Seq(Name) /\ Spells(Prefix, Root)
    BY RootIs
  <2> DEFINE root == Root
             prefix == Prefix
  <2> HIDE DEF root, prefix
  <2>2. /\ DOMAIN Flatten(doc, prefix) = {root \o way : way \in Leaves(doc)}
        /\ \A way \in Leaves(doc) : Flatten(doc, prefix)[root \o way] = Written(doc[way])
        /\ Flatten(doc, prefix) = [k \in DOMAIN Flatten(doc, prefix) |-> Flatten(doc, prefix)[k]]
    BY <1>2, <2>1, FlattenIs DEF root, prefix
  <2> QED
    BY <1>1, <2>2 DEF root, prefix
<1>4. Leaves(doc) \subseteq DOMAIN doc /\ \A w \in Leaves(doc) : doc[w] \notin {AMap, Items}
  BY DEF Leaves
<1>5. IsFiniteSet(DOMAIN Config)
  <2> DEFINE f == [w \in Leaves(doc) |-> Root \o w]
             K == {Root \o way : way \in Leaves(doc)}
  <2>1. f \in Surjection(Leaves(doc), K)
    BY DEF Surjection
  <2>2. IsFiniteSet(Leaves(doc))
    BY <1>2, <1>4, FS_Subset
  <2> HIDE DEF f, K
  <2>3. IsFiniteSet(K)
    BY <2>1, <2>2, FS_Surjection
  <2> QED
    BY <1>3, <2>3 DEF K
<1>6. DOMAIN Config \subseteq Keys
  <2>1. Root \in Seq(STRING)
    BY RootIs, NamesAreStrings, SeqMonotonic
  <2>2. \A w \in Leaves(doc) : w \in Seq(STRING)
    BY <1>2, <1>4
  <2>3. \A w \in Leaves(doc) : Root \o w \in Seq(STRING)
    BY <2>1, <2>2, ConcatProperties
  <2> QED
    BY <1>3, <2>3 DEF Keys
<1>7. \A w \in Leaves(doc) : Written(doc[w]) \in Scalar
  <2> TAKE w \in Leaves(doc)
  <2>1. doc[w] \in Node \ {AMap, Items}
    BY <1>2, <1>4
  <2>2. CASE doc[w] \in Scalar
    <3> DEFINE v == doc[w]
    <3>0. v \in Scalar
      BY <2>2
    <3> HIDE DEF v
    <3>1. Kind(v) # "list"
      BY <3>0, ScalarIs
    <3> QED
      BY <3>0, <3>1 DEF Written, v
  <2>3. CASE doc[w] \in {"list"} \X Nat
    <3>1. Kind(doc[w]) = "list" /\ Of(doc[w]) \in Int
      BY <2>3 DEF Kind, Of
    <3>2. Number(Of(doc[w])) \in Scalar
      BY <3>1 DEF Number, Scalar
    <3> QED
      BY <3>1, <3>2 DEF Written
  <2> QED
    BY <2>1, <2>2, <2>3 DEF Node
<1> QED
  BY <1>3, <1>5, <1>6, <1>7

-----------------------------------------------------------------------------
(***************************************************************************)
(* Structs that are asked for under one tag name.                          *)
(***************************************************************************)
LEMMA OneTagIs ==
    ASSUME NEW st \in OneTag, NEW a \in Asks, NEW b \in Asks,
           st \in StructsOf(a.type), st \in StructsOf(b.type)
    PROVE  a.tag = b.tag
<1> DEFINE type == [outer |-> <<>>, base |-> st]
<1>1. st \in Structs /\ type.base = st
  BY DEF OneTag
<1>2. st \in StructsOf(type)
  <2> HIDE DEF type
  <2> QED
    BY <1>1, StructsOfIs
<1> QED
  BY <1>2 DEF OneTag

(* What is inlined in one of them is another.                              *)
LEMMA InlinedHaveOneTag ==
    ASSUME NEW st \in OneTag, NEW useTag, NEW t \in InlinedStructs(st, useTag)
    PROVE  t \in OneTag
<1> DEFINE outer == [outer |-> <<>>, base |-> st]
           inner == [outer |-> <<>>, base |-> t]
<1>1. st \in Structs /\ outer.base = st /\ inner.base = t
  BY DEF OneTag
<1>2. t \in Structs /\ \A sts \in SUBSET Structs : Closed(sts) /\ st \in sts => t \in sts
  BY <1>1, InlinedAreLower
<1>3. StructsOf(inner) \subseteq StructsOf(outer)
  <2> HIDE DEF outer, inner
  <2>1. /\ StructsOf(outer) \in SUBSET Structs /\ Closed(StructsOf(outer))
        /\ st \in StructsOf(outer)
    BY <1>1, StructsOfIs
  <2>2. t \in StructsOf(outer)
    BY <1>2, <2>1
  <2> DEFINE sts == StructsOf(outer)
  <2>3. sts \in SUBSET Structs /\ Closed(sts) /\ inner.base \in sts
    BY <1>1, <2>1, <2>2
  <2> HIDE DEF sts
  <2>4. StructsOf(inner) \subseteq sts
    BY <2>3 DEF StructsOf
  <2> QED
    BY <2>4 DEF sts
<1> QED
  BY <1>2, <1>3 DEF OneTag

-----------------------------------------------------------------------------
(***************************************************************************)
(* The inductive invariant, and the steps that keep it.                    *)
(***************************************************************************)
(* The inductive invariant: what a call knows and what the cache keeps is  *)
(* sound, and what is asked for of structs that are asked for under one    *)
(* tag name; structs a call is describing lie inside one another.          *)
InfosFit(infos, a) ==
    /\ DOMAIN infos \subseteq StructsOf(a.type)
    /\ \A st \in DOMAIN infos : Sound(infos[st], st)
    /\ \A st \in DOMAIN infos \cap OneTag : infos[st] = Described(st, a.tag)
FramesFit(frames, a) ==
    /\ frames \in Seq([of : StructsOf(a.type), looked : BOOLEAN])
    /\ \A i, j \in DOMAIN frames : i < j => Depth[frames[i].of] < Depth[frames[j].of]
CallFits(c) ==
    /\ DOMAIN c = {"at", "ask", "keys", "infos", "frames", "answer", "steady"}
    /\ c.at \in {"decoding", "done"} /\ c.ask \in Asks /\ c.steady \in BOOLEAN
    /\ c.keys \subseteq Keys /\ IsFiniteSet(c.keys)
    /\ InfosFit(c.infos, c.ask) /\ FramesFit(c.frames, c.ask)
CacheFits ==
    /\ DOMAIN cache \subseteq Structs
    /\ \A st \in DOMAIN cache :
          /\ cache[st].ok /\ Sound(cache[st], st)
          /\ \A a \in Asks : st \in OneTag /\ st \in StructsOf(a.type) => cache[st] = Described(st, a.tag)
IInv ==
    /\ loads \in 0..MaxLoads /\ withDeleted \in BOOLEAN
    /\ HoldsWhatStands /\ CacheFits
    /\ call = [r \in Callers |-> call[r]]
    /\ \A r \in Callers : call[r] = Idle \/ CallFits(call[r])

LEMMA InvAtFirst == Init => IInv
<1> SUFFICES ASSUME Init PROVE IInv
  OBVIOUS
<1>1. HoldsWhatStands
  BY HoldsAtFirst
<1>2. loads \in 0..MaxLoads /\ withDeleted \in BOOLEAN
  <2>1. MaxLoads \in Nat
    BY UnmarshalAssumption, Zenon
  <2> QED
    BY <2>1 DEF Init
<1>3. CacheFits
  BY DEF Init, CacheFits, NoInfos
<1>4. call = [r \in Callers |-> call[r]] /\ \A r \in Callers : call[r] = Idle
  BY DEF Init
<1> QED
  BY <1>1, <1>2, <1>3, <1>4 DEF IInv

LEMMA IdleIs == Idle.at = "idle" /\ \A c : CallFits(c) => c.at # "idle"
BY DEF Idle, CallFits

(* Steps that change the call of one caller.                               *)
LEMMA OneCall ==
    ASSUME IInv, NEW r \in Callers, NEW c, CallFits(c), call' = [call EXCEPT ![r] = c],
           UNCHANGED <<held, stands, withDeleted, loads>>, CacheFits'
    PROVE  IInv'
<1>1. HoldsWhatStands'
  BY DEF IInv, HoldsWhatStands
<1>2. \A s \in Callers : call'[s] = IF s = r THEN c ELSE call[s]
  BY DEF IInv
<1>3. \A s \in Callers : call'[s] = Idle \/ CallFits(call'[s])
  BY <1>2 DEF IInv
<1>4. call' = [s \in Callers |-> call'[s]]
  BY DEF IInv
<1>5. (loads \in 0..MaxLoads /\ withDeleted \in BOOLEAN)'
  BY DEF IInv
<1> QED
  BY <1>1, <1>3, <1>4, <1>5 DEF IInv, CallFits, InfosFit, FramesFit, Idle

LEMMA InvAfterLoad ==
    ASSUME IInv, NEW p \in Range(Paths), NEW c \in Contents[p], Load(p, c)
    PROVE  IInv'
<1>1. HoldsWhatStands'
  BY HoldsAfterLoad DEF IInv
<1>2. (loads \in 0..MaxLoads /\ withDeleted \in BOOLEAN)'
  <2>1. MaxLoads \in Nat
    BY UnmarshalAssumption, Zenon
  <2> QED
    BY <2>1 DEF IInv, Load
<1>3. CacheFits'
  BY DEF IInv, CacheFits, Load
<1>4. call' = [r \in Callers |-> IF call[r].at = "idle" THEN Idle ELSE [call[r] EXCEPT !.steady = FALSE]]
  BY DEF Load
<1>5. \A r \in Callers : call'[r] = Idle \/ CallFits(call'[r])
  <2> TAKE r \in Callers
  <2>1. CASE call[r].at = "idle"
    BY <1>4, <2>1
  <2>2. CASE call[r].at # "idle"
    <3> DEFINE b == call[r]
               n == [b EXCEPT !.steady = FALSE]
    <3>1. CallFits(b)
      BY <2>2, IdleIs DEF IInv
    <3>2. call'[r] = n
      BY <1>4, <2>2
    <3> HIDE DEF b
    <3>3. /\ DOMAIN n = DOMAIN b /\ n.steady = FALSE /\ n.at = b.at /\ n.ask = b.ask
          /\ n.keys = b.keys /\ n.infos = b.infos /\ n.frames = b.frames
      BY <3>1 DEF CallFits
    <3> HIDE DEF n
    <3>4. CallFits(n)
      BY <3>1, <3>3 DEF CallFits
    <3> QED
      BY <3>2, <3>4
  <2> QED
    BY <2>1, <2>2
<1>6. call' = [r \in Callers |-> call'[r]]
  BY <1>4
<1> QED
  BY <1>1, <1>2, <1>3, <1>5, <1>6 DEF IInv, CallFits, InfosFit, FramesFit, Idle

LEMMA InvAfterBegin ==
    ASSUME IInv, NEW r \in Callers, NEW a \in Asks, Begin(r, a)
    PROVE  IInv'
<1> DEFINE c == [at |-> "decoding", ask |-> a, keys |-> DOMAIN Config, infos |-> NoInfos,
                 frames |-> <<>>, answer |-> None, steady |-> TRUE]
<1>1. call' = [call EXCEPT ![r] = c]
  BY DEF Begin
<1>2. DOMAIN Config \subseteq Keys /\ IsFiniteSet(DOMAIN Config)
  BY ConfigHas DEF IInv
<1>3. InfosFit(NoInfos, a) /\ FramesFit(<<>>, a)
  BY DEF InfosFit, FramesFit, NoInfos
<1>4. CallFits(c)
  BY <1>2, <1>3 DEF CallFits
<1>5. CacheFits' /\ UNCHANGED <<held, stands, withDeleted, loads>>
  BY DEF IInv, CacheFits, Begin
<1> HIDE DEF c
<1> QED
  BY <1>1, <1>4, <1>5, OneCall

-----------------------------------------------------------------------------
(* The decoder that a call has.                                            *)
DecoderOf(r) == [keys |-> call[r].keys, get |-> Config, infos |-> call[r].infos]

LEMMA InCall ==
    ASSUME IInv, NEW r \in Callers, call[r].at = "decoding"
    PROVE  /\ CallFits(call[r]) /\ call[r].ask \in Asks
           /\ \E longest \in Nat : Usable(DecoderOf(r), longest)
<1> DEFINE c == call[r]
           u == DecoderOf(r)
<1>1. CallFits(c)
  BY IdleIs DEF IInv
<1>2. DOMAIN Config \subseteq Keys /\ IsFiniteSet(DOMAIN Config) /\ \A k \in DOMAIN Config : Config[k] \in Scalar
  BY ConfigHas DEF IInv
<1>3. u.keys = c.keys /\ u.get = Config /\ u.infos = c.infos
  BY DEF DecoderOf
<1> HIDE DEF c, u
<1>4. /\ c.ask \in Asks /\ c.keys \subseteq Keys /\ IsFiniteSet(c.keys)
      /\ DOMAIN c.infos \subseteq StructsOf(c.ask.type)
      /\ \A st \in DOMAIN c.infos : Sound(c.infos[st], st)
  BY <1>1 DEF CallFits, InfosFit
<1>5. PICK longest \in Nat : \A k \in c.keys \cup DOMAIN Config : Len(k) <= longest
  <2> DEFINE K == c.keys \cup DOMAIN Config
  <2>1. IsFiniteSet(K) /\ K \subseteq Seq(STRING)
    BY <1>2, <1>4, FS_Union DEF Keys
  <2> HIDE DEF K
  <2>2. \E longest \in Nat : \A k \in K : Len(k) <= longest
    BY <2>1, Longest
  <2> QED
    BY <2>2 DEF K
<1>6. ASSUME NEW st \in DOMAIN c.infos PROVE st \in Structs /\ Sound(c.infos[st], st)
  BY <1>4, StructsOfIs
<1>7. Usable(u, longest)
  BY <1>2, <1>3, <1>4, <1>5, <1>6 DEF Usable
<1> QED
  BY <1>1, <1>4, <1>7 DEF c, u

LEMMA InvAfterMeet ==
    ASSUME IInv, NEW r \in Callers, Meet(r)
    PROVE  IInv'
<1>1. PICK st \in Outcome(r).needs : call' = [call EXCEPT ![r].frames = <<Asked(st)>>]
  BY DEF Meet
<1> DEFINE b == call[r]
           c == [b EXCEPT !.frames = <<Asked(st)>>]
           a == b.ask
<1>2. call' = [call EXCEPT ![r] = c]
  BY <1>1
<1>3. b.at = "decoding" /\ UNCHANGED <<held, stands, withDeleted, loads, cache>>
  BY DEF Meet, Decoding
<1>4. CallFits(b) /\ a \in Asks /\ \E longest \in Nat : Usable(DecoderOf(r), longest)
  BY <1>3, InCall
<1>5. st \in StructsOf(a.type)
  <2>1. PICK longest \in Nat : Usable(DecoderOf(r), longest)
    BY <1>4
  <2>2. a.type \in Types /\ Root \o a.below \in Keys /\ Stripped(a.prefix) = Root \o a.below
    BY <1>4, AskIs
  <2>3. Outcome(r) = Outcomes(DecoderOf(r))[<<a.type, Stripped(a.prefix)>>]
    BY DEF Outcome, Decode, DecoderOf
  <2> DEFINE u == DecoderOf(r)
             type == a.type
             key == Stripped(a.prefix)
             sts == StructsOf(type)
  <2>4. sts \in SUBSET Structs /\ Closed(sts) /\ (type.base \in Structs => type.base \in sts)
    BY StructsOfIs
  <2>5. type \in Types /\ key \in Keys /\ Usable(u, longest)
    BY <2>1, <2>2
  <2> HIDE DEF u, type, key, sts
  <2>6. Outcomes(u)[<<type, key>>].needs \subseteq sts
    BY <2>4, <2>5, NeedsAre
  <2> QED
    BY <2>3, <2>6 DEF u, type, key, sts
<1> HIDE DEF a, b
<1>6. FramesFit(<<Asked(st)>>, a)
  <2> DEFINE s == <<Asked(st)>>
  <2>1. s \in Seq([of : StructsOf(a.type), looked : BOOLEAN])
    BY <1>5 DEF Asked
  <2>2. DOMAIN s = {1}
    OBVIOUS
  <2> HIDE DEF s
  <2>3. FramesFit(s, a)
    BY <2>1, <2>2 DEF FramesFit
  <2> QED
    BY <2>3 DEF s
<1>7. /\ DOMAIN c = DOMAIN b /\ c.frames = <<Asked(st)>> /\ c.at = b.at /\ c.ask = a
      /\ c.keys = b.keys /\ c.infos = b.infos /\ c.steady = b.steady
  BY <1>4 DEF CallFits, a
<1> HIDE DEF c
<1>8. CallFits(c)
  BY <1>4, <1>6, <1>7 DEF CallFits, a
<1>9. CacheFits'
  BY <1>3 DEF IInv, CacheFits
<1> QED
  BY <1>2, <1>3, <1>8, <1>9, OneCall

-----------------------------------------------------------------------------
(***************************************************************************)
(* Steps of describing a struct, and the answer.                           *)
(***************************************************************************)
(* The struct a call is describing.                                        *)
LEMMA TopIs ==
    ASSUME IInv, NEW r \in Callers, NEW looked, Describing(r, looked)
    PROVE  /\ CallFits(call[r]) /\ call[r].ask \in Asks /\ call[r].at = "decoding"
           /\ Top(r) = call[r].frames[1].of
           /\ Top(r) \in StructsOf(call[r].ask.type) /\ Top(r) \in Structs
           /\ FramesFit(Tail(call[r].frames), call[r].ask)
           /\ \A i \in DOMAIN call[r].frames : Depth[Top(r)] <= Depth[call[r].frames[i].of]
<1> DEFINE c == call[r]
           a == c.ask
           s == c.frames
           S == [of : StructsOf(a.type), looked : BOOLEAN]
<1>1. c.at = "decoding" /\ s # <<>> /\ CallFits(c) /\ a \in Asks
  BY InCall DEF Describing
<1>2. FramesFit(s, a)
  BY <1>1 DEF CallFits
<1>3. s \in Seq(S) /\ \A i, j \in DOMAIN s : i < j => Depth[s[i].of] < Depth[s[j].of]
  BY <1>2 DEF FramesFit
<1>4. Top(r) = Head(s).of
  BY DEF Top
<1> HIDE DEF c, s, S
<1>5. /\ Head(s) = s[1] /\ Head(s) \in S /\ Len(s) \in Nat \ {0} /\ DOMAIN s = 1..Len(s)
      /\ Tail(s) \in Seq(S) /\ Len(Tail(s)) = Len(s) - 1
      /\ \A i \in 1..Len(Tail(s)) : Tail(s)[i] = s[i + 1]
  BY <1>1, <1>3, HeadTailProperties, LenProperties, EmptySeq
<1>6. Top(r) \in StructsOf(a.type)
  BY <1>4, <1>5 DEF S
<1>7. Top(r) \in Structs
  BY <1>6, StructsOfIs
<1>8. FramesFit(Tail(s), a)
  <2>1. DOMAIN Tail(s) = 1..Len(s) - 1
    BY <1>5, LenProperties
  <2>2. \A i, j \in DOMAIN Tail(s) : i < j => Depth[Tail(s)[i].of] < Depth[Tail(s)[j].of]
    BY <1>3, <1>5, <2>1
  <2> QED
    BY <1>5, <2>2 DEF FramesFit, S
<1>9. \A i \in DOMAIN s : Depth[Top(r)] <= Depth[s[i].of]
  <2> TAKE i \in DOMAIN s
  <2>1. CASE i = 1
    <3>1. Depth[Top(r)] \in Nat
      BY <1>7, DepthIs
    <3> QED
      BY <1>4, <1>5, <2>1, <3>1
  <2>2. CASE i # 1
    <3>1. Depth[s[1].of] < Depth[s[i].of]
      BY <1>3, <1>5, <2>2
    <3>2. s[i] \in S
      BY <1>3, <1>5, ElementOfSeq
    <3>3. Depth[Top(r)] \in Nat /\ Depth[s[i].of] \in Nat
      BY <1>7, <3>2, StructsOfIs, DepthIs DEF S
    <3> QED
      BY <1>4, <1>5, <3>1, <3>3
  <2> QED
    BY <2>1, <2>2
<1> QED
  BY <1>1, <1>4, <1>5, <1>6, <1>7, <1>8, <1>9 DEF c, s

LEMMA KnownIs ==
    ASSUME IInv, NEW r \in Callers, NEW looked, Describing(r, looked), NEW info,
           Sound(info, Top(r)), Top(r) \in OneTag => info = Described(Top(r), call[r].ask.tag)
    PROVE  \E c : CallFits(c) /\ Known(r, Top(r), info) = [call EXCEPT ![r] = c]
<1> DEFINE b == call[r]
           st == Top(r)
           c == [b EXCEPT !.frames = Tail(@), !.infos = Over(Single(st, info), @)]
<1>1. /\ CallFits(b) /\ b.ask \in Asks /\ st \in StructsOf(b.ask.type) /\ FramesFit(Tail(b.frames), b.ask)
  BY TopIs
<1>2. Known(r, st, info) = [call EXCEPT ![r] = c]
  BY DEF Known
<1>3. Sound(info, st) /\ (st \in OneTag => info = Described(st, b.ask.tag))
  OBVIOUS
<1> HIDE DEF b, st
<1>4. /\ DOMAIN c = DOMAIN b /\ c.frames = Tail(b.frames) /\ c.infos = Over(Single(st, info), b.infos)
      /\ c.at = b.at /\ c.ask = b.ask /\ c.keys = b.keys /\ c.steady = b.steady
  BY <1>1 DEF CallFits
<1> HIDE DEF c
<1>5. InfosFit(c.infos, b.ask)
  <2>1. InfosFit(b.infos, b.ask)
    BY <1>1 DEF CallFits
  <2> QED
    BY <1>1, <1>3, <1>4, <2>1 DEF InfosFit, Over, Single
<1>6. CallFits(c)
  BY <1>1, <1>4, <1>5 DEF CallFits
<1> QED
  BY <1>2, <1>6 DEF st

LEMMA InvAfterLookUp ==
    ASSUME IInv, NEW r \in Callers, LookUp(r)
    PROVE  IInv'
<1>1. Describing(r, FALSE) /\ UNCHANGED <<held, stands, withDeleted, loads, cache>>
  BY DEF LookUp
<1>2. CacheFits'
  BY <1>1 DEF IInv, CacheFits
<1>3. /\ CallFits(call[r]) /\ call[r].ask \in Asks
      /\ Top(r) \in StructsOf(call[r].ask.type) /\ Top(r) \in Structs
  BY <1>1, TopIs
<1>4. CASE Top(r) \in DOMAIN cache /\ call' = Known(r, Top(r), cache[Top(r)])
  <2> DEFINE info == cache[Top(r)]
  <2>1. Sound(info, Top(r)) /\ (Top(r) \in OneTag => info = Described(Top(r), call[r].ask.tag))
    BY <1>3, <1>4 DEF IInv, CacheFits
  <2> HIDE DEF info
  <2>2. PICK c : CallFits(c) /\ Known(r, Top(r), info) = [call EXCEPT ![r] = c]
    BY <1>1, <2>1, KnownIs
  <2> QED
    BY <1>1, <1>2, <1>4, <2>2, OneCall DEF info
<1>5. CASE call' = [call EXCEPT ![r].frames[1].looked = TRUE]
  <2> DEFINE b == call[r]
             s == b.frames
             f == [s EXCEPT ![1].looked = TRUE]
             c == [b EXCEPT !.frames = f]
             S == [of : StructsOf(b.ask.type), looked : BOOLEAN]
  <2>1. call' = [call EXCEPT ![r] = c]
    BY <1>5
  <2>2. CallFits(b) /\ s # <<>> /\ FramesFit(s, b.ask)
    BY <1>1, <1>3 DEF Describing, CallFits
  <2>3. FramesFit(f, b.ask)
    <3>1. s \in Seq(S) /\ \A i, j \in DOMAIN s : i < j => Depth[s[i].of] < Depth[s[j].of]
      BY <2>2 DEF FramesFit
    <3> HIDE DEF s
    <3>2. 1 \in DOMAIN s /\ \A i \in DOMAIN s : s[i] \in S
      <4> HIDE DEF S
      <4>1. s \in Seq(S) /\ s # <<>>
        BY <2>2, <3>1
      <4>2. DOMAIN s = 1..Len(s) /\ Len(s) \in Nat \ {0}
        BY <4>1, LenProperties, EmptySeq
      <4> QED
        BY <4>1, <4>2, ElementOfSeq
    <3>3. DOMAIN f = DOMAIN s /\ \A i \in DOMAIN s : f[i] \in S /\ f[i].of = s[i].of
      BY <3>2
    <3>4. f \in Seq(S)
      <4>1. \A i \in 1..Len(s) : f[i] \in S
        BY <3>1, <3>3, LenProperties
      <4>2. f \in [1..Len(s) -> S]
        BY <3>1, <3>3, <4>1, LenProperties
      <4>3. Len(s) \in Nat
        BY <3>1, LenProperties
      <4> HIDE DEF f, S
      <4> QED
        BY <4>2, <4>3, SeqDef
    <3> HIDE DEF f
    <3>5. \A i, j \in DOMAIN f : i < j => Depth[f[i].of] < Depth[f[j].of]
      BY <3>1, <3>3
    <3> QED
      BY <3>4, <3>5 DEF FramesFit
  <2> HIDE DEF b, f
  <2>4. /\ DOMAIN c = DOMAIN b /\ c.frames = f /\ c.infos = b.infos
        /\ c.at = b.at /\ c.ask = b.ask /\ c.keys = b.keys /\ c.steady = b.steady
    BY <2>2 DEF CallFits
  <2> HIDE DEF c
  <2>5. CallFits(c)
    BY <2>2, <2>3, <2>4 DEF CallFits
  <2> QED
    BY <1>1, <1>2, <2>1, <2>5, OneCall
<1> QED
  BY <1>4, <1>5 DEF LookUp

LEMMA MissingIs ==
    ASSUME IInv, NEW r \in Callers, Describing(r, TRUE), Missing(r) # {}
    PROVE  /\ Min(Missing(r)) \in Missing(r)
           /\ Fields[Top(r)][Min(Missing(r))].type.base \in InlinedStructs(Top(r), call[r].ask.tag)
<1>1. Top(r) \in Structs
  BY TopIs
<1>2. Missing(r) \subseteq DOMAIN Fields[Top(r)] /\ Missing(r) \subseteq Inlined(Top(r), call[r].ask.tag)
  BY DEF Missing, Inlined, InlineOf
<1>3. DOMAIN Fields[Top(r)] \subseteq Nat
  <2>1. Fields[Top(r)] \in Seq(Field)
    BY <1>1, FieldsAssumption
  <2> QED
    BY <2>1, LenProperties
<1> DEFINE M == Missing(r)
<1>4. M \in SUBSET Nat /\ M # {}
  BY <1>2, <1>3
<1> HIDE DEF M
<1>5. Min(M) \in M
  BY <1>4, MinIsLeast
<1> QED
  BY <1>2, <1>5 DEF M, InlinedStructs

LEMMA InvAfterDescend ==
    ASSUME IInv, NEW r \in Callers, Descend(r)
    PROVE  IInv'
<1> DEFINE b == call[r]
           s == b.frames
           t == Fields[Top(r)][Min(Missing(r))].type.base
           f == <<Asked(t)>> \o s
           c == [b EXCEPT !.frames = f]
           a == b.ask
           S == [of : StructsOf(a.type), looked : BOOLEAN]
<1>1. /\ Describing(r, TRUE) /\ Missing(r) # {} /\ UNCHANGED <<held, stands, withDeleted, loads, cache>>
      /\ call' = [call EXCEPT ![r] = c]
  BY DEF Descend
<1>2. CacheFits'
  BY <1>1 DEF IInv, CacheFits
<1>3. /\ CallFits(b) /\ a \in Asks /\ Top(r) \in StructsOf(a.type) /\ Top(r) \in Structs
      /\ \A i \in DOMAIN s : Depth[Top(r)] <= Depth[s[i].of]
  BY <1>1, TopIs
<1>4. t \in InlinedStructs(Top(r), a.tag)
  BY <1>1, MissingIs
<1> HIDE DEF t
<1>5. t \in StructsOf(a.type) /\ Depth[t] < Depth[Top(r)] /\ Depth[t] \in Nat /\ Depth[Top(r)] \in Nat
  <2>1. /\ t \in Structs /\ Depth[t] \in 1..Most /\ Depth[Top(r)] \in 1..Most /\ Depth[t] < Depth[Top(r)]
        /\ \A sts \in SUBSET Structs : Closed(sts) /\ Top(r) \in sts => t \in sts
    <3> DEFINE st == Top(r)
               useTag == a.tag
    <3>1. st \in Structs /\ t \in InlinedStructs(st, useTag)
      BY <1>3, <1>4
    <3> HIDE DEF st, useTag
    <3>2. /\ t \in Structs /\ Depth[t] \in 1..Most /\ Depth[st] \in 1..Most /\ Depth[t] < Depth[st]
          /\ \A sts \in SUBSET Structs : Closed(sts) /\ st \in sts => t \in sts
      BY <3>1, InlinedAreLower
    <3> QED
      BY <3>2 DEF st
  <2>2. StructsOf(a.type) \in SUBSET Structs /\ Closed(StructsOf(a.type))
    BY StructsOfIs
  <2> QED
    BY <1>3, <2>1, <2>2
<1>6. FramesFit(s, a)
  BY <1>3 DEF CallFits
<1>7. FramesFit(f, a)
  <2>1. s \in Seq(S) /\ \A i, j \in DOMAIN s : i < j => Depth[s[i].of] < Depth[s[j].of]
    BY <1>6 DEF FramesFit
  <2> DEFINE h == <<Asked(t)>>
  <2>2. Asked(t) \in S /\ Asked(t).of = t /\ h \in Seq(S) /\ Len(h) = 1 /\ h[1] = Asked(t)
    BY <1>5 DEF Asked
  <2>3. \A i \in DOMAIN s : s[i] \in S /\ Depth[s[i].of] \in Nat
    <3> TAKE i \in DOMAIN s
    <3>1. s[i] \in S
      BY <2>1, ElementOfSeq, LenProperties
    <3> QED
      BY <3>1, StructsOfIs, DepthIs
  <2> HIDE DEF h, S, s
  <2>4. /\ f \in Seq(S) /\ DOMAIN f = 1..Len(s) + 1 /\ f[1] = Asked(t) /\ Len(s) \in Nat /\ DOMAIN s = 1..Len(s)
        /\ \A i \in 1..Len(s) + 1 : i # 1 => f[i] = s[i - 1] /\ i - 1 \in DOMAIN s
    <3>1. /\ h \o s \in Seq(S) /\ Len(h \o s) = Len(h) + Len(s)
          /\ \A i \in 1..Len(h) + Len(s) : (h \o s)[i] = IF i <= Len(h) THEN h[i] ELSE s[i - Len(h)]
      BY <2>1, <2>2, ConcatProperties
    <3>2. Len(s) \in Nat /\ DOMAIN s = 1..Len(s)
      BY <2>1, LenProperties
    <3>3. f = h \o s
      BY DEF h
    <3> HIDE DEF f
    <3>4. DOMAIN f = 1..Len(s) + 1
      BY <2>2, <3>1, <3>2, <3>3, LenProperties
    <3> QED
      BY <2>2, <3>1, <3>2, <3>3, <3>4
  <2> HIDE DEF f
  <2>5. \A i, j \in DOMAIN f : i < j => Depth[f[i].of] < Depth[f[j].of]
    <3> SUFFICES ASSUME NEW i \in DOMAIN f, NEW j \in DOMAIN f, i < j PROVE Depth[f[i].of] < Depth[f[j].of]
      OBVIOUS
    <3>1. j # 1 /\ f[j] = s[j - 1] /\ j - 1 \in DOMAIN s
      BY <2>4
    <3>2. CASE i = 1
      <4>1. f[i].of = t /\ Depth[Top(r)] <= Depth[s[j - 1].of] /\ Depth[s[j - 1].of] \in Nat
        BY <1>3, <2>2, <2>3, <2>4, <3>1, <3>2 DEF s
      <4> QED
        BY <1>5, <3>1, <4>1
    <3>3. CASE i # 1
      <4>1. f[i] = s[i - 1] /\ i - 1 \in DOMAIN s /\ i - 1 < j - 1
        BY <2>4, <3>3
      <4> QED
        BY <2>1, <3>1, <4>1
    <3> QED
      BY <3>2, <3>3
  <2> QED
    BY <2>4, <2>5 DEF FramesFit, S
<1> HIDE DEF b, f, a
<1>8. /\ DOMAIN c = DOMAIN b /\ c.frames = f /\ c.infos = b.infos
      /\ c.at = b.at /\ c.ask = a /\ c.keys = b.keys /\ c.steady = b.steady
  BY <1>3 DEF CallFits, a
<1> HIDE DEF c
<1>9. CallFits(c)
  BY <1>3, <1>7, <1>8 DEF CallFits, a
<1> QED
  BY <1>1, <1>2, <1>9, OneCall

LEMMA InvAfterStore ==
    ASSUME IInv, NEW r \in Callers, Store(r)
    PROVE  IInv'
<1> DEFINE st == Top(r)
           a  == call[r].ask
           info == SoFar(r)
<1>1. /\ Describing(r, TRUE) /\ Missing(r) = {} /\ info.ok
      /\ cache' = Over(Single(st, info), cache) /\ call' = Known(r, st, info)
      /\ UNCHANGED <<held, stands, withDeleted, loads>>
  BY DEF Store
<1>2. /\ CallFits(call[r]) /\ a \in Asks /\ st \in StructsOf(a.type) /\ st \in Structs
  BY <1>1, TopIs
<1>3. Sound(info, st) /\ (st \in OneTag => info = Described(st, a.tag))
  <2> DEFINE known == call[r].infos
             useTag == a.tag
  <2>1. info = DescribeUpTo(Len(Fields[st]), st, useTag, known)
    BY <1>1 DEF SoFar
  <2>2. \A t \in InlinedStructs(st, useTag) : t \in DOMAIN known
    BY <1>1 DEF Missing, InlinedStructs
  <2>3. /\ \A t \in DOMAIN known : Sound(known[t], t)
        /\ \A t \in DOMAIN known \cap OneTag : known[t] = Described(t, useTag)
    BY <1>2 DEF CallFits, InfosFit
  <2>4. st \in Structs /\ useTag \in TagNames
    BY <1>2, AskIs
  <2>5. Len(Fields[st]) \in 0..Len(Fields[st])
    <3>1. Fields[st] \in Seq(Field)
      BY <2>4, FieldsAssumption
    <3> QED
      BY <3>1, LenProperties
  <2> HIDE DEF known, useTag, st, info
  <2>6. Sound(info, st)
    <3> DEFINE n == Len(Fields[st])
    <3>1. n \in 0..Len(Fields[st]) /\ info = DescribeUpTo(n, st, useTag, known)
      BY <2>1, <2>5
    <3> HIDE DEF n
    <3> QED
      BY <2>2, <2>3, <2>4, <3>1, DescribeIsSound
  <2>7. ASSUME st \in OneTag PROVE info = Described(st, useTag)
    <3>1. \A t \in InlinedStructs(st, useTag) : t \in OneTag
      BY <2>4, <2>7, InlinedHaveOneTag
    <3>2. \A t \in InlinedStructs(st, useTag) : known[t] = Described(t, useTag)
      BY <2>2, <2>3, <3>1
    <3> QED
      BY <2>1, <2>4, <3>2, DescribedFrom
  <2> QED
    BY <2>6, <2>7 DEF useTag
<1> HIDE DEF st, info
<1>4. CacheFits'
  <2>1. \A b \in Asks : st \in OneTag /\ st \in StructsOf(b.type) => b.tag = a.tag
    BY <1>2, OneTagIs
  <2> QED
    BY <1>1, <1>2, <1>3, <2>1 DEF IInv, CacheFits, Over, Single
<1>5. PICK c : CallFits(c) /\ Known(r, st, info) = [call EXCEPT ![r] = c]
  BY <1>1, <1>3, KnownIs DEF st
<1> QED
  BY <1>1, <1>4, <1>5, OneCall

(* A call that is done describes nothing any more.                         *)
LEMMA DoneIs ==
    ASSUME NEW b, CallFits(b), NEW answer, NEW c, c = [b EXCEPT !.at = "done", !.frames = <<>>, !.answer = answer]
    PROVE  CallFits(c)
<1>1. /\ DOMAIN c = DOMAIN b /\ c.frames = <<>> /\ c.infos = b.infos
      /\ c.at = "done" /\ c.ask = b.ask /\ c.keys = b.keys /\ c.steady = b.steady
  BY DEF CallFits
<1>2. FramesFit(<<>>, b.ask)
  BY DEF FramesFit
<1> QED
  BY <1>1, <1>2 DEF CallFits

LEMMA InvAfterFail ==
    ASSUME IInv, NEW r \in Callers, Fail(r)
    PROVE  IInv'
<1> DEFINE b == call[r]
           c == [b EXCEPT !.at = "done", !.frames = <<>>, !.answer = Panic]
<1>1. /\ Describing(r, TRUE) /\ UNCHANGED <<held, stands, withDeleted, loads, cache>>
      /\ call' = [call EXCEPT ![r] = c]
  BY DEF Fail
<1>2. CacheFits' /\ CallFits(b)
  BY <1>1, TopIs DEF IInv, CacheFits
<1> HIDE DEF b
<1>3. CallFits(c)
  BY <1>2, DoneIs
<1> HIDE DEF c
<1> QED
  BY <1>1, <1>2, <1>3, OneCall

LEMMA AnswerIs ==
    ASSUME IInv, NEW r \in Callers, Answer(r)
    PROVE  LET out == Outcome(r)
               answer == IF call[r].steady THEN [value |-> out.value, errs |-> out.errs] ELSE Mixture
               c == [call[r] EXCEPT !.at = "done", !.answer = answer]
           IN  /\ out.needs = {} /\ call' = [call EXCEPT ![r] = c] /\ CallFits(c)
               /\ call[r].at = "decoding" /\ UNCHANGED <<held, stands, withDeleted, loads, cache>>
<1> DEFINE out == Outcome(r)
           answer == IF call[r].steady THEN [value |-> out.value, errs |-> out.errs] ELSE Mixture
           b == call[r]
           c == [b EXCEPT !.at = "done", !.answer = answer]
<1>1. /\ Decoding(r) /\ UNCHANGED <<held, stands, withDeleted, loads, cache>>
      /\ out.needs = {} /\ call' = [call EXCEPT ![r] = c]
  <2> HIDE DEF out
  <2> QED
    BY DEF Answer, out
<1>2. b.at = "decoding" /\ CallFits(b) /\ b.frames = <<>>
  BY <1>1, InCall DEF Decoding
<1>3. CallFits(c)
  <2> HIDE DEF b, answer
  <2>1. /\ DOMAIN c = DOMAIN b /\ c.frames = b.frames /\ c.infos = b.infos
        /\ c.at = "done" /\ c.ask = b.ask /\ c.keys = b.keys /\ c.steady = b.steady
    BY <1>2 DEF CallFits
  <2> QED
    BY <1>2, <2>1 DEF CallFits
<1> QED
  BY <1>1, <1>2, <1>3

LEMMA InvAfterAnswer ==
    ASSUME IInv, NEW r \in Callers, Answer(r)
    PROVE  IInv'
<1>1. PICK c : /\ CallFits(c) /\ call' = [call EXCEPT ![r] = c]
               /\ UNCHANGED <<held, stands, withDeleted, loads, cache>>
  BY AnswerIs
<1>2. CacheFits'
  BY <1>1 DEF IInv, CacheFits
<1> QED
  BY <1>1, <1>2, OneCall

-----------------------------------------------------------------------------
(***************************************************************************)
(* What follows from the invariant.                                        *)
(***************************************************************************)
LEMMA InvIsInductive == IInv /\ [Next]_vars => IInv'
<1> SUFFICES ASSUME IInv, [Next]_vars PROVE IInv'
  OBVIOUS
<1>1. ASSUME NEW p \in Range(Paths), NEW c \in Contents[p], Load(p, c) PROVE IInv'
  BY <1>1, InvAfterLoad
<1>2. ASSUME NEW r \in Callers, NEW a \in Asks, Begin(r, a) PROVE IInv'
  BY <1>2, InvAfterBegin
<1>3. ASSUME NEW r \in Callers, Meet(r) PROVE IInv'
  BY <1>3, InvAfterMeet
<1>4. ASSUME NEW r \in Callers, LookUp(r) PROVE IInv'
  BY <1>4, InvAfterLookUp
<1>5. ASSUME NEW r \in Callers, Descend(r) PROVE IInv'
  BY <1>5, InvAfterDescend
<1>6. ASSUME NEW r \in Callers, Store(r) PROVE IInv'
  BY <1>6, InvAfterStore
<1>7. ASSUME NEW r \in Callers, Fail(r) PROVE IInv'
  BY <1>7, InvAfterFail
<1>8. ASSUME NEW r \in Callers, Answer(r) PROVE IInv'
  BY <1>8, InvAfterAnswer
<1>9. CASE UNCHANGED vars
  BY <1>9 DEF vars, IInv, HoldsWhatStands, CacheFits, CallFits, InfosFit, FramesFit
<1> QED
  BY <1>1, <1>2, <1>3, <1>4, <1>5, <1>6, <1>7, <1>8, <1>9 DEF Next

LEMMA InvAlways == Spec => []IInv
BY InvAtFirst, InvIsInductive, PTL DEF Spec

LEMMA InvImpliesTypeOK == IInv => TypeOK
<1> SUFFICES ASSUME IInv PROVE TypeOK
  OBVIOUS
<1>1. ASSUME NEW r \in Callers, call[r].at # "idle"
      PROVE  /\ call[r].ask \in Asks /\ DOMAIN call[r].infos \subseteq Structs
             /\ \A i, j \in DOMAIN call[r].frames : i # j => call[r].frames[i].of # call[r].frames[j].of
  <2> DEFINE c == call[r]
             s == c.frames
             S == [of : StructsOf(c.ask.type), looked : BOOLEAN]
  <2>1. CallFits(c)
    BY <1>1, IdleIs DEF IInv
  <2>2. c.ask \in Asks /\ DOMAIN c.infos \subseteq StructsOf(c.ask.type)
    BY <2>1 DEF CallFits, InfosFit
  <2>3. s \in Seq(S) /\ \A i, j \in DOMAIN s : i < j => Depth[s[i].of] < Depth[s[j].of]
    BY <2>1 DEF CallFits, FramesFit
  <2>4. DOMAIN c.infos \subseteq Structs
    BY <2>2, StructsOfIs
  <2> HIDE DEF s
  <2>5. DOMAIN s = 1..Len(s) /\ Len(s) \in Nat
    <3> HIDE DEF S
    <3> QED
      BY <2>3, LenProperties
  <2>6. \A i \in DOMAIN s : Depth[s[i].of] \in Nat
    <3> TAKE i \in DOMAIN s
    <3>1. s[i] \in S
      <4> HIDE DEF S
      <4> QED
        BY <2>3, <2>5, ElementOfSeq
    <3> QED
      BY <3>1, StructsOfIs, DepthIs
  <2>7. ASSUME NEW i \in DOMAIN s, NEW j \in DOMAIN s, i # j PROVE s[i].of # s[j].of
    <3>1. i < j \/ j < i
      BY <2>5, <2>7
    <3>2. Depth[s[i].of] < Depth[s[j].of] \/ Depth[s[j].of] < Depth[s[i].of]
      BY <2>3, <3>1
    <3> QED
      BY <2>6, <3>2
  <2> QED
    BY <2>2, <2>4, <2>7 DEF s
<1> QED
  BY <1>1 DEF IInv, CacheFits, TypeOK

(* Whatever is loaded, asked for and described at the same time: the cache *)
(* keeps descriptions without errors only, and describing one struct never *)
(* leads back to it (struct.go:31-158).                                    *)
THEOREM TypeCorrect == Spec => []TypeOK
BY InvAlways, InvImpliesTypeOK, PTL

LEMMA InvImpliesDescribes == IInv => DescribesSoleTag
<1> SUFFICES ASSUME IInv, NEW r \in Callers, call[r].at # "idle"
             PROVE  \A st \in DOMAIN call[r].infos \cap OneTag : AsAsked(r, st)
  BY DEF DescribesSoleTag
<1>1. CallFits(call[r])
  BY IdleIs DEF IInv
<1> QED
  BY <1>1 DEF CallFits, InfosFit, AsAsked

(* Whatever is asked for and under which tag names, a call describes every *)
(* struct that is asked for under one tag name only as that name says,     *)
(* although descriptions are made from what other callers left in the      *)
(* cache, which knows of no tag names (struct.go:31-158).                  *)
THEOREM SoleTagDescribed == Spec => []DescribesSoleTag
BY InvAlways, InvImpliesDescribes, PTL

-----------------------------------------------------------------------------
(***************************************************************************)
(* The reference looks into a document in the same way.                    *)
(***************************************************************************)
(* The names that come next in the ways to the leaves of a document.       *)
LEMMA NamesInAre ==
    ASSUME NEW doc, Readable(doc), NEW way \in Keys, NEW name \in NamesIn(doc, way)
    PROVE  /\ name \in Name /\ name \in STRING
           /\ \E leaf \in Leaves(doc) :
                 /\ Len(leaf) > Len(way) /\ SubSeq(leaf, 1, Len(way)) = way /\ leaf[Len(way) + 1] = name
                 /\ leaf \in DOMAIN doc
           /\ ~IsIndex(name)
<1>1. PICK leaf \in ChildKeysOf(way, Leaves(doc)) : name = leaf[Len(way) + 1]
  BY DEF NamesIn
<1>2. /\ leaf \in Leaves(doc) /\ Len(leaf) > Len(way) /\ SubSeq(leaf, 1, Len(way)) = way
      /\ way = <<>> \/ ~IsIndex(leaf[Len(way) + 1])
  BY DEF ChildKeysOf
<1>3. leaf \in DOMAIN doc
  BY <1>2 DEF Leaves
<1>4. leaf \in Seq(Name)
  BY <1>3 DEF Readable
<1>5. Len(leaf) \in Nat /\ Len(way) \in Nat
  BY <1>4, LenProperties, Longer
<1>6. Len(way) + 1 \in 1..Len(leaf)
  BY <1>2, <1>5
<1>7. name \in Name
  BY <1>1, <1>4, <1>6, ElementOfSeq
<1>8. ~IsIndex(name)
  <2>1. CASE way = <<>>
    <3>1. leaf # <<>> /\ Len(way) + 1 = 1
      <4>1. Len(way) = 0
        BY <2>1, EmptySeq
      <4>2. Len(leaf) # 0
        BY <1>2, <4>1, <1>5
      <4> QED
        BY <4>1, <4>2, EmptySeq
    <3> QED
      BY <1>1, <1>3, <3>1 DEF Readable
  <2> QED
    BY <1>1, <1>2, <2>1
<1> QED
  BY <1>1, <1>2, <1>3, <1>7, <1>8, NamesAreStrings

LEMMA LengthIs ==
    ASSUME NEW doc, NEW way, Kind(NodeAt(doc, way)) # "list"
    PROVE  /\ Length(doc, way) \in 0..Len(Index)
           /\ \A i \in 1..Length(doc, way) : Append(way, Index[i]) \in DOMAIN doc
           /\ Length(doc, way) = Len(Index) \/ Append(way, Index[Length(doc, way) + 1]) \notin DOMAIN doc
<1> DEFINE S == {n \in 0..Len(Index) : n = Len(Index) \/ Append(way, Index[n + 1]) \notin DOMAIN doc}
<1>1. Len(Index) \in Nat
  BY IndexIs
<1>2. S \in SUBSET Nat /\ Len(Index) \in S
  BY <1>1
<1>3. Min(S) \in S /\ \A n \in S : Min(S) <= n
  <2> HIDE DEF S
  <2> QED
    BY <1>2, MinIsLeast
<1>4. Length(doc, way) = Min(S)
  BY DEF Length
<1> DEFINE l == Min(S)
<1>5. l \in 0..Len(Index) /\ (l = Len(Index) \/ Append(way, Index[l + 1]) \notin DOMAIN doc)
  BY <1>3
<1>6. ASSUME NEW i \in 1..l PROVE Append(way, Index[i]) \in DOMAIN doc
  <2>1. i - 1 \in 0..Len(Index) /\ i - 1 # Len(Index) /\ i - 1 + 1 = i /\ ~(l <= i - 1)
    BY <1>1, <1>5
  <2>2. i - 1 \notin S
    <3> HIDE DEF S
    <3> QED
      BY <1>3, <2>1
  <2>3. Append(way, Index[i - 1 + 1]) \in DOMAIN doc
    BY <2>1, <2>2
  <2> QED
    BY <2>1, <2>3
<1> QED
  BY <1>4, <1>5, <1>6

(* A document no way into which is longer than the longest.                *)
Bounded(doc, longest) == longest \in Nat /\ \A way \in DOMAIN doc : Len(way) <= longest

LEMMA DocumentsAreBounded ==
    ASSUME NEW doc, Readable(doc)
    PROVE  \E longest \in Nat : Bounded(doc, longest)
<1>1. \E longest \in Nat : \A way \in DOMAIN doc : Len(way) <= longest
  <2> DEFINE ways == DOMAIN doc
  <2>1. IsFiniteSet(ways) /\ ways \subseteq Seq(Name)
    BY DEF Readable
  <2> HIDE DEF ways
  <2>2. \E longest \in Nat : \A way \in ways : Len(way) <= longest
    BY <2>1, Longest
  <2> QED
    BY <2>2 DEF ways
<1> QED
  BY <1>1 DEF Bounded

(* The places a step of the reference looks into.                          *)
Elements(doc, way) == {i \in DOMAIN Index : i <= Length(doc, way)}
Rest(info, doc, way) == {<<name>> : name \in NamesIn(doc, way) \ KeysOf(info)}
InDocument(type, way, doc, useTag) ==
    IF KindOf(type) = "map" THEN {<<Elem(type), way \o <<name>> >> : name \in NamesIn(doc, way)}
    ELSE IF KindOf(type) = "slice" THEN {<<Elem(type), Append(way, Index[i])>> : i \in Elements(doc, way)}
    ELSE IF KindOf(type) = "struct"
         THEN FieldPlaces(Described(type.base, useTag), way) \cup
              IF Described(type.base, useTag).inlineMap = 0 THEN {}
              ELSE {<<InlineElem(type.base, Described(type.base, useTag)), way \o n>> :
                       n \in Rest(Described(type.base, useTag), doc, way)}
    ELSE {}

LEMMA OnePiece ==
    ASSUME NEW S, NEW e \in S
    PROVE  <<e>> \in Seq(S) /\ Len(<<e>>) = 1 /\ <<e>>[1] = e
OBVIOUS

LEMMA NamesInAreWithin ==
    ASSUME NEW longest, NEW doc, Readable(doc), Bounded(doc, longest), NEW way \in Keys, NEW name \in NamesIn(doc, way)
    PROVE  way \o <<name>> \in Keys /\ Len(way \o <<name>>) > Len(way) /\ Len(way) <= longest
<1>1. name \in STRING
  BY NamesInAre
<1>2. PICK leaf \in Leaves(doc) : leaf \in DOMAIN doc /\ Len(leaf) > Len(way)
  BY NamesInAre
<1>3. <<name>> \in Seq(STRING) /\ Len(<<name>>) = 1
  BY <1>1, OnePiece
<1>4. way \o <<name>> \in Keys /\ Len(way \o <<name>>) = Len(way) + 1 /\ Len(way) \in Nat
  BY <1>3, Longer
<1>5. leaf \in Seq(Name) /\ Len(leaf) <= longest
  BY <1>2 DEF Readable, Bounded
<1>6. Len(leaf) \in Nat /\ longest \in Nat
  BY <1>5, LenProperties DEF Bounded
<1> QED
  BY <1>2, <1>4, <1>5, <1>6

LEMMA ElementsAreWithin ==
    ASSUME NEW longest, NEW doc, Readable(doc), Bounded(doc, longest), NEW way \in Keys, NEW i \in Elements(doc, way)
    PROVE  /\ Append(way, Index[i]) \in Keys /\ Len(Append(way, Index[i])) > Len(way)
           /\ Len(way) <= longest /\ i \in 1..Len(Index)
<1>1. i \in 1..Len(Index) /\ i <= Length(doc, way)
  BY IndexIs DEF Elements
<1>2. Index[i] \in STRING
  BY <1>1, IndexIs
<1>3. Append(way, Index[i]) \in Keys /\ Len(Append(way, Index[i])) = Len(way) + 1 /\ Len(way) \in Nat
  BY <1>2, Longer
<1>4. Len(way) <= longest
  <2>1. CASE Kind(NodeAt(doc, way)) = "list"
    <3>1. way \in DOMAIN doc
      BY <2>1 DEF NodeAt, NoNode, Kind
    <3> QED
      BY <3>1 DEF Bounded
  <2>2. CASE Kind(NodeAt(doc, way)) # "list"
    <3>1. /\ Length(doc, way) \in 0..Len(Index)
          /\ \A j \in 1..Length(doc, way) : Append(way, Index[j]) \in DOMAIN doc
      BY <2>2, LengthIs
    <3>2. Append(way, Index[i]) \in DOMAIN doc
      BY <1>1, <3>1
    <3>3. Len(Append(way, Index[i])) <= longest /\ longest \in Nat
      BY <3>2 DEF Bounded
    <3> QED
      BY <1>3, <3>3
  <2> QED
    BY <2>1, <2>2
<1> QED
  BY <1>1, <1>3, <1>4

LEMMA InDocumentIs ==
    ASSUME NEW longest, NEW doc, Readable(doc), Bounded(doc, longest), NEW useTag \in TagNames,
           NEW type \in Types, NEW way \in Keys, NEW at \in InDocument(type, way, doc, useTag)
    PROVE  IsInside(at, type, way, longest)
<1>1. longest \in Nat
  BY DEF Bounded
<1>2. CASE KindOf(type) = "map"
  <2>1. PICK name \in NamesIn(doc, way) : at = <<Elem(type), way \o <<name>> >>
    BY <1>2 DEF InDocument
  <2>2. Elem(type) \in Types /\ Elem(type).base = type.base
    BY <1>2, Kinds
  <2> DEFINE t == Elem(type)
             k == way \o <<name>>
  <2>3. t \in Types /\ t.base = type.base /\ at = <<t, k>>
    BY <2>1, <2>2
  <2>4. k \in Keys /\ Len(k) > Len(way) /\ Len(way) <= longest
    BY NamesInAreWithin
  <2> HIDE DEF t, k
  <2> QED
    BY <1>1, <2>3, <2>4, ElementsAreInside
<1>3. CASE KindOf(type) = "slice"
  <2>1. PICK i \in Elements(doc, way) : at = <<Elem(type), Append(way, Index[i])>>
    BY <1>3 DEF InDocument
  <2>2. Elem(type) \in Types /\ Elem(type).base = type.base
    BY <1>3, Kinds
  <2> DEFINE t == Elem(type)
             k == Append(way, Index[i])
  <2>3. t \in Types /\ t.base = type.base /\ at = <<t, k>>
    BY <2>1, <2>2
  <2>4. k \in Keys /\ Len(k) > Len(way) /\ Len(way) <= longest
    BY ElementsAreWithin
  <2> HIDE DEF t, k
  <2> QED
    BY <1>1, <2>3, <2>4, ElementsAreInside
<1>4. CASE KindOf(type) = "struct"
  <2> DEFINE st   == type.base
             info == Described(st, useTag)
  <2>1. st \in Structs
    BY <1>4, Kinds
  <2>2. Sound(info, st)
    BY <2>1, DescribedIsSound
  <2>3. \/ at \in FieldPlaces(info, way)
        \/ info.inlineMap # 0 /\ at \in {<<InlineElem(st, info), way \o n>> : n \in Rest(info, doc, way)}
    BY <1>4 DEF InDocument
  <2> HIDE DEF info
  <2>4. CASE at \in FieldPlaces(info, way)
    <3>1. PICK p \in PathsOf(info) : at = <<FieldAt(info, p).type, Append(way, FieldAt(info, p).key)>>
      BY <2>4 DEF FieldPlaces
    <3> QED
      BY <1>1, <1>4, <2>2, <3>1, FieldsAreInside
  <2>5. CASE info.inlineMap # 0 /\ at \in {<<InlineElem(st, info), way \o n>> : n \in Rest(info, doc, way)}
    <3>1. PICK name \in NamesIn(doc, way) : at = <<InlineElem(st, info), way \o <<name>> >>
      BY <2>5 DEF Rest
    <3> DEFINE t == InlineElem(st, info)
               k == way \o <<name>>
    <3>2. /\ t \in Types
          /\ \A sts \in SUBSET Structs : Closed(sts) /\ st \in sts /\ t.base \in Structs => t.base \in sts
      BY <2>1, <2>2, <2>5, InlineElemIs
    <3>3. k \in Keys /\ Len(k) > Len(way) /\ Len(way) <= longest
      BY NamesInAreWithin
    <3>4. at = <<t, k>>
      BY <3>1
    <3> HIDE DEF t, k
    <3> QED
      BY <1>1, <2>1, <3>2, <3>3, <3>4, ElementsAreInside
  <2> QED
    BY <2>3, <2>4, <2>5
<1> QED
  BY <1>2, <1>3, <1>4 DEF InDocument

-----------------------------------------------------------------------------
(***************************************************************************)
(* What the reference says depends on what is inside only.                 *)
(***************************************************************************)
LEMMA MeantAtDependsOn ==
    ASSUME NEW doc, NEW useTag, NEW type, NEW way, NEW d, NEW e,
           \A at \in InDocument(type, way, doc, useTag) : d[at] = e[at]
    PROVE  MeantAt(d, type, way, doc, useTag) = MeantAt(e, type, way, doc, useTag)
<1>1. CASE KindOf(type) = "map"
  <2>1. \A name \in NamesIn(doc, way) : d[<<Elem(type), way \o <<name>> >>] = e[<<Elem(type), way \o <<name>> >>]
    BY <1>1 DEF InDocument
  <2>2. [n \in {<<name>> : name \in NamesIn(doc, way)} |-> d[<<Elem(type), way \o n>>]] =
        [n \in {<<name>> : name \in NamesIn(doc, way)} |-> e[<<Elem(type), way \o n>>]]
    BY <2>1
  <2>3. MeantMap(d, type, way, doc) = MeantMap(e, type, way, doc)
    BY <2>2, Zenon DEF MeantMap
  <2> QED
    BY <1>1, <2>3 DEF MeantAt
<1>2. CASE KindOf(type) = "slice"
  <2>1. \A i \in Elements(doc, way) :
           d[<<Elem(type), Append(way, Index[i])>>] = e[<<Elem(type), Append(way, Index[i])>>]
    BY <1>2 DEF InDocument
  <2>2. [i \in {j \in DOMAIN Index : j <= Length(doc, way)} |-> d[<<Elem(type), Append(way, Index[i])>>]] =
        [i \in {j \in DOMAIN Index : j <= Length(doc, way)} |-> e[<<Elem(type), Append(way, Index[i])>>]]
    BY <2>1 DEF Elements
  <2>3. MeantSlice(d, type, way, doc) = MeantSlice(e, type, way, doc)
    BY <2>2, Zenon DEF MeantSlice
  <2> QED
    BY <1>2, <2>3 DEF MeantAt
<1>3. CASE KindOf(type) = "struct"
  <2> DEFINE st   == type.base
             info == Described(st, useTag)
             rest == {<<name>> : name \in NamesIn(doc, way) \ KeysOf(info)}
  <2>1. /\ \A at \in FieldPlaces(info, way) : d[at] = e[at]
        /\ info.inlineMap # 0 =>
              \A n \in rest : d[<<InlineElem(st, info), way \o n>>] = e[<<InlineElem(st, info), way \o n>>]
    BY <1>3 DEF InDocument, Rest
  <2> HIDE DEF info
  <2>2. [p \in PathsOf(info) |-> d[<<FieldAt(info, p).type, Append(way, FieldAt(info, p).key)>>]] =
        [p \in PathsOf(info) |-> e[<<FieldAt(info, p).type, Append(way, FieldAt(info, p).key)>>]]
    BY <2>1 DEF FieldPlaces
  <2>3. info.inlineMap # 0 =>
           [n \in rest |-> d[<<InlineElem(st, info), way \o n>>]] =
           [n \in rest |-> e[<<InlineElem(st, info), way \o n>>]]
    <3> HIDE DEF rest
    <3> QED
      BY <2>1
  <2>4. MeantStruct(d, st, info, way, doc) = MeantStruct(e, st, info, way, doc)
    <3>1. CASE info.inlineMap = 0
      BY <2>2, <3>1, Zenon DEF MeantStruct
    <3>2. CASE info.inlineMap # 0
      <4>1. \A n \in rest : d[<<InlineElem(st, info), way \o n>>] = e[<<InlineElem(st, info), way \o n>>]
        BY <2>1, <3>2
      <4> QED
        BY <2>2, <2>3, <3>2, Zenon DEF MeantStruct
    <3> QED
      BY <3>1, <3>2
  <2> QED
    BY <1>3, <2>4 DEF MeantAt, info
<1>4. CASE KindOf(type) # "map" /\ KindOf(type) # "slice" /\ KindOf(type) # "struct"
  BY <1>4 DEF MeantAt
<1> QED
  BY <1>1, <1>2, <1>3, <1>4

(* What a document stands for is well defined in the same way.             *)
LEMMA MeaningsExist ==
    ASSUME NEW longest, NEW doc, Readable(doc), Bounded(doc, longest), NEW useTag \in TagNames, NEW n \in Nat
    PROVE  \E h : h = [at \in Within(n, longest) |-> MeantAt(h, at[1], at[2], doc, useTag)]
<1> DEFINE Exists(m) == \E h : h = [at \in Within(m, longest) |-> MeantAt(h, at[1], at[2], doc, useTag)]
           Well == {m \in Nat : Exists(m)}
<1>0. longest \in Nat
  BY DEF Bounded
<1> SUFFICES ASSUME n \notin Well PROVE FALSE
  OBVIOUS
<1>1. PICK m \in Nat : m \notin Well /\ \A i \in 0..m - 1 : i \in Well
  <2> HIDE DEF Well
  <2> QED
    BY Least
<1>2. \E h : m # 0 => h = [at \in Within(m - 1, longest) |-> MeantAt(h, at[1], at[2], doc, useTag)]
  <2>1. CASE m = 0
    BY <2>1
  <2>2. CASE m # 0
    <3>1. m - 1 \in 0..m - 1
      BY <1>1, <2>2
    <3>2. m - 1 \in Well
      BY <1>1, <3>1
    <3>3. Exists(m - 1)
      BY <3>2
    <3> QED
      BY <3>3
  <2> QED
    BY <2>1, <2>2
<1>3. PICK h : m # 0 => h = [at \in Within(m - 1, longest) |-> MeantAt(h, at[1], at[2], doc, useTag)]
  BY <1>2
<1> DEFINE g == [at \in Within(m, longest) |-> MeantAt(h, at[1], at[2], doc, useTag)]
<1>4. ASSUME NEW at \in Within(m, longest), NEW of \in InDocument(at[1], at[2], doc, useTag) PROVE g[of] = h[of]
  <2>1. at[1] \in Types /\ at[2] \in Keys
    BY DEF Within
  <2>2. IsInside(of, at[1], at[2], longest)
    BY <2>1, InDocumentIs
  <2>3. m # 0 /\ of \in Within(m - 1, longest) /\ of \in Within(m, longest)
    BY <1>0, <1>1, <2>2, InsideIsWithin
  <2>4. h[of] = MeantAt(h, of[1], of[2], doc, useTag)
    BY <1>3, <2>3
  <2> QED
    BY <2>3, <2>4
<1>5. \A at \in Within(m, longest) : g[at] = MeantAt(g, at[1], at[2], doc, useTag)
  <2> TAKE at \in Within(m, longest)
  <2>1. g[at] = MeantAt(h, at[1], at[2], doc, useTag)
    OBVIOUS
  <2>2. \A of \in InDocument(at[1], at[2], doc, useTag) : g[of] = h[of]
    BY <1>4
  <2>3. MeantAt(g, at[1], at[2], doc, useTag) = MeantAt(h, at[1], at[2], doc, useTag)
    <3> DEFINE t == at[1]
               k == at[2]
    <3> HIDE DEF g, t, k
    <3>1. \A of \in InDocument(t, k, doc, useTag) : g[of] = h[of]
      BY <2>2 DEF t, k
    <3>2. MeantAt(g, t, k, doc, useTag) = MeantAt(h, t, k, doc, useTag)
      BY <3>1, MeantAtDependsOn
    <3> QED
      BY <3>2 DEF t, k
  <2> QED
    BY <2>1, <2>3
<1>6. g = [at \in Within(m, longest) |-> MeantAt(g, at[1], at[2], doc, useTag)]
  BY <1>5
<1> HIDE DEF g
<1>7. Exists(m)
  BY <1>6
<1> QED
  BY <1>1, <1>7

LEMMA MeaningsAre ==
    ASSUME NEW doc, Readable(doc), NEW useTag \in TagNames, NEW type \in Types, NEW way \in Keys
    PROVE  Meanings(doc, useTag)[<<type, way>>] = MeantAt(Meanings(doc, useTag), type, way, doc, useTag)
<1>0. PICK longest \in Nat : Bounded(doc, longest)
  BY DocumentsAreBounded
<1>1. \E h : h = [at \in Types \X Keys |-> MeantAt(h, at[1], at[2], doc, useTag)]
  <2>1. Within(Most + 1 + longest, longest) = Types \X Keys /\ Most + 1 + longest \in Nat
    BY <1>0, WithinIs
  <2> DEFINE n == Most + 1 + longest
  <2>2. n \in Nat
    BY <2>1
  <2> HIDE DEF n
  <2>3. \E h : h = [at \in Within(n, longest) |-> MeantAt(h, at[1], at[2], doc, useTag)]
    BY <1>0, <2>2, MeaningsExist
  <2> QED
    BY <2>1, <2>3 DEF n
<1>2. Meanings(doc, useTag) = CHOOSE h : h = [at \in Types \X Keys |-> MeantAt(h, at[1], at[2], doc, useTag)]
  BY DEF Meanings
<1>3. Meanings(doc, useTag) = [at \in Types \X Keys |-> MeantAt(Meanings(doc, useTag), at[1], at[2], doc, useTag)]
  BY <1>1, <1>2
<1>4. <<type, way>> \in Types \X Keys
  OBVIOUS
<1> HIDE DEF Meanings
<1> QED
  BY <1>3, <1>4

-----------------------------------------------------------------------------
(***************************************************************************)
(* A decoder that reads what a document has become.                        *)
(***************************************************************************)
(* A decoder that reads a document under a root.                           *)
Reads(u, root, doc, useTag) ==
    /\ root \in Seq(STRING) /\ Readable(doc) /\ useTag \in TagNames
    /\ u.keys = DOMAIN u.get /\ DOMAIN u.get = {root \o w : w \in Leaves(doc)}
    /\ \A w \in Leaves(doc) : u.get[root \o w] = Written(doc[w])
    /\ \A st \in DOMAIN u.infos : u.infos[st] = Described(st, useTag)
    /\ \E longest \in Nat : Usable(u, longest)

LEMMA Under ==
    ASSUME NEW root \in Seq(STRING), NEW way \in Seq(STRING)
    PROVE  /\ root \o way \in Seq(STRING) /\ root \o way \in Keys
           /\ Len(root \o way) = Len(root) + Len(way) /\ Len(root) \in Nat /\ Len(way) \in Nat
           /\ \A i \in 1..Len(way) : (root \o way)[Len(root) + i] = way[i]
           /\ \A e \in STRING : Append(root \o way, e) = root \o Append(way, e)
           /\ \A n \in Seq(STRING) : (root \o way) \o n = root \o (way \o n)
<1>1. /\ root \o way \in Seq(STRING) /\ Len(root \o way) = Len(root) + Len(way)
      /\ \A i \in 1..Len(root) + Len(way) :
            (root \o way)[i] = IF i <= Len(root) THEN root[i] ELSE way[i - Len(root)]
      /\ Len(root) \in Nat /\ Len(way) \in Nat
  BY ConcatProperties, LenProperties
<1>2. \A i \in 1..Len(way) : (root \o way)[Len(root) + i] = way[i]
  <2> TAKE i \in 1..Len(way)
  <2>1. Len(root) + i \in 1..Len(root) + Len(way) /\ ~(Len(root) + i <= Len(root)) /\ Len(root) + i - Len(root) = i
    BY <1>1
  <2> QED
    BY <1>1, <2>1
<1>3. \A n \in Seq(STRING) : (root \o way) \o n = root \o (way \o n)
  BY ConcatAssociative
<1>4. \A e \in STRING : Append(root \o way, e) = root \o Append(way, e)
  <2> TAKE e \in STRING
  <2>1. <<e>> \in Seq(STRING)
    BY OnePiece
  <2>2. Append(root \o way, e) = (root \o way) \o <<e>> /\ Append(way, e) = way \o <<e>>
    BY <1>1, AppendIsConcat
  <2> QED
    BY <1>3, <2>1, <2>2
<1> QED
  BY <1>1, <1>2, <1>3, <1>4 DEF Keys

LEMMA StartUnder ==
    ASSUME NEW root \in Seq(STRING), NEW way \in Seq(STRING), NEW leaf \in Seq(STRING), Len(way) <= Len(leaf)
    PROVE  SubSeq(root \o leaf, 1, Len(root \o way)) = root \o SubSeq(leaf, 1, Len(way))
<1> DEFINE v == SubSeq(leaf, 1, Len(way))
           k == root \o leaf
           s == SubSeq(k, 1, Len(root \o way))
           n == Len(root) + Len(way)
<1>1. Len(root) \in Nat /\ Len(way) \in Nat /\ Len(leaf) \in Nat /\ Len(root \o way) = n
  BY Under
<1>2. v \in Seq(STRING) /\ Len(v) = Len(way) /\ \A i \in 1..Len(way) : v[i] = leaf[i]
  BY <1>1, StartOf
<1>3. k \in Seq(STRING) /\ Len(k) = Len(root) + Len(leaf)
  BY Under
<1>4. s \in Seq(STRING) /\ Len(s) = n /\ \A i \in 1..n : s[i] = k[i]
  <2>1. n \in 0..Len(k)
    BY <1>1, <1>3
  <2> HIDE DEF k
  <2> QED
    BY <1>1, <1>3, <2>1, StartOf
<1>5. /\ root \o v \in Seq(STRING) /\ Len(root \o v) = n
      /\ \A i \in 1..n : (root \o v)[i] = IF i <= Len(root) THEN root[i] ELSE v[i - Len(root)]
  <2> HIDE DEF v
  <2>1. /\ root \o v \in Seq(STRING) /\ Len(root \o v) = Len(root) + Len(v)
        /\ \A i \in 1..Len(root) + Len(v) : (root \o v)[i] = IF i <= Len(root) THEN root[i] ELSE v[i - Len(root)]
    BY <1>2, ConcatProperties
  <2> QED
    BY <1>2, <2>1
<1>6. \A i \in 1..Len(root) + Len(leaf) : k[i] = IF i <= Len(root) THEN root[i] ELSE leaf[i - Len(root)]
  BY ConcatProperties
<1> HIDE DEF v, k, s
<1>7. ASSUME NEW i \in 1..n PROVE s[i] = (root \o v)[i]
  <2>1. i \in 1..Len(root) + Len(leaf)
    BY <1>1
  <2>2. CASE i <= Len(root)
    BY <1>4, <1>5, <1>6, <2>1, <2>2
  <2>3. CASE ~(i <= Len(root))
    <3>1. i - Len(root) \in 1..Len(way)
      BY <1>1, <2>3
    <3> QED
      BY <1>2, <1>4, <1>5, <1>6, <2>1, <2>3, <3>1
  <2> QED
    BY <2>2, <2>3
<1>8. s = root \o v
  <2> DEFINE w == root \o v
  <2>1. w \in Seq(STRING) /\ Len(w) = Len(s) /\ \A i \in 1..Len(s) : s[i] = w[i]
    BY <1>4, <1>5, <1>7
  <2> HIDE DEF w
  <2>2. s = w
    BY <1>4, <2>1, SeqEqual
  <2> QED
    BY <2>2 DEF w
<1> QED
  BY <1>8 DEF s, v, k

(* The ways to leaves and the keys they became.                            *)
LEMMA LeavesAre ==
    ASSUME NEW doc, Readable(doc)
    PROVE  /\ Leaves(doc) \subseteq DOMAIN doc /\ Leaves(doc) \subseteq Seq(STRING)
           /\ \A leaf \in Leaves(doc) : \A n \in 0..Len(leaf) : SubSeq(leaf, 1, n) \in DOMAIN doc
<1>1. Leaves(doc) \subseteq DOMAIN doc
  BY DEF Leaves
<1>2. DOMAIN doc \subseteq Seq(STRING)
  BY ReadableWays
<1> QED
  BY <1>1, <1>2 DEF Readable

LEMMA KeyOfLeaf ==
    ASSUME NEW u, NEW root, NEW doc, NEW useTag, Reads(u, root, doc, useTag), NEW way \in Keys
    PROVE  root \o way \in DOMAIN u.get <=> way \in Leaves(doc)
<1>1. root \in Seq(STRING) /\ way \in Seq(STRING) /\ Leaves(doc) \subseteq Seq(STRING)
  BY LeavesAre DEF Reads, Keys
<1>2. \A w \in Leaves(doc) : root \o w = root \o way => w = way
  BY <1>1, SameBelow
<1> QED
  BY <1>2 DEF Reads

LEMMA ChildKeysMatch ==
    ASSUME NEW u, NEW root, NEW doc, NEW useTag, Reads(u, root, doc, useTag), NEW way \in Keys,
           NEW leaf \in Leaves(doc)
    PROVE  root \o leaf \in ChildKeysOf(root \o way, u.keys) <=> leaf \in ChildKeysOf(way, Leaves(doc))
<1> DEFINE k == root \o leaf
           key == root \o way
<1>1. root \in Seq(STRING) /\ way \in Seq(STRING) /\ leaf \in Seq(STRING) /\ leaf \in DOMAIN doc
  BY LeavesAre DEF Reads, Keys
<1>2. /\ Len(key) = Len(root) + Len(way) /\ Len(k) = Len(root) + Len(leaf)
      /\ Len(root) \in Nat /\ Len(way) \in Nat /\ Len(leaf) \in Nat
      /\ \A i \in 1..Len(leaf) : k[Len(root) + i] = leaf[i]
  BY <1>1, Under
<1>3. Len(k) > Len(key) <=> Len(leaf) > Len(way)
  BY <1>2
<1>4. ASSUME Len(leaf) > Len(way)
      PROVE  SubSeq(k, 1, Len(key)) = key <=> SubSeq(leaf, 1, Len(way)) = way
  <2>1. SubSeq(k, 1, Len(key)) = root \o SubSeq(leaf, 1, Len(way))
    BY <1>1, <1>2, <1>4, StartUnder
  <2>2. SubSeq(leaf, 1, Len(way)) \in Seq(STRING)
    BY <1>1, <1>2, <1>4, StartOf
  <2>3. root \o SubSeq(leaf, 1, Len(way)) = root \o way => SubSeq(leaf, 1, Len(way)) = way
    <3> DEFINE v == SubSeq(leaf, 1, Len(way))
    <3> HIDE DEF v
    <3>1. root \o v = root \o way => v = way
      BY <1>1, <2>2, SameBelow DEF v
    <3> QED
      BY <3>1 DEF v
  <2> QED
    BY <2>1, <2>3
<1>5. ASSUME Len(leaf) > Len(way)
      PROVE  (key = <<>> \/ ~IsIndex(k[Len(key) + 1])) <=> (way = <<>> \/ ~IsIndex(leaf[Len(way) + 1]))
  <2>1. k[Len(key) + 1] = leaf[Len(way) + 1]
    <3>1. Len(way) + 1 \in 1..Len(leaf) /\ Len(key) + 1 = Len(root) + (Len(way) + 1)
      BY <1>2, <1>5
    <3> QED
      BY <1>2, <3>1
  <2>2. key = <<>> => way = <<>>
    <3>1. key = <<>> => Len(key) = 0
      OBVIOUS
    <3>2. Len(key) = 0 => Len(way) = 0
      BY <1>2
    <3> QED
      BY <1>1, <3>1, <3>2, EmptySeq
  <2>3. way = <<>> => ~IsIndex(leaf[Len(way) + 1])
    <3> SUFFICES ASSUME way = <<>> PROVE ~IsIndex(leaf[Len(way) + 1])
      OBVIOUS
    <3>1. Len(way) + 1 = 1 /\ leaf # <<>>
      <4>1. Len(way) = 0 /\ Len(leaf) # 0
        BY <1>2, <1>5, EmptySeq
      <4> QED
        BY <1>2, <4>1, EmptySeq
    <3> QED
      BY <1>1, <3>1 DEF Reads, Readable
  <2> QED
    BY <2>1, <2>2, <2>3
<1>6. k \in u.keys
  BY DEF Reads
<1> HIDE DEF k, key
<1> QED
  BY <1>3, <1>4, <1>5, <1>6 DEF ChildKeysOf, k, key

LEMMA ChildKeysAre ==
    ASSUME NEW u, NEW root, NEW doc, NEW useTag, Reads(u, root, doc, useTag), NEW way \in Keys
    PROVE  ChildKeysOf(root \o way, u.keys) = {root \o leaf : leaf \in ChildKeysOf(way, Leaves(doc))}
<1>1. \A k \in ChildKeysOf(root \o way, u.keys) : k \in u.keys
  BY DEF ChildKeysOf
<1>2. \A k \in u.keys : \E leaf \in Leaves(doc) : k = root \o leaf
  BY DEF Reads
<1>3. \A leaf \in ChildKeysOf(way, Leaves(doc)) : leaf \in Leaves(doc)
  BY DEF ChildKeysOf
<1>4. \A leaf \in Leaves(doc) :
         root \o leaf \in ChildKeysOf(root \o way, u.keys) <=> leaf \in ChildKeysOf(way, Leaves(doc))
  BY ChildKeysMatch
<1> QED
  BY <1>1, <1>2, <1>3, <1>4

LEMMA ElementsShow ==
    ASSUME NEW u, NEW root, NEW doc, NEW useTag, Reads(u, root, doc, useTag), NEW way \in Keys, NEW i \in 1..Len(Index)
    PROVE  HasElement(root \o way, i, u.keys) <=> Shows(doc, Append(way, Index[i]))
<1> DEFINE at == Append(way, Index[i])
<1>1. root \in Seq(STRING) /\ way \in Seq(STRING) /\ Index[i] \in STRING
  BY IndexIs DEF Reads, Keys
<1>2. at \in Keys /\ Append(root \o way, Index[i]) = root \o at
  BY <1>1, Longer, Under
<1> HIDE DEF at
<1>3. root \o at \in u.keys <=> at \in Leaves(doc)
  BY <1>2, KeyOfLeaf DEF Reads
<1>4. ChildKeysOf(root \o at, u.keys) = {root \o leaf : leaf \in ChildKeysOf(at, Leaves(doc))}
  <2>1. at \in Keys
    BY <1>2
  <2> QED
    BY ONLY <2>1, ChildKeysAre, Reads(u, root, doc, useTag)
<1>5. NamesIn(doc, at) # {} <=> ChildKeysOf(at, Leaves(doc)) # {}
  BY DEF NamesIn
<1> QED
  BY <1>2, <1>3, <1>4, <1>5 DEF HasElement, Shows, at

-----------------------------------------------------------------------------
(***************************************************************************)
(* It finds the names and the elements that are in the document.           *)
(***************************************************************************)
LEMMA AppendHas ==
    ASSUME NEW S, NEW s \in Seq(S), NEW e \in S
    PROVE  /\ Append(s, e) \in Seq(S) /\ Len(Append(s, e)) = Len(s) + 1
           /\ Append(s, e)[Len(s) + 1] = e /\ \A i \in 1..Len(s) : Append(s, e)[i] = s[i]
BY AppendProperties

(* Where no list comes next, the names below a key are single pieces.      *)
LEMMA ChildNameUnder ==
    ASSUME NEW u, NEW root, NEW doc, NEW useTag, Reads(u, root, doc, useTag), NEW way \in Keys,
           NEW leaf \in ChildKeysOf(way, Leaves(doc)), NoList(doc, Append(way, leaf[Len(way) + 1]))
    PROVE  ChildName(root \o leaf, root \o way) = <<leaf[Len(way) + 1]>>
<1> DEFINE k == root \o leaf
           key == root \o way
           name == leaf[Len(way) + 1]
           dots == {i \in Len(key) + 2..Len(k) : ~IsIndex(k[i])}
<1>0. leaf \in Leaves(doc) /\ Len(leaf) > Len(way) /\ SubSeq(leaf, 1, Len(way)) = way
  BY DEF ChildKeysOf
<1>1. root \in Seq(STRING) /\ way \in Seq(STRING) /\ leaf \in Seq(STRING) /\ Readable(doc)
  BY <1>0, LeavesAre DEF Reads, Keys
<1>2. /\ Len(key) = Len(root) + Len(way) /\ Len(k) = Len(root) + Len(leaf)
      /\ Len(root) \in Nat /\ Len(way) \in Nat /\ Len(leaf) \in Nat
      /\ \A i \in 1..Len(leaf) : k[Len(root) + i] = leaf[i]
      /\ k \in Seq(STRING)
  BY <1>1, Under
<1>3. name \in STRING
  <2>1. Len(way) + 1 \in 1..Len(leaf)
    BY <1>0, <1>2
  <2> QED
    BY <1>1, <2>1, ElementOfSeq
<1>4. ASSUME Len(leaf) > Len(way) + 1
      PROVE  ~IsIndex(k[Len(key) + 2])
  <2> DEFINE n == Len(way) + 2
             v == SubSeq(leaf, 1, n)
             at == Append(way, name)
  <2>1. n \in 0..Len(leaf) /\ n \in 1..Len(leaf) /\ Len(way) + 1 \in 1..Len(leaf)
    BY <1>2, <1>4
  <2>2. v \in DOMAIN doc
    BY <1>0, <1>1, <2>1, LeavesAre
  <2>3. v \in Seq(STRING) /\ Len(v) = n /\ \A i \in 1..n : v[i] = leaf[i]
    <3> HIDE DEF n
    <3> QED
      BY <1>1, <2>1, StartOf
  <2>4. /\ at \in Seq(STRING) /\ Len(at) = Len(way) + 1 /\ at[Len(way) + 1] = name
        /\ \A i \in 1..Len(way) : at[i] = way[i]
    <3> HIDE DEF name
    <3>1. name \in STRING /\ way \in Seq(STRING)
      BY <1>1, <1>3 DEF name
    <3>2. \A S : \A s \in Seq(S), e \in S :
            /\ Append(s, e) \in Seq(S) /\ Len(Append(s, e)) = Len(s) + 1
            /\ Append(s, e)[Len(s) + 1] = e /\ \A i \in 1..Len(s) : Append(s, e)[i] = s[i]
      BY AppendHas
    <3>3. \A s \in Seq(STRING), e \in STRING :
            /\ Append(s, e) \in Seq(STRING) /\ Len(Append(s, e)) = Len(s) + 1
            /\ Append(s, e)[Len(s) + 1] = e /\ \A i \in 1..Len(s) : Append(s, e)[i] = s[i]
      BY <3>2
    <3> QED
      BY <3>1, <3>3
  <2>5. \A i \in 1..Len(way) : leaf[i] = way[i]
    <3>1. Len(way) \in 0..Len(leaf)
      BY <1>0, <1>2
    <3>2. \A i \in 1..Len(way) : SubSeq(leaf, 1, Len(way))[i] = leaf[i]
      BY <1>1, <3>1, StartOf
    <3> QED
      BY <1>0, <3>2
  <2>6. leaf[n] \in STRING
    <3> HIDE DEF n
    <3> QED
      BY <1>1, <2>1, ElementOfSeq
  <2> DEFINE e == leaf[n]
             s == Append(at, e)
  <2>7. /\ s \in Seq(STRING) /\ Len(s) = Len(at) + 1 /\ s[Len(at) + 1] = e
        /\ \A i \in 1..Len(at) : s[i] = at[i]
    <3> HIDE DEF at, e
    <3> QED
      BY <2>4, <2>6, AppendProperties DEF e
  <2>8. v = s
    <3>1. Len(s) = n
      BY <2>4, <2>7, <1>2
    <3>2. ASSUME NEW i \in 1..n PROVE v[i] = s[i]
      <4>1. CASE i = n
        <5>1. Len(at) + 1 = n
          BY <2>4, <1>2
        <5> QED
          BY <2>3, <2>7, <4>1, <5>1
      <4>2. CASE i = Len(way) + 1
        <5>1. i \in 1..Len(at) /\ i \in 1..n
          BY <2>4, <4>2, <1>2
        <5> QED
          BY <2>3, <2>4, <2>7, <4>2, <5>1
      <4>3. CASE i <= Len(way)
        <5>1. i \in 1..Len(at) /\ i \in 1..Len(way)
          BY <2>4, <4>3, <1>2
        <5> QED
          BY <2>3, <2>4, <2>5, <2>7, <5>1
      <4> QED
        BY <1>2, <4>1, <4>2, <4>3
    <3> HIDE DEF v, s, n
    <3>3. \A i \in 1..Len(v) : v[i] = s[i]
      BY <2>3, <3>2
    <3> QED
      BY <2>3, <2>7, <3>1, <3>3, SeqEqual
  <2>9. \A i \in DOMAIN Index : Append(at, Index[i]) \notin DOMAIN doc
    BY DEF NoList
  <2>10. ~IsIndex(e)
    <3> HIDE DEF at, e, v
    <3>1. \A i \in DOMAIN Index : Index[i] # e
      BY <2>2, <2>8, <2>9
    <3> QED
      BY <3>1 DEF IsIndex
  <2>11. k[Len(key) + 2] = e
    <3>1. Len(key) + 2 = Len(root) + n
      BY <1>2
    <3> QED
      BY <1>2, <2>1, <3>1
  <2> QED
    BY <2>10, <2>11
<1>5. (IF dots = {} THEN Len(k) ELSE Min(dots) - 1) = Len(key) + 1
  <2>1. CASE Len(leaf) = Len(way) + 1
    <3>1. Len(k) = Len(key) + 1
      BY <1>2, <2>1
    <3>2. dots = {}
      BY <1>2, <3>1
    <3> QED
      BY <3>1, <3>2
  <2>2. CASE Len(leaf) > Len(way) + 1
    <3>1. Len(key) + 2 \in dots
      <4>1. Len(key) + 2 \in Len(key) + 2..Len(k)
        BY <1>2, <2>2
      <4> QED
        BY <1>4, <2>2, <4>1
    <3>2. dots \in SUBSET Nat /\ \A i \in dots : Len(key) + 2 <= i
      BY <1>2
    <3> HIDE DEF dots
    <3>3. Min(dots) \in dots /\ \A i \in dots : Min(dots) <= i
      BY <3>1, <3>2, MinIsLeast
    <3> DEFINE m == Min(dots)
               n == Len(key)
    <3>4. m \in Nat /\ m <= n + 2 /\ n + 2 <= m /\ n \in Nat
      <4>1. n \in Nat
        BY <1>2
      <4> HIDE DEF n
      <4>2. n + 2 \in dots /\ \A i \in dots : n + 2 <= i
        BY <3>1, <3>2 DEF n
      <4>3. m \in dots /\ \A i \in dots : m <= i
        BY <3>3
      <4>4. m \in Nat
        BY <3>2, <4>3
      <4> HIDE DEF m
      <4> QED
        BY <4>1, <4>2, <4>3, <4>4
    <3> HIDE DEF m, n
    <3>5. m - 1 = n + 1
      BY <3>4
    <3>6. dots # {}
      BY <3>1
    <3>7. Min(dots) - 1 = Len(key) + 1
      BY <3>5 DEF m, n
    <3> QED
      BY <3>6, <3>7, Zenon
  <2>3. Len(leaf) = Len(way) + 1 \/ Len(leaf) > Len(way) + 1
    BY <1>0, <1>2
  <2> QED
    BY <2>1, <2>2, <2>3, Zenon
<1>6. ChildName(k, key) = SubSeq(k, Len(key) + 1, Len(key) + 1)
  BY <1>5 DEF ChildName
<1>7. SubSeq(k, Len(key) + 1, Len(key) + 1) = <<name>>
  <2> DEFINE m == Len(key) + 1
             s == SubSeq(k, m, m)
  <2>1. m \in 1..Len(k) /\ m \in Int /\ Len(k) \in Nat
    BY <1>0, <1>2
  <2>2. k[m] = name
    <3>1. Len(way) + 1 \in 1..Len(leaf) /\ m = Len(root) + (Len(way) + 1)
      BY <1>0, <1>2
    <3> QED
      BY <1>2, <3>1
  <2> HIDE DEF m, k, name
  <2>3. \A i \in m..m : k[i] \in STRING
    <3> TAKE i \in m..m
    <3>1. i = m
      BY <2>1
    <3>2. k[m] \in STRING
      BY <1>3, <2>2
    <3> QED
      BY <3>1, <3>2
  <2>4. /\ s \in Seq(STRING) /\ Len(s) = (IF m <= m THEN m - m + 1 ELSE 0)
        /\ \A i \in 1..m - m + 1 : s[i] = k[m + i - 1]
    BY <2>1, <2>3, SubSeqProperties
  <2>5. Len(s) = 1 /\ s[1] = k[m]
    <3>1. m - m + 1 = 1 /\ m + 1 - 1 = m /\ 1 \in 1..m - m + 1
      BY <2>1
    <3> QED
      BY <2>1, <2>4, <3>1
  <2> HIDE DEF s
  <2>6. <<name>> \in Seq(STRING) /\ Len(<<name>>) = 1 /\ <<name>>[1] = name
    BY <1>3, OnePiece
  <2>7. s = <<name>>
    BY <2>2, <2>4, <2>5, <2>6, SeqEqual
  <2> QED
    BY <2>7 DEF s, m
<1> QED
  BY <1>6, <1>7

LEMMA ChildNamesUnder ==
    ASSUME NEW u, NEW root, NEW doc, NEW useTag, Reads(u, root, doc, useTag), NEW way \in Keys,
           \A name \in NamesIn(doc, way) : NoList(doc, Append(way, name))
    PROVE  ChildNames(root \o way, u.keys) = {<<name>> : name \in NamesIn(doc, way)}
<1>1. ChildKeysOf(root \o way, u.keys) = {root \o leaf : leaf \in ChildKeysOf(way, Leaves(doc))}
  <2>1. way \in Keys /\ Reads(u, root, doc, useTag)
    OBVIOUS
  <2> QED
    BY ONLY <2>1, ChildKeysAre
<1>2. NamesIn(doc, way) = {leaf[Len(way) + 1] : leaf \in ChildKeysOf(way, Leaves(doc))}
  BY DEF NamesIn
<1>3. \A leaf \in ChildKeysOf(way, Leaves(doc)) :
         ChildName(root \o leaf, root \o way) = <<leaf[Len(way) + 1]>>
  BY <1>2, ChildNameUnder
<1>4. ChildNames(root \o way, u.keys) = {ChildName(root \o leaf, root \o way) : leaf \in ChildKeysOf(way, Leaves(doc))}
  BY <1>1 DEF ChildNames
<1> QED
  BY <1>2, <1>3, <1>4

LEMMA NoNodeIs == NoNode \notin Node /\ NoNode \notin Scalar
<1> DEFINE v == NoNode
<1>1. Kind(v) = "none"
  BY DEF Kind, NoNode
<1>2. v \notin {AMap, Items} \cup ({"list"} \X Nat)
  BY <1>1 DEF Kind, AMap, Items
<1> HIDE DEF v
<1>3. v \notin Scalar
  BY <1>1, ScalarIs
<1> QED
  BY <1>2, <1>3 DEF Node, v

LEMMA ArraySizeUnder ==
    ASSUME NEW u, NEW root, NEW doc, NEW useTag, Reads(u, root, doc, useTag), NEW way \in Keys,
           \/ /\ NodeAt(doc, way) \in {NoNode, Items} /\ Length(doc, way) <= ArrayLimit
              /\ \A i \in Elements(doc, way) : Shows(doc, Append(way, Index[i]))
           \/ Kind(NodeAt(doc, way)) = "list" /\ Length(doc, way) <= Len(Index)
    PROVE  ArraySize(root \o way, u) = Length(doc, way) /\ Elements(doc, way) = 1..Length(doc, way)
<1> DEFINE l == Length(doc, way)
           key == root \o way
<1>1. root \in Seq(STRING) /\ way \in Seq(STRING) /\ Readable(doc) /\ key \in Keys
  BY Under DEF Reads, Keys
<1>2. key \in DOMAIN u.get <=> way \in Leaves(doc)
  BY KeyOfLeaf
<1>3. Len(Index) \in Nat /\ DOMAIN Index = 1..Len(Index) /\ ArrayLimit \in Nat
  BY IndexIs, DecoderAssumption
<1>4. ASSUME l \in Nat, l <= Len(Index) PROVE Elements(doc, way) = 1..l
  BY <1>3, <1>4 DEF Elements
<1>5. CASE Kind(NodeAt(doc, way)) = "list" /\ l <= Len(Index)
  <2>1. way \in DOMAIN doc /\ NodeAt(doc, way) = doc[way]
    BY <1>5 DEF NodeAt, NoNode, Kind
  <2>2. doc[way] \in Node /\ Kind(doc[way]) = "list"
    BY <1>1, <1>5, <2>1 DEF Readable
  <2>3. doc[way] \in {"list"} \X Nat
    <3> DEFINE v == doc[way]
    <3> HIDE DEF v
    <3>1. v \in Scalar => Kind(v) # "list"
      BY ScalarIs
    <3>2. v \notin {AMap, Items} /\ v \notin Scalar
      BY <2>2, <3>1 DEF AMap, Items, Kind, v
    <3> QED
      BY <2>2, <3>2 DEF Node, v
  <2>4. Of(doc[way]) \in Nat /\ l = Of(doc[way])
    BY <1>5, <2>1, <2>3 DEF Of, Length
  <2>5. way \in Leaves(doc)
    <3>1. doc[way] \notin {AMap, Items}
      BY <2>2 DEF AMap, Items, Kind
    <3> QED
      BY <2>1, <3>1 DEF Leaves
  <2>6. u.get[key] = Number(Of(doc[way]))
    BY <2>2, <2>5 DEF Reads, Written
  <2>7. Kind(u.get[key]) = "int" /\ Of(u.get[key]) = l
    BY <2>4, <2>6 DEF Number, Kind, Of
  <2>8. key \in DOMAIN u.get
    BY <1>2, <2>5
  <2> HIDE DEF key, l
  <2>9. l \in Nat /\ l <= Len(Index)
    BY <1>5, <2>4
  <2>10. ArraySize(key, u) = l
    <3>1. ~(Of(u.get[key]) > Len(Index))
      BY <1>3, <2>7, <2>9
    <3> QED
      BY <2>7, <2>8, <3>1, Zenon DEF ArraySize
  <2> QED
    BY <1>4, <2>9, <2>10 DEF key, l
<1>6. CASE /\ NodeAt(doc, way) \in {NoNode, Items} /\ l <= ArrayLimit
           /\ \A i \in Elements(doc, way) : Shows(doc, Append(way, Index[i]))
  <2>1. Kind(NodeAt(doc, way)) # "list"
    BY <1>6 DEF NoNode, Items, Kind
  <2>2. l \in 0..Len(Index)
    BY <2>1, LengthIs
  <2>12. l = Len(Index) \/ Append(way, Index[l + 1]) \notin DOMAIN doc
    BY <2>1, LengthIs
  <2>3. way \notin Leaves(doc)
    <3>1. way \in DOMAIN doc => doc[way] = Items
      <4> SUFFICES ASSUME way \in DOMAIN doc PROVE doc[way] = Items
        OBVIOUS
      <4>1. doc[way] \in Node /\ doc[way] \in {NoNode, Items}
        BY <1>1, <1>6 DEF Readable, NodeAt
      <4> QED
        BY <4>1, NoNodeIs
    <3> QED
      BY <3>1 DEF Leaves
  <2>4. ArraySize(key, u) = Counted(key, u.keys)
    BY <1>2, <2>3 DEF ArraySize
  <2>5. u.keys \in SUBSET Keys
    BY DEF Reads, Usable
  <2> DEFINE n == Counted(key, u.keys)
             keys == u.keys
  <2> HIDE DEF key, keys
  <2>6. /\ n \in 0..Len(Index)
        /\ \A i \in 1..n : HasElement(key, i, keys)
        /\ \A m \in 0..Len(Index) : m <= ArrayLimit /\ (\A i \in 1..m : HasElement(key, i, keys)) => m <= n
    BY <1>1, <2>5, CountedIs DEF keys
  <2>7. \A i \in 1..Len(Index) : HasElement(key, i, keys) <=> Shows(doc, Append(way, Index[i]))
    BY ElementsShow DEF key, keys
  <2>8. Elements(doc, way) = 1..l
    BY <1>3, <1>4, <2>2
  <2> HIDE DEF n, l
  <2>9. l <= n
    <3>1. ASSUME NEW i \in 1..l PROVE HasElement(key, i, keys)
      <4>1. i \in 1..Len(Index)
        BY <1>3, <2>2
      <4>2. i \in Elements(doc, way)
        BY <2>8
      <4>3. Shows(doc, Append(way, Index[i]))
        BY <1>6, <4>2
      <4> QED
        BY <2>7, <4>1, <4>3
    <3> QED
      BY <1>6, <2>2, <2>6, <3>1
  <2>10. n <= l
    <3> SUFFICES ASSUME n > l PROVE FALSE
      BY <1>3, <2>2, <2>6
    <3>1. l + 1 \in 1..n /\ l + 1 \in 1..Len(Index) /\ l # Len(Index)
      <4> DEFINE top == Len(Index)
      <4>1. n \in 0..top /\ l \in 0..top /\ top \in Nat
        BY <1>3, <2>2, <2>6
      <4> HIDE DEF top
      <4>2. l + 1 \in 1..n /\ l + 1 \in 1..top /\ l # top
        BY ONLY <4>1, n > l
      <4> QED
        BY <4>2 DEF top
    <3> DEFINE at == Append(way, Index[l + 1])
    <3>2. Shows(doc, at) /\ at \notin DOMAIN doc
      <4>1. at \notin DOMAIN doc
        BY <2>12, <3>1
      <4>2. HasElement(key, l + 1, keys)
        BY <2>6, <3>1
      <4> QED
        BY <2>7, <3>1, <4>1, <4>2
    <3>3. at \in Keys
      BY <1>1, <3>1, IndexIs, Longer DEF Keys
    <3> HIDE DEF at
    <3>4. at \notin Leaves(doc)
      BY <3>2 DEF Leaves
    <3>5. PICK name \in NamesIn(doc, at) : TRUE
      BY <3>2, <3>4 DEF Shows
    <3>6. PICK leaf \in Leaves(doc) : Len(leaf) > Len(at) /\ SubSeq(leaf, 1, Len(at)) = at
      BY <1>1, <3>3, <3>5, NamesInAre
    <3>7. Len(at) \in 0..Len(leaf)
      <4>1. leaf \in Seq(STRING) /\ at \in Seq(STRING)
        BY <1>1, <3>3, LeavesAre DEF Keys
      <4>2. Len(leaf) \in Nat /\ Len(at) \in Nat
        BY <4>1, LenProperties
      <4> QED
        BY <3>6, <4>2
    <3>8. at \in DOMAIN doc
      BY <1>1, <3>6, <3>7, LeavesAre
    <3> QED
      BY <3>2, <3>8
  <2>11. n = l
    BY <1>3, <2>2, <2>6, <2>9, <2>10
  <2> QED
    BY <2>4, <2>8, <2>11 DEF n, l, key, keys
<1> QED
  BY <1>5, <1>6

-----------------------------------------------------------------------------
(***************************************************************************)
(* What it makes of them is what the document says.                        *)
(***************************************************************************)
(* What is read from the keys of a place agrees with what the document     *)
(* says there, once every struct in it has been described.                 *)
AgreesAt(d, m, root, at) ==
    m[at].fits /\ d[<<at[1], root \o at[2]>>].needs = {} => d[<<at[1], root \o at[2]>>] = Good(m[at].value)

LEMMA MadeOfGood ==
    ASSUME NEW value, NEW parts, Made(value, parts).needs = {},
           \A p \in parts : p.needs = {} => \E v : p = Good(v)
    PROVE  Made(value, parts) = Good(value) /\ \A p \in parts : p.needs = {}
<1>1. UNION {p.needs : p \in parts} = {}
  BY DEF Made
<1>2. \A p \in parts : p.needs = {}
  BY <1>1
<1>3. \A p \in parts : p.errs = {}
  BY <1>2 DEF Good
<1>4. UNION {p.errs : p \in parts} = {}
  BY <1>3
<1> QED
  BY <1>1, <1>2, <1>4 DEF Made, Good

LEMMA NameBelow ==
    ASSUME NEW root \in Seq(STRING), NEW way \in Keys, NEW name \in STRING
    PROVE  /\ (root \o way) \o <<name>> = root \o (way \o <<name>>)
           /\ way \o <<name>> = Append(way, name)
<1>1. way \in Seq(STRING) /\ <<name>> \in Seq(STRING)
  BY OnePiece DEF Keys
<1>2. (root \o way) \o <<name>> = root \o (way \o <<name>>)
  BY <1>1, ConcatAssociative
<1>3. Append(way, name) = way \o <<name>>
  BY <1>1, AppendIsConcat
<1> QED
  BY <1>2, <1>3

LEMMA MapAgrees ==
    ASSUME NEW u, NEW root, NEW doc, NEW useTag, Reads(u, root, doc, useTag), NEW way \in Keys,
           NEW type, NEW d, NEW m,
           \A name \in NamesIn(doc, way) : AgreesAt(d, m, root, <<Elem(type), way \o <<name>> >>),
           MeantMap(m, type, way, doc).fits, HandleMap(d, type, root \o way, u).needs = {}
    PROVE  HandleMap(d, type, root \o way, u) = Good(MeantMap(m, type, way, doc).value)
<1> DEFINE N    == {<<name>> : name \in NamesIn(doc, way)}
           key  == root \o way
           t    == Elem(type)
           meant == [n \in N |-> m[<<t, way \o n>>]]
           got   == [n \in N |-> d[<<t, key \o n>>]]
<1>1. root \in Seq(STRING) /\ Readable(doc)
  BY DEF Reads
<1>2. \A name \in NamesIn(doc, way) : name \in STRING
  BY <1>1, NamesInAre
<1>3. \A n \in N : meant[n].fits /\ NoList(doc, way \o n)
  <2>1. MeantMap(m, type, way, doc) =
           [value |-> MapOf([n \in DOMAIN meant |-> meant[n].value]),
            fits  |-> /\ NodeAt(doc, way) \in {NoNode, AMap}
                      /\ \A n \in DOMAIN meant : meant[n].fits /\ NoList(doc, way \o n)]
    BY Zenon DEF MeantMap
  <2>2. \A n \in DOMAIN meant : meant[n].fits /\ NoList(doc, way \o n)
    <3> HIDE DEF meant
    <3> QED
      BY <2>1
  <2>3. DOMAIN meant = N
    OBVIOUS
  <2> QED
    BY <2>2, <2>3
<1>4. ChildNames(key, u.keys) = N
  <2>1. \A name \in NamesIn(doc, way) : NoList(doc, Append(way, name))
    <3> TAKE name \in NamesIn(doc, way)
    <3>1. NoList(doc, way \o <<name>>)
      BY <1>3
    <3>2. way \o <<name>> = Append(way, name)
      BY <1>1, <1>2, NameBelow
    <3> QED
      BY <3>1, <3>2
  <2>2. way \in Keys /\ Reads(u, root, doc, useTag)
    OBVIOUS
  <2> QED
    BY ONLY <2>1, <2>2, ChildNamesUnder
<1>5. \A n \in N : got[n].needs = {} => got[n] = Good(meant[n].value)
  <2> TAKE n \in N
  <2>1. PICK name \in NamesIn(doc, way) : n = <<name>>
    OBVIOUS
  <2>2. key \o n = root \o (way \o n)
    BY <1>1, <1>2, <2>1, NameBelow
  <2> DEFINE at == <<t, way \o n>>
  <2>3. AgreesAt(d, m, root, at) /\ at[1] = t /\ at[2] = way \o n
    BY <2>1
  <2>4. m[at].fits
    BY <1>3
  <2>5. got[n] = d[<<at[1], root \o at[2]>>] /\ meant[n] = m[at]
    BY <2>2
  <2> HIDE DEF at, got, meant
  <2> QED
    BY <2>3, <2>4, <2>5 DEF AgreesAt
<1> DEFINE value == MapOf([n \in {x \in DOMAIN got : got[x].good} |-> got[n].value])
<1>6. HandleMap(d, type, key, u) = Made(value, Range(got))
  BY <1>4, Zenon DEF HandleMap
<1>7. DOMAIN got = N /\ DOMAIN meant = N
  OBVIOUS
<1> HIDE DEF got, meant, N, value
<1>8. \A p \in Range(got) : p.needs = {} => \E v : p = Good(v)
  BY <1>5, <1>7 DEF Range
<1>9. Made(value, Range(got)) = Good(value) /\ \A p \in Range(got) : p.needs = {}
  <2> DEFINE parts == Range(got)
  <2>1. Made(value, parts).needs = {} /\ \A p \in parts : p.needs = {} => \E v : p = Good(v)
    BY <1>6, <1>8
  <2> HIDE DEF parts
  <2>2. Made(value, parts) = Good(value) /\ \A p \in parts : p.needs = {}
    BY <2>1, MadeOfGood
  <2> QED
    BY <2>2 DEF parts
<1>10. \A n \in N : got[n] = Good(meant[n].value)
  BY <1>5, <1>7, <1>9 DEF Range
<1>11. value = MapOf([n \in DOMAIN meant |-> meant[n].value])
  <2>0. \A v : Good(v).good /\ Good(v).value = v
    BY Zenon DEF Good
  <2>1. \A n \in N : got[n].good /\ got[n].value = meant[n].value
    BY <1>10, <2>0
  <2>2. {x \in DOMAIN got : got[x].good} = N
    BY <1>7, <2>1
  <2>3. [n \in {x \in DOMAIN got : got[x].good} |-> got[n].value] = [n \in DOMAIN meant |-> meant[n].value]
    BY <1>7, <2>1, <2>2
  <2> QED
    BY <2>3 DEF value
<1>12. MeantMap(m, type, way, doc).value = MapOf([n \in DOMAIN meant |-> meant[n].value])
  BY DEF MeantMap, meant, N, t
<1> QED
  BY <1>6, <1>9, <1>11, <1>12

LEMMA SliceAgrees ==
    ASSUME NEW u, NEW root, NEW doc, NEW useTag, Reads(u, root, doc, useTag), NEW way \in Keys,
           NEW type, NEW d, NEW m,
           \A i \in Elements(doc, way) : AgreesAt(d, m, root, <<Elem(type), Append(way, Index[i])>>),
           MeantSlice(m, type, way, doc).fits, HandleSlice(d, type, root \o way, u).needs = {}
    PROVE  HandleSlice(d, type, root \o way, u) = Good(MeantSlice(m, type, way, doc).value)
<1> DEFINE E    == Elements(doc, way)
           key  == root \o way
           t    == Elem(type)
           meant == [i \in E |-> m[<<t, Append(way, Index[i])>>]]
           got   == [i \in E |-> d[<<t, Append(key, Index[i])>>]]
<1>1. root \in Seq(STRING) /\ way \in Seq(STRING)
  BY DEF Reads, Keys
<1>2. MeantSlice(m, type, way, doc) =
         [value |-> ListOf([i \in DOMAIN meant |-> meant[i].value]),
          fits  |-> /\ \/ /\ NodeAt(doc, way) \in {NoNode, Items} /\ Length(doc, way) <= ArrayLimit
                          /\ \A i \in DOMAIN meant : Shows(doc, Append(way, Index[i]))
                       \/ Kind(NodeAt(doc, way)) = "list" /\ Length(doc, way) <= Len(Index)
                    /\ \A i \in DOMAIN meant : meant[i].fits]
  BY Zenon DEF MeantSlice, Elements
<1>3. DOMAIN meant = E /\ DOMAIN got = E
  OBVIOUS
<1>4. /\ \/ /\ NodeAt(doc, way) \in {NoNode, Items} /\ Length(doc, way) <= ArrayLimit
            /\ \A i \in E : Shows(doc, Append(way, Index[i]))
         \/ Kind(NodeAt(doc, way)) = "list" /\ Length(doc, way) <= Len(Index)
      /\ \A i \in E : meant[i].fits
  <2> HIDE DEF meant, E
  <2> QED
    BY <1>2, <1>3
<1>5. 1..ArraySize(key, u) = E
  <2>1. /\ way \in Keys /\ Reads(u, root, doc, useTag)
        /\ \/ /\ NodeAt(doc, way) \in {NoNode, Items} /\ Length(doc, way) <= ArrayLimit
              /\ \A i \in Elements(doc, way) : Shows(doc, Append(way, Index[i]))
           \/ Kind(NodeAt(doc, way)) = "list" /\ Length(doc, way) <= Len(Index)
    BY <1>4
  <2>2. ArraySize(root \o way, u) = Length(doc, way) /\ Elements(doc, way) = 1..Length(doc, way)
    BY ONLY <2>1, ArraySizeUnder
  <2> QED
    BY <2>2
<1>6. \A i \in E : got[i].needs = {} => got[i] = Good(meant[i].value)
  <2> TAKE i \in E
  <2>1. Index[i] \in STRING
    BY IndexIs DEF Elements
  <2>2. Append(key, Index[i]) = root \o Append(way, Index[i])
    BY <1>1, <2>1, Under
  <2> DEFINE at == <<t, Append(way, Index[i])>>
  <2>3. AgreesAt(d, m, root, at) /\ at[1] = t /\ at[2] = Append(way, Index[i])
    OBVIOUS
  <2>4. m[at].fits
    BY <1>4
  <2>5. got[i] = d[<<at[1], root \o at[2]>>] /\ meant[i] = m[at]
    BY <2>2
  <2> HIDE DEF at, got, meant
  <2> QED
    BY <2>3, <2>4, <2>5 DEF AgreesAt
<1> DEFINE value == ListOf([i \in DOMAIN got |-> got[i].value])
<1>7. HandleSlice(d, type, key, u) = Made(value, Range(got))
  BY <1>5, Zenon DEF HandleSlice
<1> HIDE DEF got, meant, E, value
<1>8. \A p \in Range(got) : p.needs = {} => \E v : p = Good(v)
  BY <1>3, <1>6 DEF Range
<1>9. Made(value, Range(got)) = Good(value) /\ \A p \in Range(got) : p.needs = {}
  <2> DEFINE parts == Range(got)
  <2>1. Made(value, parts).needs = {} /\ \A p \in parts : p.needs = {} => \E v : p = Good(v)
    BY <1>7, <1>8
  <2> HIDE DEF parts
  <2>2. Made(value, parts) = Good(value) /\ \A p \in parts : p.needs = {}
    BY <2>1, MadeOfGood
  <2> QED
    BY <2>2 DEF parts
<1>10. \A i \in E : got[i].value = meant[i].value
  BY <1>3, <1>6, <1>9 DEF Range, Good
<1>11. [i \in DOMAIN got |-> got[i].value] = [i \in DOMAIN meant |-> meant[i].value]
  BY <1>3, <1>10
<1>12. MeantSlice(m, type, way, doc).value = value
  BY <1>2, <1>11 DEF value
<1> QED
  BY <1>7, <1>9, <1>12

StructReady(u, root, doc, useTag, way, st, info, d, m) ==
    /\ Reads(u, root, doc, useTag) /\ way \in Keys /\ st \in Structs
    /\ Sound(info, st) /\ u.infos[st] = info
    /\ \A at \in FieldPlaces(info, way) : AgreesAt(d, m, root, at)
    /\ info.inlineMap # 0 =>
          \A n \in Rest(info, doc, way) : AgreesAt(d, m, root, <<InlineElem(st, info), way \o n>>)
    /\ MeantStruct(m, st, info, way, doc).fits /\ HandleStruct(d, st, root \o way, u).needs = {}

LEMMA StructAgrees ==
    ASSUME NEW u, NEW root, NEW doc, NEW useTag, NEW way, NEW st, NEW info, NEW d, NEW m,
           StructReady(u, root, doc, useTag, way, st, info, d, m)
    PROVE  HandleStruct(d, st, root \o way, u) = Good(MeantStruct(m, st, info, way, doc).value)
<1> USE DEF StructReady
<1> DEFINE key  == root \o way
           P    == PathsOf(info)
           rest == Rest(info, doc, way)
           t    == InlineElem(st, info)
           meant == [p \in P |-> m[<<FieldAt(info, p).type, Append(way, FieldAt(info, p).key)>>]]
           got   == [p \in P |-> d[<<FieldAt(info, p).type, Append(key, FieldAt(info, p).key)>>]]
           meantMore == [n \in rest |-> m[<<t, way \o n>>]]
           gotMore   == [n \in rest |-> d[<<t, key \o n>>]]
           meantPlain == [p \in DOMAIN meant |-> meant[p].value]
           gotPlain   == [p \in DOMAIN got |-> got[p].value]
           meantOther == MapOf([n \in rest |-> meantMore[n].value])
           gotOther   == MapOf([n \in DOMAIN gotMore |-> gotMore[n].value])
<1>1. root \in Seq(STRING) /\ way \in Seq(STRING) /\ Readable(doc)
  BY DEF Reads, Keys
<1>2. MeantStruct(m, st, info, way, doc) =
         [value |-> StructOf(IF info.inlineMap = 0 THEN meantPlain
                             ELSE Over(Single(<<info.inlineMap>>, meantOther), meantPlain)),
          fits  |-> /\ info.ok /\ NodeAt(doc, way) \in {NoNode, AMap}
                    /\ \A p \in DOMAIN meant : meant[p].fits
                    /\ info.inlineMap # 0 =>
                          /\ \A n \in rest : meantMore[n].fits
                          /\ \A name \in NamesIn(doc, way) : NoList(doc, Append(way, name))]
  BY Zenon DEF MeantStruct, Rest
<1>3. DOMAIN meant = P /\ DOMAIN got = P /\ DOMAIN meantMore = rest /\ DOMAIN gotMore = rest
  OBVIOUS
<1>4. /\ \A p \in P : meant[p].fits
      /\ info.inlineMap # 0 =>
            /\ \A n \in rest : meantMore[n].fits
            /\ \A name \in NamesIn(doc, way) : NoList(doc, Append(way, name))
  <2> HIDE DEF meant, meantMore, meantPlain, meantOther, P, rest
  <2> QED
    BY <1>2, <1>3
<1>5. \A p \in P : got[p].needs = {} => got[p] = Good(meant[p].value)
  <2> TAKE p \in P
  <2> DEFINE f  == FieldAt(info, p)
             at == <<f.type, Append(way, f.key)>>
  <2>1. f \in info.fields
    BY FieldAtIs
  <2>2. f.key \in STRING
    <3> HIDE DEF f
    <3> QED
      BY <2>1 DEF Sound, FieldFits
  <2>3. Append(key, f.key) = root \o Append(way, f.key)
    <3> HIDE DEF f
    <3> QED
      BY <1>1, <2>2, Under
  <2>4. at \in FieldPlaces(info, way) /\ at[1] = f.type /\ at[2] = Append(way, f.key)
    BY DEF FieldPlaces
  <2>5. m[at].fits
    BY <1>4
  <2>6. got[p] = d[<<at[1], root \o at[2]>>] /\ meant[p] = m[at]
    BY <2>3
  <2> HIDE DEF at, got, meant
  <2> QED
    BY <2>4, <2>5, <2>6 DEF AgreesAt
<1>6. ASSUME info.inlineMap # 0
      PROVE  Others(info, key, u) = rest
  <2>1. ChildNames(key, u.keys) = {<<name>> : name \in NamesIn(doc, way)}
    <3>1. way \in Keys /\ Reads(u, root, doc, useTag) /\ \A name \in NamesIn(doc, way) : NoList(doc, Append(way, name))
      BY <1>4, <1>6
    <3> QED
      BY ONLY <3>1, ChildNamesUnder
  <2>2. Others(info, key, u) = {<<name>> : name \in NamesIn(doc, way)} \ {<<k>> : k \in KeysOf(info) \cup {""}}
    BY <2>1 DEF Others
  <2>3. \A a, b : <<a>> = <<b>> => a = b
    OBVIOUS
  <2>4. \A name \in NamesIn(doc, way) : name # ""
    BY <1>1, NamesInAre DEF Name
  <2> DEFINE names == NamesIn(doc, way)
             keys  == KeysOf(info)
  <2> HIDE DEF names, keys
  <2>5. {<<name>> : name \in names} \ {<<k>> : k \in keys \cup {""}} = {<<name>> : name \in names \ keys}
    BY <2>3, <2>4 DEF names
  <2> QED
    BY <2>2, <2>5 DEF Rest, names, keys
<1>7. ASSUME info.inlineMap # 0, NEW n \in rest
      PROVE  gotMore[n].needs = {} => gotMore[n] = Good(meantMore[n].value)
  <2>1. PICK name \in NamesIn(doc, way) : n = <<name>>
    BY <1>7 DEF Rest
  <2>2. name \in STRING
    BY <1>1, NamesInAre
  <2>3. key \o n = root \o (way \o n)
    BY <1>1, <2>1, <2>2, NameBelow
  <2> DEFINE at == <<t, way \o n>>
  <2>4. AgreesAt(d, m, root, at) /\ at[1] = t /\ at[2] = way \o n
    BY <1>7
  <2>5. m[at].fits
    BY <1>4, <1>7
  <2>6. gotMore[n] = d[<<at[1], root \o at[2]>>] /\ meantMore[n] = m[at]
    BY <2>3
  <2> HIDE DEF at, gotMore, meantMore
  <2> QED
    BY <2>4, <2>5, <2>6 DEF AgreesAt
<1>8. HandleStruct(d, st, key, u) =
         IF info.inlineMap = 0 THEN Made(StructOf(gotPlain), Range(got))
         ELSE Made(StructOf(Over(Single(<<info.inlineMap>>, gotOther), gotPlain)), Range(got) \cup Range(gotMore))
  <2>1. CASE info.inlineMap = 0
    BY <2>1, Zenon DEF HandleStruct
  <2>2. CASE info.inlineMap # 0
    BY <1>6, <2>2, Zenon DEF HandleStruct
  <2> QED
    BY <2>1, <2>2
<1> HIDE DEF meant, got, meantMore, gotMore, P, rest, t, key
<1>9. ASSUME \A p \in Range(got) : p.needs = {}
      PROVE  gotPlain = meantPlain
  <2>1. \A p \in P : got[p].value = meant[p].value
    BY <1>3, <1>5, <1>9 DEF Range, Good
  <2> QED
    BY <1>3, <2>1
<1>10. CASE info.inlineMap = 0
  <2> DEFINE parts == Range(got)
             value == StructOf(gotPlain)
  <2>1. HandleStruct(d, st, key, u) = Made(value, parts)
    BY <1>8, <1>10
  <2>2. Made(value, parts).needs = {}
    BY <2>1 DEF key
  <2>3. \A p \in parts : p.needs = {} => \E v : p = Good(v)
    BY <1>3, <1>5 DEF Range
  <2> HIDE DEF parts, value
  <2>4. Made(value, parts) = Good(value) /\ \A p \in parts : p.needs = {}
    BY <2>2, <2>3, MadeOfGood
  <2>5. gotPlain = meantPlain
    BY <1>9, <2>4 DEF parts
  <2>6. MeantStruct(m, st, info, way, doc).value = StructOf(meantPlain)
    <3> HIDE DEF meantPlain, meantOther
    <3> QED
      BY <1>2, <1>10
  <2> QED
    BY <2>1, <2>4, <2>5, <2>6 DEF value, key
<1>11. CASE info.inlineMap # 0
  <2> DEFINE parts == Range(got) \cup Range(gotMore)
             value == StructOf(Over(Single(<<info.inlineMap>>, gotOther), gotPlain))
  <2>1. HandleStruct(d, st, key, u) = Made(value, parts)
    <3> HIDE DEF gotOther, gotPlain
    <3> QED
      BY <1>8, <1>11
  <2>2. Made(value, parts).needs = {}
    BY <2>1 DEF key
  <2>3. \A p \in parts : p.needs = {} => \E v : p = Good(v)
    BY <1>3, <1>5, <1>7, <1>11 DEF Range
  <2> HIDE DEF parts, value
  <2>4. Made(value, parts) = Good(value) /\ \A p \in parts : p.needs = {}
    BY <2>2, <2>3, MadeOfGood
  <2>5. gotPlain = meantPlain
    BY <1>9, <2>4 DEF parts
  <2>6. gotOther = meantOther
    <3>1. \A n \in rest : gotMore[n].value = meantMore[n].value
      BY <1>3, <1>7, <1>11, <2>4 DEF Range, Good, parts
    <3>2. [n \in DOMAIN gotMore |-> gotMore[n].value] = [n \in rest |-> meantMore[n].value]
      BY <1>3, <3>1
    <3> QED
      BY <3>2
  <2>7. MeantStruct(m, st, info, way, doc).value =
           StructOf(Over(Single(<<info.inlineMap>>, meantOther), meantPlain))
    <3> HIDE DEF meantPlain, meantOther
    <3> QED
      BY <1>2, <1>11
  <2>8. value = StructOf(Over(Single(<<info.inlineMap>>, meantOther), meantPlain))
    BY <2>5, <2>6 DEF value
  <2> QED
    BY <2>1, <2>4, <2>7, <2>8 DEF key
<1> QED
  BY <1>10, <1>11

LEMMA BasicAgrees ==
    ASSUME NEW u, NEW root, NEW doc, NEW useTag, Reads(u, root, doc, useTag), NEW way \in Keys,
           NEW type, MeantBasic(type, NodeAt(doc, way)).fits
    PROVE  HandleBasic(type, root \o way, u) = Good(MeantBasic(type, NodeAt(doc, way)).value)
<1> DEFINE key  == root \o way
           node == NodeAt(doc, way)
           v    == u.get[key]
<1>1. key \in DOMAIN u.get <=> way \in Leaves(doc)
  BY KeyOfLeaf
<1>2. Readable(doc)
  BY DEF Reads
<1>3. \/ node \in {NoNode, Null}
      \/ node \in Scalar /\ Convertible(type, node)
  <2> HIDE DEF node
  <2>1. MeantBasic(type, node).fits
    BY DEF node
  <2> QED
    BY <2>1 DEF MeantBasic
<1>4. MeantBasic(type, node).value = IF node \in {NoNode, Null} THEN Zero(type) ELSE Converted(type, node)
  BY Zenon DEF MeantBasic
<1>5. CASE node = NoNode
  <2>1. way \notin DOMAIN doc
    <3>1. way \in DOMAIN doc => doc[way] \in Node
      BY <1>2 DEF Readable
    <3> QED
      BY <1>5, <3>1, NoNodeIs DEF NodeAt
  <2>2. key \notin DOMAIN u.get
    BY <1>1, <2>1 DEF Leaves
  <2>3. HandleBasic(type, key, u) = Good(Zero(type))
    BY <2>2, Zenon DEF HandleBasic
  <2> QED
    BY <1>4, <1>5, <2>3
<1>6. CASE node # NoNode /\ node \in Scalar
  <2>1. way \in DOMAIN doc /\ node = doc[way]
    BY <1>6 DEF NodeAt
  <2>2. Kind(node) \in {"text", "int", "null"} /\ (Kind(node) = "null" <=> node = Null)
    <3> HIDE DEF node
    <3> QED
      BY <1>6, ScalarIs
  <2>3. way \in Leaves(doc)
    <3>1. node \notin {AMap, Items}
      <4> HIDE DEF node
      <4> QED
        BY <2>2 DEF AMap, Items, Kind
    <3> QED
      BY <2>1, <3>1 DEF Leaves
  <2>4. v = node
    <3>1. v = Written(doc[way])
      BY <2>3 DEF Reads
    <3>2. Written(node) = node
      <4> HIDE DEF node
      <4> QED
        BY <2>2 DEF Written
    <3> QED
      BY <2>1, <3>1, <3>2
  <2>5. key \in DOMAIN u.get
    BY <1>1, <2>3
  <2> HIDE DEF key, node
  <2>6. CASE node = Null
    <3>1. Kind(v) = "null"
      BY <2>2, <2>4, <2>6
    <3>2. HandleBasic(type, key, u) = Good(Zero(type))
      BY <3>1, Zenon DEF HandleBasic
    <3> QED
      BY <1>4, <2>6, <3>2 DEF key, node
  <2>7. CASE node # Null
    <3>1. Kind(v) # "null" /\ Convertible(type, v)
      BY <1>3, <1>6, <2>2, <2>4, <2>7
    <3>2. HandleBasic(type, key, u) = Good(Converted(type, v))
      BY <2>5, <3>1, Zenon DEF HandleBasic
    <3>3. MeantBasic(type, node).value = Converted(type, node)
      BY <1>4, <1>6, <2>7
    <3> QED
      BY <2>4, <3>2, <3>3 DEF key, node
  <2> QED
    BY <2>6, <2>7
<1>7. Null \in Scalar
  BY DEF Scalar
<1> QED
  BY <1>3, <1>5, <1>6, <1>7

-----------------------------------------------------------------------------
(***************************************************************************)
(* Place by place, the inner ones first.                                   *)
(***************************************************************************)
(* A variable agrees if everything in it does.                             *)
LEMMA AgreesFromInside ==
    ASSUME NEW u, NEW root, NEW doc, NEW useTag, Reads(u, root, doc, useTag),
           NEW type \in Types, NEW way \in Keys,
           \A at \in InDocument(type, way, doc, useTag) : AgreesAt(Outcomes(u), Meanings(doc, useTag), root, at)
    PROVE  AgreesAt(Outcomes(u), Meanings(doc, useTag), root, <<type, way>>)
<1> DEFINE d   == Outcomes(u)
           m   == Meanings(doc, useTag)
           key == root \o way
<1>1. root \in Seq(STRING) /\ way \in Seq(STRING) /\ Readable(doc) /\ useTag \in TagNames
  BY DEF Reads, Keys
<1>2. key \in Keys
  BY <1>1, Under
<1>3. d[<<type, key>>] = Handle(d, type, key, u)
  <2>1. PICK longest \in Nat : Usable(u, longest)
    BY DEF Reads
  <2> HIDE DEF key
  <2> QED
    BY <1>2, <2>1, OutcomesAre
<1>4. m[<<type, way>>] = MeantAt(m, type, way, doc, useTag)
  BY <1>1, MeaningsAre
<1>5. \A at \in InDocument(type, way, doc, useTag) : AgreesAt(d, m, root, at)
  OBVIOUS
<1> HIDE DEF d, m
<1> SUFFICES ASSUME MeantAt(m, type, way, doc, useTag).fits, Handle(d, type, key, u).needs = {}
             PROVE  Handle(d, type, key, u) = Good(MeantAt(m, type, way, doc, useTag).value)
  <2> DEFINE at == <<type, way>>
  <2>1. at[1] = type /\ at[2] = way
    OBVIOUS
  <2>2. AgreesAt(d, m, root, at) <=>
          (m[at].fits /\ d[<<type, root \o way>>].needs = {} => d[<<type, root \o way>>] = Good(m[at].value))
    <3> HIDE DEF at
    <3> QED
      BY <2>1 DEF AgreesAt
  <2> QED
    BY <1>3, <1>4, <2>2 DEF d, m
<1>6. CASE KindOf(type) = "map"
  <2>1. MeantAt(m, type, way, doc, useTag) = MeantMap(m, type, way, doc) /\ Handle(d, type, key, u) = HandleMap(d, type, key, u)
    BY <1>6 DEF MeantAt, Handle
  <2>2. \A name \in NamesIn(doc, way) : AgreesAt(d, m, root, <<Elem(type), way \o <<name>> >>)
    BY <1>5, <1>6 DEF InDocument
  <2>3. /\ Reads(u, root, doc, useTag) /\ way \in Keys
        /\ MeantMap(m, type, way, doc).fits /\ HandleMap(d, type, root \o way, u).needs = {}
    BY <2>1
  <2>4. HandleMap(d, type, root \o way, u) = Good(MeantMap(m, type, way, doc).value)
    BY ONLY <2>2, <2>3, MapAgrees
  <2> QED
    BY <2>1, <2>4
<1>7. CASE KindOf(type) = "slice"
  <2>1. MeantAt(m, type, way, doc, useTag) = MeantSlice(m, type, way, doc) /\ Handle(d, type, key, u) = HandleSlice(d, type, key, u)
    BY <1>7 DEF MeantAt, Handle
  <2>2. \A i \in Elements(doc, way) : AgreesAt(d, m, root, <<Elem(type), Append(way, Index[i])>>)
    BY <1>5, <1>7 DEF InDocument
  <2>3. /\ Reads(u, root, doc, useTag) /\ way \in Keys
        /\ MeantSlice(m, type, way, doc).fits /\ HandleSlice(d, type, root \o way, u).needs = {}
    BY <2>1
  <2>4. HandleSlice(d, type, root \o way, u) = Good(MeantSlice(m, type, way, doc).value)
    BY ONLY <2>2, <2>3, SliceAgrees
  <2> QED
    BY <2>1, <2>4
<1>8. CASE KindOf(type) = "struct"
  <2> DEFINE st   == type.base
             info == Described(st, useTag)
  <2>1. st \in Structs /\ Sound(info, st)
    <3>1. st \in Structs
      BY <1>8, Kinds
    <3> QED
      BY <1>1, <3>1, DescribedIsSound
  <2>2. st \in DOMAIN u.infos
    <3> SUFFICES ASSUME st \notin DOMAIN u.infos PROVE FALSE
      OBVIOUS
    <3>1. Handle(d, type, key, u) = [Good(Null) EXCEPT !.needs = {st}]
      BY <1>8 DEF Handle
    <3>2. Handle(d, type, key, u).needs = {st}
      BY <3>1 DEF Good
    <3> QED
      BY <3>2
  <2>3. u.infos[st] = info
    BY <2>2 DEF Reads
  <2>4. MeantAt(m, type, way, doc, useTag) = MeantStruct(m, st, info, way, doc) /\ Handle(d, type, key, u) = HandleStruct(d, st, key, u)
    BY <1>8, <2>2 DEF MeantAt, Handle
  <2>5. /\ \A at \in FieldPlaces(info, way) : AgreesAt(d, m, root, at)
        /\ info.inlineMap # 0 =>
              \A n \in Rest(info, doc, way) : AgreesAt(d, m, root, <<InlineElem(st, info), way \o n>>)
    BY <1>5, <1>8 DEF InDocument
  <2> HIDE DEF info
  <2>6. /\ Reads(u, root, doc, useTag) /\ way \in Keys
        /\ MeantStruct(m, st, info, way, doc).fits /\ HandleStruct(d, st, root \o way, u).needs = {}
    BY <2>4
  <2> HIDE DEF st
  <2>7. StructReady(u, root, doc, useTag, way, st, info, d, m)
    BY <2>1, <2>3, <2>5, <2>6 DEF StructReady
  <2>8. HandleStruct(d, st, root \o way, u) = Good(MeantStruct(m, st, info, way, doc).value)
    BY <2>7, StructAgrees
  <2> QED
    BY <2>4, <2>8
<1>9. CASE KindOf(type) # "map" /\ KindOf(type) # "slice" /\ KindOf(type) # "struct"
  <2>1. MeantAt(m, type, way, doc, useTag) = MeantBasic(type, NodeAt(doc, way)) /\ Handle(d, type, key, u) = HandleBasic(type, key, u)
    BY <1>9 DEF MeantAt, Handle
  <2>2. /\ Reads(u, root, doc, useTag) /\ way \in Keys
        /\ MeantBasic(type, NodeAt(doc, way)).fits
    BY <2>1
  <2>3. HandleBasic(type, root \o way, u) = Good(MeantBasic(type, NodeAt(doc, way)).value)
    BY ONLY <2>2, BasicAgrees
  <2> QED
    BY <2>1, <2>3
<1> QED
  BY <1>6, <1>7, <1>8, <1>9

(* So does every variable.                                                 *)
LEMMA DecodedAsMeant ==
    ASSUME NEW u, NEW root, NEW doc, NEW useTag, Reads(u, root, doc, useTag),
           NEW type \in Types, NEW way \in Keys
    PROVE  AgreesAt(Outcomes(u), Meanings(doc, useTag), root, <<type, way>>)
<1> DEFINE d == Outcomes(u)
           m == Meanings(doc, useTag)
<1>1. Readable(doc) /\ useTag \in TagNames
  BY DEF Reads
<1>2. PICK longest \in Nat : Bounded(doc, longest)
  BY <1>1, DocumentsAreBounded
<1> DEFINE Well == {n \in Nat : \A at \in Within(n, longest) : AgreesAt(d, m, root, at)}
           n0   == Most + 1 + longest
<1>3. Within(n0, longest) = Types \X Keys /\ n0 \in Nat
  BY <1>2, WithinIs
<1> HIDE DEF n0
<1>4. n0 \in Well
  <2> SUFFICES ASSUME n0 \notin Well PROVE FALSE
    OBVIOUS
  <2>1. PICK n \in Nat : n \notin Well /\ \A i \in 0..n - 1 : i \in Well
    <3> HIDE DEF Well
    <3> QED
      BY <1>3, Least
  <2>2. PICK at \in Within(n, longest) : ~AgreesAt(d, m, root, at)
    BY <2>1
  <2> DEFINE t == at[1]
             k == at[2]
  <2>3. t \in Types /\ k \in Keys /\ at = <<t, k>>
    BY DEF Within
  <2>4. ASSUME NEW of \in InDocument(t, k, doc, useTag) PROVE AgreesAt(d, m, root, of)
    <3>1. IsInside(of, t, k, longest)
      <4> HIDE DEF t, k
      <4> QED
        BY <1>1, <1>2, <2>3, <2>4, InDocumentIs
    <3>2. n # 0 /\ of \in Within(n - 1, longest)
      BY <1>2, <2>1, <2>2, <3>1, InsideIsWithin
    <3>3. n - 1 \in 0..n - 1
      BY <2>1, <3>2
    <3>4. n - 1 \in Well
      BY <2>1, <3>3
    <3> QED
      BY <3>2, <3>4
  <2>5. AgreesAt(d, m, root, <<t, k>>)
    <3> HIDE DEF t, k
    <3>1. t \in Types /\ k \in Keys /\ Reads(u, root, doc, useTag)
      BY <2>3
    <3>2. \A of \in InDocument(t, k, doc, useTag) : AgreesAt(Outcomes(u), Meanings(doc, useTag), root, of)
      BY <2>4
    <3>3. AgreesAt(Outcomes(u), Meanings(doc, useTag), root, <<t, k>>)
      BY ONLY <3>1, <3>2, AgreesFromInside
    <3> QED
      BY <3>3
  <2> QED
    BY <2>2, <2>3, <2>5
<1> QED
  BY <1>3, <1>4

-----------------------------------------------------------------------------
(***************************************************************************)
(* The answers of calls that nothing was loaded during.                    *)
(***************************************************************************)
(* A call that nothing was loaded during knows the keys there are, and if  *)
(* its descriptions are those it asked for, its answer is what the         *)
(* documents say.                                                          *)
WellDescribed(c) == \A st \in DOMAIN c.infos : c.infos[st] = Described(st, c.ask.tag)
SteadyCall(c) ==
    c.steady =>
       /\ c.at = "decoding" => c.keys = DOMAIN Config
       /\ c.at = "done" /\ c.answer # Panic /\ WellDescribed(c) =>
             IsMeant(c.answer, Meant(c.ask.type, c.ask.below, Document, c.ask.tag))
SteadyFits == \A r \in Callers : call[r].at # "idle" => SteadyCall(call[r])

LEMMA SteadyAtFirst == Init => SteadyFits
<1> SUFFICES ASSUME Init, NEW r \in Callers PROVE call[r].at = "idle"
  BY DEF SteadyFits
<1> QED
  BY DEF Init, Idle

(* Only a load changes what there is.                                      *)
LEMMA SteadyKept ==
    ASSUME SteadyFits, UNCHANGED <<held, stands>>, NEW r \in Callers,
           \A q \in Callers \ {r} : call'[q] = call[q],
           \/ call'[r].at = "decoding" /\ (call'[r].steady => call'[r].keys = DOMAIN Config)
           \/ call'[r].at = "done" /\ (call'[r].steady /\ call'[r].answer # Panic /\ WellDescribed(call'[r]) =>
                 IsMeant(call'[r].answer, Meant(call'[r].ask.type, call'[r].ask.below, Document, call'[r].ask.tag)))
    PROVE  SteadyFits'
<1>1. Config' = Config /\ Document' = Document
  BY DEF Config, Document
<1>2. ASSUME NEW q \in Callers, call'[q].at # "idle" PROVE SteadyCall(call[q])'
  <2>1. CASE q = r
    BY <1>1, <2>1 DEF SteadyCall
  <2>2. CASE q # r
    <3>1. call'[q] = call[q]
      BY <2>2
    <3>2. SteadyCall(call[q])
      BY <1>2, <3>1 DEF SteadyFits
    <3> QED
      BY <1>1, <3>1, <3>2 DEF SteadyCall
  <2> QED
    BY <2>1, <2>2
<1> QED
  BY <1>2 DEF SteadyFits

LEMMA SteadyStill ==
    ASSUME IInv, SteadyFits, UNCHANGED <<held, stands>>, NEW r \in Callers, call[r].at = "decoding",
           \A q \in Callers \ {r} : call'[q] = call[q],
           call'[r].at = "decoding", call'[r].steady = call[r].steady, call'[r].keys = call[r].keys
    PROVE  SteadyFits'
<1>1. call[r].steady => call[r].keys = DOMAIN Config
  BY DEF SteadyFits, SteadyCall
<1> QED
  BY <1>1, SteadyKept

LEMMA SteadyAfterLoad ==
    ASSUME SteadyFits, NEW p \in Range(Paths), NEW c \in Contents[p], Load(p, c), IInv
    PROVE  SteadyFits'
<1>1. ASSUME NEW q \in Callers, call'[q].at # "idle" PROVE ~call'[q].steady
  <2>1. call' = [r \in Callers |-> IF call[r].at = "idle" THEN Idle ELSE [call[r] EXCEPT !.steady = FALSE]]
    BY DEF Load
  <2>2. call[q].at # "idle"
    BY <1>1, <2>1, IdleIs
  <2>3. call'[q] = [call[q] EXCEPT !.steady = FALSE]
    BY <2>1, <2>2
  <2>4. DOMAIN call[q] = {"at", "ask", "keys", "infos", "frames", "answer", "steady"}
    BY <2>2, IdleIs DEF IInv, CallFits
  <2> QED
    BY <2>3, <2>4
<1> QED
  BY <1>1 DEF SteadyFits, SteadyCall

LEMMA SteadyAfterBegin ==
    ASSUME IInv, SteadyFits, NEW r \in Callers, NEW a \in Asks, Begin(r, a)
    PROVE  SteadyFits'
<1> DEFINE c == [at |-> "decoding", ask |-> a, keys |-> DOMAIN Config, infos |-> NoInfos,
                 frames |-> <<>>, answer |-> None, steady |-> TRUE]
<1>1. call' = [call EXCEPT ![r] = c] /\ UNCHANGED <<held, stands>>
  BY DEF Begin
<1>2. DOMAIN call = Callers
  BY DEF IInv
<1>3. c.at = "decoding" /\ c.keys = DOMAIN Config
  OBVIOUS
<1> HIDE DEF c
<1>4. call'[r] = c /\ \A q \in Callers \ {r} : call'[q] = call[q]
  BY <1>1, <1>2
<1> QED
  BY <1>1, <1>3, <1>4, SteadyKept

LEMMA SteadyWhileDescribing ==
    ASSUME IInv, SteadyFits, NEW r \in Callers, Meet(r) \/ LookUp(r) \/ Descend(r) \/ Store(r)
    PROVE  SteadyFits'
<1>1. call[r].at = "decoding" /\ UNCHANGED <<held, stands>>
  BY DEF Meet, LookUp, Descend, Store, Decoding, Describing
<1>2. DOMAIN call = Callers /\ CallFits(call[r])
  BY <1>1, InCall DEF IInv
<1>3. DOMAIN call[r] = {"at", "ask", "keys", "infos", "frames", "answer", "steady"}
  BY <1>2 DEF CallFits
<1> DEFINE Kept(f) == /\ f[r].at = "decoding" /\ f[r].steady = call[r].steady /\ f[r].keys = call[r].keys
                      /\ \A q \in Callers \ {r} : f[q] = call[q]
<1>4. \A frames : Kept([call EXCEPT ![r].frames = frames])
  BY <1>1, <1>2, <1>3
<1>5. \A st, info : Kept(Known(r, st, info))
  BY <1>1, <1>2, <1>3 DEF Known
<1>6. Kept(call')
  <2> HIDE DEF Kept
  <2>1. CASE Meet(r)
    BY <1>4, <2>1 DEF Meet
  <2>2. CASE LookUp(r)
    <3>1. CASE call' = Known(r, Top(r), cache[Top(r)])
      BY <1>5, <3>1
    <3>2. CASE call' = [call EXCEPT ![r].frames[1].looked = TRUE]
      BY <1>1, <1>2, <1>3, <3>2 DEF Kept
    <3> QED
      BY <2>2, <3>1, <3>2 DEF LookUp
  <2>3. CASE Descend(r)
    BY <1>4, <2>3 DEF Descend
  <2>4. CASE Store(r)
    BY <1>5, <2>4 DEF Store
  <2> QED
    BY <2>1, <2>2, <2>3, <2>4
<1> QED
  BY <1>1, <1>6, SteadyStill

LEMMA SteadyAfterFail ==
    ASSUME IInv, SteadyFits, NEW r \in Callers, Fail(r)
    PROVE  SteadyFits'
<1>1. call[r].at = "decoding" /\ UNCHANGED <<held, stands>>
  BY DEF Fail, Describing
<1>2. DOMAIN call = Callers /\ CallFits(call[r])
  BY <1>1, InCall DEF IInv
<1>3. DOMAIN call[r] = {"at", "ask", "keys", "infos", "frames", "answer", "steady"}
  BY <1>2 DEF CallFits
<1>4. call' = [call EXCEPT ![r].at = "done", ![r].frames = <<>>, ![r].answer = Panic]
  BY DEF Fail
<1>5. call'[r].at = "done" /\ call'[r].answer = Panic /\ \A q \in Callers \ {r} : call'[q] = call[q]
  BY <1>2, <1>3, <1>4
<1> QED
  BY <1>1, <1>5, SteadyKept

(* The decoder of such a call reads what the documents say.                *)
LEMMA SteadyReads ==
    ASSUME IInv, NEW r \in Callers, call[r].at = "decoding", call[r].keys = DOMAIN Config,
           WellDescribed(call[r])
    PROVE  Reads(DecoderOf(r), Root, Document, call[r].ask.tag)
<1> DEFINE u == DecoderOf(r)
           useTag == call[r].ask.tag
           doc == Document
<1>1. Readable(doc) /\ Config = Flatten(doc, Prefix)
  BY ConfigIs DEF IInv
<1>2. CallFits(call[r]) /\ call[r].ask \in Asks /\ \E longest \in Nat : Usable(u, longest)
  BY InCall
<1>3. useTag \in TagNames
  BY <1>2, AskIs
<1>4. Root \in Seq(STRING)
  BY RootIs, NamesAreStrings, SeqMonotonic
<1>5. /\ DOMAIN Config = {Root \o way : way \in Leaves(doc)}
      /\ \A way \in Leaves(doc) : Config[Root \o way] = Written(doc[way])
  <2> DEFINE root == Root
             prefix == Prefix
  <2>1. root \in Seq(Name) /\ Spells(prefix, root)
    BY RootIs
  <2>2. DOMAIN doc \subseteq Seq(STRING)
    BY <1>1, ReadableWays
  <2> HIDE DEF root, prefix, doc
  <2>3. /\ DOMAIN Flatten(doc, prefix) = {root \o way : way \in Leaves(doc)}
        /\ \A way \in Leaves(doc) : Flatten(doc, prefix)[root \o way] = Written(doc[way])
        /\ Flatten(doc, prefix) = [k \in DOMAIN Flatten(doc, prefix) |-> Flatten(doc, prefix)[k]]
    BY <2>1, <2>2, FlattenIs
  <2> QED
    BY <1>1, <2>3 DEF root, prefix
<1>6. u.keys = DOMAIN Config /\ u.get = Config /\ u.infos = call[r].infos
  BY DEF DecoderOf
<1>7. \A st \in DOMAIN call[r].infos : call[r].infos[st] = Described(st, useTag)
  BY DEF WellDescribed
<1> HIDE DEF u, useTag, doc
<1>8. Reads(u, Root, doc, useTag)
  BY <1>1, <1>2, <1>3, <1>4, <1>5, <1>6, <1>7 DEF Reads
<1> QED
  BY <1>8 DEF u, useTag, doc

LEMMA SteadyAfterAnswer ==
    ASSUME IInv, SteadyFits, NEW r \in Callers, Answer(r)
    PROVE  SteadyFits'
<1> DEFINE out == Outcome(r)
           answer == IF call[r].steady THEN [value |-> out.value, errs |-> out.errs] ELSE Mixture
           c == [call[r] EXCEPT !.at = "done", !.answer = answer]
           a == call[r].ask
<1>1. /\ out.needs = {} /\ call' = [call EXCEPT ![r] = c] /\ CallFits(c)
      /\ call[r].at = "decoding" /\ UNCHANGED <<held, stands>>
  BY AnswerIs
<1>2. CallFits(call[r]) /\ a \in Asks /\ DOMAIN call = Callers
  BY <1>1, InCall DEF IInv
<1>3. DOMAIN call[r] = {"at", "ask", "keys", "infos", "frames", "answer", "steady"}
  BY <1>2 DEF CallFits
<1>4. /\ c.at = "done" /\ c.answer = answer /\ c.steady = call[r].steady /\ c.ask = a
      /\ WellDescribed(c) => WellDescribed(call[r])
  <2> HIDE DEF answer
  <2> QED
    BY <1>3 DEF WellDescribed
<1>5. ASSUME call[r].steady, WellDescribed(call[r]) PROVE IsMeant(answer, Meant(a.type, a.below, Document, a.tag))
  <2>1. call[r].keys = DOMAIN Config
    BY <1>1, <1>5 DEF SteadyFits, SteadyCall
  <2> DEFINE u == DecoderOf(r)
             type == a.type
             way == a.below
             doc == Document
             useTag == a.tag
             key == Root \o way
             m == Meanings(doc, useTag)
             d == Outcomes(u)
             at == <<type, way>>
  <2>2. Reads(u, Root, doc, useTag)
    BY <1>1, <1>5, <2>1, SteadyReads
  <2>3. type \in Types /\ way \in Keys /\ Stripped(a.prefix) = key
    <3>1. way \in Seq(STRING)
      BY <1>2, AskIs, NamesAreStrings, SeqMonotonic
    <3> QED
      BY <1>2, <3>1, AskIs DEF Keys
  <2>4. out = d[<<type, key>>]
    BY <2>3 DEF Outcome, Decode, DecoderOf
  <2>5. Meant(type, way, doc, useTag) = m[at] /\ at[1] = type /\ at[2] = way
    BY DEF Meant
  <2>6. answer = [value |-> out.value, errs |-> out.errs]
    BY <1>5
  <2> HIDE DEF u, type, way, doc, useTag
  <2>7. AgreesAt(Outcomes(u), Meanings(doc, useTag), Root, <<type, way>>)
    BY ONLY <2>2, <2>3, DecodedAsMeant
  <2> HIDE DEF m, d, at, answer, out
  <2>8. AgreesAt(d, m, Root, at)
    BY <2>7 DEF m, d, at
  <2>9. m[at].fits => out = Good(m[at].value)
    BY <1>1, <2>4, <2>5, <2>8 DEF AgreesAt
  <2>10. m[at].fits => answer = [value |-> m[at].value, errs |-> {}]
    BY <2>6, <2>9 DEF Good
  <2>11. IsMeant(answer, m[at])
    BY <2>10 DEF IsMeant
  <2> QED
    BY <2>5, <2>11 DEF type, way, doc, useTag
<1> HIDE DEF c, answer, a
<1>6. call'[r] = c /\ \A q \in Callers \ {r} : call'[q] = call[q]
  BY <1>1, <1>2
<1>7. /\ call'[r].at = "done"
      /\ call'[r].steady /\ call'[r].answer # Panic /\ WellDescribed(call'[r]) =>
            IsMeant(call'[r].answer, Meant(call'[r].ask.type, call'[r].ask.below, Document, call'[r].ask.tag))
  BY <1>4, <1>5, <1>6
<1> QED
  BY <1>1, <1>6, <1>7, SteadyKept

LEMMA SteadyIsInductive == IInv /\ SteadyFits /\ [Next]_vars => SteadyFits'
<1> SUFFICES ASSUME IInv, SteadyFits, [Next]_vars PROVE SteadyFits'
  OBVIOUS
<1>1. ASSUME NEW p \in Range(Paths), NEW c \in Contents[p], Load(p, c) PROVE SteadyFits'
  BY <1>1, SteadyAfterLoad
<1>2. ASSUME NEW r \in Callers, NEW a \in Asks, Begin(r, a) PROVE SteadyFits'
  BY <1>2, SteadyAfterBegin
<1>3. ASSUME NEW r \in Callers, Meet(r) \/ LookUp(r) \/ Descend(r) \/ Store(r) PROVE SteadyFits'
  BY <1>3, SteadyWhileDescribing
<1>4. ASSUME NEW r \in Callers, Fail(r) PROVE SteadyFits'
  BY <1>4, SteadyAfterFail
<1>5. ASSUME NEW r \in Callers, Answer(r) PROVE SteadyFits'
  BY <1>5, SteadyAfterAnswer
<1>6. CASE UNCHANGED vars
  BY <1>6 DEF vars, SteadyFits, SteadyCall, WellDescribed, Config, Document
<1> QED
  BY <1>1, <1>2, <1>3, <1>4, <1>5, <1>6 DEF Next

LEMMA SteadyImpliesMeant == IInv /\ SteadyFits => UnmarshalledAsMeant
<1> SUFFICES ASSUME SteadyFits, NEW r \in Callers, call[r].at = "done", call[r].steady, call[r].answer # Panic,
                    WellDescribed(call[r])
             PROVE  IsMeant(call[r].answer,
                            Meant(call[r].ask.type, call[r].ask.below, Document, call[r].ask.tag))
  BY DEF UnmarshalledAsMeant, WellDescribed, AsAsked
<1> QED
  BY DEF SteadyFits, SteadyCall

(* Documents of any shape, in any number of paths, flattened, laid over    *)
(* one another key by key and put together again: a variable gets what the *)
(* documents laid over one another say, with no errors, if its structs     *)
(* were described as asked (unmarshal.go:111-488, base.go:52-88).          *)
THEOREM UnmarshalIsMeant == Spec => []UnmarshalledAsMeant
<1>1. Init => SteadyFits
  BY SteadyAtFirst
<1>2. IInv /\ SteadyFits /\ [Next]_vars => SteadyFits'
  BY SteadyIsInductive
<1>3. IInv /\ SteadyFits => UnmarshalledAsMeant
  BY SteadyImpliesMeant
<1> QED
  BY <1>1, <1>2, <1>3, InvAlways, PTL DEF Spec
=============================================================================
