-------------------------- MODULE Sequence_lemmas ---------------------------
(***************************************************************************)
(* What the proofs about several components need of sequences: the order   *)
(* of sources and of stores by priority (sort.Slice), queues of batches of *)
(* which one is taken out, the first position with a property.             *)
(***************************************************************************)
EXTENDS SequencesExt, SequenceTheorems, FiniteSetTheorems, WellFoundedInduction, TLAPS

(* No element comes twice.                                                 *)
Distinct(s) == \A i, j \in DOMAIN s : s[i] = s[j] => i = j

(* The first of a nonempty set of positions.                               *)
LEMMA MinIsLeast ==
    ASSUME NEW S \in SUBSET Nat, S # {}
    PROVE  Min(S) \in S /\ \A x \in S : Min(S) <= x
<1> DEFINE Less == {r \in Nat \X Nat : r[1] < r[2]}
<1>1. IsWellFoundedOn(Less, Nat)
  BY NatLessThanWellFounded DEF OpToRel
<1>2. \A x, y \in Nat : y < x => <<y, x>> \in Less
  OBVIOUS
<1> HIDE DEF Less
<1>3. PICK x \in S : \A y \in S : <<y, x>> \notin Less
  BY <1>1, WFMin
<1>4. ASSUME NEW y \in S PROVE x <= y
  <2>1. x \in Nat /\ y \in Nat
    OBVIOUS
  <2>2. ~(y < x)
    BY <1>2, <1>3, <2>1, Zenon
  <2> QED
    BY <2>1, <2>2
<1> QED
  BY <1>4 DEF Min

(* Induction, as the absence of a least counterexample.                    *)
LEMMA Least ==
    ASSUME NEW Good, NEW n \in Nat, n \notin Good
    PROVE  \E m \in Nat : /\ m <= n /\ m \notin Good
                          /\ \A i \in 0..m - 1 : i \in Good
<1> DEFINE Bad == {m \in Nat : m \notin Good}
<1>1. Bad \in SUBSET Nat /\ n \in Bad
  OBVIOUS
<1>2. PICK m \in Bad : \A i \in Bad : m <= i
  BY <1>1, MinIsLeast
<1>3. \A i \in 0..m - 1 : i \in Good
  BY <1>2
<1> QED
  BY <1>1, <1>2, <1>3

LEMMA ToSetType ==
    ASSUME NEW S, NEW seq \in Seq(S)
    PROVE  ToSet(seq) \subseteq S
BY ElementOfSeq, LenProperties DEF ToSet

LEMMA ToSetAppend ==
    ASSUME NEW S, NEW seq \in Seq(S), NEW e \in S
    PROVE  ToSet(Append(seq, e)) = ToSet(seq) \cup {e} /\ Append(seq, e) \in Seq(S)
BY AppendProperties DEF ToSet

(* What is left of a sequence once its head has been looked at.            *)
LEMMA ToSetTail ==
    ASSUME NEW S, NEW seq \in Seq(S), seq # <<>>
    PROVE  /\ Head(seq) \in ToSet(seq) /\ Head(seq) = seq[1] /\ Tail(seq) \in Seq(S)
           /\ ToSet(seq) = ToSet(Tail(seq)) \cup {Head(seq)}
<1>1. /\ DOMAIN seq = 1..Len(seq) /\ Len(seq) \in Nat \ {0}
      /\ Tail(seq) \in Seq(S) /\ DOMAIN Tail(seq) = 1..Len(seq) - 1
      /\ \A i \in 1..Len(seq) - 1 : Tail(seq)[i] = seq[i + 1]
  BY HeadTailProperties, LenProperties, EmptySeq
<1>2. Head(seq) = seq[1]
  BY <1>1
<1>3. ASSUME NEW i \in DOMAIN seq, i # 1
      PROVE  seq[i] \in ToSet(Tail(seq))
  <2>1. i - 1 \in DOMAIN Tail(seq) /\ Tail(seq)[i - 1] = seq[i]
    BY <1>1, <1>3
  <2> QED
    BY <2>1 DEF ToSet
<1>4. ToSet(Tail(seq)) \subseteq ToSet(seq)
  BY <1>1 DEF ToSet
<1> QED
  BY <1>1, <1>2, <1>3, <1>4 DEF ToSet

LEMMA ToSetConcat ==
    ASSUME NEW S, NEW s \in Seq(S), NEW t \in Seq(S)
    PROVE  s \o t \in Seq(S) /\ ToSet(s \o t) = ToSet(s) \cup ToSet(t)
<1>1. /\ s \o t \in Seq(S) /\ Len(s \o t) = Len(s) + Len(t)
      /\ \A i \in 1..Len(s) + Len(t) :
            (s \o t)[i] = IF i <= Len(s) THEN s[i] ELSE t[i - Len(s)]
      /\ Len(s) \in Nat /\ Len(t) \in Nat
      /\ DOMAIN s = 1..Len(s) /\ DOMAIN t = 1..Len(t)
      /\ DOMAIN (s \o t) = 1..Len(s) + Len(t)
  BY ConcatProperties, LenProperties
<1>2. ASSUME NEW i \in DOMAIN t PROVE t[i] \in ToSet(s \o t)
  <2>1. /\ Len(s) + i \in DOMAIN (s \o t)
        /\ (s \o t)[Len(s) + i] = t[i]
    BY <1>1
  <2> QED
    BY <2>1 DEF ToSet
<1>3. ASSUME NEW i \in DOMAIN s PROVE s[i] \in ToSet(s \o t)
  <2>1. i \in DOMAIN (s \o t) /\ (s \o t)[i] = s[i]
    BY <1>1
  <2> QED
    BY <2>1 DEF ToSet
<1>4. ASSUME NEW i \in DOMAIN (s \o t) PROVE (s \o t)[i] \in ToSet(s) \cup ToSet(t)
  <2>1. CASE i <= Len(s)
    BY <1>1, <2>1 DEF ToSet
  <2>2. CASE ~(i <= Len(s))
    <3>1. i - Len(s) \in DOMAIN t /\ (s \o t)[i] = t[i - Len(s)]
      BY <1>1, <2>2
    <3> QED
      BY <3>1 DEF ToSet
  <2> QED
    BY <2>1, <2>2
<1> QED
  BY <1>1, <1>2, <1>3, <1>4 DEF ToSet

LEMMA RemoveAtType ==
    ASSUME NEW S, NEW seq \in Seq(S), NEW i \in DOMAIN seq
    PROVE  RemoveAt(seq, i) \in Seq(S)
<1>1. i \in 1..Len(seq) /\ Len(seq) \in Nat
  BY LenProperties
<1>2. SubSeq(seq, 1, i-1) \in Seq(S) /\ SubSeq(seq, i+1, Len(seq)) \in Seq(S)
  BY <1>1, SubSeqProperties
<1> QED
  BY <1>2, ConcatProperties DEF RemoveAt

(* Taking out the element at i moves up those behind it.                   *)
LEMMA RemoveAtProperties ==
    ASSUME NEW S, NEW seq \in Seq(S), NEW i \in DOMAIN seq
    PROVE  /\ DOMAIN RemoveAt(seq, i) = 1..Len(seq) - 1
           /\ \A j \in 1..Len(seq) - 1 :
                 /\ j < i => RemoveAt(seq, i)[j] = seq[j]
                 /\ j >= i => RemoveAt(seq, i)[j] = seq[j + 1]
<1> DEFINE n == Len(seq)
           a == SubSeq(seq, 1, i-1)
           b == SubSeq(seq, i+1, n)
<1>1. i \in 1..n /\ n \in Nat
  BY LenProperties
<1>2. /\ a \in Seq(S) /\ Len(a) = i - 1 /\ \A j \in 1..i-1 : a[j] = seq[j]
      /\ b \in Seq(S) /\ Len(b) = n - i /\ \A j \in 1..n-i : b[j] = seq[i + j]
  <2>1. \A j \in 1..i-1 : seq[j] \in S
    BY <1>1, ElementOfSeq
  <2>2. \A j \in i+1..n : seq[j] \in S
    BY <1>1, ElementOfSeq
  <2>3. a \in Seq(S) /\ Len(a) = i - 1 /\ \A j \in 1..i-1 : a[j] = seq[j]
    BY <1>1, <2>1, SubSeqProperties
  <2>4. b \in Seq(S) /\ Len(b) = n - i /\ \A j \in 1..n-i : b[j] = seq[i + j]
    BY <1>1, <2>2, SubSeqProperties
  <2> QED
    BY <2>3, <2>4
<1>3. /\ a \o b \in Seq(S) /\ Len(a \o b) = n - 1
      /\ \A j \in 1..n - 1 : (a \o b)[j] = IF j <= i - 1 THEN a[j] ELSE b[j - (i - 1)]
  <2> HIDE DEF a, b
  <2>1. /\ a \o b \in Seq(S)
        /\ Len(a \o b) = Len(a) + Len(b)
        /\ \A j \in 1..Len(a) + Len(b) :
              (a \o b)[j] = IF j <= Len(a) THEN a[j] ELSE b[j - Len(a)]
    BY ONLY <1>2, ConcatProperties
  <2>2. Len(a) + Len(b) = n - 1
    BY <1>1, <1>2
  <2> QED
    BY <1>2, <2>1, <2>2
<1>4. DOMAIN (a \o b) = 1..n - 1
  BY <1>3, LenProperties
<1>5. ASSUME NEW j \in 1..n - 1
      PROVE  /\ j < i => (a \o b)[j] = seq[j]
             /\ j >= i => (a \o b)[j] = seq[j + 1]
  <2>1. ASSUME j < i PROVE (a \o b)[j] = seq[j]
    BY <1>1, <1>2, <1>3, <2>1
  <2>2. ASSUME j >= i PROVE (a \o b)[j] = seq[j + 1]
    <3> HIDE DEF a, b, n
    <3>1. (a \o b)[j] = b[j - (i - 1)] /\ j - (i - 1) \in 1..n-i
      BY <1>1, <1>3, <2>2
    <3>2. i + (j - (i - 1)) = j + 1
      BY <1>1
    <3> QED
      BY <1>2, <3>1, <3>2
  <2> QED
    BY <2>1, <2>2
<1>6. RemoveAt(seq, i) = a \o b
  BY DEF RemoveAt
<1> QED
  BY <1>4, <1>5, <1>6

(* Nothing comes twice in a rearrangement of what holds nothing twice.     *)
LEMMA RearrangedIsDistinct ==
    ASSUME NEW S, NEW s \in Seq(S), Distinct(s),
           NEW order \in [1..Len(s) -> ToSet(s)], ToSet(order) = ToSet(s)
    PROVE  Distinct(order) /\ order \in Seq(S)
<1> DEFINE n == Len(s)
           T == ToSet(s)
<1>1. DOMAIN s = 1..n /\ n \in Nat /\ T \subseteq S
  BY LenProperties, ToSetType
<1>2. s \in Bijection(1..n, T)
  BY <1>1 DEF Bijection, Injection, Surjection, IsInjective, Distinct, ToSet
<1>3. IsFiniteSet(1..n) /\ Cardinality(T) = Cardinality(1..n)
  <2>1. ExistsBijection(1..n, T)
    BY <1>2 DEF ExistsBijection
  <2> QED
    BY <1>1, <2>1, FS_Interval, FS_Bijection
<1>4. order \in Surjection(1..n, T)
  BY DEF Surjection, ToSet
<1>5. order \in Seq(S)
  BY <1>1, SeqDef
<1> HIDE DEF n, T
<1>6. order \in Injection(1..n, T)
  BY <1>3, <1>4, FS_SurjSameCardinalityImpliesInj
<1> QED
  BY <1>5, <1>6 DEF Injection, IsInjective, Distinct, n
=============================================================================
