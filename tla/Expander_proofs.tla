-------------------------- MODULE Expander_proofs ---------------------------
(***************************************************************************)
(* What holds of the expander whatever the keys, the values and the number *)
(* of readers.                                                             *)
(*                                                                         *)
(* TypesInv types what the maps and the calls hold, and says that a call   *)
(* that waits is at a reference.  Open relates pending to the calls of the *)
(* one reader.                                                             *)
(*                                                                         *)
(* For the answers, the meaning of the keys is first shown to be a         *)
(* fixpoint: Cardinality(Keys) levels are enough, because a level that     *)
(* adds no key is the last, and because a circle of references means       *)
(* nothing.  ValuesInv then says of every call that its builder holds the  *)
(* meaning of the parts dealt with (Done), and that every call waits for   *)
(* the key of the one above it (Chain).  Recursive functions are reasoned  *)
(* about by the least counterexample there would be (Least).               *)
(***************************************************************************)
EXTENDS Expander, Sequence_lemmas

(***************************************************************************)
(* Types.                                                                  *)
(***************************************************************************)
Left == Part \cup {Lit(x) : x \in Objects}

(* What the maps and a reader hold, part by part.                          *)
CacheTyped(c) == DOMAIN c = Keys /\ \A k \in Keys : c[k] = Nothing \/ IsResult(c[k])
RetTyped == DOMAIN ret = Readers
            /\ \A r \in Readers : ret[r] \in {Nothing, Error} \/ IsResult(ret[r])

LEMMA LeftKinds ==
    ASSUME NEW e \in Left
    PROVE  /\ e.kind \in {"lit", "ref"}
           /\ e.kind = "lit" => e.of \in Piece
           /\ e.kind = "ref" => e.of \in Keys
BY DEF Left, Part, Lit, Ref, Piece

LEMMA ValueTyped ==
    ASSUME NEW k \in Keys, NEW c, CacheTyped(c), raw \in [Keys -> Raws]
    PROVE  \/ ValueOf(k, c) = Missing
           \/ ValueOf(k, c).kind = "object" /\ IsObject(ValueOf(k, c))
           \/ ValueOf(k, c).kind = "template" /\ ValueOf(k, c).of \in Seq(Left)
<1>1. CASE c[k] = Nothing
  <2>1. raw[k] \in Raws /\ ValueOf(k, c) = raw[k]
    BY <1>1 DEF ValueOf
  <2>2. raw[k] = Missing \/ IsObject(raw[k]) \/ IsTemplate(raw[k])
    BY <2>1, ExpanderAssumption
  <2>3. ASSUME IsObject(raw[k]) PROVE raw[k].kind = "object"
    BY <2>3 DEF IsObject, Object
  <2>4. ASSUME IsTemplate(raw[k]) PROVE raw[k].kind = "template" /\ raw[k].of \in Seq(Left)
    <3>1. raw[k].of \in Seq(Part) /\ raw[k].kind = "template"
      BY <2>4 DEF IsTemplate, Template
    <3> QED
      BY <3>1 DEF Left
  <2> QED
    BY <2>1, <2>2, <2>3, <2>4
<1>2. CASE c[k] # Nothing /\ IsObject(c[k])
  <2>1. c[k].kind = "object"
    BY <1>2 DEF IsObject, Object
  <2> QED
    BY <1>2, <2>1 DEF ValueOf, AsTemplate
<1>3. CASE c[k] # Nothing /\ IsText(c[k])
  <2> DEFINE p == c[k].of
             lits == [i \in DOMAIN p |-> Lit(p[i])]
  <2>1. c[k].kind = "text" /\ p \in Seq(Piece)
    BY <1>3 DEF IsText, Text
  <2>2. ValueOf(k, c) = Template(lits)
    BY <1>3, <2>1 DEF ValueOf, AsTemplate
  <2>3. lits \in Seq(Left)
    <3>1. DOMAIN p = 1..Len(p) /\ Len(p) \in Nat /\ \A i \in 1..Len(p) : p[i] \in Piece
      BY <2>1, LenProperties, ElementOfSeq
    <3>2. \A i \in 1..Len(p) : Lit(p[i]) \in Left
      BY <3>1 DEF Left, Part, Piece
    <3> HIDE DEF p
    <3>3. lits \in [1..Len(p) -> Left]
      BY <3>1, <3>2
    <3> QED
      BY <3>1, <3>3, SeqDef
  <2> HIDE DEF lits
  <2> QED
    BY <2>2, <2>3 DEF Template
<1> QED
  BY <1>1, <1>2, <1>3 DEF CacheTyped, IsResult

LEMMA FrameTyped ==
    ASSUME NEW k \in Keys, NEW parts \in Seq(Left)
    PROVE  Frame(k, parts) \in Calls
BY EmptySeq DEF Frame, Calls, Left

LEMMA EnterTyped ==
    ASSUME raw \in [Keys -> Raws], stack \in [Readers -> Seq(Calls)], RetTyped,
           NEW r \in Readers, NEW k \in Keys, NEW calls \in Seq(Calls),
           NEW c, CacheTyped(c), NEW open \in SUBSET Keys, Enter(r, k, calls, c, open)
    PROVE  /\ CacheTyped(cache)' /\ pending' \subseteq Keys
           /\ stack' \in [Readers -> Seq(Calls)] /\ RetTyped'
<1> DEFINE v == ValueOf(k, c)
<1>1. \/ v = Missing
      \/ v.kind = "object" /\ IsObject(v)
      \/ v.kind = "template" /\ v.of \in Seq(Left)
  BY ValueTyped
<1> HIDE DEF v
<1>2. cache' = c
  BY DEF Enter
<1>3. CASE Fail(r) /\ pending' = open
  BY <1>2, <1>3 DEF Fail, RetTyped, CacheTyped
<1>4. CASE /\ v.kind = "object" /\ stack' = [stack EXCEPT ![r] = calls]
           /\ ret' = [ret EXCEPT ![r] = v] /\ pending' = open
  <2>1. IsResult(v)
    BY <1>1, <1>4 DEF IsResult, Missing
  <2> QED
    BY <1>2, <1>4, <2>1 DEF RetTyped, CacheTyped
<1>5. CASE /\ v.kind = "template" /\ stack' = [stack EXCEPT ![r] = Append(calls, Frame(k, v.of))]
           /\ ret' = [ret EXCEPT ![r] = Nothing] /\ pending' = open \cup {k}
  <2>1. v.of \in Seq(Left)
    BY <1>1, <1>5 DEF Missing
  <2>2. Append(calls, Frame(k, v.of)) \in Seq(Calls)
    BY <2>1, FrameTyped, AppendProperties
  <2> QED
    BY <1>2, <1>5, <2>2 DEF RetTyped, CacheTyped
<1> QED
  BY <1>3, <1>4, <1>5 DEF Enter, v

(* Taking out of what is left the part that has been dealt with.           *)
LEMMA RestTyped ==
    ASSUME NEW S, NEW parts \in Seq(S), NEW n \in 1..Len(parts)
    PROVE  /\ SubSeq(parts, 1, n - 1) \in Seq(S) /\ Len(SubSeq(parts, 1, n - 1)) = n - 1
           /\ \A i \in 1..n - 1 : SubSeq(parts, 1, n - 1)[i] = parts[i]
           /\ SubSeq(parts, n + 1, Len(parts)) \in Seq(S)
           /\ Len(SubSeq(parts, n + 1, Len(parts))) = Len(parts) - n
           /\ \A i \in 1..Len(parts) - n : SubSeq(parts, n + 1, Len(parts))[i] = parts[n + i]
<1>1. Len(parts) \in Nat /\ \A i \in 1..Len(parts) : parts[i] \in S
  BY LenProperties, ElementOfSeq
<1>2. /\ SubSeq(parts, 1, n - 1) \in Seq(S) /\ Len(SubSeq(parts, 1, n - 1)) = n - 1
      /\ \A i \in 1..n - 1 : SubSeq(parts, 1, n - 1)[i] = parts[i]
  BY <1>1, SubSeqProperties
<1>3. /\ SubSeq(parts, n + 1, Len(parts)) \in Seq(S)
      /\ Len(SubSeq(parts, n + 1, Len(parts))) = Len(parts) - n
      /\ \A i \in 1..Len(parts) - n : SubSeq(parts, n + 1, Len(parts))[i] = parts[n + i]
  BY <1>1, SubSeqProperties
<1> QED
  BY <1>2, <1>3

(* The call at the top and those below it.                                 *)
LEMMA FrontTyped ==
    ASSUME NEW s \in Seq(Calls), s # <<>>
    PROVE  /\ Front(s) \in Seq(Calls) /\ Len(s) \in Nat \ {0}
           /\ Len(Front(s)) = Len(s) - 1
           /\ \A i \in 1..Len(s) - 1 : Front(s)[i] = s[i]
<1>1. Len(s) \in Nat \ {0}
  BY EmptySeq, LenProperties
<1>2. Len(s) \in 1..Len(s)
  BY <1>1
<1> QED
  BY <1>1, <1>2, RestTyped DEF Front

LEMMA TopTyped ==
    ASSUME stack \in [Readers -> Seq(Calls)], NEW r \in Readers, stack[r] # <<>>
    PROVE  /\ Len(stack[r]) \in Nat \ {0} /\ Top(r) = stack[r][Len(stack[r])]
           /\ Top(r) \in Calls /\ Below(r) \in Seq(Calls)
           /\ Len(Below(r)) = Len(stack[r]) - 1
           /\ \A i \in 1..Len(stack[r]) - 1 : Below(r)[i] = stack[r][i]
<1>1. stack[r] \in Seq(Calls)
  OBVIOUS
<1>2. /\ Front(stack[r]) \in Seq(Calls) /\ Len(stack[r]) \in Nat \ {0}
      /\ Len(Front(stack[r])) = Len(stack[r]) - 1
      /\ \A i \in 1..Len(stack[r]) - 1 : Front(stack[r])[i] = stack[r][i]
  BY <1>1, FrontTyped
<1>3. stack[r][Len(stack[r])] \in Calls
  BY <1>1, <1>2, ElementOfSeq
<1> QED
  BY <1>2, <1>3 DEF Top, Below, Last

LEMMA CallFields ==
    ASSUME NEW f \in Calls
    PROVE  /\ f.key \in Keys /\ f.rest \in Seq(Left) /\ f.built \in Seq(Piece)
           /\ f.expanded \in BOOLEAN
BY DEF Calls, Left

(* The next reference is the first one: what is before it is text.         *)
LEMMA NextIsFirst ==
    ASSUME NEW parts \in Seq(Left), HasNext(parts)
    PROVE  /\ NextRef(parts) \in DOMAIN parts /\ NextRef(parts) \in 1..Len(parts)
           /\ parts[NextRef(parts)].kind = "ref" /\ parts[NextRef(parts)].of \in Keys
           /\ \A i \in 1..NextRef(parts) - 1 : parts[i].kind = "lit"
<1>1. DOMAIN parts = 1..Len(parts) /\ Len(parts) \in Nat
  BY LenProperties
<1>2. RefsIn(parts) \in SUBSET Nat /\ RefsIn(parts) # {}
  BY <1>1 DEF RefsIn, HasNext
<1>3. NextRef(parts) \in RefsIn(parts) /\ \A x \in RefsIn(parts) : NextRef(parts) <= x
  BY <1>2, MinIsLeast DEF NextRef
<1>4. NextRef(parts) \in 1..Len(parts) /\ parts[NextRef(parts)].kind = "ref"
  BY <1>1, <1>3 DEF RefsIn
<1>5. parts[NextRef(parts)] \in Left
  BY <1>4, ElementOfSeq
<1>6. ASSUME NEW i \in 1..NextRef(parts) - 1 PROVE parts[i].kind = "lit"
  <2>1. i \in 1..Len(parts) /\ ~(NextRef(parts) <= i)
    BY <1>1, <1>4
  <2>2. parts[i] \in Left
    BY <2>1, ElementOfSeq
  <2>3. i \notin RefsIn(parts)
    BY <1>3, <2>1
  <2> QED
    BY <1>1, <2>1, <2>2, <2>3, LeftKinds DEF RefsIn
<1> QED
  BY <1>1, <1>4, <1>5, <1>6, LeftKinds

(* The pieces of literals.                                                 *)
LEMMA PiecesOfLiterals ==
    ASSUME NEW parts \in Seq(Left), \A i \in 1..Len(parts) : parts[i].kind = "lit"
    PROVE  Pieces(parts) \in Seq(Piece) /\ Len(Pieces(parts)) = Len(parts)
<1>1. DOMAIN parts = 1..Len(parts) /\ Len(parts) \in Nat
      /\ \A i \in 1..Len(parts) : parts[i] \in Left
  BY LenProperties, ElementOfSeq
<1>2. \A i \in 1..Len(parts) : parts[i].of \in Piece
  BY <1>1, LeftKinds
<1>3. Pieces(parts) = [i \in 1..Len(parts) |-> parts[i].of]
  BY <1>1 DEF Pieces
<1>4. [i \in 1..Len(parts) |-> parts[i].of] \in Seq(Piece)
      /\ Len([i \in 1..Len(parts) |-> parts[i].of]) = Len(parts)
  BY <1>1, <1>2
<1> QED
  BY <1>3, <1>4

LEMMA NoReferenceIsLiteral ==
    ASSUME NEW parts \in Seq(Left), ~HasNext(parts)
    PROVE  \A i \in 1..Len(parts) : parts[i].kind = "lit"
<1> SUFFICES ASSUME NEW i \in 1..Len(parts) PROVE parts[i].kind = "lit"
  OBVIOUS
<1>1. parts[i] \in Left /\ i \in DOMAIN parts
  BY LenProperties, ElementOfSeq
<1>2. parts[i].kind # "ref"
  BY <1>1 DEF HasNext, RefsIn
<1> QED
  BY <1>1, <1>2, LeftKinds

LEMMA CastTyped ==
    ASSUME NEW dst, IsResult(dst), CanCast(dst)
    PROVE  Cast(dst) \in Seq(Piece)
<1>1. CASE IsText(dst)
  BY <1>1 DEF IsText, Text, Cast
<1>2. CASE IsObject(dst)
  <2>1. PICK x \in Objects : dst = Object(x)
    BY <1>2 DEF IsObject
  <2> QED
    BY <2>1 DEF Object, Cast, Piece
<1> QED
  BY <1>1, <1>2 DEF IsResult

LEMMA FinishTyped ==
    ASSUME stack \in [Readers -> Seq(Calls)], RetTyped, CacheTyped(cache), pending \subseteq Keys,
           NEW r \in Readers, stack[r] # <<>>,
           NEW value, IsResult(value), NEW expanded, Finish(r, value, expanded)
    PROVE  /\ CacheTyped(cache)' /\ pending' \subseteq Keys
           /\ stack' \in [Readers -> Seq(Calls)] /\ RetTyped'
<1>1. Top(r) \in Calls /\ Below(r) \in Seq(Calls)
  BY TopTyped
<1>2. Top(r).key \in Keys
  BY <1>1, CallFields
<1>3. CacheTyped(cache)'
  BY <1>2 DEF Finish, CacheTyped
<1>4. RetTyped'
  BY DEF Finish, RetTyped
<1> QED
  BY <1>1, <1>3, <1>4 DEF Finish

(* A call below the top, and the top one when its callee has answered, is  *)
(* at a reference.                                                         *)
Waits(s) == \A i \in 1..Len(s) : HasNext(s[i].rest)
Waiting(r) == /\ stack[r] # <<>> => Waits(Below(r))
              /\ ret[r] # Nothing => Waits(stack[r])

TypesInv ==
    /\ raw \in [Keys -> Raws]
    /\ CacheTyped(cache) /\ pending \subseteq Keys
    /\ stack \in [Readers -> Seq(Calls)] /\ RetTyped
    /\ asked \in [Readers -> Keys \cup {NoKey}]
    /\ reads \in 0..MaxReads
    /\ \A r \in Readers : stack[r] # <<>> => ret[r] # Error
    /\ \A r \in Readers : Waiting(r)

LEMMA BelowAppend ==
    ASSUME NEW s \in Seq(Calls), NEW f \in Calls
    PROVE  Front(Append(s, f)) = s /\ Append(s, f) # <<>>
<1>1. Append(s, f) \in Seq(Calls) /\ Len(Append(s, f)) = Len(s) + 1 /\ Len(s) \in Nat
      /\ \A i \in 1..Len(s) : Append(s, f)[i] = s[i]
  BY AppendProperties, LenProperties
<1>2. /\ SubSeq(Append(s, f), 1, Len(s)) \in Seq(Calls)
      /\ Len(SubSeq(Append(s, f), 1, Len(s))) = Len(s)
      /\ \A i \in 1..Len(s) : SubSeq(Append(s, f), 1, Len(s))[i] = s[i]
  <2> DEFINE t == Append(s, f)
  <2>1. t \in Seq(Calls) /\ Len(t) = Len(s) + 1 /\ \A i \in 1..Len(s) : t[i] \in Calls
    BY <1>1, ElementOfSeq
  <2> HIDE DEF t
  <2>2. /\ SubSeq(t, 1, Len(s)) \in Seq(Calls)
        /\ Len(SubSeq(t, 1, Len(s))) = Len(s)
        /\ \A i \in 1..Len(s) : SubSeq(t, 1, Len(s))[i] = t[i]
    <3>1. 1 \in Nat /\ Len(s) \in 1 - 1 .. Len(t)
      BY <1>1, <2>1
    <3> QED
      BY <2>1, <3>1, <1>1, SubSeqProperties
  <2> QED
    BY <1>1, <2>2 DEF t
<1>3. SubSeq(Append(s, f), 1, Len(s)) = s
  BY <1>2, SeqEqual
<1> QED
  BY <1>1, <1>3, EmptySeq DEF Front

LEMMA WaitsFront ==
    ASSUME NEW s \in Seq(Calls), s # <<>>, Waits(s)
    PROVE  Waits(Front(s))
<1>1. /\ Len(Front(s)) = Len(s) - 1 /\ Len(s) \in Nat
      /\ \A i \in 1..Len(s) - 1 : Front(s)[i] = s[i]
  BY FrontTyped
<1>2. 1..Len(Front(s)) = 1..Len(s) - 1 /\ 1..Len(s) - 1 \subseteq 1..Len(s)
  BY <1>1
<1> QED
  BY <1>1, <1>2 DEF Waits

(* doExpand's beginning, in terms of the reader's stack.                   *)
LEMMA EnterWaiting ==
    ASSUME raw \in [Keys -> Raws], stack \in [Readers -> Seq(Calls)], RetTyped,
           NEW r \in Readers, NEW k \in Keys, NEW calls \in Seq(Calls), Waits(calls),
           NEW c, CacheTyped(c), NEW open, Enter(r, k, calls, c, open),
           \A q \in Readers : Waiting(q)
    PROVE  \A q \in Readers : Waiting(q)'
<1> SUFFICES ASSUME NEW q \in Readers PROVE Waiting(q)'
  OBVIOUS
<1>1. CASE q # r
  BY <1>1 DEF Enter, Fail, Waiting, Below, RetTyped
<1> DEFINE v == ValueOf(k, c)
<1>2. CASE q = r /\ Fail(r)
  BY <1>2, EmptySeq DEF Fail, Waiting, Waits
<1>3. CASE /\ q = r /\ stack' = [stack EXCEPT ![r] = calls]
           /\ ret' = [ret EXCEPT ![r] = v]
  <2>1. stack'[r] = calls
    BY <1>3
  <2>2. ASSUME calls # <<>> PROVE Waits(Front(calls))
    BY <2>2, WaitsFront
  <2> QED
    BY <1>3, <2>1, <2>2 DEF Waiting, Below
<1>4. CASE /\ q = r /\ v.kind = "template"
           /\ stack' = [stack EXCEPT ![r] = Append(calls, Frame(k, v.of))]
           /\ ret' = [ret EXCEPT ![r] = Nothing]
  <2>1. v.of \in Seq(Left)
    BY <1>4, ValueTyped DEF IsObject, Object, Missing
  <2>2. Frame(k, v.of) \in Calls
    BY <2>1, FrameTyped
  <2>3. Front(Append(calls, Frame(k, v.of))) = calls
    BY <2>2, BelowAppend
  <2>4. stack'[r] = Append(calls, Frame(k, v.of)) /\ ret'[r] = Nothing
    BY <1>4 DEF RetTyped
  <2> QED
    BY <1>4, <2>3, <2>4 DEF Waiting, Below
<1> QED
  BY <1>1, <1>2, <1>3, <1>4 DEF Enter

LEMMA FinishWaiting ==
    ASSUME stack \in [Readers -> Seq(Calls)], RetTyped,
           NEW r \in Readers, stack[r] # <<>>,
           NEW value, NEW expanded, Finish(r, value, expanded),
           \A q \in Readers : Waiting(q)
    PROVE  \A q \in Readers : Waiting(q)'
<1> SUFFICES ASSUME NEW q \in Readers PROVE Waiting(q)'
  OBVIOUS
<1>1. CASE q # r
  BY <1>1 DEF Finish, Waiting, Below, RetTyped
<1>2. CASE q = r
  <2> DEFINE calls == Below(r)
  <2>1. calls \in Seq(Calls) /\ Waits(calls)
    BY TopTyped DEF Waiting
  <2>2. stack'[r] = calls
    BY DEF Finish
  <2> HIDE DEF calls
  <2>3. ASSUME calls # <<>> PROVE Waits(Front(calls))
    BY <2>1, <2>3, WaitsFront
  <2> QED
    BY <1>2, <2>1, <2>2, <2>3 DEF Waiting, Below
<1> QED
  BY <1>1, <1>2

LEMMA TypesStep == TypesInv /\ [Next]_vars => TypesInv'
<1> SUFFICES ASSUME TypesInv, [Next]_vars PROVE TypesInv'
  OBVIOUS
<1> USE DEF TypesInv
<1>1. CASE UNCHANGED vars
  BY <1>1 DEF vars, CacheTyped, RetTyped, Waiting, Below
<1>2. ASSUME NEW r \in Readers, NEW k \in Keys, Get(r, k) PROVE TypesInv'
  <2>1. Enter(r, k, <<>>, NoCache, {})
    BY <1>2 DEF Get
  <2>2. /\ CacheTyped(cache)' /\ pending' \subseteq Keys
        /\ stack' \in [Readers -> Seq(Calls)] /\ RetTyped'
    <3>1. CacheTyped(NoCache)
      BY DEF CacheTyped, NoCache
    <3>2. <<>> \in Seq(Calls) /\ {} \in SUBSET Keys
      OBVIOUS
    <3> QED
      BY <2>1, <3>1, <3>2, EnterTyped
  <2>3. \A q \in Readers : stack'[q] # <<>> => ret'[q] # Error
    BY <1>2, <2>1 DEF Get, Enter, Fail, RetTyped, Nothing, Error
  <2>4. asked' \in [Readers -> Keys \cup {NoKey}] /\ reads' \in 0..MaxReads /\ raw' = raw
    BY <1>2, ExpanderAssumption DEF Get
  <2>5. \A q \in Readers : Waiting(q)'
    <3>1. CacheTyped(NoCache)
      BY DEF CacheTyped, NoCache
    <3>2. <<>> \in Seq(Calls) /\ Waits(<<>>)
      BY EmptySeq DEF Waits
    <3> QED
      BY <2>1, <3>1, <3>2, EnterWaiting
  <2> QED
    BY <2>2, <2>3, <2>4, <2>5
<1>3. ASSUME NEW r \in Readers, CallHandler(r) PROVE TypesInv'
  <2> DEFINE k == Top(r).rest[NextRef(Top(r).rest)].of
  <2>1. k \in Keys
    BY <1>3, TopTyped, CallFields, NextIsFirst DEF CallHandler
  <2>2. Enter(r, k, stack[r], cache, pending) /\ UNCHANGED <<raw, asked, reads>>
    BY <1>3 DEF CallHandler
  <2> HIDE DEF k
  <2>3. /\ CacheTyped(cache)' /\ pending' \subseteq Keys
        /\ stack' \in [Readers -> Seq(Calls)] /\ RetTyped'
    BY <2>1, <2>2, EnterTyped
  <2>4. \A q \in Readers : stack'[q] # <<>> => ret'[q] # Error
    <3>1. ASSUME NEW q \in Readers, q # r PROVE stack'[q] # <<>> => ret'[q] # Error
      BY <2>2, <3>1 DEF Enter, Fail, RetTyped
    <3>2. stack'[r] # <<>> => ret'[r] # Error
      BY <2>2 DEF Enter, Fail, RetTyped, Nothing, Error
    <3> QED
      BY <3>1, <3>2
  <2>5. Waits(stack[r])
    <3>1. stack[r] # <<>> /\ HasNext(Top(r).rest) /\ Waits(Below(r))
      BY <1>3 DEF CallHandler, Waiting
    <3>2. /\ Len(stack[r]) \in Nat \ {0} /\ Top(r) = stack[r][Len(stack[r])]
          /\ Len(Below(r)) = Len(stack[r]) - 1
          /\ \A i \in 1..Len(stack[r]) - 1 : Below(r)[i] = stack[r][i]
      BY <3>1, TopTyped
    <3>3. \A i \in 1..Len(stack[r]) : i \in 1..Len(stack[r]) - 1 \/ i = Len(stack[r])
      BY <3>2
    <3> QED
      BY <3>1, <3>2, <3>3 DEF Waits
  <2>6. \A q \in Readers : Waiting(q)'
    BY <2>1, <2>2, <2>5, EnterWaiting
  <2> QED
    BY <2>2, <2>3, <2>4, <2>6
<1>4. ASSUME NEW r \in Readers, NoMoreReferences(r) PROVE TypesInv'
  <2> DEFINE f == Top(r)
             value == Text(f.built \o Pieces(f.rest))
  <2>1. /\ stack[r] # <<>> /\ ~HasNext(f.rest)
        /\ Finish(r, value, f.expanded) /\ UNCHANGED <<raw, asked, reads>>
    BY <1>4 DEF NoMoreReferences
  <2>2. f.rest \in Seq(Left) /\ f.built \in Seq(Piece)
    BY <2>1, TopTyped, CallFields
  <2>3. Pieces(f.rest) \in Seq(Piece)
    BY <2>1, <2>2, NoReferenceIsLiteral, PiecesOfLiterals
  <2>4. IsResult(value)
    <3>1. f.built \o Pieces(f.rest) \in Seq(Piece)
      BY <2>2, <2>3, ConcatProperties
    <3> HIDE DEF f
    <3> QED
      BY <3>1 DEF IsResult, IsText, Text
  <2>5. value # Error
    BY DEF Text, Error
  <2> HIDE DEF value, f
  <2>6. /\ CacheTyped(cache)' /\ pending' \subseteq Keys
        /\ stack' \in [Readers -> Seq(Calls)] /\ RetTyped'
    BY <2>1, <2>4, FinishTyped
  <2>7. \A q \in Readers : stack'[q] # <<>> => ret'[q] # Error
    BY <2>1, <2>5 DEF Finish, RetTyped
  <2>8. \A q \in Readers : Waiting(q)'
    BY <2>1, FinishWaiting
  <2> QED
    BY <2>1, <2>6, <2>7, <2>8
<1>5. ASSUME NEW r \in Readers, Substitute(r) PROVE TypesInv'
  <2> DEFINE rest == Top(r).rest
             next == NextRef(rest)
             dst  == ret[r]
  <2>1. stack[r] # <<>> /\ ret[r] # Nothing /\ UNCHANGED <<raw, asked, reads>>
    BY <1>5 DEF Substitute
  <2>2. IsResult(dst) /\ dst # Error
    BY <2>1 DEF RetTyped
  <2>3. CASE Finish(r, dst, TRUE)
    <3> HIDE DEF dst
    <3>1. /\ CacheTyped(cache)' /\ pending' \subseteq Keys
          /\ stack' \in [Readers -> Seq(Calls)] /\ RetTyped'
      BY <2>1, <2>2, <2>3, FinishTyped
    <3>2. \A q \in Readers : stack'[q] # <<>> => ret'[q] # Error
      BY <2>2, <2>3 DEF Finish, RetTyped
    <3>3. \A q \in Readers : Waiting(q)'
      BY <2>1, <2>3, FinishWaiting
    <3> QED
      BY <2>1, <3>1, <3>2, <3>3
  <2>4. CASE Fail(r) /\ UNCHANGED <<cache, pending>>
    <3>1. \A q \in Readers : Waiting(q)'
      BY <2>4, EmptySeq DEF Fail, Waiting, Below, Waits, RetTyped
    <3> QED
      BY <2>1, <2>4, <3>1 DEF Fail, RetTyped, CacheTyped
  <2> DEFINE before == Pieces(SubSeq(rest, 1, next - 1))
             frame  == [Top(r) EXCEPT !.rest = SubSeq(rest, next + 1, Len(rest)),
                                      !.built = @ \o before \o Cast(dst),
                                      !.expanded = TRUE]
  <2>5. CASE /\ CanCast(dst) /\ HasNext(rest)
             /\ stack' = [stack EXCEPT ![r] = Append(Below(r), frame)]
             /\ ret' = [ret EXCEPT ![r] = Nothing]
             /\ UNCHANGED <<cache, pending>>
    <3>1. Top(r) \in Calls /\ Below(r) \in Seq(Calls) /\ rest \in Seq(Left)
          /\ Top(r).built \in Seq(Piece)
      BY <2>1, TopTyped, CallFields
    <3>2. next \in 1..Len(rest) /\ \A i \in 1..next - 1 : rest[i].kind = "lit"
      BY <2>5, <3>1, NextIsFirst
    <3> HIDE DEF rest, next, dst
    <3>3. /\ SubSeq(rest, 1, next - 1) \in Seq(Left)
          /\ Len(SubSeq(rest, 1, next - 1)) = next - 1
          /\ \A i \in 1..next - 1 : SubSeq(rest, 1, next - 1)[i] = rest[i]
          /\ SubSeq(rest, next + 1, Len(rest)) \in Seq(Left)
      BY <3>1, <3>2, RestTyped
    <3>4. before \in Seq(Piece)
      BY <3>2, <3>3, PiecesOfLiterals
    <3>5. Cast(dst) \in Seq(Piece)
      BY <2>2, <2>5, CastTyped
    <3> HIDE DEF before
    <3>6. Top(r).built \o before \o Cast(dst) \in Seq(Piece)
      BY <3>1, <3>4, <3>5, ConcatProperties
    <3>7. frame \in Calls
      BY <3>1, <3>3, <3>6 DEF Calls, Left
    <3> HIDE DEF frame
    <3>8. Append(Below(r), frame) \in Seq(Calls)
      BY <3>1, <3>7, AppendProperties
    <3>9. \A q \in Readers : Waiting(q)'
      <4>1. Front(Append(Below(r), frame)) = Below(r) /\ Waits(Below(r))
        BY <2>1, <3>1, <3>7, BelowAppend DEF Waiting
      <4>2. stack'[r] = Append(Below(r), frame) /\ ret'[r] = Nothing
        BY <2>5 DEF RetTyped
      <4>3. Waiting(r)'
        BY <4>1, <4>2 DEF Waiting, Below
      <4>4. ASSUME NEW q \in Readers, q # r PROVE Waiting(q)'
        BY <2>5, <4>4 DEF Waiting, Below, RetTyped
      <4> QED
        BY <4>3, <4>4
    <3>10. \A q \in Readers : stack'[q] # <<>> => ret'[q] # Error
      BY <2>5 DEF RetTyped, Nothing, Error
    <3>11. RetTyped' /\ CacheTyped(cache)'
      BY <2>5 DEF RetTyped, CacheTyped
    <3> QED
      BY <2>1, <2>5, <3>8, <3>9, <3>10, <3>11
  <2>6. HasNext(rest)
    <3>1. Waits(stack[r])
      BY <2>1 DEF Waiting
    <3> QED
      BY <2>1, <3>1, TopTyped DEF Waits
  <2> QED
    BY <1>5, <2>3, <2>4, <2>5, <2>6 DEF Substitute
<1>6. ASSUME NEW r \in Readers, Answer(r) PROVE TypesInv'
  <2>1. \A q \in Readers : Waiting(q)'
    BY <1>6 DEF Answer, Waiting, Below, RetTyped
  <2> QED
    BY <1>6, <2>1 DEF Answer, RetTyped, CacheTyped
<1> QED
  BY <1>1, <1>2, <1>3, <1>4, <1>5, <1>6 DEF Next, Step

LEMMA TypesInit == Init => TypesInv
<1> SUFFICES ASSUME Init PROVE TypesInv
  OBVIOUS
<1>1. CacheTyped(cache)
  BY DEF Init, NoCache, CacheTyped
<1>2. RetTyped /\ \A r \in Readers : Waiting(r)
  BY EmptySeq DEF Init, RetTyped, Waiting, Waits
<1> QED
  BY <1>1, <1>2, ExpanderAssumption DEF Init, TypesInv

LEMMA TypesHold == Spec => []TypesInv
BY TypesInit, TypesStep, PTL DEF Spec

(* Whatever is read, in whatever order: the maps hold results of keys, the *)
(* calls are calls, answers are answers (expander.go:22-31, 121-168).      *)
THEOREM TypeCorrect == Spec => []TypeOK
<1>1. TypesInv => TypeOK
  BY DEF TypesInv, TypeOK, CacheTyped, RetTyped
<1> QED
  BY <1>1, TypesHold, PTL

-----------------------------------------------------------------------------
(***************************************************************************)
(* One reader: pending is the set of the keys of the calls under way, and  *)
(* no key is entered twice.                                                *)
(***************************************************************************)
KeysOf(s) == {s[i].key : i \in 1..Len(s)}
Apart(s)  == \A i, j \in 1..Len(s) : s[i].key = s[j].key => i = j
Open(r)   == stack[r] # <<>> => pending = KeysOf(stack[r]) /\ Apart(stack[r])

LEMMA KeysAppend ==
    ASSUME NEW s \in Seq(Calls), NEW f \in Calls, Apart(s), f.key \notin KeysOf(s)
    PROVE  KeysOf(Append(s, f)) = KeysOf(s) \cup {f.key} /\ Apart(Append(s, f))
<1>1. /\ Len(Append(s, f)) = Len(s) + 1 /\ Len(s) \in Nat
      /\ \A i \in 1..Len(s) : Append(s, f)[i] = s[i]
      /\ Append(s, f)[Len(s) + 1] = f
  BY AppendProperties, LenProperties
<1>2. \A i \in 1..Len(s) + 1 : i \in 1..Len(s) \/ i = Len(s) + 1
  BY <1>1
<1>3. Len(s) + 1 \in 1..Len(s) + 1 /\ 1..Len(s) \subseteq 1..Len(s) + 1
  BY <1>1
<1>4. KeysOf(Append(s, f)) = KeysOf(s) \cup {f.key}
  BY <1>1, <1>2, <1>3 DEF KeysOf
<1>5. \A i \in 1..Len(s) : s[i].key # f.key
  BY DEF KeysOf
<1>6. Apart(Append(s, f))
  BY <1>1, <1>2, <1>5 DEF Apart
<1> QED
  BY <1>4, <1>6

LEMMA KeysFront ==
    ASSUME NEW s \in Seq(Calls), s # <<>>, Apart(s)
    PROVE  KeysOf(Front(s)) = KeysOf(s) \ {s[Len(s)].key} /\ Apart(Front(s))
<1>1. /\ Len(s) \in Nat \ {0} /\ Len(Front(s)) = Len(s) - 1
      /\ \A i \in 1..Len(s) - 1 : Front(s)[i] = s[i]
  BY FrontTyped
<1>2. /\ \A i \in 1..Len(s) : i \in 1..Len(s) - 1 \/ i = Len(s)
      /\ Len(s) \in 1..Len(s) /\ Len(s) \notin 1..Len(s) - 1
      /\ \A i \in 1..Len(s) - 1 : i \in 1..Len(s)
  BY <1>1
<1>3. \A i \in 1..Len(s) - 1 : s[i].key # s[Len(s)].key
  BY <1>2 DEF Apart
<1>4. KeysOf(Front(s)) = KeysOf(s) \ {s[Len(s)].key}
  BY <1>1, <1>2, <1>3 DEF KeysOf
<1>5. Apart(Front(s))
  BY <1>1, <1>2 DEF Apart
<1> QED
  BY <1>4, <1>5

(* The call at the top goes on.                                            *)
LEMMA KeysOnTop ==
    ASSUME NEW s \in Seq(Calls), s # <<>>, Apart(s),
           NEW f \in Calls, f.key = s[Len(s)].key
    PROVE  KeysOf(Append(Front(s), f)) = KeysOf(s) /\ Apart(Append(Front(s), f))
<1>1. KeysOf(Front(s)) = KeysOf(s) \ {f.key} /\ Apart(Front(s))
  BY KeysFront
<1>2. Front(s) \in Seq(Calls) /\ Len(s) \in Nat \ {0}
  BY FrontTyped
<1>3. f.key \in KeysOf(s)
  BY <1>2 DEF KeysOf
<1>4. KeysOf(Append(Front(s), f)) = KeysOf(Front(s)) \cup {f.key} /\ Apart(Append(Front(s), f))
  BY <1>1, <1>2, KeysAppend
<1> QED
  BY <1>1, <1>3, <1>4

LEMMA KeysCounted ==
    ASSUME NEW s \in Seq(Calls), Apart(s)
    PROVE  Cardinality(KeysOf(s)) = Len(s)
<1> DEFINE n == Len(s)
           keys == [i \in 1..n |-> s[i].key]
<1>1. n \in Nat
  BY LenProperties
<1>2. keys \in Bijection(1..n, KeysOf(s))
  BY DEF Bijection, Injection, Surjection, IsInjective, KeysOf, Apart
<1>3. ExistsBijection(1..n, KeysOf(s))
  BY <1>2 DEF ExistsBijection
<1> HIDE DEF n
<1> QED
  <2>1. IsFiniteSet(1..n) /\ Cardinality(1..n) = n
    BY <1>1, FS_Interval
  <2> QED
    BY <1>3, <2>1, FS_Bijection DEF n

LEMMA EnterOpen ==
    ASSUME TypesInv, NEW r \in Readers, NEW k \in Keys, NEW calls \in Seq(Calls), Apart(calls),
           NEW c, CacheTyped(c), Enter(r, k, calls, c, KeysOf(calls))
    PROVE  Open(r)'
<1> DEFINE v == ValueOf(k, c)
<1>1. CASE Fail(r)
  BY <1>1 DEF Fail, Open, TypesInv
<1>2. CASE stack' = [stack EXCEPT ![r] = calls] /\ pending' = KeysOf(calls)
  BY <1>2 DEF Open, TypesInv
<1>3. CASE /\ k \notin KeysOf(calls) /\ v.kind = "template"
           /\ stack' = [stack EXCEPT ![r] = Append(calls, Frame(k, v.of))]
           /\ pending' = KeysOf(calls) \cup {k}
  <2>1. v.of \in Seq(Left)
    BY <1>3, ValueTyped DEF IsObject, Object, Missing, TypesInv
  <2> DEFINE f == Frame(k, v.of)
  <2>2. f \in Calls /\ f.key = k
    BY <2>1, FrameTyped DEF Frame
  <2> HIDE DEF f
  <2>3. KeysOf(Append(calls, f)) = KeysOf(calls) \cup {k} /\ Apart(Append(calls, f))
    BY <1>3, <2>2, KeysAppend
  <2>4. stack'[r] = Append(calls, f)
    BY <1>3 DEF f, TypesInv
  <2> QED
    BY <1>3, <2>3, <2>4 DEF Open
<1> QED
  BY <1>1, <1>2, <1>3 DEF Enter

LEMMA FinishOpen ==
    ASSUME TypesInv, NEW r \in Readers, stack[r] # <<>>, Open(r),
           NEW value, NEW expanded, Finish(r, value, expanded)
    PROVE  Open(r)'
<1> DEFINE s == stack[r]
<1>1. s \in Seq(Calls) /\ s # <<>> /\ pending = KeysOf(s) /\ Apart(s)
  BY DEF TypesInv, Open
<1>2. Top(r) = s[Len(s)] /\ Below(r) = Front(s)
  BY TopTyped DEF TypesInv, Below
<1>3. stack'[r] = Below(r) /\ pending' = pending \ {Top(r).key}
  BY DEF Finish, TypesInv
<1> HIDE DEF s
<1>4. KeysOf(Front(s)) = KeysOf(s) \ {s[Len(s)].key} /\ Apart(Front(s))
  BY <1>1, KeysFront
<1> QED
  BY <1>1, <1>2, <1>3, <1>4 DEF Open

LEMMA OpenStep ==
    ASSUME NEW r, Readers = {r}, TypesInv, Open(r), [Next]_vars
    PROVE  Open(r)'
<1>0. r \in Readers /\ \A q \in Readers : q = r
  OBVIOUS
<1> USE <1>0
<1>1. CASE UNCHANGED vars
  BY <1>1 DEF vars, Open
<1>2. ASSUME NEW k \in Keys, Get(r, k) PROVE Open(r)'
  <2>0. KeysOf(<<>>) = {}
    BY EmptySeq DEF KeysOf
  <2>1. Enter(r, k, <<>>, NoCache, KeysOf(<<>>))
    BY <1>2, <2>0 DEF Get
  <2>2. CacheTyped(NoCache) /\ <<>> \in Seq(Calls) /\ Apart(<<>>)
    BY EmptySeq DEF CacheTyped, NoCache, Apart
  <2> QED
    BY <2>1, <2>2, EnterOpen
<1>3. CASE CallHandler(r)
  <2> DEFINE k == Top(r).rest[NextRef(Top(r).rest)].of
             s == stack[r]
  <2>1. s \in Seq(Calls) /\ s # <<>> /\ pending = KeysOf(s) /\ Apart(s)
    BY <1>3 DEF TypesInv, Open, CallHandler
  <2>2. k \in Keys
    BY <1>3, TopTyped, CallFields, NextIsFirst DEF CallHandler, TypesInv
  <2>3. Enter(r, k, s, cache, KeysOf(s))
    BY <1>3, <2>1 DEF CallHandler
  <2> HIDE DEF k, s
  <2> QED
    BY <2>1, <2>2, <2>3, EnterOpen DEF TypesInv
<1>4. CASE NoMoreReferences(r)
  <2>1. PICK value, expanded : Finish(r, value, expanded)
    BY <1>4 DEF NoMoreReferences
  <2> QED
    BY <1>4, <2>1, FinishOpen DEF NoMoreReferences
<1>5. CASE Substitute(r)
  <2>1. stack[r] # <<>> /\ ret[r] # Nothing
    BY <1>5 DEF Substitute
  <2>2. CASE Finish(r, ret[r], TRUE)
    BY <2>1, <2>2, FinishOpen
  <2>3. CASE Fail(r)
    BY <2>3 DEF Fail, Open, TypesInv
  <2> DEFINE s == stack[r]
             n == NextRef(Top(r).rest)
             before == Pieces(SubSeq(Top(r).rest, 1, n - 1))
             frame  == [Top(r) EXCEPT !.rest = SubSeq(Top(r).rest, n + 1, Len(Top(r).rest)),
                                      !.built = @ \o before \o Cast(ret[r]),
                                      !.expanded = TRUE]
  <2>4. CASE stack' = [stack EXCEPT ![r] = Append(Below(r), frame)] /\ UNCHANGED pending
    <3>1. s \in Seq(Calls) /\ s # <<>> /\ pending = KeysOf(s) /\ Apart(s)
      BY <2>1 DEF TypesInv, Open
    <3>2. Top(r) \in Calls /\ Top(r) = s[Len(s)] /\ Below(r) = Front(s)
      BY <2>1, TopTyped DEF TypesInv, Below
    <3>3. frame.key = Top(r).key
      BY <3>2 DEF Calls
    <3>4. stack' \in [Readers -> Seq(Calls)] /\ stack'[r] = Append(Front(s), frame)
      BY <2>4, <3>2, TypesStep DEF TypesInv
    <3>5. frame \in Calls
      BY <3>1, <3>4
    <3> HIDE DEF s, frame
    <3>6. KeysOf(Append(Front(s), frame)) = KeysOf(s) /\ Apart(Append(Front(s), frame))
      BY <3>1, <3>2, <3>3, <3>5, KeysOnTop
    <3> QED
      BY <2>4, <3>1, <3>4, <3>6 DEF Open
  <2> QED
    BY <1>5, <2>2, <2>3, <2>4 DEF Substitute
<1>6. CASE Answer(r)
  BY <1>6 DEF Answer, Open
<1> QED
  BY <1>1, <1>2, <1>3, <1>4, <1>5, <1>6 DEF Next, Step

(* With one reader, a key is pending exactly while a doExpand of it is     *)
(* under way, and no key is entered twice (expander.go:124, 138, 160).     *)
THEOREM PendingOfOneReader ==
    ASSUME NEW r, Readers = {r}
    PROVE  Spec => []PendingIsStack
<1>1. Init => Open(r)
  BY DEF Init, Open
<1>2. TypesInv /\ Open(r) /\ [Next]_vars => Open(r)'
  BY OpenStep
<1>3. TypesInv /\ Open(r) => PendingIsStack
  <2> SUFFICES ASSUME TypesInv, Open(r), stack[r] # <<>>
               PROVE  /\ pending = {stack[r][i].key : i \in DOMAIN stack[r]}
                      /\ Cardinality(pending) = Len(stack[r])
    BY DEF PendingIsStack
  <2>1. stack[r] \in Seq(Calls) /\ DOMAIN stack[r] = 1..Len(stack[r])
    BY LenProperties DEF TypesInv
  <2>2. pending = KeysOf(stack[r]) /\ Apart(stack[r])
    BY DEF Open
  <2> QED
    BY <2>1, <2>2, KeysCounted DEF KeysOf
<1> QED
  BY <1>1, <1>2, <1>3, TypesHold, PTL DEF Spec

-----------------------------------------------------------------------------
(***************************************************************************)
(* The meaning of the keys.                                                *)
(***************************************************************************)
N == Cardinality(Keys)

Level(n, f) ==
    [k \in Keys |->
       IF n = 0 \/ raw[k] = Missing THEN Error
       ELSE IF raw[k].kind = "object" THEN raw[k]
       ELSE TemplateMeaning(raw[k].of, f)]

RefersTo(parts, k) == \E i \in DOMAIN parts : parts[i] = Ref(k)

LEMMA RawTyped ==
    ASSUME raw \in [Keys -> Raws], NEW k \in Keys
    PROVE  \/ raw[k] = Missing /\ raw[k].kind = "missing"
           \/ raw[k].kind = "object" /\ raw[k] # Missing /\ IsObject(raw[k])
           \/ /\ raw[k].kind = "template" /\ raw[k] # Missing
              /\ raw[k].of \in Seq(Part) /\ raw[k] = Template(raw[k].of)
<1>1. raw[k] = Missing \/ IsObject(raw[k]) \/ IsTemplate(raw[k])
  BY ExpanderAssumption
<1>2. CASE raw[k] = Missing
  BY <1>2 DEF Missing
<1>3. CASE IsObject(raw[k])
  BY <1>3 DEF IsObject, Object, Missing
<1>4. CASE IsTemplate(raw[k])
  BY <1>4 DEF IsTemplate, Template, Missing
<1> QED
  BY <1>1, <1>2, <1>3, <1>4

LEMMA KeysFinite == N \in Nat /\ IsFiniteSet(Keys)
BY ExpanderAssumption, FS_CardinalityType DEF N

(* Such a table of meanings exists, so MeaningUpTo is one.                 *)
LEMMA LevelsExist ==
    ASSUME NEW n \in Nat
    PROVE  \E h : h = [i \in 0..n |-> Level(i, h[i - 1])]
<1> DEFINE Good == {m \in Nat : \E h : h = [i \in 0..m |-> Level(i, h[i - 1])]}
<1> SUFFICES ASSUME n \notin Good PROVE FALSE
  OBVIOUS
<1>1. PICK m \in Nat : m \notin Good /\ \A i \in 0..m - 1 : i \in Good
  <2> HIDE DEF Good
  <2> QED
    BY Least
<1>2. CASE m = 0
  <2> DEFINE h == [i \in 0..0 |-> Level(0, <<>>)]
  <2>1. \A i \in 0..0 : Level(i, h[i - 1]) = Level(0, <<>>)
    BY DEF Level
  <2>2. h = [i \in 0..0 |-> Level(i, h[i - 1])]
    BY <2>1
  <2> QED
    BY <1>1, <1>2, <2>2
<1>3. CASE m # 0
  <2>1. m - 1 \in Good
    BY <1>1, <1>3
  <2>2. PICK h : h = [i \in 0..m - 1 |-> Level(i, h[i - 1])]
    BY <2>1
  <2> DEFINE g == [i \in 0..m |-> IF i = m THEN Level(m, h[m - 1]) ELSE h[i]]
  <2>3. \A i \in 0..m : g[i] = Level(i, g[i - 1])
    <3> TAKE i \in 0..m
    <3>1. CASE i = m
      BY <1>3, <3>1
    <3>2. CASE i # m /\ i # 0
      <4>1. g[i] = h[i] /\ g[i - 1] = h[i - 1] /\ i \in 0..m - 1
        BY <3>2
      <4> QED
        BY <2>2, <4>1
    <3>3. CASE i # m /\ i = 0
      <4>1. g[i] = h[i] /\ i \in 0..m - 1
        BY <3>3
      <4>2. h[i] = Level(i, h[i - 1])
        BY <2>2, <4>1
      <4>3. Level(i, h[i - 1]) = Level(i, g[i - 1])
        BY <3>3 DEF Level
      <4> QED
        BY <4>1, <4>2, <4>3
    <3> QED
      BY <3>1, <3>2, <3>3
  <2>4. g = [i \in 0..m |-> Level(i, g[i - 1])]
    BY <2>3
  <2> QED
    BY <1>1, <2>4
<1> QED
  BY <1>2, <1>3

LEMMA MeaningLevels ==
    ASSUME NEW n \in 0..N
    PROVE  MeaningUpTo[n] = Level(n, MeaningUpTo[n - 1])
<1>1. PICK h : h = [i \in 0..N |-> Level(i, h[i - 1])]
  BY KeysFinite, LevelsExist
<1>2. MeaningUpTo = CHOOSE f : f = [i \in 0..N |-> Level(i, f[i - 1])]
  BY DEF MeaningUpTo, Level, N
<1>3. MeaningUpTo = [i \in 0..N |-> Level(i, MeaningUpTo[i - 1])]
  BY <1>1, <1>2
<1> QED
  BY <1>3

LEMMA PartKinds ==
    ASSUME NEW parts \in Seq(Part), NEW i \in DOMAIN parts
    PROVE  \/ parts[i].kind = "lit" /\ parts[i].of \in Literals
           \/ parts[i].kind = "ref" /\ parts[i].of \in Keys /\ parts[i] = Ref(parts[i].of)
<1>1. parts[i] \in Part
  BY ElementOfSeq, LenProperties
<1> QED
  BY <1>1 DEF Part, Lit, Ref

(* A template means the same whatever the keys mean that it does not name. *)
LEMMA MeaningDependsOn ==
    ASSUME NEW parts \in Seq(Part), NEW f, NEW g,
           \A k \in Keys : RefersTo(parts, k) => f[k] = g[k]
    PROVE  TemplateMeaning(parts, f) = TemplateMeaning(parts, g)
<1>1. ASSUME NEW i \in DOMAIN parts
      PROVE  PartMeaning(parts[i], f) = PartMeaning(parts[i], g)
  <2>1. CASE parts[i].kind = "lit"
    BY <2>1 DEF PartMeaning
  <2>2. CASE parts[i].kind = "ref" /\ parts[i].of \in Keys /\ parts[i] = Ref(parts[i].of)
    <3>1. RefersTo(parts, parts[i].of)
      BY <2>2 DEF RefersTo
    <3> QED
      BY <2>2, <3>1 DEF PartMeaning
  <2> QED
    BY <2>1, <2>2, PartKinds
<1>2. PartMeanings(parts, f) = PartMeanings(parts, g)
  BY <1>1 DEF PartMeanings
<1>3. CASE IsReference(parts)
  <2>1. 1 \in DOMAIN parts
    BY <1>3, LenProperties DEF IsReference
  <2> QED
    BY <1>1, <1>3, <2>1 DEF TemplateMeaning
<1>4. CASE ~IsReference(parts)
  BY <1>2, <1>4, Zenon DEF TemplateMeaning
<1> QED
  BY <1>3, <1>4

(* It has none if a key it names has none.                                 *)
LEMMA ErrorsAreHandedOn ==
    ASSUME NEW parts \in Seq(Part), NEW f, NEW k \in Keys, RefersTo(parts, k), f[k] = Error
    PROVE  TemplateMeaning(parts, f) = Error
<1>1. PICK i \in DOMAIN parts : parts[i] = Ref(k)
  BY DEF RefersTo
<1>2. PartMeaning(parts[i], f) = Error
  BY <1>1 DEF PartMeaning, Ref
<1>3. CASE IsReference(parts)
  <2>1. i = 1
    BY <1>3, LenProperties DEF IsReference
  <2> QED
    BY <1>2, <1>3, <2>1 DEF TemplateMeaning
<1>4. CASE ~IsReference(parts)
  <2>1. IsNoText(PartMeanings(parts, f))
    BY <1>2 DEF IsNoText, PartMeanings
  <2> QED
    BY <1>4, <2>1 DEF TemplateMeaning
<1> QED
  BY <1>3, <1>4

LEMMA FirstLevel == ASSUME NEW k \in Keys PROVE MeaningUpTo[0][k] = Error
<1>1. 0 \in 0..N
  BY KeysFinite
<1>2. MeaningUpTo[0] = Level(0, MeaningUpTo[0 - 1])
  BY <1>1, MeaningLevels
<1> QED
  BY <1>2 DEF Level

(* What a key means at one level, from what the others mean one below.     *)
LEMMA LevelOf ==
    ASSUME raw \in [Keys -> Raws], NEW n \in 1..N, NEW k \in Keys
    PROVE  /\ raw[k] = Missing => MeaningUpTo[n][k] = Error
           /\ raw[k].kind = "object" => MeaningUpTo[n][k] = raw[k]
           /\ raw[k].kind = "template" =>
                 MeaningUpTo[n][k] = TemplateMeaning(raw[k].of, MeaningUpTo[n - 1])
<1>1. n \in 0..N /\ n # 0
  BY KeysFinite
<1>2. MeaningUpTo[n] = Level(n, MeaningUpTo[n - 1])
  BY <1>1, MeaningLevels
<1> QED
  BY <1>1, <1>2, RawTyped DEF Level

(* A meaning once found stays.                                             *)
LEMMA MeaningStays ==
    ASSUME raw \in [Keys -> Raws]
    PROVE  \A n \in 0..N : \A k \in Keys :
              n < N /\ MeaningUpTo[n][k] # Error => MeaningUpTo[n + 1][k] = MeaningUpTo[n][k]
<1> DEFINE Stays(n) == \A k \in Keys : n < N /\ MeaningUpTo[n][k] # Error
                                       => MeaningUpTo[n + 1][k] = MeaningUpTo[n][k]
           Good == {n \in Nat : n <= N => Stays(n)}
<1> SUFFICES ASSUME NEW x \in 0..N, ~Stays(x) PROVE FALSE
  OBVIOUS
<1>1. N \in Nat /\ x \in Nat /\ x \notin Good
  BY KeysFinite
<1> HIDE DEF Stays
<1>2. PICK n \in Nat : n \notin Good /\ \A i \in 0..n - 1 : i \in Good
  <2> HIDE DEF Good
  <2> QED
    BY <1>1, Least
<1>3. n <= N /\ ~Stays(n)
  BY <1>2
<1>4. PICK k \in Keys : /\ n < N /\ MeaningUpTo[n][k] # Error
                        /\ MeaningUpTo[n + 1][k] # MeaningUpTo[n][k]
  BY <1>3 DEF Stays
<1>5. n # 0
  BY <1>4, FirstLevel
<1>6. n \in 1..N /\ n + 1 \in 1..N /\ (n + 1) - 1 = n /\ n - 1 \in Nat /\ (n - 1) + 1 = n
  BY <1>1, <1>4, <1>5
<1>7. raw[k].kind = "template" /\ raw[k].of \in Seq(Part)
  BY <1>4, <1>6, LevelOf, RawTyped
<1>8. /\ MeaningUpTo[n][k] = TemplateMeaning(raw[k].of, MeaningUpTo[n - 1])
      /\ MeaningUpTo[n + 1][k] = TemplateMeaning(raw[k].of, MeaningUpTo[n])
  BY <1>6, <1>7, LevelOf
<1>9. Stays(n - 1)
  BY <1>1, <1>2, <1>3, <1>6
<1>10. ASSUME NEW q \in Keys, RefersTo(raw[k].of, q)
       PROVE  MeaningUpTo[n - 1][q] = MeaningUpTo[n][q]
  <2>1. MeaningUpTo[n - 1][q] # Error
    BY <1>4, <1>7, <1>8, <1>10, ErrorsAreHandedOn
  <2>2. n - 1 < N
    BY <1>1, <1>3, <1>6
  <2>3. MeaningUpTo[(n - 1) + 1][q] = MeaningUpTo[n - 1][q]
    BY <1>9, <2>1, <2>2 DEF Stays
  <2>4. (n - 1) + 1 = n
    BY <1>6
  <2> QED
    BY <2>3, <2>4
<1>11. TemplateMeaning(raw[k].of, MeaningUpTo[n - 1]) = TemplateMeaning(raw[k].of, MeaningUpTo[n])
  BY <1>7, <1>10, MeaningDependsOn
<1> QED
  BY <1>4, <1>8, <1>11

LEMMA MeaningStaysToTheEnd ==
    ASSUME raw \in [Keys -> Raws], NEW n \in 0..N, NEW k \in Keys, MeaningUpTo[n][k] # Error
    PROVE  Meaning(k) = MeaningUpTo[n][k]
<1> DEFINE Same(m) == MeaningUpTo[m][k] = MeaningUpTo[n][k]
           Good == {d \in Nat : n + d <= N => Same(n + d)}
<1> SUFFICES ASSUME ~Same(N) PROVE FALSE
  BY DEF Meaning, N
<1>1. N \in Nat /\ n \in Nat /\ N - n \in Nat /\ n + (N - n) = N
  BY KeysFinite
<1> HIDE DEF Same
<1>2. N - n \notin Good
  BY <1>1
<1>3. PICK d \in Nat : d \notin Good /\ \A i \in 0..d - 1 : i \in Good
  <2> HIDE DEF Good
  <2> QED
    BY <1>1, <1>2, Least
<1>4. n + d <= N /\ ~Same(n + d)
  BY <1>3
<1>5. d # 0
  BY <1>1, <1>4 DEF Same
<1>6. /\ d - 1 \in 0..d - 1 /\ n + (d - 1) <= N /\ n + (d - 1) \in 0..N
      /\ n + (d - 1) < N /\ (n + (d - 1)) + 1 = n + d
  BY <1>1, <1>4, <1>5
<1>7. Same(n + (d - 1))
  BY <1>3, <1>6
<1>8. MeaningUpTo[(n + (d - 1)) + 1][k] = MeaningUpTo[n + (d - 1)][k]
  BY <1>6, <1>7, MeaningStays DEF Same
<1> QED
  BY <1>4, <1>6, <1>7, <1>8 DEF Same

LEMMA TableStays == raw' = raw => MeaningUpTo' = MeaningUpTo
BY DEF MeaningUpTo

(* Once a level adds nothing, none does.                                   *)
LEMMA LevelsSettle ==
    ASSUME NEW n \in 0..N, n < N, MeaningUpTo[n + 1] = MeaningUpTo[n]
    PROVE  MeaningUpTo[N] = MeaningUpTo[N - 1]
<1> DEFINE Settled(m) == MeaningUpTo[m + 1] = MeaningUpTo[m]
           Good == {d \in Nat : n + d < N => Settled(n + d)}
<1>1. N \in Nat /\ n \in Nat /\ N - 1 - n \in Nat /\ n + (N - 1 - n) = N - 1
  BY KeysFinite
<1>2. Settled(n)
  OBVIOUS
<1> HIDE DEF Settled
<1>3. ASSUME N - 1 - n \notin Good PROVE FALSE
  <2>1. PICK d \in Nat : d \notin Good /\ \A i \in 0..d - 1 : i \in Good
    <3> HIDE DEF Good
    <3> QED
      BY <1>1, <1>3, Least
  <2>2. n + d < N /\ ~Settled(n + d)
    BY <2>1
  <2>3. d # 0
    BY <1>1, <1>2, <2>2
  <2>4. n + (d - 1) < N /\ d - 1 \in 0..d - 1
    BY <1>1, <2>1, <2>2, <2>3
  <2>5. Settled(n + (d - 1))
    BY <2>1, <2>4
  <2> DEFINE e == n + d
  <2>6. e \in 1..N /\ e - 1 = n + (d - 1) /\ (e - 1) + 1 = e /\ e + 1 \in 1..N /\ (e + 1) - 1 = e
    BY <1>1, <2>1, <2>2, <2>3
  <2> HIDE DEF e
  <2>7. MeaningUpTo[e] = MeaningUpTo[e - 1]
    BY <2>5, <2>6 DEF Settled
  <2>8. /\ MeaningUpTo[e] = Level(e, MeaningUpTo[e - 1])
        /\ MeaningUpTo[e + 1] = Level(e + 1, MeaningUpTo[e])
    <3>1. e \in 0..N /\ e + 1 \in 0..N
      BY <1>1, <2>6
    <3>2. MeaningUpTo[e + 1] = Level(e + 1, MeaningUpTo[(e + 1) - 1])
      BY <3>1, MeaningLevels
    <3> QED
      BY <2>6, <3>1, <3>2, MeaningLevels
  <2>9. Level(e + 1, MeaningUpTo[e]) = Level(e, MeaningUpTo[e])
    BY <2>6 DEF Level
  <2>10. Settled(e)
    BY <2>7, <2>8, <2>9 DEF Settled
  <2> QED
    BY <2>2, <2>10 DEF e
<1>4. Settled(N - 1) /\ (N - 1) + 1 = N
  BY <1>1, <1>3
<1> QED
  BY <1>4 DEF Settled

(* The keys that have a meaning at a level.                                *)
Meant(n) == {k \in Keys : MeaningUpTo[n][k] # Error}

LEMMA MeantGrows ==
    ASSUME raw \in [Keys -> Raws], NEW n \in 0..N, n < N
    PROVE  /\ Meant(n) \subseteq Meant(n + 1)
           /\ Meant(n) = Meant(n + 1) => MeaningUpTo[n + 1] = MeaningUpTo[n]
<1>1. \A k \in Keys : MeaningUpTo[n][k] # Error => MeaningUpTo[n + 1][k] = MeaningUpTo[n][k]
  BY MeaningStays
<1>2. n + 1 \in 0..N /\ n \in 0..N
  BY KeysFinite
<1>3. Meant(n) \subseteq Meant(n + 1)
  BY <1>1 DEF Meant
<1>4. ASSUME Meant(n) = Meant(n + 1) PROVE MeaningUpTo[n + 1] = MeaningUpTo[n]
  <2>1. \A k \in Keys : MeaningUpTo[n + 1][k] = MeaningUpTo[n][k]
    BY <1>1, <1>4 DEF Meant
  <2>2. /\ MeaningUpTo[n] = Level(n, MeaningUpTo[n - 1])
        /\ MeaningUpTo[n + 1] = Level(n + 1, MeaningUpTo[(n + 1) - 1])
    BY <1>2, MeaningLevels
  <2>3. \A j, f : DOMAIN Level(j, f) = Keys /\ Level(j, f) = [k \in Keys |-> Level(j, f)[k]]
    BY DEF Level
  <2>4. /\ MeaningUpTo[n] = [k \in Keys |-> MeaningUpTo[n][k]]
        /\ MeaningUpTo[n + 1] = [k \in Keys |-> MeaningUpTo[n + 1][k]]
    BY <2>2, <2>3
  <2> QED
    BY <2>1, <2>4
<1> QED
  BY <1>3, <1>4

(* If one level more still added a key, every level would have.            *)
LEMMA LevelsCount ==
    ASSUME raw \in [Keys -> Raws], MeaningUpTo[N] # MeaningUpTo[N - 1], NEW n \in 0..N
    PROVE  Cardinality(Meant(n)) >= n
<1> DEFINE Good == {m \in Nat : m <= N => Cardinality(Meant(m)) >= m}
<1>1. n \in Nat /\ N \in Nat
  BY KeysFinite
<1>2. \A m : IsFiniteSet(Meant(m)) /\ Cardinality(Meant(m)) \in Nat
  <2> TAKE m
  <2>1. Meant(m) \in SUBSET Keys
    BY DEF Meant
  <2>2. IsFiniteSet(Meant(m))
    BY <2>1, KeysFinite, FS_Subset
  <2> QED
    BY <2>2, FS_CardinalityType
<1>3. ASSUME n \notin Good PROVE FALSE
  <2>1. PICK m \in Nat : m \notin Good /\ \A i \in 0..m - 1 : i \in Good
    <3> HIDE DEF Good
    <3> QED
      BY <1>1, <1>3, Least
  <2>2. m <= N /\ ~(Cardinality(Meant(m)) >= m)
    BY <2>1
  <2>3. m # 0
    BY <1>2, <2>2
  <2> DEFINE p == m - 1
  <2>4. p \in 0..N /\ p < N /\ p + 1 = m /\ p \in 0..m - 1
    BY <1>1, <2>1, <2>2, <2>3
  <2> HIDE DEF p
  <2>5. Cardinality(Meant(p)) >= p
    BY <2>1, <2>4
  <2>6. MeaningUpTo[p + 1] # MeaningUpTo[p]
    BY <2>4, LevelsSettle
  <2>7. Meant(p) \in SUBSET Meant(m) /\ Meant(p) # Meant(m)
    BY <2>4, <2>6, MeantGrows
  <2>8. /\ Cardinality(Meant(p)) <= Cardinality(Meant(m))
        /\ Cardinality(Meant(p)) # Cardinality(Meant(m))
    BY <1>2, <2>7, FS_Subset
  <2> QED
    BY <1>2, <2>2, <2>4, <2>5, <2>8
<1> QED
  BY <1>1, <1>3

(* So one level for each key is enough: what the keys mean then is what    *)
(* their values say when the references are given just these meanings.     *)
LEMMA MeaningIsFixed ==
    ASSUME raw \in [Keys -> Raws], NEW k \in Keys
    PROVE  /\ raw[k] = Missing => Meaning(k) = Error
           /\ raw[k].kind = "object" => Meaning(k) = raw[k]
           /\ raw[k].kind = "template" => Meaning(k) = TemplateMeaning(raw[k].of, MeaningUpTo[N])
<1>1. N \in Nat /\ N # 0
  <2>1. Cardinality(Keys) # 0
    BY KeysFinite, FS_EmptySet
  <2> QED
    BY <2>1, KeysFinite DEF N
<1>2. N \in 1..N /\ N \in 0..N /\ N - 1 \in 0..N
  BY <1>1
<1>3. Meaning(k) = MeaningUpTo[N][k]
  BY DEF Meaning, N
<1>4. /\ raw[k] = Missing => Meaning(k) = Error
      /\ raw[k].kind = "object" => Meaning(k) = raw[k]
      /\ raw[k].kind = "template" => Meaning(k) = TemplateMeaning(raw[k].of, MeaningUpTo[N - 1])
  BY <1>2, <1>3, LevelOf
<1>5. ASSUME raw[k].kind = "template"
      PROVE  TemplateMeaning(raw[k].of, MeaningUpTo[N - 1])
             = TemplateMeaning(raw[k].of, MeaningUpTo[N])
  <2>1. CASE MeaningUpTo[N] = MeaningUpTo[N - 1]
    BY <2>1
  <2>2. CASE MeaningUpTo[N] # MeaningUpTo[N - 1]
    <3>1. Cardinality(Meant(N)) >= N /\ Meant(N) \in SUBSET Keys
      BY <1>2, <2>2, LevelsCount DEF Meant
    <3>2. /\ Cardinality(Meant(N)) \in Nat /\ Cardinality(Meant(N)) <= N
          /\ Cardinality(Meant(N)) = N => Meant(N) = Keys
      BY <3>1, KeysFinite, FS_Subset, FS_CardinalityType DEF N
    <3>3. Meant(N) = Keys
      BY <1>1, <3>1, <3>2
    <3>4. MeaningUpTo[N][k] # Error
      BY <3>3 DEF Meant
    <3>5. raw[k].of \in Seq(Part)
      BY <1>5, RawTyped
    <3>6. ASSUME NEW q \in Keys, RefersTo(raw[k].of, q)
          PROVE  MeaningUpTo[N - 1][q] = MeaningUpTo[N][q]
      <4>1. MeaningUpTo[N - 1][q] # Error
        BY <1>3, <1>4, <1>5, <3>4, <3>5, <3>6, ErrorsAreHandedOn
      <4>2. Meaning(q) = MeaningUpTo[N - 1][q]
        BY <1>2, <4>1, MeaningStaysToTheEnd
      <4> QED
        BY <4>2 DEF Meaning, N
    <3> QED
      BY <3>5, <3>6, MeaningDependsOn
  <2> QED
    BY <2>1, <2>2
<1> QED
  BY <1>4, <1>5

(* Keys that all lead to each other or to an error have no meaning.        *)
LEMMA CyclesMeanNothing ==
    ASSUME raw \in [Keys -> Raws], NEW S \in SUBSET Keys,
           \A k \in S : \/ Meaning(k) = Error
                        \/ raw[k].kind = "template" /\ \E q \in S : RefersTo(raw[k].of, q)
    PROVE  \A k \in S : Meaning(k) = Error
<1> SUFFICES ASSUME NEW x \in S, Meaning(x) # Error PROVE FALSE
  OBVIOUS
<1> DEFINE None(n) == \A k \in S : MeaningUpTo[n][k] = Error
           Good == {n \in Nat : n <= N => None(n)}
<1>1. N \in Nat /\ ~None(N)
  BY KeysFinite DEF Meaning, N
<1> HIDE DEF None
<1>2. PICK n \in Nat : n \notin Good /\ \A i \in 0..n - 1 : i \in Good
  <2>1. N \notin Good
    BY <1>1
  <2> HIDE DEF Good
  <2> QED
    BY <1>1, <2>1, Least
<1>3. n <= N /\ ~None(n)
  BY <1>2
<1>4. PICK k \in S : MeaningUpTo[n][k] # Error
  BY <1>3 DEF None
<1>5. n # 0
  BY <1>4, FirstLevel
<1>6. n \in 1..N /\ n \in 0..N /\ n - 1 \in 0..n - 1 /\ n - 1 <= N
  BY <1>1, <1>2, <1>3, <1>5
<1>7. Meaning(k) # Error
  BY <1>4, <1>6, MeaningStaysToTheEnd
<1>8. PICK q \in S : raw[k].kind = "template" /\ RefersTo(raw[k].of, q)
  BY <1>7
<1>9. None(n - 1)
  BY <1>2, <1>6
<1>10. MeaningUpTo[n - 1][q] = Error
  BY <1>9 DEF None
<1>11. raw[k].of \in Seq(Part)
  BY <1>8, RawTyped
<1>12. TemplateMeaning(raw[k].of, MeaningUpTo[n - 1]) = Error
  BY <1>8, <1>10, <1>11, ErrorsAreHandedOn
<1> QED
  BY <1>4, <1>6, <1>8, <1>12, LevelOf

-----------------------------------------------------------------------------
(***************************************************************************)
(* FlattenSeq, from left to right.                                         *)
(***************************************************************************)
(* The prefixes of a sequence of sequences, flattened one after another.   *)
Flattened(h, f, n) == h = [i \in 1..n |-> IF i = 1 THEN f[i] ELSE h[i - 1] \o f[i]]

LEMMA FlattenedExists ==
    ASSUME NEW S, NEW f, NEW n \in Nat, \A i \in 1..n : f[i] \in Seq(S)
    PROVE  \E h : Flattened(h, f, n) /\ \A i \in 1..n : h[i] \in Seq(S)
<1> DEFINE Good == {m \in Nat : m <= n =>
                       \E h : Flattened(h, f, m) /\ \A i \in 1..m : h[i] \in Seq(S)}
<1> SUFFICES ASSUME n \notin Good PROVE FALSE
  OBVIOUS
<1>1. PICK m \in Nat : m \notin Good /\ \A i \in 0..m - 1 : i \in Good
  <2> HIDE DEF Good
  <2> QED
    BY Least
<1>2. m <= n /\ ~\E h : Flattened(h, f, m) /\ \A i \in 1..m : h[i] \in Seq(S)
  BY <1>1
<1>3. CASE m = 0
  <2>1. Flattened([i \in 1..0 |-> <<>>], f, 0)
    BY DEF Flattened
  <2> QED
    BY <1>2, <1>3, <2>1
<1>4. CASE m # 0
  <2>1. m - 1 \in Good /\ m - 1 <= n
    BY <1>1, <1>2, <1>4
  <2>2. PICK h : Flattened(h, f, m - 1) /\ \A i \in 1..m - 1 : h[i] \in Seq(S)
    BY <2>1
  <2> DEFINE last == IF m = 1 THEN f[m] ELSE h[m - 1] \o f[m]
             g == [i \in 1..m |-> IF i = m THEN last ELSE h[i]]
  <2>3. last \in Seq(S)
    <3>1. f[m] \in Seq(S)
      BY <1>2, <1>4
    <3>2. CASE m = 1
      BY <3>1, <3>2
    <3>3. CASE m # 1
      <4>1. h[m - 1] \in Seq(S)
        BY <1>4, <2>2, <3>3
      <4> QED
        BY <3>1, <3>3, <4>1, ConcatProperties
    <3> QED
      BY <3>2, <3>3
  <2>4. \A i \in 1..m : g[i] = IF i = 1 THEN f[i] ELSE g[i - 1] \o f[i]
    <3> HIDE DEF last
    <3> TAKE i \in 1..m
    <3>1. CASE i = m
      BY <1>4, <3>1 DEF last
    <3>2. CASE i # m
      <4>1. i \in 1..m - 1 /\ g[i] = h[i] /\ (i # 1 => g[i - 1] = h[i - 1])
        BY <3>2
      <4>2. h[i] = IF i = 1 THEN f[i] ELSE h[i - 1] \o f[i]
        BY <2>2, <4>1 DEF Flattened
      <4> QED
        BY <4>1, <4>2
    <3> QED
      BY <3>1, <3>2
  <2>5. Flattened(g, f, m)
    BY <2>4 DEF Flattened
  <2>6. \A i \in 1..m : g[i] \in Seq(S)
    <3> HIDE DEF last
    <3> QED
      BY <2>2, <2>3
  <2> HIDE DEF g
  <2> QED
    BY <1>2, <2>5, <2>6
<1> QED
  BY <1>3, <1>4

LEMMA FlattenedAgree ==
    ASSUME NEW f, NEW n \in Nat, NEW g, NEW h, Flattened(g, f, n), Flattened(h, f, n)
    PROVE  g = h
<1> DEFINE Good == {m \in Nat : m \in 1..n => g[m] = h[m]}
<1>1. ASSUME NEW x \in 1..n, g[x] # h[x] PROVE FALSE
  <2>1. x \in Nat /\ x \notin Good
    BY <1>1
  <2>2. PICK m \in Nat : m \notin Good /\ \A i \in 0..m - 1 : i \in Good
    <3> HIDE DEF Good
    <3> QED
      BY <2>1, Least
  <2>3. m \in 1..n /\ g[m] # h[m]
    BY <2>2
  <2>4. m # 1 => m - 1 \in 1..n /\ g[m - 1] = h[m - 1]
    BY <2>2, <2>3
  <2>5. /\ g[m] = IF m = 1 THEN f[m] ELSE g[m - 1] \o f[m]
        /\ h[m] = IF m = 1 THEN f[m] ELSE h[m - 1] \o f[m]
    BY <2>3 DEF Flattened
  <2> QED
    BY <2>3, <2>4, <2>5
<1>2. \A i \in 1..n : g[i] = h[i]
  BY <1>1
<1>3. g = [i \in 1..n |-> g[i]] /\ h = [i \in 1..n |-> h[i]]
  BY DEF Flattened
<1> QED
  BY <1>2, <1>3

LEMMA FlattenIs ==
    ASSUME NEW S, NEW f, NEW n \in Nat \ {0}, NEW h, Flattened(h, f, n),
           \A i \in 1..n : f[i] \in Seq(S)
    PROVE  FlattenSeq([i \in 1..n |-> f[i]]) = h[n]
<1> DEFINE s == [i \in 1..n |-> f[i]]
           E(g) == g = [i \in 1..Len(s) |-> IF i = 1 THEN s[i] ELSE g[i - 1] \o s[i]]
<1>1. Len(s) = n /\ s \in Seq(Seq(S)) /\ \A i \in 1..n : s[i] = f[i]
  OBVIOUS
<1>2. FlattenSeq(s) = (CHOOSE g : E(g))[n]
  <2> HIDE DEF s
  <2> QED
    BY <1>1 DEF FlattenSeq
<1>3. \A g : E(g) <=> Flattened(g, f, n)
  <2> TAKE g
  <2>1. [i \in 1..Len(s) |-> IF i = 1 THEN s[i] ELSE g[i - 1] \o s[i]]
        = [i \in 1..n |-> IF i = 1 THEN f[i] ELSE g[i - 1] \o f[i]]
    <3> HIDE DEF s
    <3> QED
      BY <1>1
  <2> HIDE DEF s
  <2> QED
    BY <2>1, Zenon DEF Flattened
<1> HIDE DEF E, s
<1>4. E(CHOOSE g : E(g))
  BY <1>3, Zenon
<1>5. Flattened(CHOOSE g : E(g), f, n)
  BY <1>3, <1>4
<1>6. (CHOOSE g : E(g)) = h
  BY <1>5, FlattenedAgree
<1> QED
  BY <1>2, <1>6 DEF s

(* Flattening goes from left to right.                                     *)
LEMMA FlattenNone == ASSUME NEW f PROVE FlattenSeq([i \in 1..0 |-> f[i]]) = <<>>
<1>1. [i \in 1..0 |-> f[i]] = <<>>
  OBVIOUS
<1> QED
  BY <1>1 DEF FlattenSeq

LEMMA FlattenOneMore ==
    ASSUME NEW S, NEW f, NEW n \in Nat, \A i \in 1..n + 1 : f[i] \in Seq(S)
    PROVE  /\ FlattenSeq([i \in 1..n |-> f[i]]) \in Seq(S)
           /\ FlattenSeq([i \in 1..n + 1 |-> f[i]]) = FlattenSeq([i \in 1..n |-> f[i]]) \o f[n + 1]
<1> DEFINE m == n + 1
<1>0. m \in Nat \ {0} /\ m - 1 = n /\ m \in 1..m /\ \A i \in 1..m : f[i] \in Seq(S)
  OBVIOUS
<1> HIDE DEF m
<1>1. PICK h : Flattened(h, f, m) /\ \A i \in 1..m : h[i] \in Seq(S)
  BY <1>0, FlattenedExists
<1>2. FlattenSeq([i \in 1..n + 1 |-> f[i]]) = h[n + 1]
  <2>1. FlattenSeq([i \in 1..m |-> f[i]]) = h[m]
    BY <1>0, <1>1, FlattenIs
  <2> QED
    BY <2>1 DEF m
<1>3. h[n + 1] = IF n = 0 THEN f[n + 1] ELSE h[n] \o f[n + 1]
  <2>1. h[m] = IF m = 1 THEN f[m] ELSE h[m - 1] \o f[m]
    BY <1>0, <1>1 DEF Flattened
  <2> QED
    BY <2>1 DEF m
<1>4. CASE n = 0
  <2>1. FlattenSeq([i \in 1..n |-> f[i]]) = <<>>
    BY <1>4, FlattenNone
  <2>2. f[n + 1] \in Seq(S) /\ <<>> \o f[n + 1] = f[n + 1]
    BY <1>4, ConcatEmptySeq
  <2> QED
    <3>1. <<>> \in Seq(S)
      OBVIOUS
    <3>2. h[n + 1] = f[n + 1]
      BY <1>3, <1>4
    <3> QED
      BY <1>2, <2>1, <2>2, <3>1, <3>2
<1>5. CASE n # 0
  <2> DEFINE g == [i \in 1..n |-> h[i]]
  <2>1. Flattened(g, f, n)
    <3>1. \A i \in 1..n : g[i] = IF i = 1 THEN f[i] ELSE g[i - 1] \o f[i]
      <4> TAKE i \in 1..n
      <4>1. g[i] = h[i] /\ (i # 1 => g[i - 1] = h[i - 1]) /\ i \in 1..m
        BY DEF m
      <4>2. h[i] = IF i = 1 THEN f[i] ELSE h[i - 1] \o f[i]
        BY <1>1, <4>1 DEF Flattened
      <4> QED
        BY <4>1, <4>2
    <3> QED
      BY <3>1 DEF Flattened
  <2>2. g[n] = h[n] /\ h[n] \in Seq(S)
    BY <1>1, <1>5 DEF m
  <2>3. \A i \in 1..n : f[i] \in Seq(S)
    OBVIOUS
  <2> HIDE DEF g
  <2>4. FlattenSeq([i \in 1..n |-> f[i]]) = g[n]
    BY <1>5, <2>1, <2>3, FlattenIs
  <2> QED
    BY <1>2, <1>3, <1>5, <2>2, <2>4
<1> QED
  BY <1>4, <1>5

LEMMA FlattenTyped ==
    ASSUME NEW S, NEW f, NEW n \in Nat, \A i \in 1..n : f[i] \in Seq(S)
    PROVE  FlattenSeq([i \in 1..n |-> f[i]]) \in Seq(S)
<1>1. CASE n = 0
  <2>1. FlattenSeq([i \in 1..n |-> f[i]]) = <<>>
    BY <1>1, FlattenNone
  <2> QED
    BY <2>1
<1>2. CASE n # 0
  <2>1. PICK h : Flattened(h, f, n) /\ \A i \in 1..n : h[i] \in Seq(S)
    BY FlattenedExists
  <2>2. FlattenSeq([i \in 1..n |-> f[i]]) = h[n]
    BY <1>2, <2>1, FlattenIs
  <2> QED
    BY <1>2, <2>1, <2>2
<1> QED
  BY <1>1, <1>2

-----------------------------------------------------------------------------
(* What the builder holds once the first d parts are dealt with.           *)
Casts(parts, m)    == [i \in DOMAIN parts |-> Cast(PartMeaning(parts[i], m))]
Built(parts, d, m) == FlattenSeq([i \in 1..d |-> Casts(parts, m)[i]])
Joins(v)           == IsResult(v) /\ CanCast(v)

LEMMA LiteralJoins ==
    ASSUME NEW parts \in Seq(Part), NEW m, NEW i \in 1..Len(parts), parts[i].kind = "lit"
    PROVE  /\ Joins(PartMeaning(parts[i], m)) /\ Casts(parts, m)[i] = <<parts[i].of>>
           /\ parts[i].of \in Piece
<1>1. i \in DOMAIN parts
  BY LenProperties
<1>2. parts[i].of \in Literals
  BY <1>1, PartKinds
<1>3. PartMeaning(parts[i], m) = Text(<<parts[i].of>>)
  BY DEF PartMeaning
<1>4. parts[i].of \in Piece /\ <<parts[i].of>> \in Seq(Piece)
  BY <1>2 DEF Piece
<1>5. Joins(Text(<<parts[i].of>>)) /\ Cast(Text(<<parts[i].of>>)) = <<parts[i].of>>
  BY <1>4 DEF Joins, Cast, CanCast, IsResult, IsText, Text
<1> QED
  BY <1>1, <1>3, <1>4, <1>5 DEF Casts

LEMMA CastsTyped ==
    ASSUME NEW parts \in Seq(Part), NEW m, NEW i \in 1..Len(parts), Joins(PartMeaning(parts[i], m))
    PROVE  Casts(parts, m)[i] \in Seq(Piece)
BY CastTyped, LenProperties DEF Casts, Joins

LEMMA BuiltTyped ==
    ASSUME NEW parts \in Seq(Part), NEW m, NEW d \in 0..Len(parts),
           \A i \in 1..d : Joins(PartMeaning(parts[i], m))
    PROVE  Built(parts, d, m) \in Seq(Piece)
<1>1. d \in Nat /\ \A i \in 1..d : i \in 1..Len(parts)
  BY LenProperties
<1>2. \A i \in 1..d : Casts(parts, m)[i] \in Seq(Piece)
  BY <1>1, CastsTyped
<1> QED
  BY <1>1, <1>2, FlattenTyped DEF Built

LEMMA BuiltOneMore ==
    ASSUME NEW parts \in Seq(Part), NEW m, NEW d \in 0..Len(parts), d < Len(parts),
           \A i \in 1..d + 1 : Joins(PartMeaning(parts[i], m))
    PROVE  Built(parts, d + 1, m) = Built(parts, d, m) \o Casts(parts, m)[d + 1]
<1>1. d \in Nat /\ \A i \in 1..d + 1 : i \in 1..Len(parts)
  BY LenProperties
<1>2. \A i \in 1..d + 1 : Casts(parts, m)[i] \in Seq(Piece)
  BY <1>1, CastsTyped
<1> QED
  BY <1>1, <1>2, FlattenOneMore DEF Built

(* Literals are copied.                                                    *)
Copied(parts, d, j) == [i \in 1..j |-> parts[d + i].of]

LEMMA CopiedOneMore ==
    ASSUME NEW parts \in Seq(Part), NEW d \in 0..Len(parts), NEW j \in Nat, d + j < Len(parts),
           \A i \in d + 1..d + j + 1 : parts[i].of \in Piece
    PROVE  /\ Copied(parts, d, j) \in Seq(Piece) /\ Copied(parts, d, j + 1) \in Seq(Piece)
           /\ Copied(parts, d, j + 1) = Copied(parts, d, j) \o <<parts[d + j + 1].of>>
<1>1. Len(parts) \in Nat /\ d \in Nat
  BY LenProperties
<1>2. \A i \in 1..j + 1 : parts[d + i].of \in Piece
  BY <1>1
<1>3. Copied(parts, d, j) \in Seq(Piece) /\ Len(Copied(parts, d, j)) = j
  <2>1. \A i \in 1..j : parts[d + i].of \in Piece
    BY <1>2
  <2> QED
    BY <2>1 DEF Copied
<1>4. Copied(parts, d, j + 1) \in Seq(Piece) /\ Len(Copied(parts, d, j + 1)) = j + 1
  BY <1>2 DEF Copied
<1> DEFINE x == parts[d + j + 1].of
           a == Copied(parts, d, j)
           b == Append(a, x)
<1>5. x \in Piece
  BY <1>1
<1>6. \A i \in 1..j : a[i] = parts[d + i].of
  BY DEF Copied
<1>7. \A i \in 1..j + 1 : Copied(parts, d, j + 1)[i] = parts[d + i].of
  BY DEF Copied
<1>8. parts[d + (j + 1)].of = x
  BY <1>1
<1> HIDE DEF x, a
<1>9. /\ b \in Seq(Piece) /\ Len(b) = j + 1 /\ b[j + 1] = x
      /\ \A i \in 1..j : b[i] = a[i]
  BY <1>3, <1>5, AppendProperties DEF a
<1> HIDE DEF b
<1>10. ASSUME NEW i \in 1..j + 1 PROVE Copied(parts, d, j + 1)[i] = b[i]
  <2>1. CASE i = j + 1
    BY <1>7, <1>8, <1>9, <2>1
  <2>2. CASE i # j + 1
    <3>1. i \in 1..j
      BY <2>2
    <3> QED
      BY <1>6, <1>7, <1>9, <3>1
  <2> QED
    BY <2>1, <2>2
<1>11. Copied(parts, d, j + 1) = b
  BY <1>4, <1>9, <1>10, SeqEqual
<1>12. b = a \o <<x>>
  BY <1>3, <1>5, AppendIsConcat DEF a, b
<1> QED
  BY <1>3, <1>4, <1>11, <1>12 DEF a, x

LEMMA BuiltLiterals ==
    ASSUME NEW parts \in Seq(Part), NEW m, NEW d \in 0..Len(parts), NEW n \in 0..Len(parts) - d,
           \A i \in 1..d : Joins(PartMeaning(parts[i], m)),
           \A i \in d + 1..d + n : parts[i].kind = "lit"
    PROVE  /\ \A i \in 1..d + n : Joins(PartMeaning(parts[i], m))
           /\ Built(parts, d + n, m) = Built(parts, d, m) \o Copied(parts, d, n)
<1>1. Len(parts) \in Nat /\ d \in Nat /\ n \in Nat
  BY LenProperties
<1>2. \A i \in d + 1..d + n : Joins(PartMeaning(parts[i], m)) /\ parts[i].of \in Piece
                              /\ Casts(parts, m)[i] = <<parts[i].of>>
  <2>1. \A i \in d + 1..d + n : i \in 1..Len(parts)
    BY <1>1
  <2> QED
    BY <2>1, LiteralJoins
<1>3. \A i \in 1..d + n : Joins(PartMeaning(parts[i], m))
  <2>1. \A i \in 1..d + n : i \in 1..d \/ i \in d + 1..d + n
    BY <1>1
  <2> QED
    BY <1>2, <2>1
<1>4. Built(parts, d, m) \in Seq(Piece)
  BY BuiltTyped
<1> DEFINE Copies(j) == Built(parts, d + j, m) = Built(parts, d, m) \o Copied(parts, d, j)
           Good == {j \in Nat : j <= n => Copies(j)}
<1>5. Copies(0)
  <2>1. Copied(parts, d, 0) = <<>> /\ d + 0 = d
    BY <1>1 DEF Copied
  <2> QED
    BY <1>4, <2>1, ConcatEmptySeq
<1>6. ASSUME NEW j \in Nat, j < n, Copies(j) PROVE Copies(j + 1)
  <2>1. /\ d + j \in 0..Len(parts) /\ d + j < Len(parts) /\ (d + j) + 1 = d + (j + 1)
        /\ \A i \in 1..(d + j) + 1 : i \in 1..d + n
        /\ \A i \in d + 1..d + j + 1 : i \in d + 1..d + n
        /\ d + j + 1 \in d + 1..d + n
    BY <1>1, <1>6
  <2>2. Built(parts, (d + j) + 1, m) = Built(parts, d + j, m) \o Casts(parts, m)[(d + j) + 1]
    BY <1>3, <2>1, BuiltOneMore
  <2>3. /\ Casts(parts, m)[d + j + 1] = <<parts[d + j + 1].of>>
        /\ <<parts[d + j + 1].of>> \in Seq(Piece)
    BY <1>2, <2>1
  <2>4. /\ Copied(parts, d, j) \in Seq(Piece)
        /\ Copied(parts, d, j + 1) = Copied(parts, d, j) \o <<parts[d + j + 1].of>>
    BY <1>2, <2>1, CopiedOneMore
  <2>5. (Built(parts, d, m) \o Copied(parts, d, j)) \o <<parts[d + j + 1].of>>
        = Built(parts, d, m) \o (Copied(parts, d, j) \o <<parts[d + j + 1].of>>)
    <3>1. \A a, b, c \in Seq(Piece) : (a \o b) \o c = a \o (b \o c)
      BY ConcatAssociative
    <3> QED
      BY <1>4, <2>3, <2>4, <3>1, Zenon
  <2> QED
    BY <1>6, <2>1, <2>2, <2>3, <2>4, <2>5
<1> HIDE DEF Copies
<1>7. ASSUME n \notin Good PROVE FALSE
  <2>1. PICK j \in Nat : j \notin Good /\ \A i \in 0..j - 1 : i \in Good
    <3> HIDE DEF Good
    <3> QED
      BY <1>1, <1>7, Least
  <2>2. j <= n /\ ~Copies(j) /\ j # 0
    BY <1>5, <2>1
  <2>3. j - 1 \in 0..j - 1 /\ j - 1 < n /\ (j - 1) + 1 = j
    BY <1>1, <2>1, <2>2
  <2>4. Copies(j - 1)
    BY <2>1, <2>3
  <2>5. Copies((j - 1) + 1)
    BY <1>6, <2>3, <2>4
  <2> QED
    BY <2>2, <2>3, <2>5
<1>8. Copies(n)
  BY <1>1, <1>7
<1> QED
  BY <1>3, <1>8 DEF Copies

-----------------------------------------------------------------------------
(* What a call has made of the value of its key: it came from the cache,   *)
(* or the first d parts of the template are in the builder.                *)
Awaits(f) == f.rest[NextRef(f.rest)].of

Done(f, parts, d, m) ==
    /\ d \in 0..Len(parts)
    /\ f.rest = SubSeq(parts, d + 1, Len(parts))
    /\ f.built = Built(parts, d, m)
    /\ \A i \in 1..d : Joins(PartMeaning(parts[i], m))
    /\ d > 0 => parts[d].kind = "ref" /\ Len(parts) > 1

FromCache(f, m) == ~HasNext(f.rest) /\ Text(f.built \o Pieces(f.rest)) = m[f.key]

FrameSound(f, values, m) ==
    \/ FromCache(f, m)
    \/ /\ values[f.key].kind = "template"
       /\ \E d \in 0..Len(values[f.key].of) : Done(f, values[f.key].of, d, m)

(* No value ends in two references side by side.                           *)
NoneAdjacent ==
    \A v \in Raws : IsTemplate(v) /\ Len(v.of) > 1 =>
        ~(v.of[Len(v.of)].kind = "ref" /\ v.of[Len(v.of) - 1].kind = "ref")

LEMMA RestOfDone ==
    ASSUME NEW parts \in Seq(Part), NEW m, NEW f, NEW d \in 0..Len(parts), Done(f, parts, d, m)
    PROVE  /\ f.rest \in Seq(Part) /\ f.rest \in Seq(Left) /\ Len(f.rest) = Len(parts) - d
           /\ \A i \in 1..Len(parts) - d : f.rest[i] = parts[d + i]
<1>1. Len(parts) \in Nat /\ d \in Nat
  BY LenProperties
<1>2. d + 1 \in Nat /\ Len(parts) \in (d + 1) - 1 .. Len(parts)
      /\ \A i \in d + 1..Len(parts) : parts[i] \in Part
  <2>1. \A i \in d + 1..Len(parts) : i \in 1..Len(parts)
    BY <1>1
  <2> QED
    BY <1>1, <2>1, ElementOfSeq
<1> DEFINE rest == SubSeq(parts, d + 1, Len(parts))
<1>3. /\ rest \in Seq(Part) /\ Len(rest) = Len(parts) - d
      /\ \A i \in 1..Len(parts) - d : rest[i] = parts[d + i]
  BY <1>1, <1>2, SubSeqProperties
<1>4. f.rest = rest
  BY DEF Done
<1> HIDE DEF rest
<1>5. rest \in Seq(Left)
  BY <1>3 DEF Left
<1> QED
  BY <1>3, <1>4, <1>5

LEMMA JoinsIsNoError == ASSUME NEW v, IsResult(v) PROVE v # Error
BY DEF IsResult, IsObject, IsText, Object, Text, Error

(* The next reference of the call is one of its value.                     *)
LEMMA NextOfDone ==
    ASSUME NEW parts \in Seq(Part), NEW m, NEW f, NEW d \in 0..Len(parts), Done(f, parts, d, m),
           HasNext(f.rest), NEW n, n = NextRef(f.rest)
    PROVE  /\ n \in 1..Len(parts) - d /\ d + n \in 1..Len(parts)
           /\ parts[d + n].kind = "ref" /\ parts[d + n].of = Awaits(f) /\ Awaits(f) \in Keys
           /\ \A i \in d + 1..d + (n - 1) : parts[i].kind = "lit"
<1>1. Len(parts) \in Nat /\ d \in Nat
  BY LenProperties
<1>2. /\ f.rest \in Seq(Left) /\ Len(f.rest) = Len(parts) - d
      /\ \A i \in 1..Len(parts) - d : f.rest[i] = parts[d + i]
  BY RestOfDone
<1>3. /\ n \in 1..Len(parts) - d /\ f.rest[n].kind = "ref" /\ f.rest[n].of \in Keys
      /\ \A i \in 1..n - 1 : f.rest[i].kind = "lit"
  BY <1>2, NextIsFirst
<1>4. f.rest[n] = parts[d + n] /\ Awaits(f) = f.rest[n].of /\ d + n \in 1..Len(parts)
  BY <1>1, <1>2, <1>3 DEF Awaits
<1>5. ASSUME NEW i \in d + 1..d + (n - 1) PROVE parts[i].kind = "lit"
  <2> DEFINE j == i - d
  <2>1. j \in 1..n - 1 /\ j \in 1..Len(parts) - d /\ d + j = i
    BY <1>1, <1>3
  <2> HIDE DEF j
  <2> QED
    BY <1>2, <1>3, <2>1
<1> QED
  BY <1>3, <1>4, <1>5

(* What the next reference stands for is what its key means.               *)
LEMMA NextMeans ==
    ASSUME NEW parts \in Seq(Part), NEW m, NEW i \in 1..Len(parts), parts[i].kind = "ref"
    PROVE  /\ PartMeaning(parts[i], m) = m[parts[i].of]
           /\ Casts(parts, m)[i] = Cast(m[parts[i].of])
           /\ RefersTo(parts, parts[i].of)
<1>1. i \in DOMAIN parts
  BY LenProperties
<1>2. PartMeaning(parts[i], m) = m[parts[i].of]
  BY DEF PartMeaning
<1>3. parts[i] = Ref(parts[i].of)
  BY <1>1, PartKinds
<1> QED
  BY <1>1, <1>2, <1>3 DEF Casts, RefersTo

LEMMA CopiedPieces ==
    ASSUME NEW parts \in Seq(Part), NEW m, NEW f, NEW d \in 0..Len(parts), Done(f, parts, d, m),
           NEW n \in 0..Len(parts) - d
    PROVE  /\ Pieces(SubSeq(f.rest, 1, n)) = Copied(parts, d, n)
           /\ Pieces(f.rest) = Copied(parts, d, Len(parts) - d)
<1>1. Len(parts) \in Nat /\ d \in Nat /\ n \in Nat
  BY LenProperties
<1> DEFINE rest == f.rest
<1>2. /\ rest \in Seq(Part) /\ Len(rest) = Len(parts) - d
      /\ \A i \in 1..Len(parts) - d : rest[i] = parts[d + i]
  BY RestOfDone
<1> HIDE DEF rest
<1>3. DOMAIN rest = 1..Len(parts) - d /\ \A i \in 1..Len(parts) - d : rest[i] \in Part
  BY <1>2, LenProperties, ElementOfSeq
<1>4. Pieces(rest) = Copied(parts, d, Len(parts) - d)
  BY <1>2, <1>3 DEF Pieces, Copied
<1> DEFINE sub == SubSeq(rest, 1, n)
<1>5. sub \in Seq(Part) /\ Len(sub) = n /\ \A i \in 1..n : sub[i] = rest[i]
  <2>1. n \in 1 - 1..Len(rest) /\ \A i \in 1..n : rest[i] \in Part
    BY <1>1, <1>2, <1>3
  <2> QED
    BY <1>2, <2>1, SubSeqProperties
<1> HIDE DEF sub
<1>6. DOMAIN sub = 1..n /\ \A i \in 1..n : sub[i] = parts[d + i]
  <2>1. DOMAIN sub = 1..n
    BY <1>5, LenProperties
  <2>2. \A i \in 1..n : i \in 1..Len(parts) - d
    BY <1>1
  <2> QED
    BY <1>2, <1>5, <2>1, <2>2
<1>7. Pieces(sub) = Copied(parts, d, n)
  BY <1>6 DEF Pieces, Copied
<1> QED
  BY <1>4, <1>7 DEF rest, sub

(* All parts dealt with: the builder holds what the template means.        *)
LEMMA DoneAtEnd ==
    ASSUME NEW parts \in Seq(Part), NEW m, NEW f, NEW d \in 0..Len(parts), Done(f, parts, d, m),
           ~HasNext(f.rest)
    PROVE  Text(f.built \o Pieces(f.rest)) = TemplateMeaning(parts, m)
<1> DEFINE len == Len(parts)
<1>1. /\ len \in Nat /\ d \in Nat /\ len - d \in 0..len - d /\ d + (len - d) = len
      /\ DOMAIN parts = 1..len
  BY LenProperties
<1>2. /\ f.rest \in Seq(Left) /\ Len(f.rest) = len - d
      /\ \A i \in 1..len - d : f.rest[i] = parts[d + i]
  BY RestOfDone
<1>3. \A i \in 1..len - d : f.rest[i].kind = "lit"
  BY <1>2, NoReferenceIsLiteral
<1>4. ASSUME NEW i \in d + 1..d + (len - d) PROVE parts[i].kind = "lit"
  <2> DEFINE j == i - d
  <2>1. j \in 1..len - d /\ d + j = i
    BY <1>1
  <2> HIDE DEF j
  <2> QED
    BY <1>2, <1>3, <2>1
<1>5. /\ \A i \in 1..d + (len - d) : Joins(PartMeaning(parts[i], m))
      /\ Built(parts, d + (len - d), m) = Built(parts, d, m) \o Copied(parts, d, len - d)
  BY <1>1, <1>4, BuiltLiterals DEF Done
<1>6. Built(parts, len, m) = f.built \o Pieces(f.rest)
  BY <1>1, <1>5, CopiedPieces DEF Done
<1>7. \A i \in 1..len : Joins(PartMeaning(parts[i], m))
  BY <1>1, <1>5
<1>8. ~IsReference(parts)
  <2> SUFFICES ASSUME len = 1, parts[1].kind = "ref" PROVE FALSE
    BY DEF IsReference
  <2>1. d = 0 \/ d = 1
    BY <1>1
  <2>2. d = 0
    BY <2>1 DEF Done
  <2>3. 1 \in d + 1..d + (len - d)
    BY <2>2
  <2> QED
    BY <1>4, <2>3
<1> DEFINE each == PartMeanings(parts, m)
<1>9. DOMAIN each = 1..len /\ \A i \in 1..len : each[i] = PartMeaning(parts[i], m)
  BY <1>1 DEF PartMeanings
<1> HIDE DEF each, len
<1>10. ~IsNoText(each)
  <2>1. \A i \in 1..len : each[i] # Error /\ CanCast(each[i])
    BY <1>7, <1>9, JoinsIsNoError DEF Joins
  <2> QED
    BY <1>9, <2>1 DEF IsNoText
<1>11. [i \in DOMAIN each |-> Cast(each[i])] = [i \in 1..len |-> Casts(parts, m)[i]]
  BY <1>1, <1>9 DEF Casts
<1>12. TemplateMeaning(parts, m) = Joined(each)
  BY <1>8, <1>10 DEF TemplateMeaning, each
<1>13. Joined(each) = Text(Built(parts, len, m))
  BY <1>11 DEF Joined, Built
<1> QED
  BY <1>6, <1>12, <1>13

(* What is left is the reference alone: it is the whole value.             *)
LEMMA DoneWithReference ==
    ASSUME NEW parts \in Seq(Part), NEW m, NEW f, NEW d \in 0..Len(parts), Done(f, parts, d, m),
           HasNext(f.rest), NextRef(f.rest) = 1, Len(f.rest) = 1,
           Len(parts) > 1 => ~(parts[Len(parts)].kind = "ref" /\ parts[Len(parts) - 1].kind = "ref")
    PROVE  TemplateMeaning(parts, m) = m[Awaits(f)]
<1> DEFINE len == Len(parts)
           left == Len(f.rest)
<1>0. len \in Nat /\ d \in 0..len
  BY LenProperties
<1>1. left = len - d /\ left = 1
  BY RestOfDone
<1>2. d + 1 \in 1..len /\ parts[d + 1].kind = "ref" /\ parts[d + 1].of = Awaits(f)
  BY NextOfDone
<1>3. len = d + 1 /\ d \in Nat
  <2> HIDE DEF len, left
  <2> QED
    BY <1>0, <1>1
<1>4. d = 0
  <2> SUFFICES ASSUME d > 0 PROVE FALSE
    BY <1>3
  <2>1. parts[d].kind = "ref" /\ len > 1
    BY DEF Done
  <2>2. len - 1 = d
    <3> HIDE DEF len
    <3> QED
      BY <1>3
  <2> QED
    BY <1>2, <1>3, <2>1, <2>2
<1>5. PartMeaning(parts[1], m) = m[Awaits(f)] /\ IsReference(parts)
  <2>1. 1 \in 1..Len(parts) /\ parts[1].kind = "ref" /\ parts[1].of = Awaits(f) /\ Len(parts) = 1
    BY <1>2, <1>3, <1>4
  <2> QED
    BY <2>1, NextMeans DEF IsReference
<1> QED
  BY <1>5 DEF TemplateMeaning

(* A reference among other parts to what is no text.                       *)
LEMMA DoneWithoutText ==
    ASSUME NEW parts \in Seq(Part), NEW m, NEW f, NEW d \in 0..Len(parts), Done(f, parts, d, m),
           HasNext(f.rest), ~(NextRef(f.rest) = 1 /\ Len(f.rest) = 1), ~CanCast(m[Awaits(f)])
    PROVE  TemplateMeaning(parts, m) = Error
<1> DEFINE n == NextRef(f.rest)
<1>1. /\ Len(parts) \in Nat /\ d \in Nat /\ Len(f.rest) = Len(parts) - d
      /\ DOMAIN parts = 1..Len(parts)
  BY LenProperties, RestOfDone
<1>2. /\ n \in 1..Len(parts) - d /\ d + n \in 1..Len(parts)
      /\ parts[d + n].kind = "ref" /\ parts[d + n].of = Awaits(f)
  BY NextOfDone
<1>3. ~(n = 1 /\ Len(f.rest) = 1)
  OBVIOUS
<1> HIDE DEF n
<1>4. ~IsReference(parts)
  <2> SUFFICES ASSUME Len(parts) = 1 PROVE FALSE
    BY DEF IsReference
  <2>1. d = 0
    BY <1>1 DEF Done
  <2> QED
    BY <1>1, <1>2, <1>3, <2>1
<1>5. PartMeaning(parts[d + n], m) = m[Awaits(f)]
  BY <1>2, NextMeans
<1>6. IsNoText(PartMeanings(parts, m))
  BY <1>1, <1>2, <1>5 DEF IsNoText, PartMeanings
<1> QED
  BY <1>4, <1>6 DEF TemplateMeaning

(* What is left of what was left.                                          *)
LEMMA RestOfRest ==
    ASSUME NEW S, NEW parts \in Seq(S), NEW d \in 0..Len(parts), NEW n \in 1..Len(parts) - d,
           NEW rest \in Seq(S), Len(rest) = Len(parts) - d,
           \A i \in 1..Len(parts) - d : rest[i] = parts[d + i]
    PROVE  SubSeq(rest, n + 1, Len(rest)) = SubSeq(parts, (d + n) + 1, Len(parts))
<1> DEFINE len == Len(parts)
           left == Len(rest)
           more == left - n
           a == SubSeq(rest, n + 1, left)
           e == d + n
           b == SubSeq(parts, e + 1, len)
<1>1. len \in Nat /\ left = len - d /\ d \in 0..len /\ n \in 1..len - d
  BY LenProperties
<1>2. n \in 1..left /\ e \in 1..len /\ more = len - e
  <2> HIDE DEF len, left
  <2> QED
    BY ONLY <1>1 DEF e, more
<1>3. a \in Seq(S) /\ Len(a) = more /\ \A i \in 1..more : a[i] = rest[n + i]
  BY <1>2, RestTyped
<1>4. b \in Seq(S) /\ Len(b) = len - e /\ \A i \in 1..len - e : b[i] = parts[e + i]
  <2>1. e \in 1..Len(parts)
    BY <1>2
  <2> HIDE DEF e
  <2> QED
    BY <2>1, RestTyped
<1>5. \A i \in 1..more : n + i \in 1..len - d /\ d + (n + i) = e + i
  <2> HIDE DEF len
  <2> QED
    BY <1>1, <1>2
<1>6. \A i \in 1..more : rest[n + i] = parts[d + (n + i)]
  BY <1>5
<1> HIDE DEF a, b, more, e
<1>7. \A i \in 1..more : a[i] = b[i]
  BY ONLY <1>2, <1>3, <1>4, <1>5, <1>6
<1>8. a = b
  BY ONLY <1>2, <1>3, <1>4, <1>7, SeqEqual
<1> QED
  BY <1>8 DEF a, b, e

(* The answer goes to the builder.                                         *)
LEMMA DoneNext ==
    ASSUME NEW parts \in Seq(Part), NEW m, NEW f, NEW d \in 0..Len(parts), Done(f, parts, d, m),
           NEW n, n = NextRef(f.rest),
           HasNext(f.rest), ~(n = 1 /\ Len(f.rest) = 1), Joins(m[Awaits(f)]),
           NEW g, g.rest = SubSeq(f.rest, n + 1, Len(f.rest)),
           g.built = f.built \o Pieces(SubSeq(f.rest, 1, n - 1)) \o Cast(m[Awaits(f)])
    PROVE  d + n \in 0..Len(parts) /\ Done(g, parts, d + n, m)
<1>0. Len(parts) \in Nat /\ d \in Nat
  BY LenProperties
<1>1. Len(parts) \in Nat /\ d \in Nat /\ Len(f.rest) = Len(parts) - d
      /\ f.rest \in Seq(Part) /\ \A i \in 1..Len(parts) - d : f.rest[i] = parts[d + i]
  <2>1. /\ Len(f.rest) = Len(parts) - d
        /\ f.rest \in Seq(Part) /\ \A i \in 1..Len(parts) - d : f.rest[i] = parts[d + i]
    BY ONLY parts \in Seq(Part), d \in 0..Len(parts), Done(f, parts, d, m), RestOfDone
  <2> QED
    BY <1>0, <2>1
<1>2. /\ n \in 1..Len(parts) - d /\ d + n \in 1..Len(parts)
      /\ parts[d + n].kind = "ref" /\ parts[d + n].of = Awaits(f)
      /\ \A i \in d + 1..d + (n - 1) : parts[i].kind = "lit"
  BY NextOfDone
<1>3. /\ n - 1 \in 0..Len(parts) - d /\ d + (n - 1) \in 0..Len(parts) /\ d + (n - 1) < Len(parts)
      /\ (d + (n - 1)) + 1 = d + n /\ d + n \in 0..Len(parts) /\ d + n > 0
  <2> DEFINE len == Len(parts)
  <2>1. len \in Nat /\ d \in Nat /\ n \in 1..len - d /\ d + n \in 1..len
    BY <1>0, <1>2
  <2> HIDE DEF len
  <2>2. /\ n - 1 \in 0..len - d /\ d + (n - 1) \in 0..len /\ d + (n - 1) < len
        /\ (d + (n - 1)) + 1 = d + n /\ d + n \in 0..len /\ d + n > 0
    BY ONLY <2>1
  <2> QED
    BY <2>2 DEF len
<1>4. PartMeaning(parts[d + n], m) = m[Awaits(f)] /\ Casts(parts, m)[d + n] = Cast(m[Awaits(f)])
  <2>1. PICK e : e = d + n
    OBVIOUS
  <2>2. e \in 1..Len(parts) /\ parts[e].kind = "ref" /\ parts[e].of = Awaits(f)
    BY <1>2, <2>1
  <2>3. PartMeaning(parts[e], m) = m[parts[e].of] /\ Casts(parts, m)[e] = Cast(m[parts[e].of])
    BY ONLY parts \in Seq(Part), <2>2, NextMeans
  <2> QED
    BY <2>1, <2>2, <2>3
<1>5. /\ \A i \in 1..d + (n - 1) : Joins(PartMeaning(parts[i], m))
      /\ Built(parts, d + (n - 1), m) = Built(parts, d, m) \o Copied(parts, d, n - 1)
  BY <1>2, <1>3, BuiltLiterals DEF Done
<1>6. \A i \in 1..d + n : Joins(PartMeaning(parts[i], m))
  <2>1. \A i \in 1..d + n : i \in 1..d + (n - 1) \/ i = d + n
    BY <1>1, <1>2
  <2> QED
    BY <1>4, <1>5, <2>1
<1>7. Built(parts, (d + (n - 1)) + 1, m)
      = Built(parts, d + (n - 1), m) \o Casts(parts, m)[(d + (n - 1)) + 1]
  <2>1. \A i \in 1..(d + (n - 1)) + 1 : Joins(PartMeaning(parts[i], m))
    BY <1>3, <1>6
  <2> QED
    BY <1>3, <2>1, BuiltOneMore
<1>8. Built(parts, d + n, m) = Built(parts, d + (n - 1), m) \o Cast(m[Awaits(f)])
  BY <1>3, <1>4, <1>7
<1>9. Pieces(SubSeq(f.rest, 1, n - 1)) = Copied(parts, d, n - 1) /\ f.built = Built(parts, d, m)
  <2>1. PICK e : e = n - 1
    OBVIOUS
  <2>2. Pieces(SubSeq(f.rest, 1, e)) = Copied(parts, d, e)
    <3>1. e \in 0..Len(parts) - d
      BY <1>3, <2>1
    <3> QED
      BY ONLY parts \in Seq(Part), d \in 0..Len(parts), Done(f, parts, d, m), <3>1, CopiedPieces
  <2> QED
    BY <2>1, <2>2 DEF Done
<1>10. g.built = Built(parts, d + n, m)
  BY <1>5, <1>8, <1>9
<1>11. g.rest = SubSeq(parts, (d + n) + 1, Len(parts))
  BY ONLY parts \in Seq(Part), d \in 0..Len(parts), <1>1, <1>2, RestOfRest,
          g.rest = SubSeq(f.rest, n + 1, Len(f.rest))
<1>12. Len(parts) > 1
  <2> SUFFICES ASSUME Len(parts) = 1 PROVE FALSE
    BY <1>1, <1>2
  <2>1. d = 0
    BY <1>1 DEF Done
  <2> QED
    BY <1>1, <1>2, <2>1
<1> QED
  BY <1>2, <1>3, <1>6, <1>10, <1>11, <1>12 DEF Done

-----------------------------------------------------------------------------
(* The table the proofs are about.                                         *)
Means == MeaningUpTo[N]

LEMMA MeansIsMeaning == \A k : Means[k] = Meaning(k)
BY DEF Means, Meaning, N

LEMMA MeansStays == raw' = raw => Means' = Means
BY TableStays DEF Means

(* Cached is what the key means.                                           *)
Held(c, m) == \A k \in Keys : c[k] # Nothing => c[k] = m[k]

(* Calls that are right so far, each waiting for the one above it; the     *)
(* lowest is the one that was asked for.                                   *)
Chain(s, a, values, m) ==
    /\ \A i \in 1..Len(s) : FrameSound(s[i], values, m)
    /\ \A i \in 1..Len(s) - 1 : Awaits(s[i]) = s[i + 1].key
    /\ s # <<>> => s[1].key = a

(* The key whose meaning is wanted next.                                   *)
Awaited(s, a) == IF s = <<>> THEN a ELSE Awaits(s[Len(s)])

ReaderSound(s, x, a, values, m) ==
    Chain(s, a, values, m) /\ (x \notin {Nothing, Error} => x = m[Awaited(s, a)])

(* What a call begins with.                                                *)
LEMMA ValueMeans ==
    ASSUME raw \in [Keys -> Raws], NEW k \in Keys, NEW c, CacheTyped(c), Held(c, Means)
    PROVE  /\ ValueOf(k, c) = Missing => Means[k] = Error
           /\ ValueOf(k, c).kind = "object" => ValueOf(k, c) = Means[k]
           /\ ValueOf(k, c).kind = "template" => FrameSound(Frame(k, ValueOf(k, c).of), raw, Means)
<1>1. CASE c[k] = Nothing
  <2>1. ValueOf(k, c) = raw[k]
    BY <1>1 DEF ValueOf
  <2>2. /\ raw[k] = Missing => Means[k] = Error
        /\ raw[k].kind = "object" => raw[k] = Means[k]
    BY MeaningIsFixed, MeansIsMeaning
  <2>3. ASSUME raw[k].kind = "template" PROVE FrameSound(Frame(k, raw[k].of), raw, Means)
    <3> DEFINE parts == raw[k].of
               f == Frame(k, parts)
    <3>1. parts \in Seq(Part) /\ Len(parts) \in Nat
      BY <2>3, RawTyped, LenProperties
    <3>2. f.key = k /\ f.rest = parts /\ f.built = <<>>
      BY DEF Frame
    <3>3. parts = SubSeq(parts, 0 + 1, Len(parts)) /\ 0 \in 0..Len(parts)
      <4> HIDE DEF parts
      <4> QED
        BY <3>1
    <3>4. Built(parts, 0, Means) = <<>>
      BY FlattenNone DEF Built
    <3> HIDE DEF f, parts
    <3>5. Done(f, parts, 0, Means)
      BY <3>2, <3>3, <3>4 DEF Done
    <3>6. FrameSound(f, raw, Means)
      BY <2>3, <3>2, <3>3, <3>5 DEF FrameSound, parts
    <3> QED
      BY <3>6 DEF f, parts
  <2> QED
    BY <2>1, <2>2, <2>3
<1>2. CASE c[k] # Nothing /\ IsObject(c[k])
  <2>1. c[k].kind = "object" /\ c[k] # Missing
    BY <1>2 DEF IsObject, Object, Missing
  <2>2. ValueOf(k, c) = c[k]
    BY <1>2, <2>1 DEF ValueOf, AsTemplate
  <2> QED
    BY <1>2, <2>1, <2>2 DEF Held
<1>3. CASE c[k] # Nothing /\ IsText(c[k])
  <2> DEFINE p == c[k].of
             lits == [i \in DOMAIN p |-> Lit(p[i])]
             f == Frame(k, lits)
  <2>1. c[k].kind = "text" /\ p \in Seq(Piece) /\ c[k] = Text(p) /\ c[k] = Means[k]
    BY <1>3 DEF IsText, Text, Held
  <2>2. ValueOf(k, c) = Template(lits)
    BY <1>3, <2>1 DEF ValueOf, AsTemplate
  <2>3. ~HasNext(lits) /\ Pieces(lits) = [i \in DOMAIN p |-> p[i]]
    BY DEF HasNext, RefsIn, Lit, Pieces
  <2>4. Pieces(lits) = p
    <3> HIDE DEF p
    <3> QED
      BY <2>1, <2>3
  <2> HIDE DEF lits
  <2>5. f.key = k /\ f.rest = lits /\ f.built = <<>>
    BY DEF Frame
  <2>6. <<>> \o p = p
    <3> HIDE DEF p
    <3> QED
      BY <2>1, ConcatEmptySeq
  <2> HIDE DEF f, p
  <2>7. FrameSound(f, raw, Means)
    BY <2>1, <2>3, <2>4, <2>5, <2>6 DEF FrameSound, FromCache
  <2>8. Template(lits).kind = "template" /\ Template(lits) # Missing /\ Template(lits).of = lits
    BY DEF Template, Missing
  <2> QED
    BY <2>2, <2>7, <2>8 DEF f
<1> QED
  BY <1>1, <1>2, <1>3 DEF CacheTyped, IsResult

LEMMA FrameRefers ==
    ASSUME raw \in [Keys -> Raws], NEW f \in Calls, FrameSound(f, raw, Means), HasNext(f.rest)
    PROVE  \E d \in 0..Len(raw[f.key].of) :
              /\ raw[f.key].kind = "template" /\ raw[f.key].of \in Seq(Part)
              /\ Done(f, raw[f.key].of, d, Means)
              /\ Awaits(f) \in Keys /\ RefersTo(raw[f.key].of, Awaits(f))
<1> DEFINE parts == raw[f.key].of
<1>1. f.key \in Keys /\ raw[f.key].kind = "template"
  BY CallFields DEF FrameSound, FromCache
<1>2. parts \in Seq(Part)
  BY <1>1, RawTyped
<1>3. PICK d \in 0..Len(parts) : Done(f, parts, d, Means)
  BY DEF FrameSound, FromCache
<1> HIDE DEF parts
<1>4. PICK n : n = NextRef(f.rest)
  OBVIOUS
<1>5. PICK e : e = d + n
  OBVIOUS
<1>6. e \in 1..Len(parts) /\ parts[e].kind = "ref" /\ parts[e].of = Awaits(f) /\ Awaits(f) \in Keys
  BY <1>2, <1>3, <1>4, <1>5, NextOfDone
<1>7. RefersTo(parts, Awaits(f))
  BY <1>2, <1>6, NextMeans
<1> QED
  BY <1>1, <1>2, <1>3, <1>6, <1>7 DEF parts

(* What a call ends with.                                                  *)
LEMMA FrameAtEnd ==
    ASSUME raw \in [Keys -> Raws], NEW f \in Calls, FrameSound(f, raw, Means), ~HasNext(f.rest)
    PROVE  Text(f.built \o Pieces(f.rest)) = Means[f.key]
<1>1. CASE FromCache(f, Means)
  BY <1>1 DEF FromCache
<1>2. CASE ~FromCache(f, Means)
  <2> DEFINE parts == raw[f.key].of
  <2>1. f.key \in Keys /\ raw[f.key].kind = "template"
    BY <1>2, CallFields DEF FrameSound
  <2>2. parts \in Seq(Part) /\ Means[f.key] = TemplateMeaning(parts, Means)
    BY <2>1, RawTyped, MeaningIsFixed, MeansIsMeaning DEF Means
  <2>3. PICK d \in 0..Len(parts) : Done(f, parts, d, Means)
    BY <1>2 DEF FrameSound
  <2> HIDE DEF parts
  <2> QED
    BY <2>2, <2>3, DoneAtEnd
<1> QED
  BY <1>1, <1>2

LEMMA FrameWithReference ==
    ASSUME raw \in [Keys -> Raws], NoneAdjacent, NEW f \in Calls, FrameSound(f, raw, Means),
           HasNext(f.rest), NextRef(f.rest) = 1, Len(f.rest) = 1
    PROVE  Means[f.key] = Means[Awaits(f)]
<1> DEFINE parts == raw[f.key].of
<1>1. f.key \in Keys
  BY CallFields
<1>2. PICK d \in 0..Len(parts) :
         raw[f.key].kind = "template" /\ parts \in Seq(Part) /\ Done(f, parts, d, Means)
  BY FrameRefers
<1>3. Means[f.key] = TemplateMeaning(parts, Means)
  BY <1>1, <1>2, MeaningIsFixed, MeansIsMeaning DEF Means
<1>4. Len(parts) > 1 => ~(parts[Len(parts)].kind = "ref" /\ parts[Len(parts) - 1].kind = "ref")
  <2>1. raw[f.key] \in Raws /\ IsTemplate(raw[f.key])
    BY <1>1, <1>2, RawTyped DEF IsTemplate, Missing
  <2> QED
    BY <2>1 DEF NoneAdjacent
<1> HIDE DEF parts
<1>5. TemplateMeaning(parts, Means) = Means[Awaits(f)]
  BY <1>2, <1>4, DoneWithReference
<1> QED
  BY <1>3, <1>5

LEMMA FrameWithoutText ==
    ASSUME raw \in [Keys -> Raws], NEW f \in Calls, FrameSound(f, raw, Means),
           HasNext(f.rest), ~(NextRef(f.rest) = 1 /\ Len(f.rest) = 1), ~CanCast(Means[Awaits(f)])
    PROVE  Means[f.key] = Error
<1> DEFINE parts == raw[f.key].of
<1>1. f.key \in Keys
  BY CallFields
<1>2. PICK d \in 0..Len(parts) :
         raw[f.key].kind = "template" /\ parts \in Seq(Part) /\ Done(f, parts, d, Means)
  BY FrameRefers
<1>3. Means[f.key] = TemplateMeaning(parts, Means)
  BY <1>1, <1>2, MeaningIsFixed, MeansIsMeaning DEF Means
<1> HIDE DEF parts
<1>5. TemplateMeaning(parts, Means) = Error
  BY <1>2, DoneWithoutText
<1> QED
  BY <1>3, <1>5

LEMMA FrameNext ==
    ASSUME raw \in [Keys -> Raws], NEW f \in Calls, FrameSound(f, raw, Means),
           NEW n, n = NextRef(f.rest),
           HasNext(f.rest), ~(n = 1 /\ Len(f.rest) = 1), Joins(Means[Awaits(f)]),
           NEW g, g.key = f.key, g.rest = SubSeq(f.rest, n + 1, Len(f.rest)),
           g.built = f.built \o Pieces(SubSeq(f.rest, 1, n - 1)) \o Cast(Means[Awaits(f)])
    PROVE  FrameSound(g, raw, Means)
<1> DEFINE parts == raw[f.key].of
<1>1. PICK d \in 0..Len(parts) :
         raw[f.key].kind = "template" /\ parts \in Seq(Part) /\ Done(f, parts, d, Means)
  BY FrameRefers
<1> HIDE DEF parts
<1>2. d + n \in 0..Len(parts) /\ Done(g, parts, d + n, Means)
  BY <1>1, DoneNext
<1> QED
  BY <1>1, <1>2 DEF FrameSound, parts

LEMMA ChainAppend ==
    ASSUME NEW s \in Seq(Calls), NEW a, NEW values, NEW m, Chain(s, a, values, m),
           NEW f \in Calls, FrameSound(f, values, m), Awaited(s, a) = f.key
    PROVE  Chain(Append(s, f), a, values, m)
<1> DEFINE t == Append(s, f)
           n == Len(s)
<1>1. /\ t \in Seq(Calls) /\ Len(t) = n + 1 /\ n \in Nat
      /\ \A i \in 1..n : t[i] = s[i]
      /\ t[n + 1] = f
  BY AppendProperties, LenProperties
<1>2. n = 0 <=> s = <<>>
  BY EmptySeq
<1>3. \A i \in 1..n : FrameSound(s[i], values, m)
  BY DEF Chain
<1>4. \A i \in 1..n - 1 : Awaits(s[i]) = s[i + 1].key
  BY DEF Chain
<1>5. s # <<>> => s[1].key = a
  BY DEF Chain
<1>6. IF n = 0 THEN a = f.key ELSE Awaits(s[n]) = f.key
  BY <1>2 DEF Awaited
<1> HIDE DEF t, n
<1>7. \A i \in 1..n + 1 : FrameSound(t[i], values, m)
  <2>1. \A i \in 1..n + 1 : i \in 1..n \/ i = n + 1
    BY <1>1
  <2> QED
    BY <1>1, <1>3, <2>1
<1>8. ASSUME NEW i \in 1..n PROVE Awaits(t[i]) = t[i + 1].key
  <2>1. CASE i = n
    BY <1>1, <1>6, <2>1
  <2>2. CASE i # n
    <3>1. i \in 1..n - 1 /\ i + 1 \in 1..n
      BY <1>1, <2>2
    <3> QED
      BY <1>1, <1>4, <3>1
  <2> QED
    BY <2>1, <2>2
<1>9. t[1].key = a
  <2>1. CASE n = 0
    BY <1>1, <1>6, <2>1
  <2>2. CASE n # 0
    <3>1. 1 \in 1..n
      BY <1>1, <2>2
    <3> QED
      BY <1>1, <1>2, <1>5, <2>2, <3>1
  <2> QED
    BY <2>1, <2>2
<1>10. (n + 1) - 1 = n
  BY <1>1
<1> QED
  BY <1>1, <1>7, <1>8, <1>9, <1>10 DEF Chain, t

LEMMA ChainFront ==
    ASSUME NEW s \in Seq(Calls), s # <<>>, NEW a, NEW values, NEW m, Chain(s, a, values, m)
    PROVE  Chain(Front(s), a, values, m) /\ Awaited(Front(s), a) = s[Len(s)].key
<1> DEFINE t == Front(s)
           n == Len(s)
<1>1. /\ t \in Seq(Calls) /\ n \in Nat \ {0} /\ Len(t) = n - 1
      /\ \A i \in 1..n - 1 : t[i] = s[i]
  BY FrontTyped
<1>2. n = 1 <=> t = <<>>
  <2>1. Len(t) = 0 <=> t = <<>>
    BY <1>1, EmptySeq
  <2> HIDE DEF t, n
  <2> QED
    BY <1>1, <2>1
<1>3. \A i \in 1..n : FrameSound(s[i], values, m)
  BY DEF Chain
<1>4. \A i \in 1..n - 1 : Awaits(s[i]) = s[i + 1].key
  BY DEF Chain
<1>5. s[1].key = a
  BY DEF Chain
<1> HIDE DEF t, n
<1>6. \A i \in 1..Len(t) : FrameSound(t[i], values, m)
  BY <1>1, <1>3
<1>7. ASSUME NEW i \in 1..Len(t) - 1 PROVE Awaits(t[i]) = t[i + 1].key
  <2>1. i \in 1..n - 1 /\ i + 1 \in 1..n - 1
    BY <1>1
  <2> QED
    BY <1>1, <1>4, <2>1
<1>8. t # <<>> => t[1].key = a
  BY <1>1, <1>2, <1>5
<1>9. CASE n = 1
  <2>1. Awaited(t, a) = a /\ s[n].key = a
    BY <1>2, <1>5, <1>9 DEF Awaited
  <2> QED
    BY <1>6, <1>7, <1>8, <2>1 DEF Chain, t, n
<1>10. CASE n # 1
  <2>1. n - 1 \in 1..n - 1 /\ (n - 1) + 1 = n
    BY <1>1, <1>10
  <2>2. Awaits(s[n - 1]) = s[n].key
    BY <1>4, <2>1
  <2>3. Awaited(t, a) = Awaits(t[n - 1])
    BY <1>1, <1>2, <1>10 DEF Awaited
  <2>4. Awaited(t, a) = s[n].key
    BY <1>1, <2>1, <2>2, <2>3
  <2> QED
    BY <1>6, <1>7, <1>8, <2>4 DEF Chain, t, n
<1> QED
  BY <1>9, <1>10

(* The call at the top can only answer an error, so all can: errors are    *)
(* handed on, and a circle of calls means nothing.                         *)
LEMMA ChainFails ==
    ASSUME raw \in [Keys -> Raws], NEW s \in Seq(Calls), s # <<>>, NEW a, Chain(s, a, raw, Means),
           Waits(Front(s)), NEW f, f = s[Len(s)],
           \/ Means[f.key] = Error
           \/ HasNext(f.rest) /\ (Awaits(f) \in KeysOf(s) \/ Means[Awaits(f)] = Error)
    PROVE  Means[a] = Error
<1> DEFINE n == Len(s)
           S == KeysOf(s) \cup {k \in Keys : Means[k] = Error}
<1>1. /\ n \in Nat \ {0} /\ Len(Front(s)) = n - 1
      /\ \A i \in 1..n - 1 : Front(s)[i] = s[i]
  BY FrontTyped
<1>2. \A i \in 1..n : s[i] \in Calls /\ s[i].key \in Keys
  BY ElementOfSeq, CallFields
<1>3. S \in SUBSET Keys
  BY <1>2 DEF KeysOf
<1>4. ASSUME NEW i \in 1..n
      PROVE  \/ Means[s[i].key] = Error
             \/ /\ raw[s[i].key].kind = "template"
                /\ \E q \in S : RefersTo(raw[s[i].key].of, q)
  <2>1. FrameSound(s[i], raw, Means)
    BY DEF Chain
  <2>2. ASSUME HasNext(s[i].rest), Awaits(s[i]) \in KeysOf(s) \/ Means[Awaits(s[i])] = Error
        PROVE  /\ raw[s[i].key].kind = "template"
               /\ \E q \in S : RefersTo(raw[s[i].key].of, q)
    <3>1. /\ raw[s[i].key].kind = "template" /\ Awaits(s[i]) \in Keys
          /\ RefersTo(raw[s[i].key].of, Awaits(s[i]))
      BY <1>2, <2>1, <2>2, FrameRefers
    <3>2. Awaits(s[i]) \in S
      BY <2>2, <3>1
    <3> QED
      BY <3>1, <3>2
  <2>3. CASE i = n
    BY <2>2, <2>3
  <2>4. CASE i # n
    <3>1. i \in 1..n - 1 /\ i + 1 \in 1..n
      BY <1>1, <2>4
    <3>2. Awaits(s[i]) = s[i + 1].key
      BY <3>1 DEF Chain
    <3>3. Awaits(s[i]) \in KeysOf(s)
      BY <3>1, <3>2 DEF KeysOf
    <3>4. HasNext(s[i].rest)
      BY <1>1, <3>1 DEF Waits
    <3> QED
      BY <2>2, <3>3, <3>4
  <2> QED
    BY <2>3, <2>4
<1>5. \A k : Means[k] = Meaning(k)
  BY MeansIsMeaning
<1>6. \A k \in S : \/ Meaning(k) = Error
                   \/ raw[k].kind = "template" /\ \E q \in S : RefersTo(raw[k].of, q)
  <2> SUFFICES ASSUME NEW k \in S
               PROVE  \/ Meaning(k) = Error
                      \/ raw[k].kind = "template" /\ \E q \in S : RefersTo(raw[k].of, q)
    OBVIOUS
  <2>1. CASE Means[k] = Error
    BY <1>5, <2>1
  <2>2. CASE k \in KeysOf(s)
    <3>1. PICK i \in 1..n : k = s[i].key
      BY <2>2 DEF KeysOf
    <3> HIDE DEF S, n
    <3> QED
      BY <1>4, <1>5, <3>1
  <2> QED
    BY <2>1, <2>2
<1>7. a \in S
  <2>1. a = s[1].key /\ 1 \in 1..n
    BY <1>1 DEF Chain
  <2> QED
    BY <2>1 DEF KeysOf
<1> HIDE DEF S
<1>8. \A k \in S : Meaning(k) = Error
  BY <1>3, <1>6, CyclesMeanNothing
<1> QED
  BY <1>5, <1>7, <1>8

-----------------------------------------------------------------------------
(***************************************************************************)
(* However many readers there are: what is cached is what the key means,   *)
(* and an answer that is no error is right.                                *)
(***************************************************************************)
Sound(q)  == ReaderSound(stack[q], ret[q], asked[q], raw, Means)
ValuesInv == Held(cache, Means) /\ \A q \in Readers : Sound(q)

LEMMA ValuesAre ==
    ASSUME raw' = raw, ValuesInv, NEW r \in Readers, Held(cache', Means),
           ReaderSound(stack'[r], ret'[r], asked'[r], raw, Means),
           \A q \in Readers : q # r => /\ stack'[q] = stack[q] /\ ret'[q] = ret[q]
                                       /\ asked'[q] = asked[q]
    PROVE  ValuesInv'
<1>1. Means' = Means
  BY MeansStays
<1>2. ASSUME NEW q \in Readers PROVE Sound(q)'
  <2>1. Sound(q)' <=> ReaderSound(stack'[q], ret'[q], asked'[q], raw', Means')
    BY DEF Sound
  <2>2. CASE q = r
    BY <1>1, <2>1, <2>2
  <2>3. CASE q # r
    BY <1>1, <2>1, <2>3 DEF ValuesInv, Sound
  <2> QED
    BY <2>2, <2>3
<1>3. Held(cache, Means)'
  BY <1>1 DEF Held
<1> QED
  BY <1>2, <1>3 DEF ValuesInv

LEMMA EnterValues ==
    ASSUME TypesInv, ValuesInv, NEW r \in Readers, NEW k \in Keys, NEW a, asked'[r] = a,
           raw' = raw, \A q \in Readers : q # r => asked'[q] = asked[q],
           NEW calls \in Seq(Calls), Chain(calls, a, raw, Means), Awaited(calls, a) = k,
           NEW c, CacheTyped(c), Held(c, Means), NEW open, Enter(r, k, calls, c, open)
    PROVE  ValuesInv'
<1> DEFINE v == ValueOf(k, c)
<1>1. /\ v.kind = "object" => v = Means[k]
      /\ v.kind = "template" => FrameSound(Frame(k, v.of), raw, Means)
  BY ValueMeans DEF TypesInv
<1>2. cache' = c /\ \A q \in Readers : q # r => stack'[q] = stack[q] /\ ret'[q] = ret[q]
  BY DEF Enter, Fail, TypesInv, RetTyped
<1>3. CASE Fail(r)
  <2>1. stack'[r] = <<>> /\ ret'[r] = Error
    BY <1>3 DEF Fail, TypesInv, RetTyped
  <2>2. Chain(<<>>, a, raw, Means)
    BY DEF Chain
  <2>3. ReaderSound(stack'[r], ret'[r], asked'[r], raw, Means)
    BY <2>1, <2>2 DEF ReaderSound
  <2> QED
    BY <1>2, <2>3, ValuesAre
<1>4. CASE /\ v.kind = "object" /\ stack' = [stack EXCEPT ![r] = calls]
           /\ ret' = [ret EXCEPT ![r] = v]
  <2>1. stack'[r] = calls /\ ret'[r] = Means[k]
    BY <1>1, <1>4 DEF TypesInv, RetTyped
  <2>2. ReaderSound(stack'[r], ret'[r], asked'[r], raw, Means)
    BY <2>1 DEF ReaderSound
  <2> QED
    BY <1>2, <2>2, ValuesAre
<1>5. CASE /\ v.kind = "template" /\ stack' = [stack EXCEPT ![r] = Append(calls, Frame(k, v.of))]
           /\ ret' = [ret EXCEPT ![r] = Nothing]
  <2> DEFINE f == Frame(k, v.of)
  <2>1. v.of \in Seq(Left)
    BY <1>5, ValueTyped DEF IsObject, Object, Missing, TypesInv
  <2>2. f \in Calls /\ f.key = k /\ FrameSound(f, raw, Means)
    BY <1>1, <1>5, <2>1, FrameTyped DEF Frame
  <2>3. stack'[r] = Append(calls, f) /\ ret'[r] = Nothing
    BY <1>5 DEF TypesInv, RetTyped
  <2> HIDE DEF f
  <2>4. Chain(Append(calls, f), a, raw, Means)
    BY <2>2, ChainAppend
  <2>5. ReaderSound(stack'[r], ret'[r], asked'[r], raw, Means)
    BY <2>3, <2>4 DEF ReaderSound
  <2> QED
    BY <1>2, <2>5, ValuesAre
<1> QED
  BY <1>3, <1>4, <1>5 DEF Enter

LEMMA FinishValues ==
    ASSUME TypesInv, ValuesInv, NEW r \in Readers, stack[r] # <<>>,
           raw' = raw, asked' = asked,
           NEW value, value = Means[Top(r).key],
           NEW expanded, Finish(r, value, expanded)
    PROVE  ValuesInv'
<1> DEFINE s == stack[r]
           a == asked[r]
<1>1. s \in Seq(Calls) /\ s # <<>> /\ Chain(s, a, raw, Means)
  BY DEF TypesInv, ValuesInv, Sound, ReaderSound
<1>2. Top(r) = s[Len(s)] /\ Below(r) = Front(s) /\ Top(r).key \in Keys
  BY TopTyped, CallFields DEF TypesInv, Below
<1>3. stack'[r] = Front(s) /\ ret'[r] = Means[s[Len(s)].key] /\ asked'[r] = a
  BY <1>2 DEF Finish, TypesInv, RetTyped
<1>4. \A q \in Readers : q # r => stack'[q] = stack[q] /\ ret'[q] = ret[q] /\ asked'[q] = asked[q]
  BY DEF Finish, TypesInv, RetTyped
<1>5. Held(cache', Means)
  <2>1. Held(cache, Means) /\ DOMAIN cache = Keys
    BY DEF ValuesInv, TypesInv, CacheTyped
  <2> QED
    BY <1>2, <2>1 DEF Finish, Held
<1> HIDE DEF s, a
<1>6. Chain(Front(s), a, raw, Means) /\ Awaited(Front(s), a) = s[Len(s)].key
  BY <1>1, ChainFront
<1>7. ReaderSound(stack'[r], ret'[r], asked'[r], raw, Means)
  BY <1>3, <1>6 DEF ReaderSound
<1> QED
  BY <1>4, <1>5, <1>7, ValuesAre

LEMMA NoCacheTyped == CacheTyped(NoCache) /\ Held(NoCache, Means)
BY DEF CacheTyped, NoCache, Held

LEMMA ValuesInit == Init => ValuesInv
<1> SUFFICES ASSUME Init PROVE ValuesInv
  OBVIOUS
<1>1. Held(cache, Means)
  BY NoCacheTyped DEF Init
<1>2. ASSUME NEW q \in Readers PROVE Sound(q)
  <2>1. stack[q] = <<>> /\ ret[q] = Nothing
    BY <1>2 DEF Init
  <2> QED
    BY <2>1 DEF Sound, ReaderSound, Chain
<1> QED
  BY <1>1, <1>2 DEF ValuesInv

(* What is at the top while an answer is there or on its way.              *)
LEMMA AtTop ==
    ASSUME TypesInv, ValuesInv, NEW r \in Readers, stack[r] # <<>>
    PROVE  /\ stack[r] \in Seq(Calls) /\ Chain(stack[r], asked[r], raw, Means)
           /\ Top(r) \in Calls /\ Top(r) = stack[r][Len(stack[r])]
           /\ FrameSound(Top(r), raw, Means)
           /\ Awaited(stack[r], asked[r]) = Awaits(Top(r))
           /\ ret[r] # Nothing => /\ ret[r] = Means[Awaits(Top(r))] /\ IsResult(ret[r])
                                  /\ HasNext(Top(r).rest)
<1>1. /\ Len(stack[r]) \in Nat \ {0} /\ Top(r) = stack[r][Len(stack[r])]
      /\ Top(r) \in Calls /\ stack[r] \in Seq(Calls)
  BY TopTyped DEF TypesInv
<1>2. Sound(r)
  BY DEF ValuesInv
<1>3. Chain(stack[r], asked[r], raw, Means)
  BY <1>2 DEF Sound, ReaderSound
<1>4. FrameSound(Top(r), raw, Means)
  BY <1>1, <1>3 DEF Chain
<1>5. Awaited(stack[r], asked[r]) = Awaits(Top(r))
  BY <1>1 DEF Awaited
<1>6. ASSUME ret[r] # Nothing
      PROVE  ret[r] = Means[Awaits(Top(r))] /\ IsResult(ret[r]) /\ HasNext(Top(r).rest)
  <2>1. ret[r] # Error
    BY DEF TypesInv
  <2>2. IsResult(ret[r])
    BY <1>6, <2>1 DEF TypesInv, RetTyped
  <2>3. Waits(stack[r])
    BY <1>6 DEF TypesInv, Waiting
  <2>4. HasNext(Top(r).rest)
    BY <1>1, <2>3 DEF Waits
  <2>5. ret[r] = Means[Awaits(Top(r))]
    BY <1>2, <1>5, <1>6, <2>1 DEF Sound, ReaderSound
  <2> QED
    BY <2>2, <2>4, <2>5
<1> QED
  BY <1>1, <1>3, <1>4, <1>5, <1>6

LEMMA ValuesStep ==
    ASSUME NoneAdjacent, TypesInv, ValuesInv, [Next]_vars
    PROVE  ValuesInv'
<1>1. CASE UNCHANGED vars
  <2>1. Means' = Means
    BY <1>1, MeansStays DEF vars
  <2> QED
    BY <1>1, <2>1 DEF vars, ValuesInv, Sound, Held
<1>2. ASSUME NEW r \in Readers, NEW k \in Keys, Get(r, k) PROVE ValuesInv'
  <2>1. /\ Enter(r, k, <<>>, NoCache, {}) /\ raw' = raw /\ asked'[r] = k
        /\ \A q \in Readers : q # r => asked'[q] = asked[q]
    BY <1>2 DEF Get, TypesInv
  <2>2. <<>> \in Seq(Calls) /\ Chain(<<>>, k, raw, Means) /\ Awaited(<<>>, k) = k
    BY DEF Chain, Awaited
  <2> QED
    BY <2>1, <2>2, NoCacheTyped, EnterValues
<1>3. ASSUME NEW r \in Readers, CallHandler(r) PROVE ValuesInv'
  <2> DEFINE k == Awaits(Top(r))
             s == stack[r]
             a == asked[r]
  <2>1. /\ s # <<>> /\ HasNext(Top(r).rest) /\ Enter(r, k, s, cache, pending)
        /\ raw' = raw /\ asked' = asked
    BY <1>3 DEF CallHandler, Awaits
  <2>2. s \in Seq(Calls) /\ Chain(s, a, raw, Means) /\ Awaited(s, a) = k
    BY <2>1, AtTop
  <2>3. k \in Keys
    BY <2>1, AtTop, CallFields, NextIsFirst DEF Awaits
  <2>4. CacheTyped(cache) /\ Held(cache, Means)
    BY DEF TypesInv, ValuesInv
  <2>5. asked'[r] = a /\ \A q \in Readers : q # r => asked'[q] = asked[q]
    BY <2>1
  <2> HIDE DEF k, s, a
  <2> QED
    BY <2>1, <2>2, <2>3, <2>4, <2>5, EnterValues
<1>4. ASSUME NEW r \in Readers, NoMoreReferences(r) PROVE ValuesInv'
  <2> DEFINE f == Top(r)
             value == Text(f.built \o Pieces(f.rest))
  <2>1. /\ stack[r] # <<>> /\ ~HasNext(f.rest) /\ Finish(r, value, f.expanded)
        /\ raw' = raw /\ asked' = asked
    BY <1>4 DEF NoMoreReferences
  <2>2. value = Means[f.key]
    <3>1. f \in Calls /\ FrameSound(f, raw, Means) /\ raw \in [Keys -> Raws]
      BY <2>1, AtTop DEF TypesInv
    <3> HIDE DEF f
    <3> QED
      BY <2>1, <3>1, FrameAtEnd
  <2> HIDE DEF value
  <2> QED
    BY <2>1, <2>2, FinishValues
<1>5. ASSUME NEW r \in Readers, Substitute(r) PROVE ValuesInv'
  <2> DEFINE f    == Top(r)
             next == NextRef(f.rest)
             dst  == ret[r]
             alone == next = 1 /\ Len(f.rest) = 1
  <2>1. stack[r] # <<>> /\ dst # Nothing /\ raw' = raw /\ asked' = asked
    BY <1>5 DEF Substitute
  <2>2. /\ f \in Calls /\ FrameSound(f, raw, Means) /\ raw \in [Keys -> Raws]
        /\ dst = Means[Awaits(f)] /\ IsResult(dst) /\ HasNext(f.rest)
        /\ f = stack[r][Len(stack[r])]
    BY <2>1, AtTop DEF TypesInv
  <2>3. CASE alone /\ Finish(r, dst, TRUE)
    <3>1. dst = Means[f.key]
      <4> HIDE DEF f, dst
      <4> QED
        BY <2>2, <2>3, FrameWithReference
    <3> HIDE DEF dst
    <3> QED
      BY <2>1, <2>3, <3>1, FinishValues
  <2>4. CASE Fail(r) /\ UNCHANGED <<cache, pending>>
    <3>1. stack'[r] = <<>> /\ ret'[r] = Error /\ Held(cache', Means)
      BY <2>4 DEF Fail, TypesInv, RetTyped, ValuesInv
    <3>2. ReaderSound(stack'[r], ret'[r], asked'[r], raw, Means)
      BY <3>1 DEF ReaderSound, Chain
    <3>3. \A q \in Readers : q # r => /\ stack'[q] = stack[q] /\ ret'[q] = ret[q]
                                      /\ asked'[q] = asked[q]
      BY <2>1, <2>4 DEF Fail, TypesInv, RetTyped
    <3> QED
      BY <2>1, <3>1, <3>2, <3>3, ValuesAre
  <2> DEFINE before == Pieces(SubSeq(f.rest, 1, next - 1))
             g == [f EXCEPT !.rest = SubSeq(f.rest, next + 1, Len(f.rest)),
                            !.built = @ \o before \o Cast(dst),
                            !.expanded = TRUE]
  <2>5. CASE /\ ~alone /\ CanCast(dst)
             /\ stack' = [stack EXCEPT ![r] = Append(Below(r), g)]
             /\ ret' = [ret EXCEPT ![r] = Nothing] /\ UNCHANGED <<cache, pending>>
    <3> DEFINE s == stack[r]
               a == asked[r]
    <3>1. s \in Seq(Calls) /\ s # <<>> /\ Chain(s, a, raw, Means) /\ Below(r) = Front(s)
      BY <2>1, AtTop DEF Below
    <3>2. g.key = f.key /\ g.rest = SubSeq(f.rest, next + 1, Len(f.rest))
          /\ g.built = f.built \o before \o Cast(dst)
      BY <2>2 DEF Calls
    <3>3. /\ stack' \in [Readers -> Seq(Calls)] /\ stack'[r] = Append(Front(s), g)
          /\ ret'[r] = Nothing /\ asked'[r] = a /\ Held(cache', Means)
      BY <2>1, <2>5, <3>1, TypesStep DEF TypesInv, RetTyped, ValuesInv
    <3>4. Front(s) \in Seq(Calls)
      <4> HIDE DEF s
      <4> QED
        BY <3>1, FrontTyped
    <3>5. g \in Calls
      BY <3>3, <3>4
    <3>6. \A q \in Readers : q # r => /\ stack'[q] = stack[q] /\ ret'[q] = ret[q]
                                      /\ asked'[q] = asked[q]
      BY <2>1, <2>5 DEF TypesInv, RetTyped
    <3> HIDE DEF g
    <3>7. FrameSound(g, raw, Means)
      <4>1. Joins(dst) /\ ~alone
        BY <2>2, <2>5 DEF Joins
      <4> HIDE DEF f, dst
      <4> QED
        BY <2>2, <3>2, <4>1, FrameNext
    <3> HIDE DEF s, a
    <3>8. Chain(Front(s), a, raw, Means) /\ Awaited(Front(s), a) = s[Len(s)].key
      BY <3>1, ChainFront
    <3>9. Awaited(Front(s), a) = g.key
      BY <2>2, <3>2, <3>8 DEF s
    <3>10. Chain(Append(Front(s), g), a, raw, Means)
      BY <3>4, <3>5, <3>7, <3>8, <3>9, ChainAppend
    <3>11. ReaderSound(stack'[r], ret'[r], asked'[r], raw, Means)
      BY <3>3, <3>10 DEF ReaderSound
    <3> QED
      BY <2>1, <3>3, <3>6, <3>11, ValuesAre
  <2> QED
    BY <1>5, <2>3, <2>4, <2>5 DEF Substitute
<1>6. ASSUME NEW r \in Readers, Answer(r) PROVE ValuesInv'
  <2>1. /\ raw' = raw /\ stack' = stack /\ asked' = asked /\ cache' = cache
        /\ ret'[r] = Nothing /\ \A q \in Readers : q # r => ret'[q] = ret[q]
    BY <1>6 DEF Answer, TypesInv, RetTyped
  <2>2. ReaderSound(stack'[r], ret'[r], asked'[r], raw, Means)
    BY <2>1 DEF ValuesInv, Sound, ReaderSound
  <2>3. Held(cache', Means)
    BY <2>1 DEF ValuesInv
  <2> QED
    BY <2>1, <2>2, <2>3, ValuesAre
<1> QED
  BY <1>1, <1>2, <1>3, <1>4, <1>5, <1>6 DEF Next, Step

(* As long as no value ends in two references side by side, a cached       *)
(* result is what its key means, however many readers share the maps       *)
(* (expander.go:58-67, 152, 158).                                          *)
THEOREM CacheHoldsMeanings ==
    ASSUME NoneAdjacent
    PROVE  Spec => []CacheIsMeaning
<1>1. TypesInv /\ ValuesInv /\ [Next]_vars => ValuesInv'
  BY ValuesStep
<1>2. ValuesInv => CacheIsMeaning
  BY MeansIsMeaning DEF ValuesInv, Held, CacheIsMeaning
<1> QED
  BY <1>1, <1>2, ValuesInit, TypesHold, PTL DEF Spec

(* And whoever is answered a value, not an error, is answered what the key *)
(* means (expander.go:121-168).                                            *)
RightOrError == \A r \in Readers : Answered(r) => ret[r] \in {Error, Meaning(asked[r])}

THEOREM NoWrongAnswer ==
    ASSUME NoneAdjacent
    PROVE  Spec => []RightOrError
<1>1. TypesInv /\ ValuesInv /\ [Next]_vars => ValuesInv'
  BY ValuesStep
<1>2. ValuesInv => RightOrError
  BY MeansIsMeaning DEF ValuesInv, Sound, ReaderSound, Awaited, RightOrError, Answered
<1> QED
  BY <1>1, <1>2, ValuesInit, TypesHold, PTL DEF Spec

-----------------------------------------------------------------------------
(***************************************************************************)
(* One reader: an error is answered only for a key that has no meaning.    *)
(***************************************************************************)
ErrorIsReal(r) == ret[r] = Error => Means[asked[r]] = Error

LEMMA ErrorsStep ==
    ASSUME NEW r, Readers = {r}, TypesInv, ValuesInv, Open(r), ErrorIsReal(r), [Next]_vars
    PROVE  ErrorIsReal(r)'
<1>0. r \in Readers /\ \A q \in Readers : q = r
  OBVIOUS
<1> SUFFICES ASSUME ret'[r] = Error PROVE Means'[asked'[r]] = Error
  BY DEF ErrorIsReal
<1> USE <1>0
<1>1. CASE UNCHANGED vars
  BY <1>1, MeansStays DEF vars, ErrorIsReal
<1>2. ASSUME NEW k \in Keys, Get(r, k) PROVE Means'[asked'[r]] = Error
  <2>1. Enter(r, k, <<>>, NoCache, {}) /\ raw' = raw /\ asked'[r] = k
    BY <1>2 DEF Get, TypesInv
  <2> DEFINE v == ValueOf(k, NoCache)
  <2>2. v = Missing
    BY <2>1 DEF Enter, TypesInv, RetTyped, Error, Nothing
  <2>3. Means[k] = Error
    BY <2>2, NoCacheTyped, ValueMeans DEF TypesInv
  <2> QED
    BY <2>1, <2>3, MeansStays
<1>3. CASE CallHandler(r)
  <2> DEFINE k == Awaits(Top(r))
             s == stack[r]
             a == asked[r]
             f == Top(r)
  <2>1. /\ s # <<>> /\ HasNext(f.rest) /\ Enter(r, k, s, cache, pending)
        /\ raw' = raw /\ asked' = asked
    BY <1>3 DEF CallHandler, Awaits
  <2>2. /\ s \in Seq(Calls) /\ Chain(s, a, raw, Means) /\ f = s[Len(s)] /\ f \in Calls
        /\ raw \in [Keys -> Raws]
    BY <2>1, AtTop DEF TypesInv
  <2>3. k \in Keys
    BY <2>1, <2>2, CallFields, NextIsFirst DEF Awaits
  <2>4. CacheTyped(cache) /\ Held(cache, Means)
    BY DEF TypesInv, ValuesInv
  <2>5. Waits(Front(s)) /\ pending = KeysOf(s)
    BY <2>1 DEF TypesInv, Waiting, Below, Open
  <2> DEFINE v == ValueOf(k, cache)
  <2>6. k \in pending \/ v = Missing
    BY <2>1 DEF Enter, TypesInv, RetTyped, Error, Nothing
  <2> HIDE DEF v
  <2>7. k \in KeysOf(s) \/ Means[k] = Error
    BY <2>2, <2>3, <2>4, <2>5, <2>6, ValueMeans DEF v
  <2> HIDE DEF s, a, f
  <2>8. Means[a] = Error
    BY <2>1, <2>2, <2>5, <2>7, ChainFails DEF f
  <2> QED
    BY <2>1, <2>8, MeansStays DEF a
<1>4. CASE NoMoreReferences(r)
  BY <1>4 DEF NoMoreReferences, Finish, TypesInv, RetTyped, Text, Error
<1>5. CASE Substitute(r)
  <2> DEFINE f == Top(r)
             s == stack[r]
             a == asked[r]
             alone == NextRef(f.rest) = 1 /\ Len(f.rest) = 1
  <2>1. s # <<>> /\ ret[r] # Nothing /\ raw' = raw /\ asked' = asked
    BY <1>5 DEF Substitute
  <2>2. /\ s \in Seq(Calls) /\ Chain(s, a, raw, Means) /\ f = s[Len(s)] /\ f \in Calls
        /\ FrameSound(f, raw, Means) /\ raw \in [Keys -> Raws]
        /\ ret[r] = Means[Awaits(f)] /\ IsResult(ret[r]) /\ HasNext(f.rest)
    BY <2>1, AtTop DEF TypesInv
  <2>3. ret[r] # Error
    BY <2>2, JoinsIsNoError
  <2>4. ~alone /\ ~CanCast(ret[r])
    <3>1. ~Finish(r, ret[r], TRUE)
      BY <2>3 DEF Finish, TypesInv, RetTyped
    <3>2. ret' # [ret EXCEPT ![r] = Nothing]
      BY DEF TypesInv, RetTyped, Nothing, Error
    <3> QED
      BY <1>5, <3>1, <3>2 DEF Substitute
  <2>5. Waits(Front(s))
    BY <2>1 DEF TypesInv, Waiting, Below
  <2>6. Means[f.key] = Error
    <3> HIDE DEF f
    <3> QED
      BY <2>2, <2>4, FrameWithoutText
  <2> HIDE DEF s, a, f
  <2>7. Means[a] = Error
    BY <2>1, <2>2, <2>5, <2>6, ChainFails
  <2> QED
    BY <2>1, <2>7, MeansStays DEF a
<1>6. CASE Answer(r)
  BY <1>6 DEF Answer, TypesInv, RetTyped, Nothing, Error
<1> QED
  BY <1>1, <1>2, <1>3, <1>4, <1>5, <1>6 DEF Next, Step

(* One reader, and no value that ends in two references side by side: Get  *)
(* answers what the key means, an error if it names a missing key or       *)
(* depends on itself (expander.go:121-168).                                *)
THEOREM OneReaderIsAnswered ==
    ASSUME NoneAdjacent, NEW r, Readers = {r}
    PROVE  Spec => []AnswersMeaning
<1>1. TypesInv /\ ValuesInv /\ [Next]_vars => ValuesInv'
  BY ValuesStep
<1>2. Init => Open(r) /\ ErrorIsReal(r)
  BY DEF Init, Open, ErrorIsReal, Nothing, Error
<1>3. TypesInv /\ Open(r) /\ [Next]_vars => Open(r)'
  BY OpenStep
<1>4. TypesInv /\ ValuesInv /\ Open(r) /\ ErrorIsReal(r) /\ [Next]_vars => ErrorIsReal(r)'
  BY ErrorsStep
<1>5. ValuesInv /\ ErrorIsReal(r) => AnswersMeaning
  <2> SUFFICES ASSUME ValuesInv, ErrorIsReal(r), Answered(r)
               PROVE  ret[r] = Meaning(asked[r])
    BY DEF AnswersMeaning
  <2>1. ret[r] = Means[asked[r]]
    BY DEF ValuesInv, Sound, ReaderSound, Awaited, ErrorIsReal, Answered
  <2> QED
    BY <2>1, MeansIsMeaning
<1> QED
  BY <1>1, <1>2, <1>3, <1>4, <1>5, ValuesInit, TypesHold, PTL DEF Spec
=============================================================================
