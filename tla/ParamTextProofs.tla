-------------------------- MODULE ParamTextProofs --------------------------
(***************************************************************************)
(* Proofs about ParamText, for every program that may be written, and      *)
(* about Sheet, the row that shows one parameter of it.                    *)
(*                                                                         *)
(* The invariant of ParamText is only its types: the text can be written   *)
(* and the sheet holds literals.  The rest is about its operators: what a  *)
(* right side that is one literal is read as, where the rewrite of a text  *)
(* puts a value and what it leaves alone, that the two scanners find the   *)
(* same parameters in a text that is Authored, and that a text which is    *)
(* Authored after a rewrite was so before.                                 *)
(***************************************************************************)
EXTENDS ParamText, Sheet, FiniteSetTheorems, SequenceTheorems, WellFoundedInduction, TLAPS

Literals == Seq(Digits) \ {<<>>}

-----------------------------------------------------------------------------
(* Counting.                                                               *)

\* A set of numbers that is not empty has a least one.
LEMMA LeastNumber ==
    ASSUME NEW S \in SUBSET Nat, S # {}
    PROVE  \E n \in S : \A m \in S : n <= m
<1> DEFINE R == {ss \in Nat \X Nat : ss[1] < ss[2]}
<1>1. IsWellFoundedOn(R, Nat)
  BY NatLessThanWellFounded DEF OpToRel
<1>2. \A x, y \in Nat : <<y, x>> \in R <=> y < x
  OBVIOUS
<1> HIDE DEF R
<1>3. PICK x \in S : \A y \in S : ~ (<<y, x>> \in R)
  BY <1>1, WFMin
<1>4. \A y \in S : ~ (y < x)
  BY <1>2, <1>3
<1>5. \A y \in S : x <= y
  BY <1>4
<1> QED
  BY <1>5

LEMMA SameInterval ==
    ASSUME NEW a \in Nat, NEW b \in Nat, 1..a = 1..b
    PROVE  a = b
  OBVIOUS

-----------------------------------------------------------------------------
(* The values of a right side.                                             *)

Cuts(rhs) == {0, Len(rhs) + 1} \cup {k \in DOMAIN rhs : rhs[k] = "comma"}

\* The two ends alone are two cuts.
LEMMA TwoCuts ==
    ASSUME NEW n \in Nat
    PROVE  IsFiniteSet({0, n + 1}) /\ Cardinality({0, n + 1}) = 2
<1>1. IsFiniteSet({0}) /\ Cardinality({0}) = 1
  BY FS_Singleton
<1>2. n + 1 \notin {0}
  OBVIOUS
<1>3. {0} \cup {n + 1} = {0, n + 1}
  OBVIOUS
<1>4. IsFiniteSet({0} \cup {n + 1}) /\ Cardinality({0} \cup {n + 1}) = Cardinality({0}) + 1
  BY <1>1, <1>2, FS_AddElement
<1> QED
  BY <1>1, <1>3, <1>4

\* A text without a comma is one value.
LEMMA OneValue ==
    ASSUME NEW rhs \in Seq(Chars), \A k \in DOMAIN rhs : rhs[k] # "comma"
    PROVE  Values(rhs) = <<rhs>>
<1> DEFINE cuts == Cuts(rhs)
           Cut(m) == CHOOSE k \in cuts : Cardinality({c \in cuts : c < k}) = m
<1>1. Len(rhs) \in Nat
  OBVIOUS
<1>2. cuts = {0, Len(rhs) + 1}
  BY DEF Cuts
<1>3. Values(rhs) = [m \in 1..(Cardinality(cuts) - 1) |-> SubSeq(rhs, Cut(m - 1) + 1, Cut(m) - 1)]
  BY DEF Values, Cuts
<1>4. Cardinality(cuts) = 2
  BY <1>1, <1>2, TwoCuts
<1>5. {c \in cuts : c < 0} = {} /\ {c \in cuts : c < Len(rhs) + 1} = {0}
  BY <1>1, <1>2
<1>6. Cardinality({c \in cuts : c < 0}) = 0 /\ Cardinality({c \in cuts : c < Len(rhs) + 1}) = 1
  BY <1>5, FS_EmptySet, FS_Singleton
<1> HIDE DEF cuts
<1>7. Cut(0) = 0
  BY <1>2, <1>6
<1>8. Cut(1) = Len(rhs) + 1
  BY <1>2, <1>6
<1> HIDE DEF Cut
<1>9. SubSeq(rhs, Cut(1 - 1) + 1, Cut(1) - 1) = rhs
  <2>1. Cut(1 - 1) + 1 = 1 /\ Cut(1) - 1 = Len(rhs)
    BY <1>1, <1>7, <1>8
  <2> QED
    BY <2>1, SubSeqFull
<1>10. Values(rhs) = [m \in 1..1 |-> SubSeq(rhs, Cut(m - 1) + 1, Cut(m) - 1)]
  BY <1>3, <1>4
<1>11. \A m \in 1..1 : m = 1
  OBVIOUS
<1>12. Values(rhs) = [m \in 1..1 |-> rhs]
  BY <1>9, <1>10, <1>11
<1> QED
  BY <1>12

\* One value has no comma in it: it is the text.
LEMMA NoComma ==
    ASSUME NEW rhs \in Seq(Chars), Len(Values(rhs)) = 1
    PROVE  Values(rhs) = <<rhs>>
<1>1. Len(rhs) \in Nat /\ DOMAIN rhs = 1..Len(rhs)
  OBVIOUS
<1>2. IsFiniteSet(0..(Len(rhs) + 1)) /\ Cuts(rhs) \subseteq 0..(Len(rhs) + 1)
  <2>1. 0 \in Int /\ Len(rhs) + 1 \in Int
    BY <1>1
  <2>2. IsFiniteSet(0..(Len(rhs) + 1))
    BY <2>1, FS_Interval
  <2>3. Cuts(rhs) \subseteq 0..(Len(rhs) + 1)
    BY <1>1 DEF Cuts
  <2> QED
    BY <2>2, <2>3
<1>3. IsFiniteSet(Cuts(rhs)) /\ Cardinality(Cuts(rhs)) \in Nat
  BY <1>2, FS_Subset, FS_CardinalityType
<1>4. DOMAIN Values(rhs) = 1..(Cardinality(Cuts(rhs)) - 1)
  BY DEF Values, Cuts
<1>5. {0, Len(rhs) + 1} \subseteq Cuts(rhs)
  BY DEF Cuts
<1>6. Cardinality({0, Len(rhs) + 1}) = 2 /\ IsFiniteSet({0, Len(rhs) + 1})
  BY <1>1, TwoCuts
<1>7. 2 <= Cardinality(Cuts(rhs))
  BY <1>3, <1>5, <1>6, FS_Subset
<1>8. Len(Values(rhs)) = Cardinality(Cuts(rhs)) - 1
  <2> DEFINE n == Cardinality(Cuts(rhs)) - 1
             X == {Values(rhs)[m] : m \in 1..n}
  <2>1. n \in Nat
    BY <1>3, <1>7
  <2> DEFINE Cut(m) == CHOOSE k \in Cuts(rhs) : Cardinality({c \in Cuts(rhs) : c < k}) = m
  <2>2. Values(rhs) = [m \in 1..n |-> SubSeq(rhs, Cut(m - 1) + 1, Cut(m) - 1)]
    BY DEF Values, Cuts
  <2> HIDE DEF n, Cut
  <2>3. Values(rhs) \in [1..n -> X]
    BY <2>2
  <2> HIDE DEF X
  <2>4. Values(rhs) \in Seq(X)
    BY <2>1, <2>3, SeqDef
  <2>5. DOMAIN Values(rhs) = 1..Len(Values(rhs)) /\ Len(Values(rhs)) \in Nat
    BY <2>4
  <2>6. 1..Len(Values(rhs)) = 1..n
    BY <2>3, <2>5
  <2> QED
    <3>1. Len(Values(rhs)) = n
      BY <2>1, <2>5, <2>6
    <3> QED
      BY <3>1 DEF n
<1>9. Cardinality(Cuts(rhs)) = 2
  BY <1>3, <1>8
<1>10. Cuts(rhs) = {0, Len(rhs) + 1}
  BY <1>3, <1>5, <1>6, <1>9, FS_Subset
<1>11. \A k \in DOMAIN rhs : rhs[k] # "comma"
  BY <1>1, <1>10 DEF Cuts
<1> QED
  BY <1>11, OneValue

\* A literal is one value.
LEMMA LiteralValue ==
    ASSUME NEW v \in Literals
    PROVE  v \in Seq(Chars) /\ Len(v) \in Nat \ {0} /\ Values(v) = <<v>>
<1>1. v \in Seq(Chars) /\ Len(v) \in Nat \ {0}
  <2>1. v \in Seq(Digits) /\ v # <<>>
    BY DEF Literals
  <2>2. Len(v) \in Nat \ {0}
    BY <2>1, EmptySeq
  <2>3. Digits \subseteq Chars
    BY DEF Chars
  <2> QED
    BY <2>1, <2>2, <2>3, SeqMonotonic
<1>2. \A k \in DOMAIN v : v[k] # "comma"
  BY DEF Literals, Digits
<1> QED
  BY <1>1, <1>2, OneValue

-----------------------------------------------------------------------------
(* Lines and places.                                                       *)

LEMMA LineFields ==
    ASSUME NEW line \in Lines
    PROVE  /\ line.kind \in Kinds /\ line.names \in Seq(STRING) /\ line.rhs \in Seq(Chars)
           /\ line.kind \in {"explicit", "registration"} => Len(line.names) = 1 /\ line.rhs \in Literals
  BY DEF Lines, Bare, Literals

\* A line with another right side.
LEMMA LineRewritten ==
    ASSUME NEW line \in Lines, NEW rhs \in Seq(Chars),
           line.kind \in {"explicit", "registration"} => rhs = line.rhs
    PROVE  /\ [line EXCEPT !.rhs = rhs] \in Lines
           /\ [line EXCEPT !.rhs = rhs].kind = line.kind
           /\ [line EXCEPT !.rhs = rhs].names = line.names
           /\ [line EXCEPT !.rhs = rhs].note = line.note
           /\ [line EXCEPT !.rhs = rhs].rhs = rhs
           /\ rhs = line.rhs => [line EXCEPT !.rhs = rhs] = line
           /\ [[line EXCEPT !.rhs = rhs] EXCEPT !.rhs = <<>>] = [line EXCEPT !.rhs = <<>>]
  BY DEF Lines

LEMMA TextLines ==
    ASSUME NEW t \in Seq(Lines)
    PROVE  /\ Len(t) \in Nat /\ DOMAIN t = 1..Len(t)
           /\ \A i \in DOMAIN t : t[i] \in Lines
  OBVIOUS

LEMMA PlaceFields ==
    ASSUME NEW t, NEW p \in Places(t)
    PROVE  /\ p[1] \in DOMAIN t /\ p[2] \in 1..2 /\ p = <<p[1], p[2]>>
           /\ t[p[1]].kind = "local" /\ p[2] \in DOMAIN t[p[1]].names
  BY DEF Places

LEMMA FreeCandidates ==
    ASSUME NEW t
    PROVE  /\ HostFree(t) \subseteq Candidates(t) /\ GuestFree(t) \subseteq Candidates(t)
           /\ Candidates(t) \subseteq Places(t)
  BY DEF HostFree, GuestFree, Candidates

LEMMA CandidateValue ==
    ASSUME NEW t, NEW p \in Candidates(t)
    PROVE  ValueAt(t, p) \in Literals
  BY DEF Candidates, Bare, Literals

-----------------------------------------------------------------------------
(* Literals in their places.                                               *)

LEMMA SpliceTyped ==
    ASSUME NEW rhs \in Seq(Chars), NEW at \in 1..(Len(rhs) + 1), NEW length \in Nat,
           NEW lit \in Seq(Chars)
    PROVE  Splice(rhs, at, length, lit) \in Seq(Chars) /\ Len(Splice(rhs, at, length, lit)) >= at - 1
<1> DEFINE a == SubSeq(rhs, 1, at - 1)
           c == SubSeq(rhs, at + length, Len(rhs))
<1>1. Len(rhs) \in Nat /\ \A k \in 1..Len(rhs) : rhs[k] \in Chars
  OBVIOUS
<1>2. a \in Seq(Chars) /\ Len(a) = at - 1
  <2>1. 1 \in Int /\ at - 1 \in Int /\ \A k \in 1..(at - 1) : rhs[k] \in Chars
    BY <1>1
  <2>2. a \in Seq(Chars) /\ Len(a) = IF 1 <= at - 1 THEN (at - 1) - 1 + 1 ELSE 0
    BY <2>1, SubSeqProperties
  <2> QED
    BY <1>1, <2>2
<1>3. c \in Seq(Chars)
  <2>1. at + length \in Int /\ Len(rhs) \in Int /\ \A k \in (at + length)..Len(rhs) : rhs[k] \in Chars
    BY <1>1
  <2> QED
    BY <2>1, SubSeqProperties
<1> HIDE DEF a, c
<1>4. a \o lit \in Seq(Chars) /\ Len(a \o lit) = Len(a) + Len(lit)
  BY <1>2, ConcatProperties
<1>5. (a \o lit) \o c \in Seq(Chars) /\ Len((a \o lit) \o c) = Len(a \o lit) + Len(c)
  BY <1>3, <1>4, ConcatProperties
<1>6. Splice(rhs, at, length, lit) = (a \o lit) \o c
  BY DEF Splice, a, c
<1>7. Len(lit) \in Nat /\ Len(c) \in Nat
  BY <1>3
<1> QED
  BY <1>2, <1>4, <1>5, <1>6, <1>7

\* A literal is looked for within its line.
LEMMA LitStartTyped ==
    ASSUME NEW t \in Seq(Lines), NEW p \in Candidates(t)
    PROVE  LitStart(t, p) \in 1..(Len(t[p[1]].rhs) + 1)
<1> DEFINE rhs == t[p[1]].rhs
           raw == ValueAt(t, p)
           found == {k \in 1..(Len(rhs) - Len(raw) + 1) : SubSeq(rhs, k, k + Len(raw) - 1) = raw}
<1>1. rhs \in Seq(Chars) /\ Len(rhs) \in Nat
  <2>1. p[1] \in DOMAIN t
    BY FreeCandidates, PlaceFields
  <2>2. t[p[1]] \in Lines
    BY <2>1, TextLines
  <2> QED
    BY <2>2, LineFields
<1>2. raw \in Seq(Chars) /\ Len(raw) \in Nat \ {0}
  BY CandidateValue, LiteralValue
<1>3. LitStart(t, p) = IF found = {} THEN 1 ELSE CHOOSE k \in found : \A m \in found : k <= m
  BY DEF LitStart
<1>4. found \in SUBSET Nat /\ \A k \in found : k \in 1..(Len(rhs) + 1)
  BY <1>1, <1>2
<1> HIDE DEF rhs, raw, found
<1>5. CASE found = {}
  BY <1>1, <1>3, <1>5 DEF rhs
<1>6. CASE found # {}
  <2>1. \E k \in found : \A m \in found : k <= m
    BY <1>4, <1>6, LeastNumber
  <2>2. (CHOOSE k \in found : \A m \in found : k <= m) \in found
    BY <2>1
  <2>3. LitStart(t, p) \in 1..(Len(rhs) + 1)
    BY <1>3, <1>4, <1>6, <2>2
  <2> QED
    BY <2>3 DEF rhs
<1> QED
  BY <1>5, <1>6

LEMMA PutTyped ==
    ASSUME NEW t \in Seq(Lines), NEW values, NEW p \in Candidates(t),
           values[NameAt(t, p)] \in Literals,
           NEW rhs \in Seq(Chars), LitStart(t, p) <= Len(rhs) + 1
    PROVE  /\ Put(t, values, rhs, p) \in Seq(Chars)
           /\ Len(Put(t, values, rhs, p)) >= LitStart(t, p) - 1
<1>1. LitStart(t, p) \in 1..(Len(rhs) + 1)
  <2>1. LitStart(t, p) \in 1..(Len(t[p[1]].rhs) + 1)
    BY LitStartTyped
  <2>2. LitStart(t, p) \in Int /\ 1 <= LitStart(t, p) /\ Len(rhs) \in Nat
    BY <2>1
  <2> QED
    BY <2>2
<1>2. Len(ValueAt(t, p)) \in Nat
  BY CandidateValue, LiteralValue
<1>3. values[NameAt(t, p)] \in Seq(Chars)
  BY LiteralValue
<1>4. Put(t, values, rhs, p) = Splice(rhs, LitStart(t, p), Len(ValueAt(t, p)), values[NameAt(t, p)])
  BY DEF Put
<1> QED
  BY <1>1, <1>2, <1>3, <1>4, SpliceTyped

\* The candidates of one line; there is a last one of them.
CandidatesOf(t, i) == {p \in Candidates(t) : p[1] = i}

LEMMA LastPlace ==
    ASSUME NEW t \in Seq(Lines), NEW i, NEW places \in SUBSET CandidatesOf(t, i), places # {}
    PROVE  /\ Last(t, places) \in places
           /\ \A q \in places : LitStart(t, q) <= LitStart(t, Last(t, places))
<1> DEFINE Best(p) == \A q \in places \ {p} :
                        \/ LitStart(t, p) > LitStart(t, q)
                        \/ LitStart(t, p) = LitStart(t, q) /\ p[2] < q[2]
<1>1. \A p \in places : LitStart(t, p) \in Nat
  <2> TAKE p \in places
  <2>1. p \in Candidates(t)
    BY DEF CandidatesOf
  <2>2. LitStart(t, p) \in 1..(Len(t[p[1]].rhs) + 1)
    BY <2>1, LitStartTyped
  <2> QED
    BY <2>2
<1>2. \A p \in places : p = <<i, 1>> \/ p = <<i, 2>>
  <2> TAKE p \in places
  <2>1. p \in Places(t) /\ p[1] = i
    BY FreeCandidates DEF CandidatesOf
  <2>2. p[2] \in 1..2 /\ p = <<p[1], p[2]>>
    BY <2>1, PlaceFields
  <2>3. p[2] = 1 \/ p[2] = 2
    BY <2>2
  <2> QED
    BY <2>1, <2>2, <2>3
<1>3. \E p \in places : Best(p)
  <2>1. CASE places = {<<i, 1>>} \/ places = {<<i, 2>>}
    BY <2>1
  <2>2. CASE <<i, 1>> \in places /\ <<i, 2>> \in places
    <3>1. LitStart(t, <<i, 1>>) \in Nat /\ LitStart(t, <<i, 2>>) \in Nat
      BY <1>1, <2>2
    <3>2. places = {<<i, 1>>, <<i, 2>>} /\ <<i, 1>>[2] = 1 /\ <<i, 2>>[2] = 2
      BY <1>2, <2>2
    <3>3. CASE LitStart(t, <<i, 1>>) >= LitStart(t, <<i, 2>>)
      <4>1. Best(<<i, 1>>)
        BY <3>1, <3>2, <3>3
      <4> QED
        BY <2>2, <4>1
    <3>4. CASE LitStart(t, <<i, 1>>) < LitStart(t, <<i, 2>>)
      <4>1. Best(<<i, 2>>)
        BY <3>1, <3>2, <3>4
      <4> QED
        BY <2>2, <4>1
    <3> QED
      BY <3>1, <3>3, <3>4
  <2>3. CASE <<i, 1>> \notin places
    <3>1. places = {<<i, 2>>}
      BY <1>2, <2>3
    <3> QED
      BY <2>1, <3>1
  <2>4. CASE <<i, 2>> \notin places
    <3>1. places = {<<i, 1>>}
      BY <1>2, <2>4
    <3> QED
      BY <2>1, <3>1
  <2> QED
    BY <2>2, <2>3, <2>4
<1>4. Last(t, places) = CHOOSE p \in places : Best(p)
  BY DEF Last
<1> HIDE DEF Best
<1>5. Last(t, places) \in places /\ Best(Last(t, places))
  BY <1>3, <1>4
<1>6. ASSUME NEW q \in places
      PROVE  LitStart(t, q) <= LitStart(t, Last(t, places))
  <2>1. LitStart(t, q) \in Nat /\ LitStart(t, Last(t, places)) \in Nat
    BY <1>1, <1>5
  <2>2. CASE q = Last(t, places)
    BY <2>1, <2>2
  <2>3. CASE q # Last(t, places)
    BY <1>5, <2>1, <2>3 DEF Best
  <2> QED
    BY <2>2, <2>3
<1> QED
  BY <1>5, <1>6

LEMMA ReplacedTyped ==
    ASSUME NEW t \in Seq(Lines), NEW values, NEW i \in DOMAIN t, NEW places \in SUBSET CandidatesOf(t, i),
           \A p \in places : values[NameAt(t, p)] \in Literals
    PROVE  Replaced(t, values, t[i].rhs, places) \in Seq(Chars)
<1> DEFINE last == Last(t, places)
           first == Last(t, places \ {last})
           rhs == t[i].rhs
<1>1. rhs \in Seq(Chars)
  BY TextLines, LineFields
<1>2. Replaced(t, values, rhs, places) =
         IF places = {} THEN rhs
         ELSE IF places = {last} THEN Put(t, values, rhs, last)
         ELSE Put(t, values, Put(t, values, rhs, last), first)
  BY DEF Replaced
<1>3. CASE places = {}
  BY <1>1, <1>2, <1>3
<1>4. CASE places # {}
  <2>1. last \in places /\ \A q \in places : LitStart(t, q) <= LitStart(t, last)
    BY <1>4, LastPlace
  <2>2. \A p \in places : p \in Candidates(t) /\ p[1] = i
    BY DEF CandidatesOf
  <2>3. \A p \in places : LitStart(t, p) \in 1..(Len(rhs) + 1)
    BY <2>2, LitStartTyped
  <2> HIDE DEF rhs
  <2>4. LitStart(t, last) <= Len(rhs) + 1
    BY <2>1, <2>3
  <2>5. /\ Put(t, values, rhs, last) \in Seq(Chars)
        /\ Len(Put(t, values, rhs, last)) >= LitStart(t, last) - 1
    BY <1>1, <2>1, <2>2, <2>4, PutTyped
  <2>6. CASE places = {last}
    BY <1>2, <1>4, <2>5, <2>6 DEF rhs
  <2>7. CASE places # {last}
    <3>1. places \ {last} # {} /\ places \ {last} \in SUBSET CandidatesOf(t, i)
      BY <1>4, <2>1, <2>7
    <3>2. first \in places \ {last}
      BY <3>1, LastPlace
    <3>3. LitStart(t, first) <= LitStart(t, last) /\ first \in Candidates(t)
      BY <2>1, <2>2, <3>2
    <3>4. LitStart(t, first) \in Int /\ LitStart(t, last) \in Int
      BY <2>1, <2>3, <3>2
    <3> HIDE DEF last, first
    <3>5. LitStart(t, first) <= Len(Put(t, values, rhs, last)) + 1
      <4>1. Len(Put(t, values, rhs, last)) \in Nat
        BY <2>5
      <4> QED
        BY <2>5, <3>3, <3>4, <4>1
    <3>6. values[NameAt(t, first)] \in Literals
      BY <3>2
    <3>7. Put(t, values, Put(t, values, rhs, last), first) \in Seq(Chars)
      BY <2>5, <3>3, <3>5, <3>6, PutTyped
    <3> QED
      BY <1>2, <1>4, <2>7, <3>7 DEF rhs
  <2> QED
    BY <2>6, <2>7
<1> QED
  BY <1>3, <1>4

-----------------------------------------------------------------------------
(* The rewrite of a text.                                                  *)

\* Where the values are written.
Written(t, values, i) == {p \in HostFree(t) : NameAt(t, p) \in DOMAIN values /\ p[1] = i}

BareValues(values) == \A n \in DOMAIN values : values[n] \in Literals

LEMMA RewriteAt ==
    ASSUME NEW t, NEW values
    PROVE  /\ DOMAIN Rewrite(t, values) = DOMAIN t
           /\ Rewrite(t, values) = [i \in DOMAIN t |-> Rewrite(t, values)[i]]
           /\ \A i \in DOMAIN t :
                 Rewrite(t, values)[i] =
                    [t[i] EXCEPT !.rhs = Replaced(t, values, t[i].rhs, Written(t, values, i))]
<1> DEFINE places == {p \in HostFree(t) : NameAt(t, p) \in DOMAIN values}
<1>1. \A i : {p \in places : p[1] = i} = Written(t, values, i)
  BY DEF Written
<1>2. Rewrite(t, values) =
        [i \in DOMAIN t |->
            [t[i] EXCEPT !.rhs = Replaced(t, values, t[i].rhs, {p \in places : p[1] = i})]]
  BY DEF Rewrite
<1> HIDE DEF places
<1> QED
  BY <1>1, <1>2

\* r differs from line in its right side only.
SameLine(r, line) ==
    /\ r \in Lines /\ r.kind = line.kind /\ r.names = line.names /\ r.note = line.note
    /\ [r EXCEPT !.rhs = <<>>] = [line EXCEPT !.rhs = <<>>]

\* The rewrite of a line differs in its right side only, and only a local is rewritten.
LEMMA RewriteLine ==
    ASSUME NEW t \in Seq(Lines), NEW values, BareValues(values), NEW i \in DOMAIN t
    PROVE  /\ SameLine(Rewrite(t, values)[i], t[i])
           /\ Written(t, values, i) = {} \/ t[i].kind # "local" => Rewrite(t, values)[i] = t[i]
<1> DEFINE places == Written(t, values, i)
           rhs == Replaced(t, values, t[i].rhs, places)
<1>1. t[i] \in Lines
  BY TextLines
<1>2. places \in SUBSET CandidatesOf(t, i) /\ \A p \in places : values[NameAt(t, p)] \in Literals
  BY FreeCandidates DEF Written, CandidatesOf, BareValues
<1>3. rhs \in Seq(Chars)
  BY <1>2, ReplacedTyped
<1>4. places = {} => rhs = t[i].rhs
  BY DEF Replaced
<1>5. t[i].kind # "local" => places = {}
  <2> SUFFICES ASSUME NEW p \in places
               PROVE  t[i].kind = "local"
    OBVIOUS
  <2>1. p \in Places(t) /\ p[1] = i
    BY <1>2, FreeCandidates DEF CandidatesOf
  <2> QED
    BY <2>1, PlaceFields
<1>6. Rewrite(t, values)[i] = [t[i] EXCEPT !.rhs = rhs]
  BY RewriteAt
<1> HIDE DEF rhs, places
<1>7. t[i].kind \in {"explicit", "registration"} => rhs = t[i].rhs
  BY <1>4, <1>5
<1>8. places = {} => [t[i] EXCEPT !.rhs = rhs] = t[i]
  BY <1>1, <1>3, <1>4, <1>7, LineRewritten
<1>9. /\ [t[i] EXCEPT !.rhs = rhs] \in Lines
      /\ [t[i] EXCEPT !.rhs = rhs].kind = t[i].kind
      /\ [t[i] EXCEPT !.rhs = rhs].names = t[i].names
      /\ [t[i] EXCEPT !.rhs = rhs].note = t[i].note
      /\ [[t[i] EXCEPT !.rhs = rhs] EXCEPT !.rhs = <<>>] = [t[i] EXCEPT !.rhs = <<>>]
  BY <1>1, <1>3, <1>7, LineRewritten
<1> QED
  BY <1>5, <1>6, <1>8, <1>9 DEF places, SameLine

LEMMA RewriteKeeps ==
    ASSUME NEW t \in Seq(Lines), NEW values, BareValues(values)
    PROVE  \A i \in DOMAIN t : /\ Rewrite(t, values)[i].kind = t[i].kind
                              /\ Rewrite(t, values)[i].names = t[i].names
                              /\ Rewrite(t, values)[i].note = t[i].note
<1> TAKE i \in DOMAIN t
<1>1. SameLine(Rewrite(t, values)[i], t[i])
  BY RewriteLine
<1> QED
  BY <1>1 DEF SameLine

LEMMA RewriteIdle ==
    ASSUME NEW t \in Seq(Lines), NEW values, BareValues(values), NEW i \in DOMAIN t,
           Written(t, values, i) = {}
    PROVE  Rewrite(t, values)[i] = t[i]
  BY RewriteLine

LEMMA RewriteTyped ==
    ASSUME NEW t \in Seq(Lines), NEW values, BareValues(values)
    PROVE  /\ Rewrite(t, values) \in Seq(Lines)
           /\ Len(Rewrite(t, values)) = Len(t)
           /\ DOMAIN Rewrite(t, values) = DOMAIN t
<1>1. Len(t) \in Nat /\ DOMAIN t = 1..Len(t)
  BY TextLines
<1>2. \A i \in DOMAIN t : Rewrite(t, values)[i] \in Lines
  BY RewriteLine DEF SameLine
<1>3. Rewrite(t, values) \in [1..Len(t) -> Lines]
  BY <1>1, <1>2, RewriteAt
<1>4. Rewrite(t, values) \in Seq(Lines)
  BY <1>1, <1>3, SeqDef
<1>5. DOMAIN Rewrite(t, values) = 1..Len(Rewrite(t, values)) /\ Len(Rewrite(t, values)) \in Nat
  BY <1>4
<1>6. 1..Len(Rewrite(t, values)) = 1..Len(t)
  BY <1>3, <1>5
<1>7. Len(Rewrite(t, values)) = Len(t)
  BY <1>1, <1>5, <1>6, SameInterval
<1> QED
  BY <1>1, <1>4, <1>5, <1>7

\* No value, no change.
LEMMA NothingWritten ==
    ASSUME NEW t \in Seq(Lines)
    PROVE  Rewrite(t, <<>>) = t
<1>1. DOMAIN <<>> = {} /\ BareValues(<<>>)
  BY DEF BareValues
<1>2. \A i \in DOMAIN t : Rewrite(t, <<>>)[i] = t[i]
  <2> TAKE i \in DOMAIN t
  <2>1. Written(t, <<>>, i) = {}
    BY <1>1 DEF Written
  <2> QED
    BY <1>1, <2>1, RewriteIdle
<1>3. Rewrite(t, <<>>) \in Seq(Lines) /\ Len(Rewrite(t, <<>>)) = Len(t)
  BY <1>1, RewriteTyped
<1>4. \A i \in 1..Len(t) : Rewrite(t, <<>>)[i] = t[i]
  BY <1>2, TextLines
<1> QED
  BY <1>3, <1>4, SeqEqual

-----------------------------------------------------------------------------
(* The two scanners.                                                       *)

Header(t) == {i \in DOMAIN t : InHeader(i, {k \in DOMAIN t : GuestStops(t[k])})}

LEMMA HeaderIsPrefix ==
    ASSUME NEW t \in Seq(Lines), NEW i \in Header(t), NEW k \in 1..i
    PROVE  k \in Header(t)
<1>1. i \in 1..Len(t) /\ Len(t) \in Nat /\ DOMAIN t = 1..Len(t)
  BY TextLines DEF Header
<1>2. k \in DOMAIN t /\ k <= i /\ k \in Int
  BY <1>1
<1>3. \A m \in DOMAIN t : GuestStops(t[m]) => i < m
  BY DEF Header, InHeader
<1>4. \A m \in DOMAIN t : GuestStops(t[m]) => k < m
  BY <1>1, <1>2, <1>3
<1> QED
  BY <1>2, <1>4 DEF Header, InHeader

\* In an authored text the page reads on as far as the guest does.
LEMMA SameHeader ==
    ASSUME NEW t \in Seq(Lines), Authored(t), NEW i \in DOMAIN t
    PROVE  InHeader(i, {k \in DOMAIN t : HostStops(t[k])}) <=> i \in Header(t)
<1>1. Len(t) \in Nat /\ DOMAIN t = 1..Len(t)
  BY TextLines
<1>2. ASSUME i \in Header(t)
      PROVE  InHeader(i, {k \in DOMAIN t : HostStops(t[k])})
  <2> SUFFICES ASSUME NEW k \in DOMAIN t, HostStops(t[k])
               PROVE  i < k
    BY DEF InHeader
  <2>1. k \notin Header(t)
    BY DEF Authored, Header
  <2>2. k \notin 1..i
    BY <1>2, <2>1, HeaderIsPrefix
  <2> QED
    BY <1>1, <2>2
<1>3. ASSUME InHeader(i, {k \in DOMAIN t : HostStops(t[k])})
      PROVE  i \in Header(t)
  BY <1>3 DEF InHeader, Header, HostStops
<1> QED
  BY <1>2, <1>3

\* The display comment the guest remembers is the one the page sees right above the local.
LEMMA SameHint ==
    ASSUME NEW t \in Seq(Lines), Authored(t), NEW i \in Header(t), t[i].kind = "local"
    PROVE  GuestHint(t, i) <=> HostHint(t, i)
<1>1. Len(t) \in Nat /\ DOMAIN t = 1..Len(t) /\ i \in DOMAIN t
  BY TextLines DEF Header
<1>2. ASSUME HostHint(t, i)
      PROVE  GuestHint(t, i)
  <2>1. i - 1 \in 1..(i - 1) /\ t[i - 1].kind = "display" /\ ((i - 1) + 1)..(i - 1) = {}
    BY <1>1, <1>2 DEF HostHint
  <2> QED
    BY <2>1 DEF GuestHint
<1>3. ASSUME GuestHint(t, i)
      PROVE  HostHint(t, i)
  <2>1. PICK k \in 1..(i - 1) :
           /\ t[k].kind = "display"
           /\ \A m \in (k + 1)..(i - 1) : t[m].kind \notin {"group", "require", "local"}
    BY <1>3 DEF GuestHint
  <2> DEFINE S == {m \in k..(i - 1) : t[m].kind # "display"}
  <2>2. CASE S = {}
    <3>1. i - 1 \in k..(i - 1)
      BY <1>1, <2>1
    <3>2. t[i - 1].kind = "display"
      BY <2>2, <3>1
    <3> QED
      BY <1>1, <2>1, <3>2 DEF HostHint
  <2>3. CASE S # {}
    <3>1. S \in SUBSET Nat
      BY <1>1, <2>1
    <3> HIDE DEF S
    <3>2. PICK m \in S : \A q \in S : m <= q
      BY <2>3, <3>1, LeastNumber
    <3>3. m \in k..(i - 1) /\ t[m].kind # "display"
      BY <3>2 DEF S
    <3>4. m \in (k + 1)..(i - 1)
      BY <1>1, <2>1, <3>3
    <3>5. m - 1 \in k..(i - 1) /\ m - 1 \notin S
      BY <1>1, <2>1, <3>2, <3>4
    <3>6. t[m - 1].kind = "display"
      BY <3>5 DEF S
    <3>7. m \in Header(t) /\ m - 1 \in Header(t) /\ m \in DOMAIN t /\ m - 1 \in DOMAIN t
      <4>1. m \in 1..i /\ m - 1 \in 1..i
        BY <1>1, <2>1, <3>4
      <4>2. m \in Header(t) /\ m - 1 \in Header(t)
        BY <4>1, HeaderIsPrefix
      <4> QED
        BY <4>2 DEF Header
    <3>8. t[(m - 1) + 1].kind \notin {"blank", "explicit", "hot"} /\ (m - 1) + 1 = m
      <4>1. (m - 1) + 1 = m
        BY <3>4
      <4> QED
        BY <3>6, <3>7, <4>1 DEF Authored, Header
    <3>9. ~GuestStops(t[m])
      <4>1. \A q \in DOMAIN t : GuestStops(t[q]) => m < q
        BY <3>7 DEF Header, InHeader
      <4> QED
        BY <3>4, <3>7, <4>1
    <3>10. t[m].kind \in Kinds
      BY <3>7, TextLines, LineFields
    <3>11. t[m].kind \notin {"group", "require", "local"}
      BY <2>1, <3>4
    <3> QED
      BY <3>3, <3>8, <3>9, <3>10, <3>11 DEF Kinds, GuestStops
  <2> QED
    BY <2>2, <2>3
<1> QED
  BY <1>2, <1>3

\* A line with a parameter has one name.
LEMMA FreeIsSingle ==
    ASSUME NEW t \in Seq(Lines), Authored(t), NEW p \in Candidates(t), p[1] \in Header(t),
           t[p[1]].note # "none" \/ HostHint(t, p[1])
    PROVE  Len(t[p[1]].names) = 1 /\ p = <<p[1], 1>>
<1> DEFINE i == p[1]
<1>1. i \in DOMAIN t /\ t[i].kind = "local" /\ p[2] \in DOMAIN t[i].names /\ p = <<p[1], p[2]>>
  BY FreeCandidates, PlaceFields
<1>2. Len(t) \in Nat /\ DOMAIN t = 1..Len(t)
  BY TextLines
<1>3. Len(t[i].names) = 1
  <2>1. CASE t[i].note # "none"
    BY <1>1, <2>1 DEF Authored, Header
  <2>2. CASE HostHint(t, i)
    <3>1. i - 1 \in 1..i /\ t[i - 1].kind = "display" /\ (i - 1) + 1 = i
      BY <1>1, <1>2, <2>2 DEF HostHint
    <3>2. i - 1 \in Header(t)
      BY <3>1, HeaderIsPrefix
    <3> QED
      BY <1>1, <3>1, <3>2 DEF Authored, Header
  <2> QED
    BY <2>1, <2>2
<1>4. t[i].names \in Seq(STRING)
  BY <1>1, TextLines, LineFields
<1>5. p[2] = 1
  BY <1>1, <1>3, <1>4
<1> QED
  BY <1>1, <1>3, <1>5

\* The two scanners find the same parameters in an authored text (luau-locals.js:178-315,
\* params_resolve.luau:445-558): what the sheet shows is what a run replaces.
THEOREM ScannersAgree ==
    ASSUME NEW t \in Seq(Lines), Authored(t)
    PROVE  GuestFree(t) = HostFree(t)
<1>1. ASSUME NEW p \in GuestFree(t)
      PROVE  p \in HostFree(t)
  <2>1. p \in Candidates(t) /\ p[1] \in DOMAIN t /\ t[p[1]].kind = "local"
    BY FreeCandidates, PlaceFields
  <2>2. p[1] \in Header(t) /\ (t[p[1]].note # "none" \/ GuestHint(t, p[1]))
    BY <2>1 DEF GuestFree, Header
  <2>3. t[p[1]].note # "none" \/ HostHint(t, p[1])
    BY <2>1, <2>2, SameHint
  <2>4. p = <<p[1], 1>>
    BY <2>1, <2>2, <2>3, FreeIsSingle
  <2>5. p[2] = 1
    BY <2>4
  <2> QED
    BY <2>1, <2>2, <2>3, <2>5, SameHeader DEF HostFree
<1>2. ASSUME NEW p \in HostFree(t)
      PROVE  p \in GuestFree(t)
  <2>1. p \in Candidates(t) /\ p[1] \in DOMAIN t /\ t[p[1]].kind = "local"
    BY FreeCandidates, PlaceFields
  <2>2. p[1] \in Header(t) /\ (t[p[1]].note # "none" \/ HostHint(t, p[1]))
    BY <2>1, SameHeader DEF HostFree
  <2>3. t[p[1]].note # "none" \/ GuestHint(t, p[1])
    BY <2>1, <2>2, SameHint
  <2> QED
    BY <2>1, <2>2, <2>3 DEF GuestFree, Header
<1> QED
  BY <1>1, <1>2

-----------------------------------------------------------------------------
(* The rewrite of an authored text.                                        *)

\* The parameters of an authored text stand alone on their lines.
LEMMA FreeValue ==
    ASSUME NEW t \in Seq(Lines), Authored(t), NEW p \in HostFree(t)
    PROVE  /\ p = <<p[1], 1>> /\ p[1] \in Header(t) /\ p[1] \in DOMAIN t
           /\ t[p[1]].kind = "local" /\ Len(t[p[1]].names) = 1
           /\ t[p[1]].rhs \in Literals /\ ValueAt(t, p) = t[p[1]].rhs
           /\ Values(t[p[1]].rhs) = <<t[p[1]].rhs>>
<1>1. p \in Candidates(t) /\ p[1] \in DOMAIN t /\ t[p[1]].kind = "local"
  BY FreeCandidates, PlaceFields
<1>2. p[1] \in Header(t) /\ (t[p[1]].note # "none" \/ HostHint(t, p[1]))
  BY <1>1, SameHeader DEF HostFree
<1>3. Len(t[p[1]].names) = 1 /\ p = <<p[1], 1>>
  BY <1>1, <1>2, FreeIsSingle
<1>4. t[p[1]].rhs \in Seq(Chars)
  BY <1>1, TextLines, LineFields
<1>5. Len(Values(t[p[1]].rhs)) = 1
  BY <1>1, <1>3 DEF Candidates
<1>6. Values(t[p[1]].rhs) = <<t[p[1]].rhs>>
  BY <1>4, <1>5, NoComma
<1>7. p[2] = 1
  BY <1>3
<1>8. ValueAt(t, p) = t[p[1]].rhs
  BY <1>6, <1>7 DEF ValueAt
<1>9. ValueAt(t, p) \in Literals
  BY <1>1, CandidateValue
<1> QED
  BY <1>1, <1>2, <1>3, <1>6, <1>8, <1>9

\* A literal that is all there is right of the = is replaced as a whole.
LEMMA PutWhole ==
    ASSUME NEW t, NEW values, NEW p, ValueAt(t, p) = t[p[1]].rhs, t[p[1]].rhs \in Literals,
           values[NameAt(t, p)] \in Literals
    PROVE  Put(t, values, t[p[1]].rhs, p) = values[NameAt(t, p)]
<1> DEFINE rhs == t[p[1]].rhs
           v == values[NameAt(t, p)]
           found == {k \in 1..(Len(rhs) - Len(rhs) + 1) : SubSeq(rhs, k, k + Len(rhs) - 1) = rhs}
<1>1. rhs \in Seq(Chars) /\ Len(rhs) \in Nat \ {0} /\ v \in Seq(Chars)
  BY LiteralValue
<1>2. LitStart(t, p) = IF found = {} THEN 1 ELSE CHOOSE k \in found : \A m \in found : k <= m
  BY DEF LitStart
<1>3. Put(t, values, rhs, p) = Splice(rhs, LitStart(t, p), Len(rhs), v)
  BY DEF Put
<1>4. found \subseteq {1}
  BY <1>1
<1> HIDE DEF rhs, v, found
<1>5. LitStart(t, p) = 1
  <2>1. CASE found = {}
    BY <1>2, <2>1
  <2>2. CASE found = {1}
    <3>1. (CHOOSE k \in {1} : \A m \in {1} : k <= m) = 1
      OBVIOUS
    <3> QED
      BY <1>2, <2>2, <3>1
  <2> QED
    BY <1>4, <2>1, <2>2
<1>6. Splice(rhs, 1, Len(rhs), v) = (SubSeq(rhs, 1, 1 - 1) \o v) \o SubSeq(rhs, 1 + Len(rhs), Len(rhs))
  BY DEF Splice
<1>7. SubSeq(rhs, 1, 1 - 1) = <<>>
  <2>1. 1 \in Int /\ 1 - 1 \in Int /\ 1 - 1 < 1
    OBVIOUS
  <2> QED
    BY <2>1, SubSeqEmpty
<1>8. SubSeq(rhs, 1 + Len(rhs), Len(rhs)) = <<>>
  <2>1. 1 + Len(rhs) \in Int /\ Len(rhs) \in Int /\ Len(rhs) < 1 + Len(rhs)
    BY <1>1
  <2> QED
    BY <2>1, SubSeqEmpty
<1>9. <<>> \o v = v /\ v \o <<>> = v
  BY <1>1, ConcatEmptySeq
<1>10. Splice(rhs, 1, Len(rhs), v) = v
  BY <1>6, <1>7, <1>8, <1>9
<1>11. Put(t, values, rhs, p) = v
  BY <1>3, <1>5, <1>10
<1> QED
  BY <1>11 DEF rhs, v

\* A line of an authored text has the value of its one name, or is as it was.
LEMMA AuthoredLine ==
    ASSUME NEW t \in Seq(Lines), Authored(t), NEW values, BareValues(values), NEW i \in DOMAIN t
    PROVE  IF <<i, 1>> \in HostFree(t) /\ NameAt(t, <<i, 1>>) \in DOMAIN values
           THEN Rewrite(t, values)[i].rhs = values[NameAt(t, <<i, 1>>)]
           ELSE Rewrite(t, values)[i] = t[i]
<1> DEFINE p == <<i, 1>>
<1>1. Written(t, values, i) \subseteq {p}
  <2> SUFFICES ASSUME NEW q \in Written(t, values, i)
               PROVE  q = p
    OBVIOUS
  <2>1. q \in HostFree(t) /\ q[1] = i
    BY DEF Written
  <2>2. q = <<q[1], 1>>
    BY <2>1, FreeValue
  <2> QED
    BY <2>1, <2>2
<1>2. p \in Written(t, values, i) <=> (p \in HostFree(t) /\ NameAt(t, p) \in DOMAIN values)
  BY DEF Written
<1>3. CASE p \notin Written(t, values, i)
  <2>1. Written(t, values, i) = {}
    BY <1>1, <1>3
  <2> QED
    BY <1>2, <1>3, <2>1, RewriteIdle
<1>4. CASE p \in Written(t, values, i)
  <2>1. Written(t, values, i) = {p} /\ p \in HostFree(t) /\ NameAt(t, p) \in DOMAIN values
    BY <1>1, <1>2, <1>4
  <2>2. p[1] = i
    OBVIOUS
  <2>3. ValueAt(t, p) = t[p[1]].rhs /\ t[p[1]].rhs \in Literals
    BY <2>1, FreeValue
  <2> HIDE DEF p
  <2>4. {p} \in SUBSET CandidatesOf(t, i) /\ {p} # {}
    BY <2>1, <2>2, FreeCandidates DEF CandidatesOf
  <2>5. Last(t, {p}) = p
    BY <2>4, LastPlace
  <2>6. Replaced(t, values, t[i].rhs, {p}) = Put(t, values, t[i].rhs, p)
    BY <2>5 DEF Replaced
  <2>7. values[NameAt(t, p)] \in Literals
    BY <2>1 DEF BareValues
  <2>8. Put(t, values, t[i].rhs, p) = values[NameAt(t, p)]
    BY <2>2, <2>3, <2>7, PutWhole
  <2>9. Rewrite(t, values)[i] = [t[i] EXCEPT !.rhs = values[NameAt(t, p)]]
    <3>1. Replaced(t, values, t[i].rhs, Written(t, values, i)) = values[NameAt(t, p)]
      BY <2>1, <2>6, <2>8
    <3>2. Rewrite(t, values)[i] =
            [t[i] EXCEPT !.rhs = Replaced(t, values, t[i].rhs, Written(t, values, i))]
      BY RewriteAt
    <3> QED
      BY <3>1, <3>2
  <2>10. Rewrite(t, values)[i].rhs = values[NameAt(t, p)]
    BY <2>9, TextLines DEF Lines
  <2> QED
    BY <2>1, <2>10 DEF p
<1> QED
  BY <1>3, <1>4

\* What stops a scanner and what is a header does not depend on the values.
LEMMA RewriteHeader ==
    ASSUME NEW t \in Seq(Lines), NEW values, BareValues(values)
    PROVE  Header(Rewrite(t, values)) = Header(t)
<1>1. DOMAIN Rewrite(t, values) = DOMAIN t
  BY RewriteAt
<1>2. \A i \in DOMAIN t : GuestStops(Rewrite(t, values)[i]) <=> GuestStops(t[i])
  BY RewriteKeeps DEF GuestStops
<1> QED
  BY <1>1, <1>2 DEF Header, InHeader

\* A text that is authored when it has been rewritten was so before.
LEMMA AuthoredBefore ==
    ASSUME NEW t \in Seq(Lines), NEW values, BareValues(values), Authored(Rewrite(t, values))
    PROVE  Authored(t)
<1> DEFINE r == Rewrite(t, values)
<1>1. DOMAIN r = DOMAIN t /\ Header(r) = Header(t)
  BY RewriteAt, RewriteHeader
<1>2. \A i \in DOMAIN t : r[i].kind = t[i].kind /\ r[i].names = t[i].names /\ r[i].note = t[i].note
  BY RewriteKeeps
<1>3. \A i \in DOMAIN t : Written(t, values, i) = {} => r[i] = t[i]
  BY RewriteIdle
<1>4. \A i \in Header(r) :
        /\ ~HostStops(r[i])
        /\ r[i].kind = "local" /\ r[i].note # "none" => Len(r[i].names) = 1
        /\ r[i].kind = "display" /\ i + 1 \in DOMAIN r =>
               /\ r[i + 1].kind \notin {"blank", "explicit", "hot"}
               /\ r[i + 1].kind = "local" => Len(r[i + 1].names) = 1
  BY DEF Authored, Header
<1> HIDE DEF r
<1>5. ASSUME NEW i \in Header(t)
      PROVE  ~HostStops(t[i])
  <2>1. i \in DOMAIN t /\ ~HostStops(r[i])
    BY <1>1, <1>4 DEF Header
  <2>2. CASE Written(t, values, i) = {}
    BY <1>3, <2>1, <2>2
  <2>3. CASE Written(t, values, i) # {}
    <3>1. PICK p : p \in HostFree(t) /\ p[1] = i
      BY <2>3 DEF Written
    <3>2. \A k \in DOMAIN t : HostStops(t[k]) => i < k
      BY <3>1 DEF HostFree, InHeader
    <3> QED
      BY <2>1, <3>2, TextLines
  <2> QED
    BY <2>2, <2>3
<1>6. ASSUME NEW i \in Header(t)
      PROVE  /\ t[i].kind = "local" /\ t[i].note # "none" => Len(t[i].names) = 1
             /\ t[i].kind = "display" /\ i + 1 \in DOMAIN t =>
                  /\ t[i + 1].kind \notin {"blank", "explicit", "hot"}
                  /\ t[i + 1].kind = "local" => Len(t[i + 1].names) = 1
  <2>1. i \in DOMAIN t
    BY DEF Header
  <2> QED
    BY <1>1, <1>2, <1>4, <2>1
<1> QED
  BY <1>5, <1>6 DEF Authored, Header

\* A parameter of the rewritten text was one before, of the same name.
LEMMA FreeBefore ==
    ASSUME NEW t \in Seq(Lines), NEW values, BareValues(values), Authored(t),
           Authored(Rewrite(t, values)), NEW p \in GuestFree(Rewrite(t, values))
    PROVE  p \in HostFree(t) /\ NameAt(Rewrite(t, values), p) = NameAt(t, p)
<1> DEFINE r == Rewrite(t, values)
<1>1. r \in Seq(Lines) /\ DOMAIN r = DOMAIN t /\ Header(r) = Header(t)
  BY RewriteTyped, RewriteHeader
<1>2. p \in HostFree(r)
  BY <1>1, ScannersAgree
<1>3. p = <<p[1], 1>> /\ p[1] \in Header(t) /\ p[1] \in DOMAIN t
  BY <1>1, <1>2, FreeValue
<1>4. \A i \in DOMAIN t : r[i].kind = t[i].kind /\ r[i].names = t[i].names /\ r[i].note = t[i].note
  BY RewriteKeeps
<1>5. NameAt(r, p) = NameAt(t, p)
  BY <1>3, <1>4 DEF NameAt
<1>6. CASE <<p[1], 1>> \in HostFree(t)
  BY <1>3, <1>5, <1>6
<1>7. CASE <<p[1], 1>> \notin HostFree(t)
  <2>1. r[p[1]] = t[p[1]]
    BY <1>3, <1>7, AuthoredLine
  <2>2. p \in Candidates(t)
    <3>1. p \in Candidates(r)
      BY <1>2, FreeCandidates
    <3>2. p \in Places(t)
      BY <1>1, <1>3, <2>1, <3>1 DEF Candidates, Places
    <3>3. ValueAt(t, p) = ValueAt(r, p)
      BY <2>1 DEF ValueAt
    <3> QED
      BY <2>1, <3>1, <3>2, <3>3 DEF Candidates
  <2>3. t[p[1]].note # "none" \/ (p[2] = 1 /\ HostHint(t, p[1]))
    <3>1. r[p[1]].note # "none" \/ (p[2] = 1 /\ HostHint(r, p[1]))
      BY <1>2 DEF HostFree
    <3>2. HostHint(r, p[1]) <=> HostHint(t, p[1])
      <4>1. p[1] > 1 => p[1] - 1 \in DOMAIN t
        BY <1>3, TextLines
      <4> QED
        BY <1>4, <4>1 DEF HostHint
    <3> QED
      BY <1>3, <1>4, <3>1, <3>2
  <2>4. InHeader(p[1], {k \in DOMAIN t : HostStops(t[k])})
    BY <1>3, SameHeader
  <2>5. p \in HostFree(t)
    BY <2>2, <2>3, <2>4 DEF HostFree
  <2> QED
    BY <1>5, <2>5
<1> QED
  BY <1>6, <1>7

-----------------------------------------------------------------------------
(* Head and body of a program.                                             *)

\* The peeled lines are the directives at the top.
LEMMA HeadIsHot ==
    ASSUME NEW t \in Seq(Lines)
    PROVE  HeadLines(t) \in 0..Len(t) /\ \A i \in 1..HeadLines(t) : t[i].kind = "hot"
<1> DEFINE S == {i \in DOMAIN t : \A k \in 1..i : t[k].kind = "hot"}
           N == {m \in 1..(Len(t) + 1) : m \notin S}
<1>1. Len(t) \in Nat /\ DOMAIN t = 1..Len(t)
  BY TextLines
<1>2. N \in SUBSET Nat /\ N # {}
  <2>1. Len(t) + 1 \in N
    BY <1>1
  <2> QED
    BY <1>1, <2>1
<1>3. \E m \in N : \A q \in N : m <= q
  <2> HIDE DEF N
  <2> QED
    BY <1>2, LeastNumber
<1>4. PICK m \in N : \A q \in N : m <= q
  BY <1>3
<1>5. m \in 1..(Len(t) + 1) /\ m \notin S
  BY <1>4
<1>6. ASSUME NEW i \in 1..(m - 1)
      PROVE  i \in S
  <2>1. i \in 1..(Len(t) + 1) /\ i < m
    BY <1>1, <1>5
  <2>2. i \notin N
    BY <1>1, <1>4, <1>5, <2>1
  <2> QED
    BY <2>1, <2>2
<1>7. ASSUME NEW i \in S
      PROVE  i \in 1..(m - 1)
  <2>1. i \in 1..Len(t) /\ \A k \in 1..i : t[k].kind = "hot"
    BY <1>1
  <2>2. i < m
    <3>1. SUFFICES ASSUME m <= i
                   PROVE  FALSE
      BY <1>5, <2>1
    <3>2. m \in DOMAIN t /\ \A k \in 1..m : k \in 1..i
      BY <1>1, <1>5, <2>1, <3>1
    <3> QED
      BY <1>5, <2>1, <3>2
  <2> QED
    BY <1>5, <2>1, <2>2
<1>8. S = 1..(m - 1)
  BY <1>6, <1>7
<1>9. Cardinality(1..(m - 1)) = m - 1
  <2>1. 1 \in Int /\ m - 1 \in Int
    BY <1>5
  <2>2. Cardinality(1..(m - 1)) = IF 1 > m - 1 THEN 0 ELSE (m - 1) - 1 + 1
    BY <2>1, FS_Interval
  <2> QED
    BY <1>5, <2>2
<1>10. HeadLines(t) = m - 1
  BY <1>8, <1>9 DEF HeadLines
<1>11. \A i \in S : t[i].kind = "hot"
  BY <1>1
<1> QED
  BY <1>1, <1>5, <1>8, <1>10, <1>11

LEMMA BodyLines ==
    ASSUME NEW t \in Seq(Lines)
    PROVE  /\ Body(t) \in Seq(Lines)
           /\ Len(Body(t)) = Len(t) - HeadLines(t)
           /\ DOMAIN Body(t) = 1..(Len(t) - HeadLines(t))
           /\ \A j \in 1..(Len(t) - HeadLines(t)) : Body(t)[j] = t[j + HeadLines(t)]
<1> DEFINE h == HeadLines(t)
<1>1. Len(t) \in Nat /\ h \in 0..Len(t) /\ \A k \in 1..Len(t) : t[k] \in Lines
  BY HeadIsHot, TextLines
<1> HIDE DEF h
<1>2. h + 1 \in Int /\ Len(t) \in Int /\ \A k \in (h + 1)..Len(t) : t[k] \in Lines
  BY <1>1
<1>3. /\ SubSeq(t, h + 1, Len(t)) \in Seq(Lines)
      /\ Len(SubSeq(t, h + 1, Len(t))) = IF h + 1 <= Len(t) THEN Len(t) - (h + 1) + 1 ELSE 0
      /\ \A j \in 1..(Len(t) - (h + 1) + 1) : SubSeq(t, h + 1, Len(t))[j] = t[(h + 1) + j - 1]
  BY <1>2, SubSeqProperties
<1>4. Body(t) = SubSeq(t, h + 1, Len(t))
  BY DEF Body, h
<1>5. Len(Body(t)) = Len(t) - h
  BY <1>1, <1>3, <1>4
<1>6. \A j \in 1..(Len(t) - h) : Body(t)[j] = t[j + h]
  <2> TAKE j \in 1..(Len(t) - h)
  <2>1. j \in 1..(Len(t) - (h + 1) + 1) /\ (h + 1) + j - 1 = j + h
    BY <1>1
  <2> QED
    BY <1>3, <1>4, <2>1
<1>7. Body(t) \in Seq(Lines) /\ DOMAIN Body(t) = 1..Len(Body(t))
  BY <1>3, <1>4
<1> QED
  BY <1>5, <1>6, <1>7 DEF h

-----------------------------------------------------------------------------
(* The program that is run, with the lines put before it.                  *)

Executed(package, t, values) == [i \in 1..package |-> Line("inject")] \o Program(t, values)

\* Line i of what is executed.
LineAt(package, t, values, i) ==
    LET a == i - package
        h == HeadLines(t)
    IN  IF a < 1 THEN Line("inject")
        ELSE IF a <= h THEN t[a]
        ELSE IF a <= h + 2 THEN Line("inject") ELSE Rewrite(Body(t), values)[a - h - 2]

LEMMA ExecutedLines ==
    ASSUME NEW t \in Seq(Lines), NEW values, BareValues(values), NEW package \in 0..1
    PROVE  /\ DOMAIN Executed(package, t, values) = 1..(package + Len(t) + 2)
           /\ \A i \in 1..(package + Len(t) + 2) :
                 Executed(package, t, values)[i] = LineAt(package, t, values, i)
<1> DEFINE All == Lines \cup {Line("inject")}
           h == HeadLines(t)
           pre == [i \in 1..package |-> Line("inject")]
           head == SubSeq(t, 1, h)
           body == Rewrite(Body(t), values)
<1>1. Len(t) \in Nat /\ h \in 0..Len(t) /\ package \in Nat
  BY HeadIsHot, TextLines
<1>2. pre \in Seq(All) /\ Len(pre) = package /\ \A i \in 1..package : pre[i] = Line("inject")
  <2>1. pre \in [1..package -> All]
    OBVIOUS
  <2>2. pre \in Seq(All)
    BY <1>1, <2>1, SeqDef
  <2>3. DOMAIN pre = 1..Len(pre) /\ Len(pre) \in Nat
    BY <2>2, LenProperties
  <2>4. 1..Len(pre) = 1..package
    BY <2>3
  <2> QED
    BY <1>1, <2>2, <2>3, <2>4, SameInterval
<1>3. head \in Seq(All) /\ Len(head) = h /\ \A i \in 1..h : head[i] = t[i]
  <2>1. 1 \in Int /\ h \in Int /\ \A k \in 1..h : t[k] \in All
    BY <1>1, TextLines
  <2>2. /\ head \in Seq(All)
        /\ Len(head) = IF 1 <= h THEN h - 1 + 1 ELSE 0
        /\ \A i \in 1..(h - 1 + 1) : head[i] = t[1 + i - 1]
    BY <2>1, SubSeqProperties
  <2>3. \A i \in 1..h : i \in 1..(h - 1 + 1) /\ 1 + i - 1 = i
    BY <1>1
  <2> QED
    BY <1>1, <2>2, <2>3
<1>4. Injected \in Seq(All) /\ Len(Injected) = 2 /\ \A i \in 1..2 : Injected[i] = Line("inject")
  <2>1. Injected = <<Line("inject"), Line("inject")>>
    BY DEF Injected
  <2>2. \A i \in 1..2 : i = 1 \/ i = 2
    OBVIOUS
  <2> HIDE DEF All
  <2>3. Line("inject") \in All
    BY DEF All
  <2> QED
    BY <2>1, <2>2, <2>3
<1>5. body \in Seq(All) /\ Len(body) = Len(t) - h
  <2>1. body \in Seq(Lines) /\ Len(body) = Len(Body(t))
    BY BodyLines, RewriteTyped
  <2>2. body \in Seq(All)
    BY <2>1, SeqMonotonic
  <2> QED
    BY <2>1, <2>2, BodyLines
<1>6. Executed(package, t, values) = pre \o ((head \o Injected) \o body)
  BY DEF Executed, Program
<1>7. \A i \in 1..(package + Len(t) + 2) :
         LineAt(package, t, values, i) =
            IF i - package < 1 THEN Line("inject")
            ELSE IF i - package <= h THEN t[i - package]
            ELSE IF i - package <= h + 2 THEN Line("inject") ELSE body[(i - package) - h - 2]
  BY DEF LineAt
<1> HIDE DEF All, h, pre, head, body
<1>8. /\ head \o Injected \in Seq(All) /\ Len(head \o Injected) = h + 2
      /\ \A i \in 1..(h + 2) : (head \o Injected)[i] = IF i <= h THEN head[i] ELSE Injected[i - h]
  <2>1. /\ head \o Injected \in Seq(All)
        /\ Len(head \o Injected) = Len(head) + Len(Injected)
        /\ \A i \in 1..(Len(head) + Len(Injected)) :
              (head \o Injected)[i] = IF i <= Len(head) THEN head[i] ELSE Injected[i - Len(head)]
    BY <1>3, <1>4, ConcatProperties
  <2> QED
    BY <1>3, <1>4, <2>1
<1>9. /\ (head \o Injected) \o body \in Seq(All)
      /\ Len((head \o Injected) \o body) = Len(t) + 2
      /\ \A i \in 1..(Len(t) + 2) :
            ((head \o Injected) \o body)[i] =
               IF i <= h + 2 THEN (head \o Injected)[i] ELSE body[i - (h + 2)]
  <2> DEFINE first == head \o Injected
  <2>1. first \in Seq(All) /\ Len(first) = h + 2 /\ (h + 2) + (Len(t) - h) = Len(t) + 2
    BY <1>1, <1>8
  <2> HIDE DEF first
  <2>2. /\ first \o body \in Seq(All)
        /\ Len(first \o body) = Len(first) + Len(body)
        /\ \A i \in 1..(Len(first) + Len(body)) :
              (first \o body)[i] = IF i <= Len(first) THEN first[i] ELSE body[i - Len(first)]
    BY <1>5, <2>1, ConcatProperties
  <2>3. Len(first) + Len(body) = Len(t) + 2
    BY <1>5, <2>1
  <2>4. /\ first \o body \in Seq(All)
        /\ Len(first \o body) = Len(t) + 2
        /\ \A i \in 1..(Len(t) + 2) :
              (first \o body)[i] = IF i <= h + 2 THEN first[i] ELSE body[i - (h + 2)]
    BY <2>1, <2>2, <2>3
  <2> QED
    BY <2>4 DEF first
<1>10. /\ pre \o ((head \o Injected) \o body) \in Seq(All)
       /\ Len(pre \o ((head \o Injected) \o body)) = package + (Len(t) + 2)
       /\ \A i \in 1..(package + (Len(t) + 2)) :
             (pre \o ((head \o Injected) \o body))[i] =
                IF i <= package THEN pre[i] ELSE ((head \o Injected) \o body)[i - package]
  <2> DEFINE rest == (head \o Injected) \o body
  <2>1. rest \in Seq(All) /\ Len(rest) = Len(t) + 2
    BY <1>9
  <2> HIDE DEF rest
  <2>2. /\ pre \o rest \in Seq(All)
        /\ Len(pre \o rest) = Len(pre) + Len(rest)
        /\ \A i \in 1..(Len(pre) + Len(rest)) :
              (pre \o rest)[i] = IF i <= Len(pre) THEN pre[i] ELSE rest[i - Len(pre)]
    BY <1>2, <2>1, ConcatProperties
  <2>3. /\ pre \o rest \in Seq(All)
        /\ Len(pre \o rest) = package + (Len(t) + 2)
        /\ \A i \in 1..(package + (Len(t) + 2)) :
              (pre \o rest)[i] = IF i <= package THEN pre[i] ELSE rest[i - package]
    BY <1>2, <2>1, <2>2
  <2> QED
    BY <2>3 DEF rest
<1>11. DOMAIN Executed(package, t, values) = 1..(package + Len(t) + 2)
  <2>1. package + (Len(t) + 2) = package + Len(t) + 2
    BY <1>1
  <2>2. DOMAIN Executed(package, t, values) = 1..Len(Executed(package, t, values))
    BY <1>6, <1>10, LenProperties
  <2> QED
    BY <1>6, <1>10, <2>1, <2>2
<1>12. ASSUME NEW i \in 1..(package + Len(t) + 2)
       PROVE  Executed(package, t, values)[i] = LineAt(package, t, values, i)
  <2> DEFINE a == i - package
  <2>1. i \in Int /\ a \in Int /\ i \in 1..(package + (Len(t) + 2)) /\ a <= Len(t) + 2
    BY <1>1
  <2>2. CASE a < 1
    <3>1. i \in 1..package /\ i <= package
      BY <1>1, <2>1, <2>2
    <3> QED
      BY <1>2, <1>6, <1>7, <1>10, <2>1, <2>2, <3>1
  <2>3. CASE 1 <= a
    <3>1. ~(i <= package) /\ a \in 1..(Len(t) + 2) /\ ~(a < 1)
      BY <1>1, <2>1, <2>3
    <3>2. Executed(package, t, values)[i] = ((head \o Injected) \o body)[a]
      BY <1>6, <1>10, <2>1, <3>1
    <3>3. CASE a <= h
      <4>1. a \in 1..h /\ a \in 1..(h + 2) /\ a <= h + 2
        BY <1>1, <3>1, <3>3
      <4>2. ((head \o Injected) \o body)[a] = t[a]
        BY <1>3, <1>8, <1>9, <3>1, <3>3, <4>1
      <4> QED
        BY <1>7, <3>1, <3>2, <3>3, <4>2
    <3>4. CASE ~(a <= h) /\ a <= h + 2
      <4>1. a \in 1..(h + 2) /\ a - h \in 1..2
        BY <1>1, <3>1, <3>4
      <4>2. ((head \o Injected) \o body)[a] = Line("inject")
        BY <1>4, <1>8, <1>9, <3>1, <3>4, <4>1
      <4> QED
        BY <1>7, <3>1, <3>2, <3>4, <4>2
    <3>5. CASE ~(a <= h) /\ ~(a <= h + 2)
      <4>1. a - (h + 2) = a - h - 2
        BY <1>1, <2>1
      <4>2. ((head \o Injected) \o body)[a] = body[a - h - 2]
        BY <1>9, <3>1, <3>5, <4>1
      <4> QED
        BY <1>7, <3>1, <3>2, <3>5, <4>2
    <3> QED
      BY <3>3, <3>4, <3>5
  <2> QED
    BY <2>1, <2>2, <2>3
<1> QED
  BY <1>11, <1>12

\* Where line i is shown.
ShownAt(package, t, i) == MapLine(i, package, HeadLines(t))

LEMMA MapsBack ==
    ASSUME NEW t \in Seq(Lines), NEW values, BareValues(values), NEW package \in 0..1,
           NEW i \in 1..(package + Len(t) + 2)
    PROVE  /\ ShownAt(package, t, i) \in 0..Len(t)
           /\ Executed(package, t, values)[i].kind = "inject" <=> ShownAt(package, t, i) = 0
           /\ ShownAt(package, t, i) # 0 =>
                Executed(package, t, values)[i].names = t[ShownAt(package, t, i)].names
<1> DEFINE a == i - package
           h == HeadLines(t)
           u == ShownAt(package, t, i)
           line == Executed(package, t, values)[i]
<1>1. Len(t) \in Nat /\ h \in 0..Len(t) /\ package \in Nat /\ DOMAIN t = 1..Len(t)
  BY HeadIsHot, TextLines
<1>2. line = IF a < 1 THEN Line("inject")
             ELSE IF a <= h THEN t[a]
             ELSE IF a <= h + 2 THEN Line("inject") ELSE Rewrite(Body(t), values)[a - h - 2]
  BY ExecutedLines DEF LineAt
<1>3. Len(Injected) = 2
  BY DEF Injected
<1>4. u = IF a < 1 THEN 0 ELSE IF a <= h THEN a ELSE IF a <= h + 2 THEN 0 ELSE a - 2
  BY <1>3 DEF ShownAt, MapLine
<1>5. Line("inject").kind = "inject" /\ \A k \in DOMAIN t : t[k].kind # "inject"
  <2>1. Line("inject").kind = "inject"
    BY DEF Line
  <2>2. \A k \in DOMAIN t : t[k].kind \in Kinds
    BY TextLines, LineFields
  <2> QED
    BY <2>1, <2>2 DEF Kinds
<1>6. i \in Int /\ a \in Int /\ a <= Len(t) + 2
  BY <1>1
<1>7. ASSUME ~(a < 1), ~(a <= h), ~(a <= h + 2)
      PROVE  line.kind = t[a - 2].kind /\ line.names = t[a - 2].names /\ a - 2 \in 1..Len(t)
  <2> DEFINE j == a - h - 2
             old == Body(t)[j]
  <2>1. j \in 1..(Len(t) - h) /\ j + h = a - 2 /\ a - 2 \in 1..Len(t)
    BY <1>1, <1>6, <1>7
  <2> HIDE DEF j
  <2>2. Body(t) \in Seq(Lines) /\ j \in DOMAIN Body(t) /\ old = t[a - 2]
    BY <2>1, BodyLines
  <2>3. Rewrite(Body(t), values)[j].kind = old.kind /\ Rewrite(Body(t), values)[j].names = old.names
    BY <2>2, RewriteKeeps
  <2>4. line = Rewrite(Body(t), values)[j]
    BY <1>2, <1>7 DEF j
  <2> QED
    BY <2>1, <2>2, <2>3, <2>4
<1> HIDE DEF u, line, a, h
<1>8. /\ u \in 0..Len(t)
      /\ line.kind = "inject" <=> u = 0
      /\ u # 0 => line.names = t[u].names
  <2>1. CASE a < 1
    BY <1>1, <1>2, <1>4, <1>5, <2>1
  <2>2. CASE ~(a < 1) /\ a <= h
    <3>1. a \in 1..Len(t)
      BY <1>1, <1>6, <2>2
    <3> QED
      BY <1>1, <1>2, <1>4, <1>5, <2>2, <3>1
  <2>3. CASE ~(a < 1) /\ ~(a <= h) /\ a <= h + 2
    BY <1>1, <1>2, <1>4, <1>5, <2>3
  <2>4. CASE ~(a < 1) /\ ~(a <= h) /\ ~(a <= h + 2)
    <3>1. u = a - 2
      BY <1>4, <2>4
    <3> QED
      BY <1>1, <1>5, <1>7, <2>4, <3>1
  <2> QED
    BY <2>1, <2>2, <2>3, <2>4
<1> QED
  BY <1>8 DEF u, line

LEMMA ShownInOrder ==
    ASSUME NEW t \in Seq(Lines), NEW package \in 0..1,
           NEW i \in 1..(package + Len(t) + 2), NEW k \in 1..(package + Len(t) + 2), i < k,
           ShownAt(package, t, i) # 0, ShownAt(package, t, k) # 0
    PROVE  ShownAt(package, t, i) < ShownAt(package, t, k)
<1>1. Len(t) \in Nat /\ HeadLines(t) \in Nat /\ package \in Nat /\ Len(Injected) = 2
  BY HeadIsHot, TextLines DEF Injected
<1> QED
  BY <1>1 DEF ShownAt, MapLine

LEMMA AllShown ==
    ASSUME NEW t \in Seq(Lines), NEW package \in 0..1, NEW u \in 1..Len(t)
    PROVE  \E i \in 1..(package + Len(t) + 2) : ShownAt(package, t, i) = u
<1>1. Len(t) \in Nat /\ HeadLines(t) \in Nat /\ package \in Nat /\ Len(Injected) = 2
  BY HeadIsHot, TextLines DEF Injected
<1>2. CASE u <= HeadLines(t)
  <2>1. u + package \in 1..(package + Len(t) + 2) /\ (u + package) - package = u
    BY <1>1
  <2>2. ShownAt(package, t, u + package) = u
    BY <1>1, <1>2, <2>1 DEF ShownAt, MapLine
  <2> QED
    BY <2>1, <2>2
<1>3. CASE ~(u <= HeadLines(t))
  <2>1. u + package + 2 \in 1..(package + Len(t) + 2) /\ (u + package + 2) - package = u + 2
    BY <1>1
  <2>2. ShownAt(package, t, u + package + 2) = u
    BY <1>1, <1>3, <2>1 DEF ShownAt, MapLine
  <2> QED
    BY <2>1, <2>2
<1> QED
  BY <1>2, <1>3

-----------------------------------------------------------------------------
(* Types.                                                                  *)

\* The text is one that may be written, the sheet has literals.
TypeOK ==
    /\ text \in Seq(Lines)
    /\ sheet \in [DOMAIN sheet -> [value : Literals, default : Literals]]
    /\ moved \in BOOLEAN

LEMMA SheetIsBare ==
    ASSUME TypeOK
    PROVE  BareValues(SheetValues(sheet))
  BY DEF TypeOK, BareValues, SheetValues

LEMMA LinesMap ==
    ASSUME TypeOK
    PROVE  LinesMapBack
<1> DEFINE values == SheetValues(sheet)
<1>1. text \in Seq(Lines) /\ BareValues(values) /\ DOMAIN text = 1..Len(text) /\ Len(text) \in Nat
  BY SheetIsBare, TextLines DEF TypeOK
<1>2. ASSUME NEW package \in 0..1
      PROVE  LET program == Executed(package, text, values)
                 shown == [i \in DOMAIN program |-> ShownAt(package, text, i)]
             IN  /\ \A i \in DOMAIN program : (program[i].kind = "inject") <=> (shown[i] = 0)
                 /\ Range(shown) \ {0} = DOMAIN text
                 /\ \A i, k \in DOMAIN program :
                       i < k /\ shown[i] # 0 /\ shown[k] # 0 => shown[i] < shown[k]
                 /\ \A i \in DOMAIN program : shown[i] # 0 => program[i].names = text[shown[i]].names
  <2> DEFINE program == Executed(package, text, values)
             D == 1..(package + Len(text) + 2)
             shown == [i \in DOMAIN program |-> ShownAt(package, text, i)]
  <2>1. DOMAIN program = D
    BY <1>1, ExecutedLines
  <2> HIDE DEF values
  <2>2. \A i \in D : /\ ShownAt(package, text, i) \in 0..Len(text)
                     /\ program[i].kind = "inject" <=> ShownAt(package, text, i) = 0
                     /\ ShownAt(package, text, i) # 0 =>
                          program[i].names = text[ShownAt(package, text, i)].names
    BY <1>1, MapsBack
  <2>3. \A i, k \in D : i < k /\ ShownAt(package, text, i) # 0 /\ ShownAt(package, text, k) # 0
                           => ShownAt(package, text, i) < ShownAt(package, text, k)
    BY <1>1, ShownInOrder
  <2>4. \A u \in 1..Len(text) : \E i \in D : ShownAt(package, text, i) = u
    BY <1>1, AllShown
  <2> HIDE DEF program, D
  <2>5. \A i \in D : shown[i] = ShownAt(package, text, i)
    BY <2>1
  <2>6. Range(shown) = {ShownAt(package, text, i) : i \in D}
    BY <2>1 DEF Range
  <2>7. Range(shown) \ {0} = DOMAIN text
    <3>1. ASSUME NEW u \in Range(shown) \ {0}
          PROVE  u \in DOMAIN text
      BY <1>1, <2>2, <2>6
    <3>2. ASSUME NEW u \in DOMAIN text
          PROVE  u \in Range(shown) \ {0}
      BY <1>1, <2>4, <2>6
    <3> QED
      BY <3>1, <3>2
  <2> HIDE DEF shown
  <2>8. /\ \A i \in DOMAIN program : (program[i].kind = "inject") <=> (shown[i] = 0)
        /\ \A i, k \in DOMAIN program :
              i < k /\ shown[i] # 0 /\ shown[k] # 0 => shown[i] < shown[k]
        /\ \A i \in DOMAIN program : shown[i] # 0 => program[i].names = text[shown[i]].names
    BY <2>1, <2>2, <2>3, <2>5
  <2> QED
    BY <2>7, <2>8 DEF program, shown
<1> QED
  BY <1>2 DEF LinesMapBack, Executed, ShownAt, values

-----------------------------------------------------------------------------
(* What fills the sheet.                                                   *)

\* Of some parameters of one name there is a first and a last.
LEMMA FirstAndLast ==
    ASSUME NEW t \in Seq(Lines), NEW ps \in SUBSET Candidates(t), ps # {}
    PROVE  /\ \E p \in ps : \A q \in ps : Before(p, q)
           /\ \E p \in ps : \A q \in ps : Before(q, p)
<1> DEFINE W(p) == 2 * p[1] + p[2]
           M == 2 * Len(t) + 2
           up == {W(p) : p \in ps}
           down == {M - W(p) : p \in ps}
<1>1. Len(t) \in Nat /\ DOMAIN t = 1..Len(t)
  BY TextLines
<1>2. \A p \in ps : p[1] \in 1..Len(t) /\ p[2] \in 1..2
  BY <1>1, FreeCandidates, PlaceFields
<1>3. \A p \in ps : W(p) \in Nat /\ M - W(p) \in Nat
  BY <1>1, <1>2
<1>4. \A p, q \in ps : W(p) <= W(q) => Before(p, q)
  BY <1>1, <1>2 DEF Before
<1>5. \A p, q \in ps : M - W(p) <= M - W(q) => W(q) <= W(p)
  <2>1. M \in Int /\ \A p \in ps : W(p) \in Int
    BY <1>1, <1>2
  <2> HIDE DEF W, M
  <2> QED
    BY <2>1
<1> HIDE DEF W, M
<1>6. up \in SUBSET Nat /\ up # {} /\ down \in SUBSET Nat /\ down # {}
  BY <1>3
<1>7. (\E n \in up : \A m \in up : n <= m) /\ (\E n \in down : \A m \in down : n <= m)
  <2> HIDE DEF up, down
  <2> QED
    BY <1>6, LeastNumber
<1>8. \E p \in ps : \A q \in ps : Before(p, q)
  <2>1. PICK n \in up : \A m \in up : n <= m
    BY <1>7
  <2>2. PICK p \in ps : n = W(p)
    BY <2>1
  <2>3. \A q \in ps : W(p) <= W(q)
    BY <2>1, <2>2
  <2> QED
    BY <1>4, <2>3
<1>9. \E p \in ps : \A q \in ps : Before(q, p)
  <2>1. PICK n \in down : \A m \in down : n <= m
    BY <1>7
  <2>2. PICK p \in ps : n = M - W(p)
    BY <2>1
  <2>3. \A q \in ps : M - W(p) <= M - W(q)
    BY <2>1, <2>2
  <2> QED
    BY <1>4, <1>5, <2>3
<1> QED
  BY <1>8, <1>9

\* The parameter that stands for a name.
ChosenAt(t, free, first, n) ==
    LET ps == {p \in free : NameAt(t, p) = n}
    IN  CHOOSE p \in ps : \A q \in ps : IF first THEN Before(p, q) ELSE Before(q, p)

LEMMA ChosenIsFree ==
    ASSUME NEW t \in Seq(Lines), NEW free \in SUBSET Candidates(t), NEW first \in BOOLEAN,
           NEW n, \E p \in free : NameAt(t, p) = n
    PROVE  ChosenAt(t, free, first, n) \in free /\ NameAt(t, ChosenAt(t, free, first, n)) = n
<1> DEFINE ps == {p \in free : NameAt(t, p) = n}
<1>1. ps \in SUBSET Candidates(t) /\ ps # {}
  OBVIOUS
<1>2. (\E p \in ps : \A q \in ps : Before(p, q)) /\ (\E p \in ps : \A q \in ps : Before(q, p))
  <2> HIDE DEF ps
  <2> QED
    BY <1>1, FirstAndLast
<1>3. \E p \in ps : \A q \in ps : IF first THEN Before(p, q) ELSE Before(q, p)
  <2> HIDE DEF ps
  <2> QED
    BY <1>2
<1>4. ChosenAt(t, free, first, n) =
        CHOOSE p \in ps : \A q \in ps : IF first THEN Before(p, q) ELSE Before(q, p)
  BY DEF ChosenAt
<1>5. ChosenAt(t, free, first, n) \in ps
  <2> HIDE DEF ps
  <2> QED
    BY <1>3, <1>4
<1> QED
  BY <1>5

\* A name of a legacy line is on a line that has a literal.
LEMMA LegacyTyped ==
    ASSUME NEW t \in Seq(Lines), NEW n \in LegacyNames(t)
    PROVE  t[LegacyLine(t, n)].rhs \in Literals
<1> DEFINE Of(kind) == {i \in DOMAIN t : t[i].kind = kind /\ t[i].names = <<n>>}
           lines == IF Of("explicit") # {} THEN Of("explicit") ELSE Of("registration")
           down == {Len(t) - i : i \in lines}
<1>1. Len(t) \in Nat /\ DOMAIN t = 1..Len(t) /\ \A i \in DOMAIN t : t[i] \in Lines
  BY TextLines
<1>2. lines \in SUBSET DOMAIN t /\ \A i \in lines : t[i].kind \in {"explicit", "registration"}
  OBVIOUS
<1>3. lines # {}
  <2>1. PICK i \in DOMAIN t : t[i].kind \in {"explicit", "registration"} /\ n \in Range(t[i].names)
    BY DEF LegacyNames
  <2>2. t[i].names \in Seq(STRING) /\ Len(t[i].names) = 1
    BY <1>1, <2>1, LineFields
  <2>3. t[i].names = <<n>>
    <3>1. DOMAIN t[i].names = {1}
      BY <2>2
    <3>2. t[i].names[1] = n
      BY <2>1, <3>1 DEF Range
    <3> QED
      BY <2>2, <3>2
  <2> QED
    BY <2>1, <2>3
<1>4. LegacyLine(t, n) = CHOOSE i \in lines : \A k \in lines : k <= i
  BY DEF LegacyLine
<1> HIDE DEF lines
<1>5. down \in SUBSET Nat /\ down # {}
  BY <1>1, <1>2, <1>3
<1>6. \E m \in down : \A k \in down : m <= k
  <2> HIDE DEF down
  <2> QED
    BY <1>5, LeastNumber
<1>7. \E i \in lines : \A k \in lines : k <= i
  <2>1. PICK i \in lines : \A k \in down : Len(t) - i <= k
    BY <1>6
  <2>2. \A k \in lines : Len(t) - i <= Len(t) - k
    BY <2>1
  <2>3. \A k \in lines : k <= i
    BY <1>1, <1>2, <2>1, <2>2
  <2> QED
    BY <2>3
<1>8. LegacyLine(t, n) \in lines
  BY <1>4, <1>7
<1>9. t[LegacyLine(t, n)] \in Lines /\ t[LegacyLine(t, n)].kind \in {"explicit", "registration"}
  BY <1>1, <1>2, <1>8
<1> QED
  BY <1>9, LineFields

Names(t, free) == {NameAt(t, p) : p \in free}

LEMMA HarvestAt ==
    ASSUME NEW t, NEW free, NEW first
    PROVE  Harvest(t, free, first) =
             [n \in Names(t, free) \cup LegacyNames(t) |->
                IF n \in Names(t, free) THEN ValueAt(t, ChosenAt(t, free, first, n))
                ELSE t[LegacyLine(t, n)].rhs]
  BY DEF Harvest, Names, ChosenAt

LEMMA HarvestTyped ==
    ASSUME NEW t \in Seq(Lines), NEW free \in SUBSET Candidates(t), NEW first \in BOOLEAN
    PROVE  \A n \in DOMAIN Harvest(t, free, first) : Harvest(t, free, first)[n] \in Literals
<1> SUFFICES ASSUME NEW n \in Names(t, free) \cup LegacyNames(t)
             PROVE  Harvest(t, free, first)[n] \in Literals
  BY HarvestAt
<1>1. CASE n \in Names(t, free)
  <2>1. ChosenAt(t, free, first, n) \in Candidates(t)
    BY <1>1, ChosenIsFree DEF Names
  <2>2. Harvest(t, free, first)[n] = ValueAt(t, ChosenAt(t, free, first, n))
    BY <1>1, HarvestAt
  <2> QED
    BY <2>1, <2>2, CandidateValue
<1>2. CASE n \notin Names(t, free)
  <2>1. Harvest(t, free, first)[n] = t[LegacyLine(t, n)].rhs
    BY <1>2, HarvestAt
  <2> QED
    BY <1>2, <2>1, LegacyTyped
<1> QED
  BY <1>1, <1>2

LEMMA HarvestsTyped ==
    ASSUME NEW t \in Seq(Lines)
    PROVE  /\ \A n \in DOMAIN GuestHarvest(t) : GuestHarvest(t)[n] \in Literals
           /\ \A n \in DOMAIN HostHarvest(t) : HostHarvest(t)[n] \in Literals
  BY HarvestTyped, FreeCandidates DEF GuestHarvest, HostHarvest

-----------------------------------------------------------------------------
(* Every step keeps the types.                                             *)

Entries == [value : Literals, default : Literals]

\* A sheet has a literal for each of its names.
SheetTyped(s) == s \in [DOMAIN s -> Entries]

\* A list of names and literals.
LEMMA FilledTyped ==
    ASSUME NEW found, BareValues(found), NEW preserve \in BOOLEAN, SheetTyped(sheet)
    PROVE  SheetTyped(Filled(found, preserve))
<1>1. \A n \in DOMAIN sheet : sheet[n].value \in Literals
  BY DEF SheetTyped, Entries
<1>2. Filled(found, preserve) =
        [n \in DOMAIN found |->
            [value |-> IF preserve /\ n \in DOMAIN sheet THEN sheet[n].value ELSE found[n],
             default |-> found[n]]]
  BY DEF Filled
<1>3. \A n \in DOMAIN found : Filled(found, preserve)[n] \in Entries
  BY <1>1, <1>2 DEF BareValues, Entries
<1> QED
  BY <1>2, <1>3 DEF SheetTyped

LEMMA FilledValue ==
    ASSUME NEW found
    PROVE  /\ DOMAIN Filled(found, FALSE) = DOMAIN found
           /\ \A n \in DOMAIN found : Filled(found, FALSE)[n].value = found[n]
  BY DEF Filled

LEMMA OverlayTyped ==
    ASSUME NEW s, SheetTyped(s), NEW values, BareValues(values)
    PROVE  SheetTyped(Overlay(s, values))
<1>1. \A n \in DOMAIN s : s[n] \in Entries
  BY DEF SheetTyped
<1>2. \A n \in DOMAIN s :
        [s[n] EXCEPT !.value = IF n \in DOMAIN values THEN values[n] ELSE s[n].default] \in Entries
  BY <1>1 DEF BareValues, Entries
<1> QED
  BY <1>2 DEF SheetTyped, Overlay

LEMMA OverlayValue ==
    ASSUME NEW s, SheetTyped(s), NEW values
    PROVE  /\ DOMAIN Overlay(s, values) = DOMAIN s
           /\ \A n \in DOMAIN s \cap DOMAIN values : Overlay(s, values)[n].value = values[n]
<1>1. \A n \in DOMAIN s : s[n] \in Entries
  BY DEF SheetTyped
<1> QED
  BY <1>1 DEF Overlay, Entries

\* A checkpoint holds literals.
LEMMA CheckpointTyped ==
    ASSUME NEW t \in Texts, NEW values \in Checkpoints(t)
    PROVE  t \in Seq(Lines) /\ BareValues(values)
<1>1. t \in Seq(Lines) /\ \A lit \in Lits : lit \in Literals
  BY TextsAssumption DEF Bare, Literals
<1> QED
  BY <1>1 DEF Checkpoints, BareValues

LEMMA MoveTyped ==
    ASSUME TypeOK, NEW t \in Texts, NEW values \in Checkpoints(t), HistoryMove(t, values)
    PROVE  TypeOK'
<1> DEFINE buffer == Rewrite(t, values)
<1>1. t \in Seq(Lines) /\ BareValues(values)
  BY CheckpointTyped
<1>2. buffer \in Seq(Lines)
  BY <1>1, RewriteTyped
<1>3. BareValues(GuestHarvest(buffer)) /\ BareValues(HostHarvest(buffer))
  <2> HIDE DEF buffer
  <2> QED
    BY <1>2, HarvestsTyped DEF BareValues
<1>4. SheetTyped(sheet)
  BY DEF TypeOK, SheetTyped, Entries
<1>5. PICK warm \in BOOLEAN :
        sheet' = IF values = <<>> THEN Filled(HostHarvest(buffer), FALSE)
                 ELSE Overlay(IF buffer = text THEN sheet
                              ELSE Filled(IF warm THEN GuestHarvest(buffer)
                                          ELSE HostHarvest(buffer), FALSE), values)
  BY DEF HistoryMove
<1>6. text' = buffer /\ moved' = TRUE
  BY DEF HistoryMove
<1> HIDE DEF buffer
<1> DEFINE found == IF warm THEN GuestHarvest(buffer) ELSE HostHarvest(buffer)
<1>7. BareValues(found)
  BY <1>3
<1>8. SheetTyped(Filled(found, FALSE)) /\ SheetTyped(Filled(HostHarvest(buffer), FALSE))
  <2> HIDE DEF found
  <2> QED
    BY <1>3, <1>4, <1>7, FilledTyped
<1> DEFINE shown == IF buffer = text THEN sheet ELSE Filled(found, FALSE)
<1>9. SheetTyped(shown)
  BY <1>4, <1>8
<1>10. SheetTyped(Overlay(shown, values))
  <2> HIDE DEF shown
  <2> QED
    BY <1>1, <1>9, OverlayTyped
<1>11. sheet' = IF values = <<>> THEN Filled(HostHarvest(buffer), FALSE) ELSE Overlay(shown, values)
  BY <1>5
<1>12. SheetTyped(sheet')
  <2> HIDE DEF shown
  <2> QED
    BY <1>8, <1>10, <1>11
<1>13. sheet' \in [DOMAIN sheet' -> [value : Literals, default : Literals]]
  BY <1>12 DEF SheetTyped, Entries
<1> QED
  BY <1>2, <1>6, <1>13 DEF TypeOK

LEMMA InitTyped ==
    ASSUME Init
    PROVE  TypeOK
<1>1. text \in Seq(Lines)
  BY TextsAssumption DEF Init
<1>2. \A n \in DOMAIN HostHarvest(text) : HostHarvest(text)[n] \in Literals
  BY <1>1, HarvestsTyped
<1>3. sheet = [n \in DOMAIN HostHarvest(text) |->
                 [value |-> HostHarvest(text)[n], default |-> HostHarvest(text)[n]]]
  BY DEF Init
<1>4. moved = FALSE
  BY DEF Init
<1> QED
  BY <1>1, <1>2, <1>3, <1>4 DEF TypeOK

LEMMA NextTyped ==
    ASSUME TypeOK, [Next]_vars
    PROVE  TypeOK'
<1>1. text \in Seq(Lines) /\ SheetTyped(sheet)
  BY DEF TypeOK, SheetTyped, Entries
<1>2. BareValues(GuestHarvest(text)) /\ BareValues(HostHarvest(text))
  BY <1>1, HarvestsTyped DEF BareValues
<1>3. SheetTyped(Filled(GuestHarvest(text), TRUE)) /\ SheetTyped(Filled(HostHarvest(text), TRUE))
  BY <1>1, <1>2, FilledTyped
<1>4. ASSUME SheetTyped(sheet')
      PROVE  sheet' \in [DOMAIN sheet' -> [value : Literals, default : Literals]]
  BY <1>4 DEF SheetTyped, Entries
<1>5. ASSUME NEW t \in Texts, Edit(t)
      PROVE  TypeOK'
  BY <1>5, TextsAssumption DEF Edit, TypeOK
<1>6. CASE ResolveGuest
  <2>1. SheetTyped(sheet') /\ text' = text /\ moved' = FALSE
    BY <1>1, <1>3, <1>6 DEF ResolveGuest
  <2> QED
    BY <1>1, <1>4, <2>1 DEF TypeOK
<1>7. CASE ResolveHost
  <2>1. SheetTyped(sheet') /\ text' = text /\ moved' = FALSE
    BY <1>3, <1>7 DEF ResolveHost
  <2> QED
    BY <1>1, <1>4, <2>1 DEF TypeOK
<1>8. ASSUME NEW n \in DOMAIN sheet, NEW lit \in Lits, SetValue(n, lit)
      PROVE  TypeOK'
  <2>1. lit \in Literals
    BY TextsAssumption DEF Bare, Literals
  <2>2. sheet' = [sheet EXCEPT ![n].value = lit] /\ text' = text /\ moved' = FALSE
    BY <1>8 DEF SetValue
  <2> QED
    BY <1>1, <2>1, <2>2 DEF TypeOK
<1>9. CASE Reset
  <2>1. sheet' = [n \in DOMAIN sheet |-> [sheet[n] EXCEPT !.value = sheet[n].default]]
    BY <1>9 DEF Reset
  <2>2. text' = text /\ moved' = FALSE
    BY <1>9 DEF Reset
  <2> QED
    BY <1>1, <2>1, <2>2 DEF TypeOK
<1>10. ASSUME NEW t \in Texts, NEW values \in Checkpoints(t), HistoryMove(t, values)
       PROVE  TypeOK'
  BY <1>10, MoveTyped
<1>11. CASE UNCHANGED vars
  BY <1>11 DEF TypeOK, vars
<1> QED
  BY <1>5, <1>6, <1>7, <1>8, <1>9, <1>10, <1>11 DEF Next

\* The text is one that may be written and the sheet has literals.
THEOREM TextTyped == Spec => []TypeOK
<1>1. Init => TypeOK
  BY InitTyped
<1>2. TypeOK /\ [Next]_vars => TypeOK'
  BY NextTyped
<1> QED
  BY <1>1, <1>2, PTL DEF Spec

\* Every line of what is executed is shown where the user has written it (inject.js:121): what a run
\* puts before the program never moves an error to another line, whatever the program and the values.
THEOREM LinesAreShown == Spec => []LinesMapBack
<1>1. TypeOK => LinesMapBack
  BY LinesMap
<1> QED
  BY <1>1, TextTyped, PTL

-----------------------------------------------------------------------------
(* What a run is given.                                                    *)

\* Without its directives an authored text is authored.
LEMMA BodyAuthored ==
    ASSUME NEW t \in Seq(Lines), Authored(t)
    PROVE  Authored(Body(t))
<1> DEFINE b == Body(t)
           h == HeadLines(t)
<1>1. Len(t) \in Nat /\ h \in 0..Len(t) /\ DOMAIN t = 1..Len(t)
  BY HeadIsHot, TextLines
<1>2. \A i \in 1..h : t[i].kind = "hot"
  BY HeadIsHot
<1>3. DOMAIN b = 1..(Len(t) - h) /\ \A j \in 1..(Len(t) - h) : b[j] = t[j + h]
  BY BodyLines
<1> HIDE DEF b, h
<1>4. ASSUME NEW j \in Header(b)
      PROVE  j + h \in Header(t) /\ j \in 1..(Len(t) - h)
  <2>1. j \in 1..(Len(t) - h) /\ \A k \in DOMAIN b : GuestStops(b[k]) => j < k
    BY <1>3 DEF Header, InHeader
  <2>2. j + h \in DOMAIN t
    BY <1>1, <2>1
  <2>3. ASSUME NEW k \in DOMAIN t, GuestStops(t[k])
        PROVE  j + h < k
    <3>1. k \notin 1..h
      BY <1>2, <2>3 DEF GuestStops
    <3>2. k - h \in 1..(Len(t) - h) /\ (k - h) + h = k
      BY <1>1, <3>1
    <3>3. GuestStops(b[k - h])
      BY <1>3, <2>3, <3>2
    <3>4. j < k - h
      BY <1>3, <2>1, <3>2, <3>3
    <3> QED
      BY <1>1, <2>1, <3>4
  <2> QED
    BY <2>1, <2>2, <2>3 DEF Header, InHeader
<1>5. \A i \in Header(t) :
        /\ ~HostStops(t[i])
        /\ t[i].kind = "local" /\ t[i].note # "none" => Len(t[i].names) = 1
        /\ t[i].kind = "display" /\ i + 1 \in DOMAIN t =>
               /\ t[i + 1].kind \notin {"blank", "explicit", "hot"}
               /\ t[i + 1].kind = "local" => Len(t[i + 1].names) = 1
  BY DEF Authored, Header
<1>6. ASSUME NEW j \in Header(b)
      PROVE  /\ ~HostStops(b[j])
             /\ b[j].kind = "local" /\ b[j].note # "none" => Len(b[j].names) = 1
             /\ b[j].kind = "display" /\ j + 1 \in DOMAIN b =>
                    /\ b[j + 1].kind \notin {"blank", "explicit", "hot"}
                    /\ b[j + 1].kind = "local" => Len(b[j + 1].names) = 1
  <2>1. j + h \in Header(t) /\ j \in 1..(Len(t) - h) /\ b[j] = t[j + h]
    BY <1>3, <1>4
  <2>2. ASSUME j + 1 \in DOMAIN b
        PROVE  (j + h) + 1 \in DOMAIN t /\ b[j + 1] = t[(j + h) + 1]
    <3>1. j + 1 \in 1..(Len(t) - h) /\ (j + 1) + h = (j + h) + 1
      BY <1>1, <1>3, <2>1, <2>2
    <3>2. b[j + 1] = t[(j + 1) + h]
      BY <1>3, <3>1
    <3> QED
      BY <1>1, <2>1, <3>1, <3>2
  <2> QED
    BY <1>5, <2>1, <2>2
<1>7. Authored(b)
  BY <1>6 DEF Authored, Header
<1> QED
  BY <1>7 DEF b

LEMMA ValuesAreListed ==
    ASSUME NEW rhs
    PROVE  Values(rhs) = [j \in DOMAIN Values(rhs) |-> Values(rhs)[j]]
<1> DEFINE Cut(m) == CHOOSE k \in Cuts(rhs) : Cardinality({c \in Cuts(rhs) : c < k}) = m
           places == 1..(Cardinality(Cuts(rhs)) - 1)
           Value(m) == SubSeq(rhs, Cut(m - 1) + 1, Cut(m) - 1)
<1>1. Values(rhs) = [m \in places |-> Value(m)]
  BY DEF Values, Cuts
<1> HIDE DEF Value, places
<1> QED
  BY <1>1

\* What the properties say a run has at a place.
ExpectedAt(body, p) ==
    IF p \in GuestFree(body) /\ NameAt(body, p) \in DOMAIN sheet
    THEN sheet[NameAt(body, p)].value ELSE ValueAt(body, p)

LEMMA RunLine ==
    ASSUME TypeOK, NEW body \in Seq(Lines), Authored(body), NEW i \in DOMAIN body,
           body[i].kind = "local"
    PROVE  Values(Rewrite(body, SheetValues(sheet))[i].rhs) =
             [j \in DOMAIN Values(body[i].rhs) |-> ExpectedAt(body, <<i, j>>)]
<1> DEFINE values == SheetValues(sheet)
           p == <<i, 1>>
<1>1. BareValues(values) /\ DOMAIN values = DOMAIN sheet
  BY SheetIsBare DEF SheetValues
<1>2. GuestFree(body) = HostFree(body)
  BY ScannersAgree
<1>3. CASE p \in HostFree(body) /\ NameAt(body, p) \in DOMAIN values
  <2> DEFINE v == values[NameAt(body, p)]
  <2>1. Rewrite(body, values)[i].rhs = v
    <3> HIDE DEF values
    <3> QED
      BY <1>1, <1>3, AuthoredLine
  <2>2. v \in Literals /\ v = ExpectedAt(body, p)
    BY <1>1, <1>2, <1>3 DEF BareValues, SheetValues, ExpectedAt
  <2>3. Values(v) = <<v>>
    <3> HIDE DEF v
    <3> QED
      BY <2>2, LiteralValue
  <2>4. p[1] = i
    OBVIOUS
  <2>5. Values(body[i].rhs) = <<body[i].rhs>>
    BY <1>3, <2>4, FreeValue
  <2> HIDE DEF v
  <2>6. [j \in DOMAIN Values(body[i].rhs) |-> ExpectedAt(body, <<i, j>>)] = <<v>>
    <3>1. DOMAIN Values(body[i].rhs) = {1}
      BY <2>5
    <3>2. [j \in {1} |-> ExpectedAt(body, <<i, j>>)] = [j \in {1} |-> v]
      BY <2>2
    <3>3. [j \in {1} |-> v] = <<v>>
      OBVIOUS
    <3> QED
      BY <3>1, <3>2, <3>3
  <2>7. Values(Rewrite(body, values)[i].rhs) = <<v>>
    BY <2>1, <2>3
  <2> QED
    BY <2>6, <2>7
<1>4. CASE ~(p \in HostFree(body) /\ NameAt(body, p) \in DOMAIN values)
  <2>1. Rewrite(body, values)[i] = body[i]
    <3> HIDE DEF values
    <3> QED
      BY <1>1, <1>4, AuthoredLine
  <2>2. ASSUME NEW j
        PROVE  ExpectedAt(body, <<i, j>>) = Values(body[i].rhs)[j]
    <3>1. ~(<<i, j>> \in GuestFree(body) /\ NameAt(body, <<i, j>>) \in DOMAIN sheet)
      <4> SUFFICES ASSUME <<i, j>> \in HostFree(body), NameAt(body, <<i, j>>) \in DOMAIN sheet
                   PROVE  FALSE
        BY <1>2
      <4> DEFINE q == <<i, j>>
      <4>1. q = <<q[1], 1>>
        <5> HIDE DEF q
        <5>1. q \in HostFree(body)
          BY DEF q
        <5> QED
          BY <5>1, FreeValue
      <4>2. q = p
        BY <4>1
      <4> QED
        BY <1>1, <1>4, <4>2
    <3>2. ExpectedAt(body, <<i, j>>) = ValueAt(body, <<i, j>>)
      BY <3>1 DEF ExpectedAt
    <3> QED
      BY <3>2 DEF ValueAt
  <2> HIDE DEF values
  <2>3. [j \in DOMAIN Values(body[i].rhs) |-> ExpectedAt(body, <<i, j>>)]
           = [j \in DOMAIN Values(body[i].rhs) |-> Values(body[i].rhs)[j]]
    BY <2>2
  <2>4. Values(body[i].rhs) = [j \in DOMAIN Values(body[i].rhs) |-> Values(body[i].rhs)[j]]
    BY ValuesAreListed
  <2>5. Values(Rewrite(body, values)[i].rhs) = Values(body[i].rhs)
    BY <2>1
  <2> QED
    BY <2>3, <2>4, <2>5 DEF values
<1> QED
  BY <1>3, <1>4

LEMMA RunHasSheet ==
    ASSUME TypeOK, Authored(text)
    PROVE  RunIsSheet
<1> DEFINE body == Body(text)
           values == SheetValues(sheet)
           run == Rewrite(body, values)
<1>1. body \in Seq(Lines) /\ Authored(body) /\ BareValues(values)
  BY BodyLines, BodyAuthored, SheetIsBare DEF TypeOK
<1> HIDE DEF body, values
<1>2. Len(run) = Len(body)
  BY <1>1, RewriteTyped
<1>3. ASSUME NEW i \in DOMAIN body
      PROVE  /\ [run[i] EXCEPT !.rhs = <<>>] = [body[i] EXCEPT !.rhs = <<>>]
             /\ body[i].kind # "local" => run[i] = body[i]
  <2>1. SameLine(run[i], body[i]) /\ (body[i].kind # "local" => run[i] = body[i])
    BY <1>1, RewriteLine
  <2> QED
    BY <2>1 DEF SameLine
<1>4. ASSUME NEW i \in DOMAIN body, body[i].kind = "local"
      PROVE  Values(run[i].rhs) = [j \in DOMAIN Values(body[i].rhs) |-> ExpectedAt(body, <<i, j>>)]
  BY <1>1, <1>4, RunLine DEF values
<1> HIDE DEF run
<1>5. \A i \in DOMAIN body :
        IF body[i].kind # "local" THEN run[i] = body[i]
        ELSE Values(run[i].rhs) = [j \in DOMAIN Values(body[i].rhs) |-> ExpectedAt(body, <<i, j>>)]
  BY <1>3, <1>4
<1>6. \A i \in DOMAIN body : [run[i] EXCEPT !.rhs = <<>>] = [body[i] EXCEPT !.rhs = <<>>]
  BY <1>3
<1> QED
  BY <1>2, <1>5, <1>6 DEF RunIsSheet, ExpectedAt, run, body, values

\* For every program the scanners read alike, a run is the user's program with the sheet's values in
\* the places of the parameters and nothing else changed (inject.js:8-10).
THEOREM RunHasTheSheet == Spec => [](Authored(text) => RunIsSheet)
<1>1. TypeOK => (Authored(text) => RunIsSheet)
  BY RunHasSheet
<1> QED
  BY <1>1, TextTyped, PTL

-----------------------------------------------------------------------------
(* An undo, a redo or a restore.                                           *)

\* The values that have been laid over the sheet are in the text.
LEMMA MoveWithValues ==
    ASSUME TypeOK, NEW t \in Texts, NEW values \in [DOMAIN GuestHarvest(t) -> Lits],
           values # <<>>, HistoryMove(t, values), Authored(text'),
           NEW p \in GuestFree(text'), NameAt(text', p) \in DOMAIN sheet'
    PROVE  ValueAt(text', p) = sheet'[NameAt(text', p)].value
<1> DEFINE buffer == Rewrite(t, values)
           n == NameAt(buffer, p)
<1>1. t \in Seq(Lines) /\ BareValues(values)
  BY CheckpointTyped DEF Checkpoints
<1>2. text' = buffer
  BY DEF HistoryMove
<1>3. buffer \in Seq(Lines) /\ Authored(buffer) /\ p \in GuestFree(buffer)
  BY <1>1, <1>2, RewriteTyped
<1>4. Authored(t)
  BY <1>1, <1>3, AuthoredBefore
<1>5. p \in HostFree(t) /\ n = NameAt(t, p)
  BY <1>1, <1>3, <1>4, FreeBefore
<1>6. p \in GuestFree(t)
  BY <1>1, <1>4, <1>5, ScannersAgree
<1>7. n \in DOMAIN values
  <2>1. n \in Names(t, GuestFree(t))
    BY <1>5, <1>6 DEF Names
  <2>2. DOMAIN GuestHarvest(t) = Names(t, GuestFree(t)) \cup LegacyNames(t)
    BY HarvestAt DEF GuestHarvest
  <2> HIDE DEF n
  <2> QED
    BY <2>1, <2>2
<1>8. buffer[p[1]].rhs = values[n]
  <2>1. p = <<p[1], 1>> /\ p[1] \in DOMAIN t
    BY <1>1, <1>4, <1>5, FreeValue
  <2>2. IF <<p[1], 1>> \in HostFree(t) /\ NameAt(t, <<p[1], 1>>) \in DOMAIN values
        THEN Rewrite(t, values)[p[1]].rhs = values[NameAt(t, <<p[1], 1>>)]
        ELSE Rewrite(t, values)[p[1]] = t[p[1]]
    BY <1>1, <1>4, <2>1, AuthoredLine
  <2> HIDE DEF n
  <2> QED
    BY <1>5, <1>7, <2>1, <2>2
<1>9. ValueAt(buffer, p) = buffer[p[1]].rhs
  <2> HIDE DEF buffer
  <2>1. p \in HostFree(buffer)
    BY <1>3, ScannersAgree
  <2> QED
    BY <1>3, <2>1, FreeValue
<1>10. PICK warm \in BOOLEAN :
        sheet' = Overlay(IF buffer = text THEN sheet
                         ELSE Filled(IF warm THEN GuestHarvest(buffer)
                                     ELSE HostHarvest(buffer), FALSE), values)
  BY DEF HistoryMove
<1> DEFINE found == IF warm THEN GuestHarvest(buffer) ELSE HostHarvest(buffer)
           shown == IF buffer = text THEN sheet ELSE Filled(found, FALSE)
<1>11. SheetTyped(shown)
  <2> HIDE DEF buffer
  <2>1. SheetTyped(sheet)
    BY DEF TypeOK, SheetTyped, Entries
  <2>2. BareValues(found)
    BY <1>3, HarvestsTyped DEF BareValues
  <2> HIDE DEF found
  <2>3. SheetTyped(Filled(found, FALSE))
    BY <2>1, <2>2, FilledTyped
  <2> QED
    BY <2>1, <2>3
<1>12. sheet' = Overlay(shown, values)
  BY <1>10
<1> HIDE DEF buffer, shown, n
<1>13. DOMAIN sheet' = DOMAIN shown /\ \A m \in DOMAIN shown \cap DOMAIN values : sheet'[m].value = values[m]
  BY <1>11, <1>12, OverlayValue
<1>14. n \in DOMAIN sheet'
  BY <1>2 DEF n
<1>15. sheet'[n].value = values[n]
  BY <1>7, <1>13, <1>14
<1> QED
  BY <1>2, <1>8, <1>9, <1>15 DEF n

\* The sheet is filled from the text when the checkpoint has no values.
LEMMA MoveWithout ==
    ASSUME NEW t \in Texts, HistoryMove(t, <<>>), Authored(text'), NamedOnce(text'),
           NEW p \in GuestFree(text')
    PROVE  ValueAt(text', p) = sheet'[NameAt(text', p)].value
<1> DEFINE n == NameAt(t, p)
           found == HostHarvest(t)
<1>1. t \in Seq(Lines)
  BY TextsAssumption
<1>2. text' = t /\ sheet' = Filled(found, FALSE)
  BY <1>1, NothingWritten DEF HistoryMove
<1>3. GuestFree(t) = HostFree(t) /\ p \in GuestFree(t) /\ NamedOnce(t)
  BY <1>1, <1>2, ScannersAgree
<1>4. \E q \in HostFree(t) : NameAt(t, q) = n
  BY <1>3
<1> HIDE DEF n
<1>5. /\ ChosenAt(t, HostFree(t), FALSE, n) \in HostFree(t)
      /\ NameAt(t, ChosenAt(t, HostFree(t), FALSE, n)) = n
  <2>1. HostFree(t) \in SUBSET Candidates(t) /\ FALSE \in BOOLEAN
    BY FreeCandidates
  <2> QED
    BY <1>1, <1>4, <2>1, ChosenIsFree
<1>6. ChosenAt(t, HostFree(t), FALSE, n) = p
  BY <1>3, <1>5 DEF NamedOnce, n
<1>7. n \in Names(t, HostFree(t))
  BY <1>4 DEF Names
<1>8. n \in DOMAIN found /\ found[n] = ValueAt(t, p)
  BY <1>6, <1>7, HarvestAt DEF HostHarvest
<1> HIDE DEF found
<1>9. sheet'[n].value = found[n]
  BY <1>2, <1>8, FilledValue
<1> QED
  BY <1>2, <1>8, <1>9 DEF n

ShowsValues == Authored(text) /\ NamedOnce(text) => MoveShowsValues

LEMMA NextShows ==
    ASSUME TypeOK, ShowsValues, [Next]_vars
    PROVE  ShowsValues'
<1>1. CASE moved' = FALSE
  BY <1>1 DEF ShowsValues, MoveShowsValues
<1>2. ASSUME NEW t \in Texts, NEW values \in Checkpoints(t), HistoryMove(t, values)
      PROVE  ShowsValues'
  <2> SUFFICES ASSUME Authored(text'), NamedOnce(text'),
                      NEW p \in GuestFree(text'), NameAt(text', p) \in DOMAIN sheet'
               PROVE  ValueAt(text', p) = sheet'[NameAt(text', p)].value
    BY DEF ShowsValues, MoveShowsValues
  <2>1. CASE values = <<>>
    <3>1. HistoryMove(t, <<>>)
      BY <1>2, <2>1
    <3> QED
      BY <3>1, MoveWithout
  <2>2. CASE values # <<>>
    <3>1. values \in [DOMAIN GuestHarvest(t) -> Lits]
      BY <2>2 DEF Checkpoints
    <3> QED
      BY <1>2, <2>2, <3>1, MoveWithValues
  <2> QED
    BY <2>1, <2>2
<1>3. CASE UNCHANGED vars
  BY <1>3 DEF ShowsValues, MoveShowsValues, vars
<1>4. CASE Next /\ ~(\E t \in Texts : \E values \in Checkpoints(t) : HistoryMove(t, values))
  <2>1. moved' = FALSE
    BY <1>4 DEF Next, Edit, ResolveGuest, ResolveHost, SetValue, Reset
  <2> QED
    BY <1>1, <2>1
<1> QED
  BY <1>2, <1>3, <1>4

\* For every program the scanners read alike in which no two parameters have one name, the editor
\* has the literals the sheet shows after an undo, a redo or a restore (main.js:161), whether the
\* sheet was filled by the guest or by the page and whatever the checkpoint holds.
THEOREM MoveShowsTheValues == Spec => [](Authored(text) /\ NamedOnce(text) => MoveShowsValues)
<1>1. Init => ShowsValues
  BY DEF Init, ShowsValues, MoveShowsValues
<1>2. TypeOK /\ ShowsValues /\ [Next]_vars => ShowsValues'
  BY NextShows
<1>3. Spec => []ShowsValues
  BY <1>1, <1>2, TextTyped, PTL DEF Spec
<1> QED
  BY <1>3 DEF ShowsValues

-----------------------------------------------------------------------------
(* A row of the sheet over the value of a parameter, for every range, step *)
(* and default, whatever is typed and however slider and store round: the  *)
(* formulas of ClampParam and Snap are never expanded, so that the results *)
(* do not depend on their agreeing.                                        *)

\* A value that waits for its timer is in the store already, clamped.
TimerIsStored == timer # NoTimer => value = ClampParam(timer)

RowInv == TimerIsStored /\ ShowsStore

\* What the row does when it is told, when it tells and when it waits.
LEMMA PatchShows ==
    ASSUME NEW v, Patch(v)
    PROVE  RowInv'
  BY DEF Patch, RowInv, TimerIsStored, ShowsStore

LEMMA RenderShows ==
    ASSUME NEW v, Render(v)
    PROVE  RowInv'
  BY DEF Render, RowInv, TimerIsStored, ShowsStore

LEMMA CommitShows ==
    ASSUME NEW v, Commit(v)
    PROVE  RowInv'
  BY DEF Commit, Set, RowInv, TimerIsStored, ShowsStore

LEMMA ScheduleWaits ==
    ASSUME NEW v, NEW s, v # NoTimer, ScheduleCommit(v, s)
    PROVE  RowInv'
  BY DEF ScheduleCommit, Set, RowInv, TimerIsStored, ShowsStore

\* Rounding an integer gives an integer, which the absence of a timer is not.
LEMMA SnapIsNoTimer ==
    ASSUME NEW x \in Int
    PROVE  Snap(x) # NoTimer
<1>1. Within(x) \in Int
  BY RangeAssumption DEF Within
<1>2. ASSUME NEW a \in Int
      PROVE  Round(a, Step) \in Int
  BY RangeAssumption DEF Round
<1>3. Low \in Int /\ Step \in Int /\ NoTimer \notin Int
  BY RangeAssumption
<1>4. Within(x) - Low \in Int
  BY <1>1, <1>3
<1>5. Round(Within(x) - Low, Step) \in Int
  BY <1>2, <1>4
<1>6. Low + Round(Within(x) - Low, Step) * Step \in Int
  BY <1>3, <1>5
<1> QED
  BY <1>3, <1>6 DEF Snap

LEMMA InitRow == RowInit => RowInv
  BY RangeAssumption DEF RowInit, RowInv, TimerIsStored, ShowsStore

LEMMA StepRow == RowInv /\ [RowNext]_rowVars => RowInv'
<1> SUFFICES ASSUME RowInv, [RowNext]_rowVars
             PROVE  RowInv'
  OBVIOUS
<1>1. ASSUME NEW x \in Positions, SliderDown(x) \/ SliderMove(x)
      PROVE  RowInv'
  <2>1. Snap(x) # NoTimer
    BY SnapIsNoTimer, RangeAssumption DEF Positions
  <2> QED
    BY <1>1, <2>1, ScheduleWaits DEF SliderDown, SliderMove
<1>2. CASE SliderUp \/ DefaultMark \/ Change
  BY <1>2, CommitShows DEF SliderUp, DefaultMark, Change
<1>3. ASSUME NEW next, SliderKey(next)
      PROVE  RowInv'
  BY <1>3, CommitShows DEF SliderKey
<1>4. ASSUME NEW t \in Inputs \cup {Bad}, Type(t)
      PROVE  RowInv'
  <2>1. CASE t = Bad
    BY <1>4, <2>1 DEF Type, RowInv, TimerIsStored, ShowsStore
  <2>2. CASE t # Bad /\ ClampParam(t) # value
    <3>1. t # NoTimer
      BY <2>2, RangeAssumption
    <3> QED
      BY <1>4, <2>2, <3>1, ScheduleWaits DEF Type
  <2>3. CASE t # Bad /\ ClampParam(t) = value
    BY <1>4, <2>3 DEF Type, RowInv, TimerIsStored, ShowsStore
  <2> QED
    BY <2>1, <2>2, <2>3
<1>5. CASE ResetRow
  BY <1>5, PatchShows DEF ResetRow
<1>6. ASSUME NEW v, NEW same \in BOOLEAN, Replace(v, same)
      PROVE  RowInv'
  BY <1>6, PatchShows, RenderShows DEF Replace
<1>7. ASSUME NEW v, Handle(v)
      PROVE  RowInv'
  BY <1>7 DEF Handle, Set, RowInv, TimerIsStored, ShowsStore
<1>8. CASE TimerFires
  BY <1>8 DEF TimerFires, Set, RowInv, TimerIsStored, ShowsStore
<1>9. CASE UNCHANGED rowVars
  BY <1>9 DEF rowVars, RowInv, TimerIsStored, ShowsStore
<1> QED
  BY <1>1, <1>2, <1>3, <1>4, <1>5, <1>6, <1>7, <1>8, <1>9 DEF RowNext

\* At rest the row shows what is stored, for every range, step and rounding (sheet.js:108-115, 354-372).
THEOREM RowShowsStore == RowSpec => []ShowsStore
<1>1. RowInv => ShowsStore
  BY DEF RowInv
<1> QED
  BY <1>1, InitRow, StepRow, PTL DEF RowSpec

\* A commit timer never takes back what came after the scrub that started it (sheet.js:70-87).
THEOREM TimersConfirm == RowSpec => TimerConfirms
<1>1. RowInv /\ [RowNext]_rowVars => [TimerFires => value' = value]_rowVars
  BY DEF RowInv, TimerIsStored, TimerFires, Set
<1> QED
  BY <1>1, InitRow, StepRow, PTL DEF RowSpec, TimerConfirms

=============================================================================
