-------------------------- MODULE OccBridgeProofs --------------------------
(***************************************************************************)
(* What is proved of the bridge between the guest's calls and the kernel   *)
(* (OccBridge).  First the table of shapes: the steps that change it are   *)
(* two, Adopt and Free, and each keeps the table and the kernel's heap of  *)
(* shapes in step.                                                         *)
(***************************************************************************)
EXTENDS OccBridge, TLAPS

-----------------------------------------------------------------------------
(* The table of shapes.                                                    *)

\* Ids are handed out upwards and never again: those in the table and those freed are behind nextId.
TableInv ==
    /\ nextId \in Nat
    /\ shapes = [i \in DOMAIN shapes |-> shapes[i]]
    /\ \A i \in DOMAIN shapes \cup freed : i \in Nat /\ i < nextId
    /\ IdsNameOneShape

\* A new shape has an address no shape has and an id no shape had.
LEMMA AdoptKeeps ==
    ASSUME TableInv, NEW pointer, pointer \notin live, Adopt(pointer)
    PROVE  TableInv'
<1> USE DEF TableInv, IdsNameOneShape, Adopt
<1>1. nextId \notin DOMAIN shapes /\ nextId \notin freed
  OBVIOUS
<1>2. /\ DOMAIN shapes' = DOMAIN shapes \cup {nextId}
      /\ \A i \in DOMAIN shapes' : shapes'[i] = IF i = nextId THEN pointer ELSE shapes[i]
  OBVIOUS
<1>3. nextId' \in Nat /\ \A i \in DOMAIN shapes' \cup freed' : i \in Nat /\ i < nextId'
  BY <1>2
<1>4. live' = Range(shapes')
  <2>1. \A x \in live : \E i \in DOMAIN shapes : x = shapes[i]
    BY DEF Range
  <2>2. \A x \in live : x \in Range(shapes')
    BY <1>1, <1>2, <2>1 DEF Range
  <2>3. pointer \in Range(shapes')
    BY <1>2 DEF Range
  <2>4. \A x \in Range(shapes') : x \in live'
    BY <1>1, <1>2 DEF Range
  <2> QED
    BY <2>2, <2>3, <2>4
<1>5. IsInjective(shapes')
  BY <1>1, <1>2 DEF Range, IsInjective
<1>6. freed' \cap DOMAIN shapes' = {}
  BY <1>1, <1>2
<1> QED
  BY <1>3, <1>4, <1>5, <1>6

\* What is freed leaves the table and the kernel together.
LEMMA FreeKeeps ==
    ASSUME TableInv, NEW ids, Free(ids)
    PROVE  TableInv'
<1> USE DEF TableInv, IdsNameOneShape, Free
<1>1. /\ shapes' = [i \in DOMAIN shapes' |-> shapes'[i]]
      /\ DOMAIN shapes' = DOMAIN shapes \ ids
      /\ \A i \in DOMAIN shapes' : shapes'[i] = shapes[i]
  BY DEF Restrict
<1>2. nextId' \in Nat /\ \A i \in DOMAIN shapes' \cup freed' : i \in Nat /\ i < nextId'
  BY <1>1
<1>3. live' = Range(shapes')
  <2>1. live' = live \ {shapes[i] : i \in ids \cap DOMAIN shapes}
    OBVIOUS
  <2>2. ASSUME NEW x \in live', x \notin Range(shapes') PROVE FALSE
    <3>1. PICK i \in DOMAIN shapes : shapes[i] = x
      BY <2>1, <2>2 DEF Range
    <3> QED
      BY <1>1, <2>1, <2>2, <3>1 DEF Range
  <2>3. ASSUME NEW i \in DOMAIN shapes' PROVE shapes'[i] \in live'
    <3>1. i \in DOMAIN shapes /\ i \notin ids /\ shapes'[i] = shapes[i]
      BY <1>1
    <3>2. \A j \in ids \cap DOMAIN shapes : shapes[j] # shapes[i]
      BY <3>1 DEF IsInjective
    <3> QED
      BY <2>1, <3>1, <3>2 DEF Range
  <2>4. live' \subseteq Range(shapes')
    BY <2>2
  <2>5. Range(shapes') \subseteq live'
    BY <2>3 DEF Range
  <2> QED
    BY <2>4, <2>5
<1>4. IsInjective(shapes')
  BY <1>1 DEF IsInjective
<1>5. freed' \cap DOMAIN shapes' = {}
  BY <1>1
<1> QED
  BY <1>1, <1>2, <1>3, <1>4, <1>5

LEMMA TableStep == TableInv /\ [Next]_vars => TableInv'
<1> SUFFICES ASSUME TableInv, [Next]_vars PROVE TableInv'
  OBVIOUS
<1>1. CASE UNCHANGED table
  BY <1>1 DEF TableInv, IdsNameOneShape, table
<1>2. CASE AskShape
  BY <1>2, AdoptKeeps DEF AskShape
<1>3. CASE MemoEnd
  BY <1>3, FreeKeeps DEF MemoEnd
<1>4. ASSUME NEW id \in Ids, ShapeFree(id) PROVE TableInv'
  BY <1>4, FreeKeeps DEF ShapeFree
<1>5. CASE FreeAll
  BY <1>5, FreeKeeps DEF FreeAll
<1>6. CASE FreeAllCall
  <2>1. MemoBegin => UNCHANGED table
    BY DEF MemoBegin
  <2> QED
    BY <1>1, <1>5, <1>6, <2>1 DEF FreeAllCall
<1>7. CASE UNCHANGED vars
  BY <1>1, <1>7 DEF vars, table
<1>8. ASSUME NEW op \in Ops, Call(op) \/ Reject(op) PROVE UNCHANGED table
  BY <1>8 DEF Call, Reject
<1>9. CASE DoMalloc \/ DoNeed \/ DoTry \/ AskRefused \/ AskOther \/ Return
  BY <1>1, <1>9 DEF DoMalloc, DoNeed, DoTry, AskRefused, AskOther, Return
<1>10. CASE MemoBegin \/ CacheClear \/ SetSessionOpts
  BY <1>1, <1>10 DEF MemoBegin, CacheClear, SetSessionOpts
<1>11. ASSUME NEW key \in Keys, CacheGet(key) PROVE UNCHANGED table
  BY <1>11 DEF CacheGet
<1>12. ASSUME NEW key \in Keys, NEW id \in Ids, CachePut(key, id) PROVE UNCHANGED table
  BY <1>12 DEF CachePut
<1> QED
  BY <1>1, <1>2, <1>3, <1>4, <1>5, <1>6, <1>7, <1>8, <1>9, <1>10, <1>11, <1>12 DEF Next

\* Every shape the kernel holds has exactly one id and every id a shape, and a freed id names no
\* other shape (the map shapes and nextId of occ-bridge.js), for any number of ids and keys.
THEOREM TableSound == Spec => []IdsNameOneShape
<1>1. Init => TableInv
  BY DEF Init, TableInv, IdsNameOneShape, Range, IsInjective
<1>2. TableInv => IdsNameOneShape
  BY DEF TableInv
<1> QED
  BY <1>1, <1>2, TableStep, PTL DEF Spec

-----------------------------------------------------------------------------
(* What the list of a wrapper's steps must satisfy, whatever the call.     *)

\* A step asks the heap for b; what a step may leave with the call; frees it later; looks at it.
Asked(step, b) == step.do = "malloc" /\ step.block = b
Allocates(step, b) ==
    Asked(step, b) \/ (step.do = "ask" /\ step.makes = "mesh" /\ b = "mesh")
Covers(step, b) == step.do = "try" /\ b \in step.blocks
Checks(step, b) == step.do \in {"need", "ask"} /\ b \in step.blocks

\* One of the steps of S before the nth does.
Allocated(S, n, b) == \E i \in 1..Len(S) : i < n /\ Allocates(S[i], b)
Covered(S, n, b) == \E i \in 1..Len(S) : i < n /\ Covers(S[i], b)
Checked(S, n, b) == \E i \in 1..Len(S) : i < n /\ Checks(S[i], b)

\* No block is asked for twice, or looked at before it was asked for.
Once(S) ==
    \A n \in 1..Len(S) : \A b : Allocates(S[n], b) => ~Allocated(S, n, b) /\ ~Checked(S, n, b)

\* Where the kernel may refuse, and at the end, a finally frees all there is.
EndsClean(S) ==
    \A n \in 1..(Len(S) + 1) : n = Len(S) + 1 \/ S[n].do = "ask" =>
        \A b : Allocated(S, n, b) => Covered(S, n, b)

\* Where a null block throws, what no finally frees is that block alone, or is excused.
NeedsClean(S, excused) ==
    \A n \in 1..Len(S) : S[n].do = "need" =>
        \A b : Allocated(S, n, b) /\ b \notin excused =>
            Covered(S, n, b) \/ \A c \in S[n].blocks : c = b

\* Every block that is asked for is looked at before the answer.
Looked(S) == \A i \in 1..Len(S) : \A b : Asked(S[i], b) => Checked(S, Len(S) + 1, b)

Kinds == {"malloc", "need", "try", "ask"}

Disciplined(S, excused) ==
    /\ Len(S) \in Nat /\ \A n \in 1..Len(S) : S[n].do \in Kinds
    /\ Once(S) /\ EndsClean(S) /\ NeedsClean(S, excused)

-----------------------------------------------------------------------------
(* The wrappers, one by one: the list written out, then each condition.    *)

\* One out pointer, a try, a call: most wrappers.
LEMMA WrapDisciplined ==
    ASSUME NEW arity
    PROVE  Disciplined(Wrap(arity), {}) /\ Looked(Wrap(arity))
<1> DEFINE S == Wrap(arity)
<1>1. /\ Len(S) = 4
      /\ S[1] = Malloc("out") /\ S[2] = Need({"out"}) /\ S[3] = Try({"out"})
      /\ S[4] = Ask(arity, {"out"}, "shape")
  BY SMTT(60) DEF Wrap, OutPtr
<1> HIDE DEF S
<1> USE DEF Malloc, Need, Try, Ask, Asked, Allocates, Allocated, Covers, Covered, Checks, Checked
<1>2. Len(S) \in Nat /\ \A n \in 1..Len(S) : S[n].do \in Kinds
  BY <1>1 DEF Kinds
<1>3. Once(S)
  <2>1. \A n \in 1..Len(S) : \A b : Allocates(S[n], b) => ~Allocated(S, n, b)
    BY <1>1
  <2>2. \A n \in 1..Len(S) : \A b : Allocates(S[n], b) => ~Checked(S, n, b)
    BY <1>1
  <2> QED
    BY <2>1, <2>2 DEF Once
<1>4. EndsClean(S)
  BY <1>1 DEF EndsClean
<1>5. NeedsClean(S, {})
  BY <1>1 DEF NeedsClean
<1>6. Looked(S)
  BY <1>1 DEF Looked
<1> QED
  BY <1>2, <1>3, <1>4, <1>5, <1>6 DEF Disciplined, S

\* The array is in no try when the out pointer is null.
LEMMA WithArrayDisciplined ==
    ASSUME NEW arity
    PROVE  /\ Disciplined(WithArray(AllocDoubles("array"), arity), {"array"})
           /\ Looked(WithArray(AllocDoubles("array"), arity))
<1> DEFINE S == WithArray(AllocDoubles("array"), arity)
<1>1. /\ Len(S) = 6
      /\ S[1] = Malloc("array") /\ S[2] = Need({"array"}) /\ S[3] = Malloc("out")
      /\ S[4] = Need({"out"}) /\ S[5] = Try({"array", "out"})
      /\ S[6] = Ask(arity, {"array", "out"}, "shape")
  BY SMTT(60) DEF WithArray, AllocDoubles, OutPtr
<1> HIDE DEF S
<1> USE DEF Malloc, Need, Try, Ask, Asked, Allocates, Allocated, Covers, Covered, Checks, Checked
<1>2. Len(S) \in Nat /\ \A n \in 1..Len(S) : S[n].do \in Kinds
  BY <1>1 DEF Kinds
<1>3. Once(S)
  <2>1. \A n \in 1..Len(S) : \A b : Allocates(S[n], b) => ~Allocated(S, n, b)
    BY <1>1
  <2>2. \A n \in 1..Len(S) : \A b : Allocates(S[n], b) => ~Checked(S, n, b)
    BY <1>1
  <2> QED
    BY <2>1, <2>2 DEF Once
<1>4. EndsClean(S)
  BY <1>1 DEF EndsClean
<1>5. NeedsClean(S, {"array"})
  BY <1>1 DEF NeedsClean
<1>6. Looked(S)
  BY <1>1 DEF Looked
<1> QED
  BY <1>2, <1>3, <1>4, <1>5, <1>6 DEF Disciplined, S

LEMMA ClashDisciplined ==
    Disciplined(Clash, {}) /\ Looked(Clash)
<1> DEFINE S == Clash
<1>1. /\ Len(S) = 4
      /\ S[1] = Malloc("out") /\ S[2] = Need({"out"}) /\ S[3] = Try({"out"})
      /\ S[4] = Ask(2, {"out"}, "value")
  BY SMTT(60) DEF Clash, OutPtr
<1> HIDE DEF S
<1> USE DEF Malloc, Need, Try, Ask, Asked, Allocates, Allocated, Covers, Covered, Checks, Checked
<1>2. Len(S) \in Nat /\ \A n \in 1..Len(S) : S[n].do \in Kinds
  BY <1>1 DEF Kinds
<1>3. Once(S)
  <2>1. \A n \in 1..Len(S) : \A b : Allocates(S[n], b) => ~Allocated(S, n, b)
    BY <1>1
  <2>2. \A n \in 1..Len(S) : \A b : Allocates(S[n], b) => ~Checked(S, n, b)
    BY <1>1
  <2> QED
    BY <2>1, <2>2 DEF Once
<1>4. EndsClean(S)
  BY <1>1 DEF EndsClean
<1>5. NeedsClean(S, {})
  BY <1>1 DEF NeedsClean
<1>6. Looked(S)
  BY <1>1 DEF Looked
<1> QED
  BY <1>2, <1>3, <1>4, <1>5, <1>6 DEF Disciplined, S

LEMMA VolumeDisciplined ==
    Disciplined(Volume, {}) /\ Looked(Volume)
<1> DEFINE S == Volume
<1>1. /\ Len(S) = 3
      /\ S[1] = Malloc("out") /\ S[2] = Try({"out"}) /\ S[3] = Ask(1, {"out"}, "value")
  BY SMTT(60) DEF Volume
<1> HIDE DEF S
<1> USE DEF Malloc, Need, Try, Ask, Asked, Allocates, Allocated, Covers, Covered, Checks, Checked
<1>2. Len(S) \in Nat /\ \A n \in 1..Len(S) : S[n].do \in Kinds
  BY <1>1 DEF Kinds
<1>3. Once(S)
  <2>1. \A n \in 1..Len(S) : \A b : Allocates(S[n], b) => ~Allocated(S, n, b)
    BY <1>1
  <2>2. \A n \in 1..Len(S) : \A b : Allocates(S[n], b) => ~Checked(S, n, b)
    BY <1>1
  <2> QED
    BY <2>1, <2>2 DEF Once
<1>4. EndsClean(S)
  BY <1>1 DEF EndsClean
<1>5. NeedsClean(S, {})
  BY <1>1 DEF NeedsClean
<1>6. Looked(S)
  BY <1>1 DEF Looked
<1> QED
  BY <1>2, <1>3, <1>4, <1>5, <1>6 DEF Disciplined, S

LEMMA BBoxDisciplined ==
    Disciplined(BBox, {}) /\ Looked(BBox)
<1> DEFINE S == BBox
<1>1. /\ Len(S) = 4
      /\ S[1] = Malloc("min") /\ S[2] = Malloc("max") /\ S[3] = Try({"min", "max"})
      /\ S[4] = Ask(1, {"min", "max"}, "value")
  BY SMTT(60) DEF BBox
<1> HIDE DEF S
<1> USE DEF Malloc, Need, Try, Ask, Asked, Allocates, Allocated, Covers, Covered, Checks, Checked
<1>2. Len(S) \in Nat /\ \A n \in 1..Len(S) : S[n].do \in Kinds
  BY <1>1 DEF Kinds
<1>3. Once(S)
  <2>1. \A n \in 1..Len(S) : \A b : Allocates(S[n], b) => ~Allocated(S, n, b)
    BY <1>1
  <2>2. \A n \in 1..Len(S) : \A b : Allocates(S[n], b) => ~Checked(S, n, b)
    BY <1>1
  <2> QED
    BY <2>1, <2>2 DEF Once
<1>4. EndsClean(S)
  BY <1>1 DEF EndsClean
<1>5. NeedsClean(S, {})
  BY <1>1 DEF NeedsClean
<1>6. Looked(S)
  BY <1>1 DEF Looked
<1> QED
  BY <1>2, <1>3, <1>4, <1>5, <1>6 DEF Disciplined, S

LEMMA FrameDisciplined ==
    Disciplined(FrameFromAxes, {}) /\ Looked(FrameFromAxes)
<1> DEFINE S == FrameFromAxes
<1>1. /\ Len(S) = 4
      /\ S[1] = Malloc("out") /\ S[2] = Need({"out"}) /\ S[3] = Try({"out"})
      /\ S[4] = Ask(0, {"out"}, "value")
  BY SMTT(60) DEF FrameFromAxes
<1> HIDE DEF S
<1> USE DEF Malloc, Need, Try, Ask, Asked, Allocates, Allocated, Covers, Covered, Checks, Checked
<1>2. Len(S) \in Nat /\ \A n \in 1..Len(S) : S[n].do \in Kinds
  BY <1>1 DEF Kinds
<1>3. Once(S)
  <2>1. \A n \in 1..Len(S) : \A b : Allocates(S[n], b) => ~Allocated(S, n, b)
    BY <1>1
  <2>2. \A n \in 1..Len(S) : \A b : Allocates(S[n], b) => ~Checked(S, n, b)
    BY <1>1
  <2> QED
    BY <2>1, <2>2 DEF Once
<1>4. EndsClean(S)
  BY <1>1 DEF EndsClean
<1>5. NeedsClean(S, {})
  BY <1>1 DEF NeedsClean
<1>6. Looked(S)
  BY <1>1 DEF Looked
<1> QED
  BY <1>2, <1>3, <1>4, <1>5, <1>6 DEF Disciplined, S

LEMMA MassDisciplined ==
    Disciplined(MassProperties, {}) /\ Looked(MassProperties)
<1> DEFINE S == MassProperties
<1>1. /\ Len(S) = 6
      /\ S[1] = Try({"mass", "com", "inertia"}) /\ S[2] = Malloc("mass") /\ S[3] = Malloc("com")
      /\ S[4] = Malloc("inertia") /\ S[5] = Need({"mass", "com", "inertia"})
      /\ S[6] = Ask(1, {"mass", "com", "inertia"}, "value")
  BY SMTT(60) DEF MassProperties
<1> HIDE DEF S
<1> USE DEF Malloc, Need, Try, Ask, Asked, Allocates, Allocated, Covers, Covered, Checks, Checked
<1>2. Len(S) \in Nat /\ \A n \in 1..Len(S) : S[n].do \in Kinds
  BY <1>1 DEF Kinds
<1>3. Once(S)
  <2>1. \A n \in 1..Len(S) : \A b : Allocates(S[n], b) => ~Allocated(S, n, b)
    BY <1>1
  <2>2. \A n \in 1..Len(S) : \A b : Allocates(S[n], b) => ~Checked(S, n, b)
    BY <1>1
  <2> QED
    BY <2>1, <2>2 DEF Once
<1>4. EndsClean(S)
  BY <1>1 DEF EndsClean
<1>5. NeedsClean(S, {})
  BY <1>1 DEF NeedsClean
<1>6. Looked(S)
  BY <1>1 DEF Looked
<1> QED
  BY <1>2, <1>3, <1>4, <1>5, <1>6 DEF Disciplined, S

LEMMA StepWriteDisciplined ==
    Disciplined(StepWrite, {}) /\ Looked(StepWrite)
<1> DEFINE S == StepWrite
<1>1. /\ Len(S) = 1
      /\ S[1] = Ask(1, {}, "value")
  BY SMTT(60) DEF StepWrite
<1> HIDE DEF S
<1> USE DEF Malloc, Need, Try, Ask, Asked, Allocates, Allocated, Covers, Covered, Checks, Checked
<1>2. Len(S) \in Nat /\ \A n \in 1..Len(S) : S[n].do \in Kinds
  BY <1>1 DEF Kinds
<1>3. Once(S)
  <2>1. \A n \in 1..Len(S) : \A b : Allocates(S[n], b) => ~Allocated(S, n, b)
    BY <1>1
  <2>2. \A n \in 1..Len(S) : \A b : Allocates(S[n], b) => ~Checked(S, n, b)
    BY <1>1
  <2> QED
    BY <2>1, <2>2 DEF Once
<1>4. EndsClean(S)
  BY <1>1 DEF EndsClean
<1>5. NeedsClean(S, {})
  BY <1>1 DEF NeedsClean
<1>6. Looked(S)
  BY <1>1 DEF Looked
<1> QED
  BY <1>2, <1>3, <1>4, <1>5, <1>6 DEF Disciplined, S

LEMMA ChainDisciplined ==
    Disciplined(ComposeChain(FALSE), {}) /\ Looked(ComposeChain(FALSE))
<1> DEFINE S == ComposeChain(FALSE)
<1>1. /\ Len(S) = 10
      /\ S[1] = Try({"origins", "axes", "angles", "frames", "final", "matrix"})
      /\ S[2] = Malloc("origins") /\ S[3] = Need({"origins"}) /\ S[4] = Malloc("axes")
      /\ S[5] = Need({"axes"}) /\ S[6] = Malloc("angles") /\ S[7] = Need({"angles"})
      /\ S[8] = Malloc("final") /\ S[9] = Need({"final"})
      /\ S[10] = Ask(0, {"origins", "axes", "angles", "final"}, "value")
  BY SMTT(60) DEF ComposeChain, ChainBlocks, AllocDoubles
<1> HIDE DEF S
<1> USE DEF Malloc, Need, Try, Ask, Asked, Allocates, Allocated, Covers, Covered, Checks, Checked
<1>2. Len(S) \in Nat /\ \A n \in 1..Len(S) : S[n].do \in Kinds
  BY <1>1 DEF Kinds
<1>3. Once(S)
  <2>1. \A n \in 1..Len(S) : \A b : Allocates(S[n], b) => ~Allocated(S, n, b)
    BY <1>1
  <2>2. \A n \in 1..Len(S) : \A b : Allocates(S[n], b) => ~Checked(S, n, b)
    BY <1>1
  <2> QED
    BY <2>1, <2>2 DEF Once
<1>4. EndsClean(S)
  BY <1>1 DEF EndsClean
<1>5. NeedsClean(S, {})
  BY <1>1 DEF NeedsClean
<1>6. Looked(S)
  BY <1>1 DEF Looked
<1> QED
  BY <1>2, <1>3, <1>4, <1>5, <1>6 DEF Disciplined, S

LEMMA PrefixesDisciplined ==
    Disciplined(ComposeChain(TRUE), {}) /\ Looked(ComposeChain(TRUE))
<1> DEFINE S == ComposeChain(TRUE)
<1>1. /\ Len(S) = 15
      /\ S[1] = Try({"origins", "axes", "angles", "frames", "final", "matrix"})
      /\ S[2] = Malloc("origins") /\ S[3] = Need({"origins"}) /\ S[4] = Malloc("axes")
      /\ S[5] = Need({"axes"}) /\ S[6] = Malloc("angles") /\ S[7] = Need({"angles"})
      /\ S[8] = Malloc("frames") /\ S[9] = Need({"frames"}) /\ S[10] = Malloc("final")
      /\ S[11] = Need({"final"}) /\ S[12] = Ask(0, {"origins", "axes", "angles", "final"}, "value")
      /\ S[13] = Malloc("matrix") /\ S[14] = Need({"matrix"}) /\ S[15] = Ask(0, {"matrix"}, "value")
  BY SMTT(60) DEF ComposeChain, ChainBlocks, AllocDoubles
<1> HIDE DEF S
<1> USE DEF Malloc, Need, Try, Ask, Asked, Allocates, Allocated, Covers, Covered, Checks, Checked
<1>2. Len(S) \in Nat /\ \A n \in 1..Len(S) : S[n].do \in Kinds
  BY <1>1 DEF Kinds
<1>3. Once(S)
  <2>1. \A n \in 1..Len(S) : \A b : Allocates(S[n], b) => ~Allocated(S, n, b)
    BY <1>1
  <2>2. \A n \in 1..Len(S) : \A b : Allocates(S[n], b) => ~Checked(S, n, b)
    BY <1>1
  <2> QED
    BY <2>1, <2>2 DEF Once
<1>4. EndsClean(S)
  BY <1>1 DEF EndsClean
<1>5. NeedsClean(S, {})
  BY <1>1 DEF NeedsClean
<1>6. Looked(S)
  BY <1>1 DEF Looked
<1> QED
  BY <1>2, <1>3, <1>4, <1>5, <1>6 DEF Disciplined, S

LEMMA MeshStatsDisciplined ==
    Disciplined(MeshStats, {}) /\ Looked(MeshStats)
<1> DEFINE S == MeshStats
<1>1. /\ Len(S) = 9
      /\ S[1] = Malloc("out") /\ S[2] = Need({"out"}) /\ S[3] = Try({"out", "mesh"})
      /\ S[4] = Ask(1, {"out"}, "mesh") /\ S[5] = Try({"nv", "ni"}) /\ S[6] = Malloc("nv")
      /\ S[7] = Malloc("ni") /\ S[8] = Need({"nv", "ni"}) /\ S[9] = Ask(0, {"nv", "ni"}, "value")
  BY SMTT(60) DEF MeshStats, ComputeMesh, OutPtr
<1> HIDE DEF S
<1> USE DEF Malloc, Need, Try, Ask, Asked, Allocates, Allocated, Covers, Covered, Checks, Checked
<1>2. Len(S) \in Nat /\ \A n \in 1..Len(S) : S[n].do \in Kinds
  BY <1>1 DEF Kinds
<1>3. Once(S)
  <2>1. \A n \in 1..Len(S) : \A b : Allocates(S[n], b) => ~Allocated(S, n, b)
    BY <1>1
  <2>2. \A n \in 1..Len(S) : \A b : Allocates(S[n], b) => ~Checked(S, n, b)
    BY <1>1
  <2> QED
    BY <2>1, <2>2 DEF Once
<1>4. EndsClean(S)
  BY <1>1 DEF EndsClean
<1>5. NeedsClean(S, {})
  BY <1>1 DEF NeedsClean
<1>6. Looked(S)
  BY <1>1 DEF Looked
<1> QED
  BY <1>2, <1>3, <1>4, <1>5, <1>6 DEF Disciplined, S

LEMMA MeshDisciplined ==
    Disciplined(Mesh, {"vpp", "npp"}) /\ Looked(Mesh)
<1> DEFINE S == Mesh
<1>1. /\ Len(S) = 16
      /\ S[1] = Malloc("out") /\ S[2] = Need({"out"}) /\ S[3] = Try({"out", "mesh"})
      /\ S[4] = Ask(1, {"out"}, "mesh") /\ S[5] = Malloc("nv") /\ S[6] = Malloc("ni")
      /\ S[7] = Try({"nv", "ni"}) /\ S[8] = Ask(0, {"nv", "ni"}, "value") /\ S[9] = Malloc("vpp")
      /\ S[10] = Need({"vpp"}) /\ S[11] = Malloc("npp") /\ S[12] = Need({"npp"})
      /\ S[13] = Malloc("ipp") /\ S[14] = Need({"ipp"}) /\ S[15] = Try({"vpp", "npp", "ipp"})
      /\ S[16] = Ask(0, {"vpp", "npp", "ipp"}, "value")
  BY SMTT(60) DEF Mesh, ComputeMesh, OutPtr
<1> HIDE DEF S
<1> USE DEF Malloc, Need, Try, Ask, Asked, Allocates, Allocated, Covers, Covered, Checks, Checked
<1>2. Len(S) \in Nat /\ \A n \in 1..Len(S) : S[n].do \in Kinds
  BY <1>1 DEF Kinds
<1>3. Once(S)
  <2>1. \A n \in 1..Len(S) : \A b : Allocates(S[n], b) => ~Allocated(S, n, b)
    BY <1>1
  <2>2. \A n \in 1..Len(S) : \A b : Allocates(S[n], b) => ~Checked(S, n, b)
    BY <1>1
  <2> QED
    BY <2>1, <2>2 DEF Once
<1>4. EndsClean(S)
  BY <1>1 DEF EndsClean
<1>5. NeedsClean(S, {"vpp", "npp"})
  BY <1>1 DEF NeedsClean
<1>6. Looked(S)
  BY <1>1 DEF Looked
<1> QED
  BY <1>2, <1>3, <1>4, <1>5, <1>6 DEF Disciplined, S

LEMMA DistanceDisciplined ==
    Disciplined(Distance, {})
<1> DEFINE S == Distance
<1>1. /\ Len(S) = 5
      /\ S[1] = Malloc("out") /\ S[2] = Malloc("pA") /\ S[3] = Malloc("pB")
      /\ S[4] = Try({"out", "pA", "pB"}) /\ S[5] = Ask(2, {"out"}, "value")
  BY SMTT(60) DEF Distance
<1> HIDE DEF S
<1> USE DEF Malloc, Need, Try, Ask, Asked, Allocates, Allocated, Covers, Covered, Checks, Checked
<1>2. Len(S) \in Nat /\ \A n \in 1..Len(S) : S[n].do \in Kinds
  BY <1>1 DEF Kinds
<1>3. Once(S)
  <2>1. \A n \in 1..Len(S) : \A b : Allocates(S[n], b) => ~Allocated(S, n, b)
    BY <1>1
  <2>2. \A n \in 1..Len(S) : \A b : Allocates(S[n], b) => ~Checked(S, n, b)
    BY <1>1
  <2> QED
    BY <2>1, <2>2 DEF Once
<1>4. EndsClean(S)
  BY <1>1 DEF EndsClean
<1>5. NeedsClean(S, {})
  BY <1>1 DEF NeedsClean
<1> QED
  BY <1>2, <1>3, <1>4, <1>5 DEF Disciplined, S

\* The second pointer of a mesh's arrays is asked for when the first has been looked at.
LEMMA MeshPointersInOrder ==
    \A n \in 1..Len(Mesh) :
        Mesh[n].do = "need" /\ Allocated(Mesh, n, "npp") /\ ~Covered(Mesh, n, "npp") =>
            Allocated(Mesh, n, "vpp") /\ Checked(Mesh, n, "vpp") /\ ~Covered(Mesh, n, "vpp")
<1> DEFINE S == Mesh
<1>1. /\ Len(S) = 16
      /\ S[1] = Malloc("out") /\ S[2] = Need({"out"}) /\ S[3] = Try({"out", "mesh"})
      /\ S[4] = Ask(1, {"out"}, "mesh") /\ S[5] = Malloc("nv") /\ S[6] = Malloc("ni")
      /\ S[7] = Try({"nv", "ni"}) /\ S[8] = Ask(0, {"nv", "ni"}, "value") /\ S[9] = Malloc("vpp")
      /\ S[10] = Need({"vpp"}) /\ S[11] = Malloc("npp") /\ S[12] = Need({"npp"})
      /\ S[13] = Malloc("ipp") /\ S[14] = Need({"ipp"}) /\ S[15] = Try({"vpp", "npp", "ipp"})
      /\ S[16] = Ask(0, {"vpp", "npp", "ipp"}, "value")
  BY SMTT(60) DEF Mesh, ComputeMesh, OutPtr
<1> HIDE DEF S
<1> USE DEF Malloc, Need, Try, Ask, Asked, Allocates, Allocated, Covers, Covered, Checks, Checked
<1>2. \A n \in 1..Len(S) :
         S[n].do = "need" /\ Allocated(S, n, "npp") /\ ~Covered(S, n, "npp") =>
             Allocated(S, n, "vpp") /\ Checked(S, n, "vpp") /\ ~Covered(S, n, "vpp")
  BY <1>1
<1> QED
  BY <1>2 DEF S

\* The wrappers that allocate before they enter their try.
Excused(op) ==
    CASE op \in {"make_route", "make_route_bends", "trsf_apply", "shell"} -> {"array"}
      [] op = "mesh" -> {"vpp", "npp"}
      [] OTHER -> {}

LEMMA StepsDisciplined ==
    ASSUME NEW op \in Ops
    PROVE  /\ Disciplined(Steps[op], Excused(op))
           /\ op # "distance" => Looked(Steps[op])
<1>1. CASE op \in {"primitive", "boolean", "motion", "pipe", "feature", "annulus", "rectangle",
                   "solid", "drill", "sweep"}
  <2>1. \E n \in 0..2 : Steps[op] = Wrap(n)
    BY <1>1 DEF Steps, Primitive, Combination, Motion, Pipe, Feature, Annulus, Rectangle, Solid,
                Drill, Sweep
  <2>2. Excused(op) = {}
    BY <1>1 DEF Excused
  <2> QED
    BY <2>1, <2>2, WrapDisciplined
<1>2. CASE op \in {"make_route", "make_route_bends", "trsf_apply", "shell"}
  <2>1. \E n \in 0..1 : Steps[op] = WithArray(AllocDoubles("array"), n)
    BY <1>2 DEF Steps, MakeRoute, MakeRouteBends, TrsfApply, Shell, AllocDoubles
  <2>2. Excused(op) = {"array"}
    BY <1>2 DEF Excused
  <2> QED
    BY <2>1, <2>2, WithArrayDisciplined
<1>3. CASE op = "mesh"
  <2>1. Steps[op] = Mesh /\ Excused(op) = {"vpp", "npp"}
    BY <1>3 DEF Steps, Excused
  <2> QED
    BY <2>1, MeshDisciplined
<1>4. CASE op \in {"clash", "distance", "volume", "bbox", "frame_from_axes", "mass_properties",
                   "step_write", "compose_chain", "compose_chain_prefixes", "mesh_stats"}
  <2>1. Excused(op) = {}
    BY <1>4 DEF Excused
  <2>2. CASE op = "distance"
    BY <2>1, <2>2, DistanceDisciplined DEF Steps
  <2>3. CASE op # "distance"
    <3>1. CASE op = "compose_chain"
      BY <2>1, <3>1, ChainDisciplined DEF Steps
    <3>2. CASE op = "compose_chain_prefixes"
      BY <2>1, <3>2, PrefixesDisciplined DEF Steps
    <3>3. CASE op \notin {"compose_chain", "compose_chain_prefixes"}
      <4>1. Steps[op] \in {Clash, Volume, BBox, FrameFromAxes, MassProperties, StepWrite, MeshStats}
        BY <1>4, <2>3, <3>3 DEF Steps
      <4> QED
        BY <2>1, <4>1, ClashDisciplined, VolumeDisciplined, BBoxDisciplined, FrameDisciplined,
           MassDisciplined, StepWriteDisciplined, MeshStatsDisciplined
    <3> QED
      BY <3>1, <3>2, <3>3
  <2> QED
    BY <2>2, <2>3
<1> QED
  BY <1>1, <1>2, <1>3, <1>4 DEF Ops, Steps

-----------------------------------------------------------------------------
(* A call under way.                                                       *)

\* One step further, what was done before is what that step does and what was done before it.
LEMMA OneStepMore ==
    ASSUME NEW S, Len(S) \in Nat, NEW n \in 1..Len(S), NEW b
    PROVE  /\ Allocated(S, n + 1, b) <=> Allocated(S, n, b) \/ Allocates(S[n], b)
           /\ Covered(S, n + 1, b) <=> Covered(S, n, b) \/ Covers(S[n], b)
           /\ Checked(S, n + 1, b) <=> Checked(S, n, b) \/ Checks(S[n], b)
  BY DEF Allocated, Covered, Checked

\* What a call holds it has allocated, what its finally frees a try has named, and a block it did
\* not get is one it has not looked at yet.
Outline(r, S, n) ==
    /\ \A b \in r.held : Allocated(S, n, b)
    /\ \A b : Allocated(S, n, b) => b \in r.held \cup r.nulls
    /\ \A b \in r.nulls : /\ b \notin r.held /\ ~Checked(S, n, b)
                         /\ \E i \in 1..Len(S) : i < n /\ Asked(S[i], b)
    /\ \A b : b \in r.frees <=> Covered(S, n, b)

RunInv ==
    run # NoCall =>
      /\ run = [op |-> run.op, ids |-> run.ids, at |-> run.at, held |-> run.held,
                nulls |-> run.nulls, frees |-> run.frees]
      /\ run.op \in Ops
      /\ run.at \in 1..(Len(Steps[run.op]) + 1)
      /\ Outline(run, Steps[run.op], run.at)

ScratchInv == RunInv /\ ScratchReturned /\ AnswersAreWritten

\* A call begins with nothing.
LEMMA CallKeeps ==
    ASSUME ScratchInv, NEW op \in Ops, Call(op)
    PROVE  ScratchInv'
<1>1. PICK ids \in [Operands(op) -> Ids] :
          run' = [op |-> op, ids |-> ids, at |-> 1, held |-> {}, nulls |-> {}, frees |-> {}]
  BY DEF Call
<1> DEFINE S == Steps[op]
<1>2. Len(S) \in Nat
  BY StepsDisciplined DEF Disciplined
<1> HIDE DEF S
<1>3. Outline(run', S, 1)
  BY <1>1, <1>2 DEF Outline, Allocated, Covered
<1>4. RunInv'
  BY <1>1, <1>2, <1>3 DEF RunInv, S
<1>5. leaked' = {} /\ last'.how = "running"
  BY DEF Call
<1> QED
  BY <1>4, <1>5 DEF ScratchInv, ScratchReturned, AnswersAreWritten

\* A call that goes on to its next step.
LEMMA AdvanceKeeps ==
    ASSUME ScratchInv, run # NoCall, NEW r,
           r = [op |-> run.op, ids |-> run.ids, at |-> run.at, held |-> r.held,
                nulls |-> r.nulls, frees |-> r.frees],
           run.at <= Len(Steps[run.op]),
           Outline(r, Steps[run.op], run.at + 1),
           Advance(r)
    PROVE  ScratchInv'
<1> DEFINE S == Steps[run.op]
<1>1. run.op \in Ops /\ Len(S) \in Nat /\ run.at \in 1..Len(S)
  BY StepsDisciplined DEF ScratchInv, RunInv, Disciplined
<1> HIDE DEF S
<1>2. run' = [op |-> run.op, ids |-> run.ids, at |-> run.at + 1, held |-> r.held,
              nulls |-> r.nulls, frees |-> r.frees]
  BY DEF Advance
<1>3. Outline(run', S, run.at + 1)
  BY <1>2 DEF Outline, S
<1>4. RunInv'
  BY <1>1, <1>2, <1>3 DEF RunInv, S
<1>5. UNCHANGED <<leaked, last>>
  BY DEF Advance
<1> QED
  BY <1>4, <1>5 DEF ScratchInv, ScratchReturned, AnswersAreWritten

\* A call that ends where a finally frees all there is.
LEMMA CleanLeave ==
    ASSUME ScratchInv, run # NoCall, NEW how, Leave(how),
           run.at = Len(Steps[run.op]) + 1 \/ Steps[run.op][run.at].do = "ask",
           how = "blind" => run.op = "distance"
    PROVE  ScratchInv'
<1>1. run.op \in Ops /\ run.at \in 1..(Len(Steps[run.op]) + 1)
  BY DEF ScratchInv, RunInv
<1>2. EndsClean(Steps[run.op])
  BY <1>1, StepsDisciplined DEF Disciplined
<1>3. \A b \in run.held : b \in run.frees
  BY <1>1, <1>2 DEF EndsClean, ScratchInv, RunInv, Outline
<1>4. leaked' = {} /\ run' = NoCall /\ last' = [op |-> run.op, how |-> how]
  BY <1>3 DEF Leave
<1> QED
  BY <1>4 DEF ScratchInv, RunInv, ScratchReturned, AnswersAreWritten

\* The steps of a call.
LEMMA MallocKeeps == ScratchInv /\ DoMalloc => ScratchInv'
<1> SUFFICES ASSUME ScratchInv, DoMalloc PROVE ScratchInv'
  OBVIOUS
<1> DEFINE S == Steps[run.op]
           n == run.at
           block == S[n].block
<1>1. run # NoCall /\ n <= Len(S) /\ S[n].do = "malloc"
  BY DEF DoMalloc, AtStep, Step
<1>2. /\ run.op \in Ops /\ n \in 1..Len(S) /\ Len(S) \in Nat /\ Once(S)
      /\ Outline(run, S, n)
  BY <1>1, StepsDisciplined DEF ScratchInv, RunInv, Disciplined
<1>3. run = [op |-> run.op, ids |-> run.ids, at |-> run.at, held |-> run.held,
             nulls |-> run.nulls, frees |-> run.frees]
  BY <1>1 DEF ScratchInv, RunInv
<1>4. PICK r : /\ r \in {[run EXCEPT !.held = @ \cup {block}], [run EXCEPT !.nulls = @ \cup {block}]}
               /\ Advance(r)
  BY DEF DoMalloc, Step
<1> HIDE DEF S, n, block
<1>5. /\ \A b : Allocates(S[n], b) <=> b = block
      /\ Asked(S[n], block)
      /\ \A b : ~Covers(S[n], b) /\ ~Checks(S[n], b)
  BY <1>1 DEF Allocates, Asked, Covers, Checks, block
<1>6. ~Allocated(S, n, block) /\ ~Checked(S, n, block)
  BY <1>2, <1>5 DEF Once
<1>7. /\ \A b : Allocated(S, n + 1, b) <=> Allocated(S, n, b) \/ b = block
      /\ \A b : Covered(S, n + 1, b) <=> Covered(S, n, b)
      /\ \A b : Checked(S, n + 1, b) <=> Checked(S, n, b)
  BY <1>2, <1>5, OneStepMore
<1>8. /\ r = [op |-> run.op, ids |-> run.ids, at |-> run.at, held |-> r.held,
              nulls |-> r.nulls, frees |-> r.frees]
      /\ r.frees = run.frees
      /\ \/ r.held = run.held \cup {block} /\ r.nulls = run.nulls
         \/ r.held = run.held /\ r.nulls = run.nulls \cup {block}
  BY <1>3, <1>4
<1>9. Outline(r, S, n + 1)
  <2>1. block \notin run.held
    BY <1>2, <1>6 DEF Outline
  <2>2. block \notin run.nulls
    BY <1>2, <1>6 DEF Outline, Allocated, Allocates
  <2>3. \A b : b \in r.nulls =>
          b \notin r.held /\ ~Checked(S, n + 1, b) /\ \E i \in 1..Len(S) : i < n + 1 /\ Asked(S[i], b)
    BY <1>2, <1>5, <1>6, <1>7, <1>8, <2>1, <2>2 DEF Outline
  <2> QED
    BY <1>2, <1>7, <1>8, <2>3 DEF Outline
<1> QED
  BY <1>1, <1>4, <1>8, <1>9, AdvanceKeeps DEF S, n

\* What every step of a call but the first knows.
LEMMA Underway ==
    ASSUME ScratchInv, NEW kind, AtStep(kind)
    PROVE  /\ run # NoCall /\ run.op \in Ops
           /\ run.at \in 1..Len(Steps[run.op]) /\ Len(Steps[run.op]) \in Nat
           /\ Steps[run.op][run.at].do = kind
           /\ Disciplined(Steps[run.op], Excused(run.op))
           /\ Outline(run, Steps[run.op], run.at)
           /\ run = [op |-> run.op, ids |-> run.ids, at |-> run.at, held |-> run.held,
                     nulls |-> run.nulls, frees |-> run.frees]
<1>1. run # NoCall /\ run.at <= Len(Steps[run.op]) /\ Steps[run.op][run.at].do = kind
  BY DEF AtStep, Step
<1>2. run.op \in Ops /\ run.at \in 1..(Len(Steps[run.op]) + 1)
  BY <1>1 DEF ScratchInv, RunInv
<1>3. Disciplined(Steps[run.op], Excused(run.op)) /\ Len(Steps[run.op]) \in Nat
  BY <1>2, StepsDisciplined DEF Disciplined
<1> QED
  BY <1>1, <1>2, <1>3 DEF ScratchInv, RunInv

\* The tries name more blocks to free.
LEMMA TryKeeps == ScratchInv /\ DoTry => ScratchInv'
<1> SUFFICES ASSUME ScratchInv, DoTry PROVE ScratchInv'
  OBVIOUS
<1> DEFINE S == Steps[run.op]
           n == run.at
<1>1. PICK r : r = [run EXCEPT !.frees = @ \cup S[n].blocks] /\ AtStep("try") /\ Advance(r)
  BY DEF DoTry, Step
<1>2. /\ run # NoCall /\ n \in 1..Len(S) /\ Len(S) \in Nat /\ S[n].do = "try"
      /\ Outline(run, S, n)
      /\ run = [op |-> run.op, ids |-> run.ids, at |-> run.at, held |-> run.held,
                nulls |-> run.nulls, frees |-> run.frees]
  BY <1>1, Underway
<1> HIDE DEF S, n
<1>3. r = [op |-> run.op, ids |-> run.ids, at |-> run.at, held |-> run.held,
           nulls |-> run.nulls, frees |-> run.frees \cup S[n].blocks]
  BY <1>1, <1>2
<1>4. \A b : ~Allocates(S[n], b) /\ ~Checks(S[n], b) /\ (Covers(S[n], b) <=> b \in S[n].blocks)
  BY <1>2 DEF Allocates, Asked, Checks, Covers
<1>5. /\ \A b : Allocated(S, n + 1, b) <=> Allocated(S, n, b)
      /\ \A b : Covered(S, n + 1, b) <=> Covered(S, n, b) \/ b \in S[n].blocks
      /\ \A b : Checked(S, n + 1, b) <=> Checked(S, n, b)
  BY <1>2, <1>4, OneStepMore
<1>6. Outline(r, S, n + 1)
  BY <1>2, <1>3, <1>5 DEF Outline
<1> QED
  BY <1>1, <1>2, <1>3, <1>6, AdvanceKeeps DEF S, n

\* A look that finds no null block.
LEMMA LookKeeps ==
    ASSUME ScratchInv, NEW kind \in {"need", "ask"}, AtStep(kind),
           Steps[run.op][run.at].blocks \cap run.nulls = {},
           kind = "ask" => Steps[run.op][run.at].makes # "mesh",
           Advance(run)
    PROVE  ScratchInv'
<1> DEFINE S == Steps[run.op]
           n == run.at
<1>1. /\ run # NoCall /\ n \in 1..Len(S) /\ Len(S) \in Nat /\ S[n].do = kind
      /\ Outline(run, S, n)
      /\ run = [op |-> run.op, ids |-> run.ids, at |-> run.at, held |-> run.held,
                nulls |-> run.nulls, frees |-> run.frees]
  BY Underway
<1>2. S[n].blocks \cap run.nulls = {} /\ (kind = "ask" => S[n].makes # "mesh")
  OBVIOUS
<1> HIDE DEF S, n
<1>3. \A b : ~Allocates(S[n], b) /\ ~Covers(S[n], b) /\ (Checks(S[n], b) <=> b \in S[n].blocks)
  BY <1>1, <1>2 DEF Allocates, Asked, Checks, Covers
<1>4. /\ \A b : Allocated(S, n + 1, b) <=> Allocated(S, n, b)
      /\ \A b : Covered(S, n + 1, b) <=> Covered(S, n, b)
      /\ \A b : Checked(S, n + 1, b) <=> Checked(S, n, b) \/ b \in S[n].blocks
  BY <1>1, <1>3, OneStepMore
<1>5. Outline(run, S, n + 1)
  BY <1>1, <1>2, <1>4 DEF Outline
<1> QED
  BY <1>1, <1>5, AdvanceKeeps DEF S, n

\* The mesh the kernel has made is held from here on.
LEMMA MeshKeeps ==
    ASSUME ScratchInv, AtStep("ask"), Steps[run.op][run.at].makes = "mesh",
           Steps[run.op][run.at].blocks \cap run.nulls = {},
           Advance([run EXCEPT !.held = @ \cup {"mesh"}])
    PROVE  ScratchInv'
<1> DEFINE S == Steps[run.op]
           n == run.at
<1>1. /\ run # NoCall /\ n \in 1..Len(S) /\ Len(S) \in Nat /\ S[n].do = "ask"
      /\ Outline(run, S, n) /\ Once(S)
      /\ run = [op |-> run.op, ids |-> run.ids, at |-> run.at, held |-> run.held,
                nulls |-> run.nulls, frees |-> run.frees]
  BY Underway DEF Disciplined
<1>2. S[n].makes = "mesh" /\ S[n].blocks \cap run.nulls = {}
  OBVIOUS
<1> PICK r : r = [run EXCEPT !.held = @ \cup {"mesh"}] /\ Advance(r)
  OBVIOUS
<1> HIDE DEF S, n
<1>3. r = [op |-> run.op, ids |-> run.ids, at |-> run.at, held |-> run.held \cup {"mesh"},
           nulls |-> run.nulls, frees |-> run.frees]
  BY <1>1
<1>4. \A b : /\ Allocates(S[n], b) <=> b = "mesh"
             /\ ~Covers(S[n], b)
             /\ Checks(S[n], b) <=> b \in S[n].blocks
  BY <1>1, <1>2 DEF Allocates, Asked, Checks, Covers
<1>5. /\ \A b : Allocated(S, n + 1, b) <=> Allocated(S, n, b) \/ b = "mesh"
      /\ \A b : Covered(S, n + 1, b) <=> Covered(S, n, b)
      /\ \A b : Checked(S, n + 1, b) <=> Checked(S, n, b) \/ b \in S[n].blocks
  BY <1>1, <1>4, OneStepMore
<1>6. "mesh" \notin run.nulls
  BY <1>1, <1>4 DEF Once, Outline, Allocated, Allocates
<1>7. Outline(r, S, n + 1)
  BY <1>1, <1>2, <1>3, <1>5, <1>6 DEF Outline
<1> QED
  BY <1>1, <1>2, <1>3, <1>7, AdvanceKeeps DEF S, n

\* A call that throws because a block is null: what it leaves behind is what is excused.
LEMMA NullLeave ==
    ASSUME ScratchInv, AtStep("need"),
           Steps[run.op][run.at].blocks \cap run.nulls # {},
           Leave("no memory")
    PROVE  ScratchInv'
<1> DEFINE S == Steps[run.op]
           n == run.at
<1>1. /\ run.op \in Ops
      /\ run # NoCall /\ n \in 1..Len(S) /\ Len(S) \in Nat /\ S[n].do = "need"
      /\ Outline(run, S, n) /\ NeedsClean(S, Excused(run.op))
  BY Underway DEF Disciplined
<1>2. PICK c \in S[n].blocks : c \in run.nulls
  OBVIOUS
<1>3. /\ leaked' = run.held \ run.frees /\ run' = NoCall
      /\ last' = [op |-> run.op, how |-> "no memory"]
  BY DEF Leave
<1> HIDE DEF S, n
<1>4. leaked' \subseteq Excused(run.op)
  BY <1>1, <1>2, <1>3 DEF NeedsClean, Outline
<1>5. RunInv' /\ AnswersAreWritten'
  BY <1>3 DEF RunInv, AnswersAreWritten
<1>6. ScratchReturned'
  <2>1. CASE run.op \in {"make_route", "make_route_bends", "trsf_apply", "shell"}
    <3>1. leaked' \subseteq {"array"}
      BY <1>4, <2>1 DEF Excused
    <3>2. leaked' # {} => leaked' = {"array"}
      BY <3>1
    <3> QED
      BY <1>3, <2>1, <3>2 DEF ScratchReturned
  <2>2. CASE run.op = "mesh"
    <3>1. leaked' \subseteq {"vpp", "npp"}
      BY <1>4, <2>2 DEF Excused
    <3>2. S = Mesh
      <4>1. Steps["mesh"] = Mesh
        BY DEF Steps
      <4> QED
        BY <2>2, <4>1 DEF S
    <3>3. ASSUME "npp" \in leaked' PROVE "vpp" \in leaked'
      <4>1. Allocated(S, n, "npp") /\ ~Covered(S, n, "npp")
        BY <1>1, <1>3, <3>3 DEF Outline
      <4>2. Allocated(S, n, "vpp") /\ Checked(S, n, "vpp") /\ ~Covered(S, n, "vpp")
        BY <1>1, <3>2, <4>1, MeshPointersInOrder
      <4> QED
        BY <1>1, <1>3, <4>2 DEF Outline
    <3>4. leaked' # {} => leaked' \in {{"vpp"}, {"vpp", "npp"}}
      BY <3>1, <3>3
    <3> QED
      BY <1>3, <2>2, <3>4 DEF ScratchReturned
  <2>3. CASE run.op \notin {"make_route", "make_route_bends", "trsf_apply", "shell", "mesh"}
    <3>1. Excused(run.op) = {}
      BY <2>3 DEF Excused
    <3> QED
      BY <1>4, <3>1 DEF ScratchReturned
  <2> QED
    BY <2>1, <2>2, <2>3
<1> QED
  BY <1>5, <1>6 DEF ScratchInv

\* The end of a call: every block was looked at, unless the call is distance.
LEMMA ReturnKeeps == ScratchInv /\ Return => ScratchInv'
<1> SUFFICES ASSUME ScratchInv, Return PROVE ScratchInv'
  OBVIOUS
<1> DEFINE S == Steps[run.op]
           how == IF run.nulls = {} THEN "ok" ELSE "blind"
<1>1. /\ run # NoCall /\ run.op \in Ops /\ run.at \in 1..(Len(S) + 1) /\ run.at > Len(S)
      /\ Outline(run, S, run.at) /\ Leave(how)
  BY DEF ScratchInv, RunInv, Return
<1>2. Len(S) \in Nat /\ (run.op # "distance" => Looked(S))
  BY <1>1, StepsDisciplined DEF Disciplined
<1>3. run.at = Len(S) + 1
  BY <1>1, <1>2
<1>4. run.op # "distance" => run.nulls = {}
  BY <1>1, <1>2, <1>3 DEF Outline, Looked
<1>5. how = "blind" => run.op = "distance"
  BY <1>4
<1> HIDE DEF how
<1> QED
  BY <1>1, <1>3, <1>5, CleanLeave

\* Each step of the bridge, inside a call or between calls.
LEMMA ScratchStep == ScratchInv /\ [Next]_vars => ScratchInv'
<1> SUFFICES ASSUME ScratchInv, [Next]_vars PROVE ScratchInv'
  OBVIOUS
<1>1. CASE UNCHANGED vars
  BY <1>1 DEF vars, ScratchInv, RunInv, Outline, ScratchReturned, AnswersAreWritten
<1>2. ASSUME NEW op \in Ops, Call(op) PROVE ScratchInv'
  BY <1>2, CallKeeps
<1>3. ASSUME NEW op \in Ops, Reject(op) PROVE ScratchInv'
  BY <1>3 DEF Reject, ScratchInv, RunInv, Outline, ScratchReturned, AnswersAreWritten
<1>4. CASE DoMalloc
  BY <1>4, MallocKeeps
<1>5. CASE DoNeed
  BY <1>5, LookKeeps, NullLeave DEF DoNeed, Step
<1>6. CASE DoTry
  BY <1>6, TryKeeps
<1>7. CASE AskRefused
  <2>1. AtStep("ask") /\ Leave("refused")
    BY <1>7 DEF AskRefused
  <2>2. run # NoCall /\ Steps[run.op][run.at].do = "ask"
    BY <2>1 DEF AtStep, Step
  <2> QED
    BY <2>1, <2>2, CleanLeave
<1>8. CASE AskShape
  BY <1>8, LookKeeps DEF AskShape, Served, Step
<1>9. CASE AskOther
  <2>1. CASE Steps[run.op][run.at].makes = "mesh"
    BY <1>9, <2>1, MeshKeeps DEF AskOther, Served, Step
  <2>2. CASE Steps[run.op][run.at].makes # "mesh"
    BY <1>9, <2>2, LookKeeps DEF AskOther, Served, Step
  <2> QED
    BY <2>1, <2>2
<1>10. CASE Return
  BY <1>10, ReturnKeeps
<1>11. CASE Quiet
  BY <1>11 DEF Quiet, ScratchInv, RunInv, Outline, ScratchReturned, AnswersAreWritten
<1>12. MemoBegin \/ MemoEnd \/ CacheClear \/ FreeAll \/ FreeAllCall \/ SetSessionOpts => Quiet
  BY DEF MemoBegin, MemoEnd, CacheClear, FreeAll, FreeAllCall, SetSessionOpts
<1>13. \A key, id : CacheGet(key) \/ CachePut(key, id) \/ ShapeFree(id) => Quiet
  BY DEF CacheGet, CachePut, ShapeFree
<1> QED
  BY <1>1, <1>2, <1>3, <1>4, <1>5, <1>6, <1>7, <1>8, <1>9, <1>10, <1>11, <1>12, <1>13 DEF Next

LEMMA ScratchInvariant == Spec => []ScratchInv
<1>1. Init => ScratchInv
  BY DEF Init, ScratchInv, RunInv, ScratchReturned, AnswersAreWritten
<1> QED
  BY <1>1, ScratchStep, PTL DEF Spec

\* However a call ends, its blocks and its mesh are freed, except what the wrappers that allocate
\* before they enter their try lose for want of memory (withOutPtr, allocDoubles and the finally
\* blocks of occ-bridge.js).
THEOREM NothingLeaks == Spec => []ScratchReturned
<1>1. ScratchInv => ScratchReturned
  BY DEF ScratchInv
<1> QED
  BY <1>1, ScratchInvariant, PTL

\* A call that answers has looked at every block it reads, except distance, whose witness points
\* are read whether the heap gave them or not (distance of occ-bridge.js).
THEOREM NoBlindAnswer == Spec => []AnswersAreWritten
<1>1. ScratchInv => AnswersAreWritten
  BY DEF ScratchInv
<1> QED
  BY <1>1, ScratchInvariant, PTL

=============================================================================
