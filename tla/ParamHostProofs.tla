-------------------------- MODULE ParamHostProofs --------------------------
(***************************************************************************)
(* What is proved of the page between an edit and its mesh (ParamHost),    *)
(* for any values of the parameter, any number of inputs and any number of *)
(* calls that time out and viewports that fail to load.                    *)
(*                                                                         *)
(* None of the five properties is inductive: each says what holds when the *)
(* page has come to rest, or of a wait that a call must end.  The          *)
(* invariant IInv says it of every moment, by what is on its way then:     *)
(* every wait stands for a call that is still listened for (Alive), the    *)
(* newest harvest is of the header last asked for (HarvestKnown), and the  *)
(* newest execute, the shelf or the mesh on show is of the values in the   *)
(* sheet unless a rebuild of them is still to be started (MeshComes).      *)
(***************************************************************************)
EXTENDS ParamHost, FiniteSetTheorems, SequenceTheorems, WellFoundedInduction, TLAPS

-----------------------------------------------------------------------------
(* Counting up.  A recursive function over 0 .. N is defined, and what its  *)
(* steps keep holds to the end.                                            *)

\* A set of numbers that is not empty has a least one.
LEMMA LeastNumber ==
    ASSUME NEW S \in SUBSET Nat, S # {}
    PROVE  \E n \in S : \A m \in S : n <= m
<1> DEFINE R == {ss \in Nat \X Nat : ss[1] < ss[2]}
<1>1. IsWellFoundedOn(R, Nat)
  BY NatLessThanWellFounded DEF OpToRel
<1>2. \A x, y \in Nat : <<y, x>> \in R <=> y < x
  OBVIOUS
<1> HIDE DEF R
<1>3. PICK x \in S : \A y \in S : ~ (<<y, x>> \in R)
  BY <1>1, WFMin
<1>4. \A y \in S : ~ (y < x)
  BY <1>2, <1>3
<1>5. \A y \in S : x <= y
  BY <1>4
<1> QED
  BY <1>5

\* What holds of 0 and passes from each number to the next holds up to N.
LEMMA UpTo ==
    ASSUME NEW N \in Nat, NEW S, 0 \in S, \A n \in 1 .. N : n - 1 \in S => n \in S
    PROVE  \A n \in 0 .. N : n \in S
<1> DEFINE T == {n \in 0 .. N : n \notin S}
<1>1. SUFFICES ASSUME T # {} PROVE FALSE
  OBVIOUS
<1>2. \E n \in T : \A m \in T : n <= m
  <2>1. T \in SUBSET Nat
    OBVIOUS
  <2> HIDE DEF T
  <2> QED
    BY <1>1, <2>1, LeastNumber
<1>3. PICK n \in T : \A m \in T : n <= m
  BY <1>2
<1>4. n \in 1 .. N /\ n - 1 \notin T
  BY <1>3
<1> QED
  BY <1>3, <1>4

\* F stays in L for N steps; r starts at base and goes on by F.
Closed(N, L, F) == \A l \in L, n \in 1 .. N : F[<<l, n>>] \in L
Runs(r, N, L, F, base) == /\ r \in [0 .. N -> L]
                          /\ r[0] = base
                          /\ \A n \in 1 .. N : r[n] = F[<<r[n - 1], n>>]

\* A function that starts at base and goes on by F is defined up to N.
LEMMA Recursion ==
    ASSUME NEW N \in Nat, NEW L, NEW F, Closed(N, L, F), NEW base \in L
    PROVE  \E r : Runs(r, N, L, F, base)
<1> DEFINE S == {k \in 0 .. N : \E r : Runs(r, k, L, F, base)}
<1>1. 0 \in S
  <2> DEFINE z == [n \in 0 .. 0 |-> base]
  <2>1. z[0] = base /\ z \in [0 .. 0 -> L]
    OBVIOUS
  <2>2. 1 .. 0 = {}
    OBVIOUS
  <2> HIDE DEF z
  <2>3. Runs(z, 0, L, F, base)
    BY <2>1, <2>2 DEF Runs
  <2>4. \E r : Runs(r, 0, L, F, base)
    BY <2>3
  <2> QED
    BY <2>4
<1>2. ASSUME NEW k \in 1 .. N, k - 1 \in S PROVE k \in S
  <2>1. PICK r : Runs(r, k - 1, L, F, base)
    BY <1>2
  <2>2. /\ r \in [0 .. (k - 1) -> L]
        /\ r[0] = base
        /\ \A n \in 1 .. (k - 1) : r[n] = F[<<r[n - 1], n>>]
    BY <2>1 DEF Runs
  <2>3. k \in Nat /\ k \in 0 .. N /\ k - 1 \in 0 .. (k - 1) /\ 0 \in 0 .. (k - 1)
    OBVIOUS
  <2> DEFINE h == [n \in 0 .. k |-> IF n = k THEN F[<<r[k - 1], k>>] ELSE r[n]]
  <2>4. r[k - 1] \in L /\ F[<<r[k - 1], k>>] \in L
    BY <2>2, <2>3 DEF Closed
  <2>5. /\ h[k] = F[<<r[k - 1], k>>]
        /\ \A n \in 0 .. (k - 1) : h[n] = r[n] /\ h[n] \in L
        /\ h = [n \in 0 .. k |-> h[n]]
    BY <2>2, <2>3
  <2> HIDE DEF h
  <2>6. \A n \in 0 .. k : n = k \/ n \in 0 .. (k - 1)
    OBVIOUS
  <2>7. h \in [0 .. k -> L]
    BY <2>4, <2>5, <2>6
  <2>8. h[0] = base
    BY <2>2, <2>3, <2>5
  <2>9. ASSUME NEW n \in 1 .. k PROVE h[n] = F[<<h[n - 1], n>>]
    <3>1. n - 1 \in 0 .. (k - 1)
      BY <2>3
    <3>2. h[n - 1] = r[n - 1]
      BY <2>5, <3>1
    <3>3. CASE n = k
      BY <2>5, <3>2, <3>3
    <3>4. CASE n # k
      <4>1. n \in 1 .. (k - 1) /\ n \in 0 .. (k - 1)
        BY <2>3, <3>4
      <4> QED
        BY <2>2, <2>5, <3>2, <4>1
    <3> QED
      BY <3>3, <3>4
  <2>10. Runs(h, k, L, F, base)
    BY <2>7, <2>8, <2>9 DEF Runs
  <2>11. \E q : Runs(q, k, L, F, base)
    BY <2>10
  <2> QED
    BY <2>3, <2>11
<1> HIDE DEF S
<1>3. N \in S
  <2>1. \A n \in 0 .. N : n \in S
    BY <1>1, <1>2, UpTo
  <2> QED
    BY <2>1
<1> QED
  BY <1>3 DEF S

-----------------------------------------------------------------------------
(* Types.                                                                  *)

\* A flush that waits for the run on.
Waiter == [gen : Nat, on : Nat]

\* What a call of each kind holds.
LEMMA CallKinds ==
    ASSUME NEW c \in Call
    PROVE  /\ c.kind = "execute" => c \in Execute
           /\ c.kind = "analyze" => c \in Analyze
           /\ c.kind = "resolve" => c \in Resolve
           /\ c.kind \in {"execute", "analyze", "resolve"}
           /\ c.live \in BOOLEAN
  BY DEF Call, Execute, Analyze, Resolve

\* The range of a sequence is finite.
LEMMA FiniteRange ==
    ASSUME NEW T, NEW s \in Seq(T)
    PROVE  IsFiniteSet(Range(s))
<1>1. s \in Surjection(1 .. Len(s), Range(s))
  BY DEF Surjection, Range
<1>2. IsFiniteSet(1 .. Len(s))
  BY FS_Interval
<1> QED
  BY <1>1, <1>2, FS_Surjection

\* There is a number that no run which has not ended goes by.
LEMMA FreshIdIsFresh ==
    ASSUME NEW l \in Loop
    PROVE  FreshId(l) \in Nat
<1> DEFINE X == {d \in Range(l.calls) \cup Range(l.shelf) : d.kind = "execute"}
           used == {c.id : c \in X}
           k == Cardinality(used)
<1>1. IsFiniteSet(Range(l.calls) \cup Range(l.shelf))
  <2>1. l.calls \in Seq(Call) /\ l.shelf \in Seq(Execute)
    BY DEF Loop
  <2>2. IsFiniteSet(Range(l.calls)) /\ IsFiniteSet(Range(l.shelf))
    BY <2>1, FiniteRange
  <2> QED
    BY <2>2, FS_Union
<1>2. IsFiniteSet(X)
  <2>1. X \in SUBSET (Range(l.calls) \cup Range(l.shelf))
    OBVIOUS
  <2> HIDE DEF X
  <2> QED
    BY <1>1, <2>1, FS_Subset
<1>3. IsFiniteSet(used)
  <2> DEFINE f == [c \in X |-> c.id]
  <2> HIDE DEF X
  <2>1. f \in Surjection(X, used)
    BY DEF Surjection
  <2> HIDE DEF f, used
  <2> QED
    BY <1>2, <2>1, FS_Surjection
<1>4. FreshId(l) = CHOOSE n \in 1 .. k + 1 : n \notin used
  BY DEF FreshId
<1> HIDE DEF used
<1>5. k \in Nat
  BY <1>3, FS_CardinalityType
<1> HIDE DEF k
<1>6. \E n \in 1 .. k + 1 : n \notin used
  <2>1. SUFFICES ASSUME 1 .. k + 1 \subseteq used PROVE FALSE
    OBVIOUS
  <2>2. Cardinality(1 .. k + 1) <= k
    BY <1>3, <2>1, FS_Subset DEF k
  <2>3. 1 \in Int /\ k + 1 \in Int /\ ~(1 > k + 1)
    BY <1>5
  <2>4. Cardinality(1 .. k + 1) = (k + 1) - 1 + 1
    BY <2>3, FS_Interval
  <2> QED
    BY <1>5, <2>2, <2>4
<1>7. FreshId(l) \in 1 .. k + 1
  BY <1>4, <1>6
<1> QED
  BY <1>5, <1>7

\* What the loop's operators return.
LEMMA EndRunTyped ==
    ASSUME NEW l \in Loop, NEW by, NEW gen
    PROVE  EndRun(l, by, gen) \in Loop
  BY DEF EndRun, Loop, NoRun

\* A call that is sent.
LEMMA PostCallTyped ==
    ASSUME NEW l \in Loop, NEW c \in Call
    PROVE  PostCall(l, c) \in Loop
<1>1. Append(l.calls, c) \in Seq(Call)
  BY DEF Loop
<1> QED
  BY <1>1 DEF PostCall, Loop

\* A scrub that starts or is dropped.
LEMMA RunScrubTyped ==
    ASSUME NEW l \in Loop, NEW by \in {"flush", "move"}, NEW id \in Nat,
           NEW gen \in Nat, NEW g \in Nat, NEW v \in Val
    PROVE  RunScrub(l, by, id, gen, g, v) \in Loop
<1> DEFINE started == [l EXCEPT !.status = "Updating", !.isRunning = FALSE, !.analyzeTimer = FALSE]
           c == [kind |-> "execute", by |-> by, id |-> id, gen |-> gen, val |-> v, live |-> TRUE]
<1>1. started \in Loop
  BY DEF Loop
<1>2. c \in Call
  BY DEF Call, Execute
<1>3. RunScrub(l, by, id, gen, g, v)
          = IF gen < g THEN EndRun(started, by, gen) ELSE PostCall(started, c)
  BY DEF RunScrub
<1> HIDE DEF started, c
<1> QED
  BY <1>1, <1>2, <1>3, EndRunTyped, PostCallTyped

\* A flush that goes on.
LEMMA RunFlushTyped ==
    ASSUME NEW l \in Loop, NEW gen \in Nat, NEW g \in Nat, NEW v \in Val
    PROVE  RunFlush(l, gen, g, v) \in Loop
<1> DEFINE id == FreshId(l)
           m == [l EXCEPT !.inflight = id, !.inflightGen = gen]
<1>1. id \in Nat
  BY FreshIdIsFresh
<1>2. RunFlush(l, gen, g, v) = RunScrub(m, "flush", id, gen, g, v)
  BY DEF RunFlush
<1> HIDE DEF id
<1>3. m \in Loop
  BY <1>1 DEF Loop
<1> HIDE DEF m
<1> QED
  BY <1>1, <1>2, <1>3, RunScrubTyped

\* A flush that waits takes its turn.
LEMMA TurnTyped ==
    ASSUME NEW l \in Loop, NEW w \in Waiter, NEW id, NEW g \in Nat, NEW v \in Val
    PROVE  Turn(l, w, id, g, v) \in Loop
<1>1. Append(l.waiting, w) \in Seq([gen : Nat, on : Nat]) /\ w.gen \in Nat
  BY DEF Loop, Waiter
<1>2. [l EXCEPT !.waiting = Append(@, w)] \in Loop
  BY <1>1 DEF Loop
<1> QED
  BY <1>1, <1>2, RunFlushTyped DEF Turn

-----------------------------------------------------------------------------
(* The two recursive functions of the loop.                                *)

\* r[n] is the loop when the first n of the flushes that wait have had their turns.
Turns(r, l, id, g, v) ==
    /\ r \in [0 .. Len(l.waiting) -> Loop]
    /\ r[0] = [l EXCEPT !.waiting = <<>>]
    /\ \A n \in 1 .. Len(l.waiting) : r[n] = Turn(r[n - 1], l.waiting[n], id, g, v)
    /\ Resume(l, id, g, v) = r[Len(l.waiting)]

\* Resume takes the flushes that wait one by one.
LEMMA ResumeSteps ==
    ASSUME NEW l \in Loop, NEW id, NEW g \in Nat, NEW v \in Val
    PROVE  \E r : Turns(r, l, id, g, v)
<1> DEFINE N == Len(l.waiting)
           base == [l EXCEPT !.waiting = <<>>]
           F == [p \in Loop \X (1 .. N) |-> Turn(p[1], l.waiting[p[2]], id, g, v)]
           Body(f) == [n \in 0 .. N |-> IF n = 0 THEN base
                                        ELSE Turn(f[n - 1], l.waiting[n], id, g, v)]
<1>1. N \in Nat /\ \A n \in 1 .. N : l.waiting[n] \in Waiter
  <2>1. l.waiting \in Seq(Waiter)
    BY DEF Loop, Waiter
  <2> QED
    BY <2>1
<1>2. base \in Loop
  <2>1. <<>> \in Seq([gen : Nat, on : Nat])
    OBVIOUS
  <2> QED
    BY <2>1 DEF Loop
<1>3. \A m \in Loop, n \in 1 .. N : F[<<m, n>>] = Turn(m, l.waiting[n], id, g, v)
  OBVIOUS
<1>4. Resume(l, id, g, v) = (CHOOSE f : f = Body(f))[N]
  BY DEF Resume
<1> HIDE DEF N, base, F, Body
<1>5. ASSUME NEW m \in Loop, NEW n \in 1 .. N PROVE F[<<m, n>>] \in Loop
  <2>1. l.waiting[n] \in Waiter
    BY <1>1
  <2>2. Turn(m, l.waiting[n], id, g, v) \in Loop
    BY <2>1, TurnTyped
  <2> QED
    BY <1>3, <2>2
<1>6. \E r : Runs(r, N, Loop, F, base)
  <2>1. Closed(N, Loop, F)
    BY <1>5 DEF Closed
  <2> QED
    BY <2>1, <1>1, <1>2, Recursion
<1>7. PICK r : Runs(r, N, Loop, F, base)
  BY <1>6
<1>8. /\ r \in [0 .. N -> Loop]
       /\ r[0] = base
       /\ \A n \in 1 .. N : r[n] = F[<<r[n - 1], n>>]
  BY <1>7 DEF Runs
<1>9. \A n \in 1 .. N : n - 1 \in 0 .. N /\ n \in 0 .. N /\ n # 0
  BY <1>1
<1>10. \A n \in 1 .. N : r[n] = Turn(r[n - 1], l.waiting[n], id, g, v)
  BY <1>3, <1>8, <1>9
<1>11. \A n \in 0 .. N : n = 0 \/ n \in 1 .. N
  BY <1>1
<1>12. r = Body(r)
  <2>1. \A n \in 0 .. N : r[n] = Body(r)[n]
    BY <1>8, <1>10, <1>11 DEF Body
  <2>2. r = [n \in 0 .. N |-> r[n]]
    BY <1>8
  <2> QED
    BY <2>1, <2>2 DEF Body
<1> DEFINE f == CHOOSE f : f = Body(f)
<1>13. f = Body(f)
  BY <1>12
<1> HIDE DEF f
<1>14. f[0] = base /\ \A n \in 1 .. N : f[n] = Turn(f[n - 1], l.waiting[n], id, g, v)
  BY <1>13, <1>9, <1>1 DEF Body
<1>15. \A n \in 0 .. N : n \in {m \in 0 .. N : f[m] \in Loop}
  <2> DEFINE S == {m \in 0 .. N : f[m] \in Loop}
  <2>1. 0 \in S
    BY <1>14, <1>2, <1>1
  <2>2. \A n \in 1 .. N : n - 1 \in S => n \in S
    BY <1>14, <1>1, <1>9, TurnTyped
  <2> HIDE DEF S
  <2>3. \A n \in 0 .. N : n \in S
    BY <1>1, <2>1, <2>2, UpTo
  <2> QED
    BY <2>3 DEF S
<1>16. f \in [0 .. N -> Loop]
  <2>1. f = [n \in 0 .. N |-> f[n]]
    BY <1>13 DEF Body
  <2> QED
    BY <1>15, <2>1
<1>17. Resume(l, id, g, v) = f[N]
  BY <1>4 DEF f
<1>18. Turns(f, l, id, g, v)
  BY <1>14, <1>16, <1>17 DEF N, base, Turns
<1> QED
  BY <1>18

\* The flushes that wait are woken.
LEMMA ResumeTyped ==
    ASSUME NEW l \in Loop, NEW id, NEW g \in Nat, NEW v \in Val
    PROVE  Resume(l, id, g, v) \in Loop
<1>1. PICK r : Turns(r, l, id, g, v)
  BY ResumeSteps
<1>2. Len(l.waiting) \in 0 .. Len(l.waiting)
  <2>1. l.waiting \in Seq([gen : Nat, on : Nat])
    BY DEF Loop
  <2> QED
    BY <2>1
<1> QED
  BY <1>1, <1>2 DEF Turns

\* A run ends.
LEMMA FinishRunTyped ==
    ASSUME NEW l \in Loop, NEW c, NEW g \in Nat, NEW v \in Val
    PROVE  FinishRun(l, c, g, v) \in Loop
  BY EndRunTyped, ResumeTyped DEF FinishRun

\* A mesh on the shelf is painted or fails.
LEMMA ServedTyped ==
    ASSUME NEW l \in Loop, NEW c \in Execute, NEW g \in Nat, NEW v \in Val
    PROVE  Served(l, c, g, v) \in Loop
<1>1. c.val \in Val
  BY DEF Execute
<1>2. [l EXCEPT !.shown = c.val] \in Loop /\ [l EXCEPT !.status = "Error"] \in Loop
  BY <1>1 DEF Loop
<1> QED
  BY <1>2, FinishRunTyped DEF Served

\* What becomes of a viewport that was loading.
Loaded == {"none", "made"}

\* r[n] is the loop when the first n of the meshes on the shelf have been served.
Servings(r, l, viewport, g, v) ==
    /\ r \in [0 .. Len(l.shelf) -> Loop]
    /\ r[0] = [l EXCEPT !.viewport = viewport, !.shelf = <<>>]
    /\ \A n \in 1 .. Len(l.shelf) : r[n] = Served(r[n - 1], l.shelf[n], g, v)
    /\ Unshelve(l, viewport, g, v) = r[Len(l.shelf)]

\* Unshelve serves the meshes on the shelf one by one.
LEMMA UnshelveSteps ==
    ASSUME NEW l \in Loop, NEW viewport \in Loaded, NEW g \in Nat, NEW v \in Val
    PROVE  \E r : Servings(r, l, viewport, g, v)
<1> DEFINE N == Len(l.shelf)
           base == [l EXCEPT !.viewport = viewport, !.shelf = <<>>]
           F == [p \in Loop \X (1 .. N) |-> Served(p[1], l.shelf[p[2]], g, v)]
           Body(f) == [n \in 0 .. N |-> IF n = 0 THEN base
                                        ELSE Served(f[n - 1], l.shelf[n], g, v)]
<1>1. N \in Nat /\ \A n \in 1 .. N : l.shelf[n] \in Execute
  <2>1. l.shelf \in Seq(Execute)
    BY DEF Loop
  <2> QED
    BY <2>1
<1>2. base \in Loop
  <2>1. <<>> \in Seq(Execute)
    OBVIOUS
  <2> QED
    BY <2>1 DEF Loop, Loaded
<1>3. \A m \in Loop, n \in 1 .. N : F[<<m, n>>] = Served(m, l.shelf[n], g, v)
  OBVIOUS
<1>4. Unshelve(l, viewport, g, v) = (CHOOSE f : f = Body(f))[N]
  BY DEF Unshelve
<1> HIDE DEF N, base, F, Body
<1>5. ASSUME NEW m \in Loop, NEW n \in 1 .. N PROVE F[<<m, n>>] \in Loop
  <2>1. l.shelf[n] \in Execute
    BY <1>1
  <2>2. Served(m, l.shelf[n], g, v) \in Loop
    BY <2>1, ServedTyped
  <2> QED
    BY <1>3, <2>2
<1>6. \E r : Runs(r, N, Loop, F, base)
  <2>1. Closed(N, Loop, F)
    BY <1>5 DEF Closed
  <2> QED
    BY <2>1, <1>1, <1>2, Recursion
<1>7. PICK r : Runs(r, N, Loop, F, base)
  BY <1>6
<1>8. /\ r \in [0 .. N -> Loop]
       /\ r[0] = base
       /\ \A n \in 1 .. N : r[n] = F[<<r[n - 1], n>>]
  BY <1>7 DEF Runs
<1>9. \A n \in 1 .. N : n - 1 \in 0 .. N /\ n \in 0 .. N /\ n # 0
  BY <1>1
<1>10. \A n \in 1 .. N : r[n] = Served(r[n - 1], l.shelf[n], g, v)
  BY <1>3, <1>8, <1>9
<1>11. \A n \in 0 .. N : n = 0 \/ n \in 1 .. N
  BY <1>1
<1>12. r = Body(r)
  <2>1. \A n \in 0 .. N : r[n] = Body(r)[n]
    BY <1>8, <1>10, <1>11 DEF Body
  <2>2. r = [n \in 0 .. N |-> r[n]]
    BY <1>8
  <2> QED
    BY <2>1, <2>2 DEF Body
<1> DEFINE f == CHOOSE f : f = Body(f)
<1>13. f = Body(f)
  BY <1>12
<1> HIDE DEF f
<1>14. f[0] = base /\ \A n \in 1 .. N : f[n] = Served(f[n - 1], l.shelf[n], g, v)
  BY <1>13, <1>9, <1>1 DEF Body
<1>15. \A n \in 0 .. N : n \in {m \in 0 .. N : f[m] \in Loop}
  <2> DEFINE S == {m \in 0 .. N : f[m] \in Loop}
  <2>1. 0 \in S
    BY <1>14, <1>2, <1>1
  <2>2. \A n \in 1 .. N : n - 1 \in S => n \in S
    BY <1>14, <1>1, <1>9, ServedTyped
  <2> HIDE DEF S
  <2>3. \A n \in 0 .. N : n \in S
    BY <1>1, <2>1, <2>2, UpTo
  <2> QED
    BY <2>3 DEF S
<1>16. f \in [0 .. N -> Loop]
  <2>1. f = [n \in 0 .. N |-> f[n]]
    BY <1>13 DEF Body
  <2> QED
    BY <1>15, <2>1
<1>17. Unshelve(l, viewport, g, v) = f[N]
  BY <1>4 DEF f
<1>18. Servings(f, l, viewport, g, v)
  BY <1>14, <1>16, <1>17 DEF N, base, Servings
<1> QED
  BY <1>18

\* The viewport has loaded, or has not.
LEMMA UnshelveTyped ==
    ASSUME NEW l \in Loop, NEW viewport \in Loaded, NEW g \in Nat, NEW v \in Val
    PROVE  Unshelve(l, viewport, g, v) \in Loop
<1>1. PICK r : Servings(r, l, viewport, g, v)
  BY UnshelveSteps
<1>2. Len(l.shelf) \in 0 .. Len(l.shelf)
  <2>1. l.shelf \in Seq(Execute)
    BY DEF Loop
  <2> QED
    BY <2>1
<1> QED
  BY <1>1, <1>2 DEF Servings

\* An execute is answered.
LEMMA AnsweredTyped ==
    ASSUME NEW l \in Loop, NEW c \in Execute, NEW outcome, NEW g \in Nat, NEW v \in Val
    PROVE  Answered(l, c, outcome, g, v) \in Loop
<1>1. /\ [l EXCEPT !.status = "Error"] \in Loop
      /\ [l EXCEPT !.status = "Ready"] \in Loop
  BY DEF Loop
<1>2. ClearStaleStatus(l, c, g) \in Loop
  BY <1>1 DEF ClearStaleStatus
<1>3. [l EXCEPT !.status = "Ready", !.shown = c.val] \in Loop
  <2>1. c.val \in Val
    BY DEF Execute
  <2> QED
    BY <2>1 DEF Loop
<1>4. [l EXCEPT !.status = "Ready", !.viewport = "loading", !.shelf = Append(@, c)] \in Loop
  <2>1. Append(l.shelf, c) \in Seq(Execute)
    BY DEF Loop
  <2> QED
    BY <2>1 DEF Loop
<1> QED
  BY <1>1, <1>2, <1>3, <1>4, FinishRunTyped DEF Answered

-----------------------------------------------------------------------------
(* The inductive invariant.                                                *)

\* What the store, the loop and the history variables hold.
Typed ==
    /\ text \in Val /\ lastFp \in Val
    /\ sheet \in Sheet /\ loop \in Loop
    /\ asked \in Val /\ wanted \in Nat

\* No rebuild is of a generation the store has not come to, which is never the 0 that
\* stands for none.
GensBounded ==
    /\ sheet.gen # 0
    /\ wanted <= sheet.gen
    /\ loop.pending <= sheet.gen
    /\ \A w \in Range(loop.waiting) : w.gen <= sheet.gen

\* The slot, the flushes that wait, the run button and the history move: each stands for
\* a call of R that is still listened for.
SlotAlive(l, R) ==
    l.inflight # NoRun =>
        \E d \in R : /\ d.live /\ d.kind = "execute" /\ d.by = "flush"
                     /\ d.id = l.inflight /\ d.gen = l.inflightGen
WaitersAlive(l, R) ==
    \A w \in Range(l.waiting) :
        \E d \in R : d.live /\ d.kind = "execute" /\ d.by = "flush" /\ d.id = w.on
ButtonAlive(l, R) == l.isRunning => \E d \in R : d.live /\ d.kind # "resolve" /\ d.by = "run"
MoveAlive(l, R) == l.move # None => \E d \in R : d.live /\ d.by = "move"

Alive(l, R) == SlotAlive(l, R) /\ WaitersAlive(l, R) /\ ButtonAlive(l, R) /\ MoveAlive(l, R)

InHand(l) == Range(l.calls) \cup Range(l.shelf)

\* Calls with the same limit time out in the order they were made.
InOrder(s) ==
    \A i, j \in 1 .. Len(s) :
        i < j /\ SameLimit(s[i], s[j]) /\ ~s[j].live => ~s[i].live

\* The newest harvest on its way is of the header last asked for; when it has timed out,
\* or when there is none, that header is the one the store declares.
HarvestKnown(s, a, d) ==
    /\ \A i \in 1 .. Len(s) :
           s[i].kind = "resolve" /\ (\A j \in 1 .. Len(s) : j > i => s[j].kind # "resolve")
               => IF s[i].live THEN s[i].header = a ELSE d = a
    /\ (\A i \in 1 .. Len(s) : s[i].kind # "resolve") => d = a

\* A rebuild of the generation g is still to be started.
Due(l, g) ==
    \/ l.pending = g
    \/ \E w \in Range(l.waiting) : w.gen = g
    \/ \E i \in 1 .. Len(l.calls) :
           l.calls[i].kind = "resolve" /\ l.calls[i].by = "move" /\ l.calls[i].live

\* The newest execute on its way will paint the sheet's value; when there is none, the
\* last one failed, or its mesh waits on the shelf, or it is on show.
Right(c, s) == c.val = s.val /\ (c.by = "run" \/ c.gen >= s.gen)

LastExecute(t, i) ==
    /\ t[i].kind = "execute"
    /\ \A j \in 1 .. Len(t) : j > i => t[j].kind # "execute"

Painting(t, s) == \A i \in 1 .. Len(t) : LastExecute(t, i) /\ t[i].live => Right(t[i], s)

NoneLive(t) == \A i \in 1 .. Len(t) : t[i].kind = "execute" => ~t[i].live

Painted(l, s, f) ==
    \/ f
    \/ l.shelf # <<>> /\ l.shelf[Len(l.shelf)].val = s.val
    \/ l.shelf = <<>> /\ l.shown = s.val

MeshKnown(l, s, f) == Painting(l.calls, s) /\ (NoneLive(l.calls) => Painted(l, s, f))

MeshComes(l, s, w, f) == s.commit = None /\ w = s.gen /\ ~Due(l, s.gen) => MeshKnown(l, s, f)

ShelfWaits == loop.viewport = "made" => loop.shelf = <<>>

IInv ==
    /\ Typed
    /\ GensBounded
    /\ Alive(loop, InHand(loop))
    /\ InOrder(loop.calls)
    /\ HarvestKnown(loop.calls, asked, sheet.declared)
    /\ ShelfWaits
    /\ MeshComes(loop, sheet, wanted, failed)
    /\ CommitIsCurrent

-----------------------------------------------------------------------------
(* What a run that ends leaves behind.                                     *)

\* t is s and the executes of flushes of the newest generation, sent after it.
NewFlush(c, g, v) ==
    /\ c.kind = "execute" /\ c.by = "flush" /\ c.live
    /\ c.val = v /\ c.gen >= g

Extends(s, t, g, v) ==
    /\ Len(s) <= Len(t)
    /\ \A i \in 1 .. Len(s) : t[i] = s[i]
    /\ \A i \in 1 .. Len(t) : i > Len(s) => NewFlush(t[i], g, v)

\* The scheduler's slot is that of before or that of one of the new flushes.
SlotFollows(l, m) ==
    m.inflight # NoRun =>
        \/ m.inflight = l.inflight /\ m.inflightGen = l.inflightGen
        \/ \E i \in 1 .. Len(m.calls) : /\ i > Len(l.calls)
                                        /\ m.calls[i].id = m.inflight
                                        /\ m.calls[i].gen = m.inflightGen

\* m is l after some flushes have been started.
Started(l, m, g, v) ==
    /\ Extends(l.calls, m.calls, g, v)
    /\ m.isRunning => l.isRunning
    /\ m.move = l.move /\ m.pending = l.pending
    /\ m.viewport = l.viewport /\ m.shelf = l.shelf /\ m.shown = l.shown
    /\ SlotFollows(l, m)

\* The three sequences of a loop and what they hold.
LEMMA LoopSequences ==
    ASSUME NEW l \in Loop
    PROVE  /\ l.calls \in Seq(Call) /\ Len(l.calls) \in Nat
           /\ l.shelf \in Seq(Execute) /\ Len(l.shelf) \in Nat
           /\ l.waiting \in Seq(Waiter) /\ Len(l.waiting) \in Nat
           /\ \A i \in 1 .. Len(l.calls) : l.calls[i] \in Call
           /\ \A i \in 1 .. Len(l.shelf) : l.shelf[i] \in Execute
           /\ \A i \in 1 .. Len(l.waiting) : l.waiting[i] \in Waiter
<1>1. l.calls \in Seq(Call) /\ l.shelf \in Seq(Execute) /\ l.waiting \in Seq(Waiter)
  BY DEF Loop, Waiter
<1> QED
  BY <1>1

\* A loop follows itself, when no flush is started.
LEMMA StartedNone ==
    ASSUME NEW l \in Loop, NEW g \in Nat, NEW v \in Val
    PROVE  Started(l, l, g, v)
  BY LoopSequences DEF Started, Extends, SlotFollows

\* New executes after new executes.
LEMMA ExtendsMore ==
    ASSUME NEW T, NEW s \in Seq(T), NEW t \in Seq(T), NEW u \in Seq(T), NEW g, NEW v,
           Extends(s, t, g, v), Extends(t, u, g, v)
    PROVE  /\ Extends(s, u, g, v)
           /\ Len(s) <= Len(t) /\ Len(t) <= Len(u)
<1>1. Len(s) \in Nat /\ Len(t) \in Nat /\ Len(u) \in Nat
  OBVIOUS
<1>2. Len(s) <= Len(t) /\ Len(t) <= Len(u)
  BY DEF Extends
<1>3. ASSUME NEW i \in 1 .. Len(t) PROVE i \in 1 .. Len(u) /\ u[i] = t[i]
  BY <1>1, <1>2 DEF Extends
<1>4. ASSUME NEW i \in 1 .. Len(s) PROVE u[i] = s[i]
  <2>1. i \in 1 .. Len(t)
    BY <1>1, <1>2
  <2> QED
    BY <1>3, <2>1 DEF Extends
<1>5. ASSUME NEW i \in 1 .. Len(u), i > Len(s) PROVE NewFlush(u[i], g, v)
  <2>1. CASE i > Len(t)
    BY <2>1 DEF Extends
  <2>2. CASE ~(i > Len(t))
    <3>1. i \in 1 .. Len(t)
      BY <1>1, <2>2
    <3> QED
      BY <1>3, <1>5, <3>1 DEF Extends
  <2> QED
    BY <2>1, <2>2
<1> QED
  BY <1>1, <1>2, <1>4, <1>5 DEF Extends

\* Flushes that are started after flushes that were.
LEMMA StartedMore ==
    ASSUME NEW l \in Loop, NEW m \in Loop, NEW n \in Loop, NEW g \in Nat, NEW v \in Val,
           Started(l, m, g, v), Started(m, n, g, v)
    PROVE  /\ Started(l, n, g, v)
           /\ Len(l.calls) <= Len(m.calls) /\ Len(m.calls) <= Len(n.calls)
<1>1. Len(l.calls) \in Nat /\ Len(m.calls) \in Nat /\ Len(n.calls) \in Nat
  BY LoopSequences
<1>2. Extends(l.calls, m.calls, g, v) /\ Extends(m.calls, n.calls, g, v)
  BY DEF Started
<1>3. l.calls \in Seq(Call) /\ m.calls \in Seq(Call) /\ n.calls \in Seq(Call)
  BY LoopSequences
<1>4. /\ Extends(l.calls, n.calls, g, v)
      /\ Len(l.calls) <= Len(m.calls) /\ Len(m.calls) <= Len(n.calls)
  BY <1>2, <1>3, ExtendsMore
<1>5. SlotFollows(l, n)
  <2>1. SUFFICES ASSUME n.inflight # NoRun
                 PROVE  \/ n.inflight = l.inflight /\ n.inflightGen = l.inflightGen
                        \/ \E i \in 1 .. Len(n.calls) : /\ i > Len(l.calls)
                                                        /\ n.calls[i].id = n.inflight
                                                        /\ n.calls[i].gen = n.inflightGen
    BY DEF SlotFollows
  <2>2. \/ n.inflight = m.inflight /\ n.inflightGen = m.inflightGen
        \/ \E i \in 1 .. Len(n.calls) : /\ i > Len(m.calls)
                                        /\ n.calls[i].id = n.inflight
                                        /\ n.calls[i].gen = n.inflightGen
    BY <2>1 DEF Started, SlotFollows
  <2>3. CASE \E i \in 1 .. Len(n.calls) : /\ i > Len(m.calls)
                                          /\ n.calls[i].id = n.inflight
                                          /\ n.calls[i].gen = n.inflightGen
    BY <1>1, <1>4, <2>3
  <2>4. CASE n.inflight = m.inflight /\ n.inflightGen = m.inflightGen
    <3>1. \/ m.inflight = l.inflight /\ m.inflightGen = l.inflightGen
          \/ \E i \in 1 .. Len(m.calls) : /\ i > Len(l.calls)
                                          /\ m.calls[i].id = m.inflight
                                          /\ m.calls[i].gen = m.inflightGen
      BY <2>1, <2>4 DEF Started, SlotFollows
    <3> QED
      BY <1>1, <1>2, <1>4, <2>4, <3>1 DEF Extends
  <2> QED
    BY <2>2, <2>3, <2>4
<1> QED
  BY <1>4, <1>5 DEF Started

\* A flush that goes on starts a run if its generation is the newest, and leaves the
\* slot free if it is not.
LEMMA FlushStarts ==
    ASSUME NEW l \in Loop, NEW gen \in Nat, NEW g \in Nat, NEW v \in Val
    PROVE  /\ Started(l, RunFlush(l, gen, g, v), g, v)
           /\ RunFlush(l, gen, g, v).waiting = l.waiting
           /\ gen >= g => Len(RunFlush(l, gen, g, v).calls) > Len(l.calls)
<1> DEFINE id == FreshId(l)
           d == [kind |-> "execute", by |-> "flush", id |-> id, gen |-> gen, val |-> v,
                 live |-> TRUE]
           m == RunFlush(l, gen, g, v)
<1>1. id \in Nat
  BY FreshIdIsFresh
<1>2. l.calls \in Seq(Call) /\ Len(l.calls) \in Nat
  BY LoopSequences
<1>3. CASE gen < g
  <2>1. /\ m.calls = l.calls /\ m.waiting = l.waiting /\ ~m.isRunning
        /\ m.move = l.move /\ m.pending = l.pending /\ m.viewport = l.viewport
        /\ m.shelf = l.shelf /\ m.shown = l.shown /\ m.inflight = NoRun
    BY <1>3 DEF RunFlush, RunScrub, EndRun, Loop
  <2> HIDE DEF m
  <2>2. Started(l, m, g, v)
    BY <1>2, <2>1 DEF Started, Extends, SlotFollows
  <2> QED
    BY <1>3, <2>1, <2>2 DEF m
<1>4. CASE ~(gen < g)
  <2>1. /\ m.calls = Append(l.calls, d) /\ m.waiting = l.waiting /\ ~m.isRunning
        /\ m.move = l.move /\ m.pending = l.pending /\ m.viewport = l.viewport
        /\ m.shelf = l.shelf /\ m.shown = l.shown
        /\ m.inflight = id /\ m.inflightGen = gen
    BY <1>4 DEF RunFlush, RunScrub, PostCall, Loop
  <2>2. NewFlush(d, g, v) /\ d.id = id /\ d.gen = gen
    BY <1>4 DEF NewFlush
  <2> HIDE DEF d, m, id
  <2>3. /\ Len(m.calls) = Len(l.calls) + 1 /\ m.calls[Len(l.calls) + 1] = d
        /\ \A i \in 1 .. Len(l.calls) : m.calls[i] = l.calls[i]
    BY <1>2, <2>1
  <2>4. Extends(l.calls, m.calls, g, v)
    BY <1>2, <2>2, <2>3 DEF Extends
  <2>5. SlotFollows(l, m)
    BY <1>2, <2>1, <2>2, <2>3 DEF SlotFollows
  <2>6. Started(l, m, g, v)
    BY <2>1, <2>4, <2>5 DEF Started
  <2> QED
    BY <1>2, <2>1, <2>3, <2>6 DEF m
<1> QED
  BY <1>3, <1>4

\* What a sequence holds when something has been appended.
LEMMA RangeAppend ==
    ASSUME NEW T, NEW s \in Seq(T), NEW x \in T, NEW y
    PROVE  y \in Range(Append(s, x)) <=> y \in Range(s) \/ y = x
<1>1. /\ Len(s) \in Nat /\ DOMAIN s = 1 .. Len(s)
      /\ Append(s, x) \in Seq(T) /\ DOMAIN Append(s, x) = 1 .. Len(s) + 1
      /\ \A i \in 1 .. Len(s) : Append(s, x)[i] = s[i] /\ i \in 1 .. Len(s) + 1
      /\ Append(s, x)[Len(s) + 1] = x /\ Len(s) + 1 \in 1 .. Len(s) + 1
      /\ \A i \in 1 .. Len(s) + 1 : i \in 1 .. Len(s) \/ i = Len(s) + 1
  OBVIOUS
<1> QED
  BY <1>1 DEF Range

\* A flush whose run has ended starts one of its own, unless an edit overtakes it; any other
\* goes on waiting.
LEMMA TurnEffect ==
    ASSUME NEW l \in Loop, NEW w \in Waiter, NEW id, NEW g \in Nat, NEW v \in Val
    PROVE  LET m == Turn(l, w, id, g, v)
           IN  /\ Started(l, m, g, v)
               /\ m.waiting = IF w.on # id THEN Append(l.waiting, w) ELSE l.waiting
               /\ w.on = id /\ l.pending <= w.gen /\ w.gen >= g
                      => Len(m.calls) > Len(l.calls)
<1> DEFINE m == Turn(l, w, id, g, v)
<1>1. w.gen \in Nat /\ l.pending \in Nat
  BY DEF Waiter, Loop
<1>2. CASE w.on # id
  <2>1. /\ m.calls = l.calls /\ m.waiting = Append(l.waiting, w) /\ m.isRunning = l.isRunning
        /\ m.move = l.move /\ m.pending = l.pending /\ m.viewport = l.viewport
        /\ m.shelf = l.shelf /\ m.shown = l.shown
        /\ m.inflight = l.inflight /\ m.inflightGen = l.inflightGen
    BY <1>2 DEF Turn, Loop
  <2> HIDE DEF m
  <2>2. Started(l, m, g, v)
    BY <2>1, LoopSequences DEF Started, Extends, SlotFollows
  <2> QED
    BY <1>2, <2>1, <2>2 DEF m
<1>3. CASE w.on = id /\ l.pending > w.gen
  <2>1. m = l
    BY <1>3 DEF Turn
  <2> QED
    BY <1>1, <1>3, <2>1, StartedNone
<1>4. CASE w.on = id /\ ~(l.pending > w.gen)
  <2>1. m = RunFlush(l, w.gen, g, v)
    BY <1>4 DEF Turn
  <2> QED
    BY <1>1, <1>4, <2>1, FlushStarts
<1> QED
  BY <1>2, <1>3, <1>4

\* The end of the run id wakes just the flushes that wait for it, and one of the newest
\* generation starts a run.
Resumed(l, m, id, g, v) ==
    /\ Started(l, m, g, v)
    /\ \A w : w \in Range(m.waiting) <=> w \in Range(l.waiting) /\ w.on # id
    /\ (\E w \in Range(l.waiting) : w.on = id /\ l.pending <= w.gen /\ w.gen >= g)
           => Len(m.calls) > Len(l.calls)

\* Resume wakes the flushes one by one.
LEMMA ResumeEffect ==
    ASSUME NEW l \in Loop, NEW id, NEW g \in Nat, NEW v \in Val
    PROVE  Resumed(l, Resume(l, id, g, v), id, g, v)
<1>1. PICK r : Turns(r, l, id, g, v)
  BY ResumeSteps
<1> DEFINE N == Len(l.waiting)
           Woken(w) == w.on = id /\ l.pending <= w.gen /\ w.gen >= g
           Fine(n) == /\ Started(l, r[n], g, v)
                      /\ \A w : w \in Range(r[n].waiting)
                             <=> \E i \in 1 .. n : l.waiting[i] = w /\ w.on # id
                      /\ (\E i \in 1 .. n : Woken(l.waiting[i]))
                             => Len(r[n].calls) > Len(l.calls)
           S == {n \in 0 .. N : Fine(n)}
<1>2. N \in Nat /\ (\A i \in 1 .. N : l.waiting[i] \in Waiter) /\ l.waiting \in Seq(Waiter)
  BY LoopSequences
<1>3. /\ r \in [0 .. N -> Loop] /\ r[0] = [l EXCEPT !.waiting = <<>>]
      /\ \A n \in 1 .. N : r[n] = Turn(r[n - 1], l.waiting[n], id, g, v)
      /\ Resume(l, id, g, v) = r[N]
  BY <1>1 DEF Turns
<1>4. \A n \in 0 .. N : r[n] \in Loop
  BY <1>3
<1>5. 0 \in 0 .. N /\ N \in 0 .. N /\ 1 .. 0 = {}
  BY <1>2
<1> HIDE DEF N
<1>6. Fine(0)
  <2>1. /\ r[0].calls = l.calls /\ r[0].waiting = <<>> /\ r[0].isRunning = l.isRunning
        /\ r[0].move = l.move /\ r[0].pending = l.pending /\ r[0].viewport = l.viewport
        /\ r[0].shelf = l.shelf /\ r[0].shown = l.shown
        /\ r[0].inflight = l.inflight /\ r[0].inflightGen = l.inflightGen
    BY <1>3 DEF Loop
  <2>2. Started(l, r[0], g, v)
    BY <2>1, LoopSequences DEF Started, Extends, SlotFollows
  <2>3. Range(r[0].waiting) = {}
    BY <2>1 DEF Range
  <2> QED
    BY <1>5, <2>2, <2>3
<1>7. ASSUME NEW n \in 1 .. N, Fine(n - 1) PROVE Fine(n)
  <2>1. /\ n - 1 \in 0 .. N /\ n \in 0 .. N /\ n \in Nat
        /\ \A i \in 1 .. n : i = n \/ i \in 1 .. (n - 1)
        /\ \A i \in 1 .. (n - 1) : i \in 1 .. n
        /\ n \in 1 .. n
    BY <1>2
  <2> DEFINE w == l.waiting[n]
  <2>2. r[n - 1] \in Loop /\ r[n] \in Loop /\ w \in Waiter /\ r[n] = Turn(r[n - 1], w, id, g, v)
    BY <1>2, <1>3, <1>4, <2>1
  <2> HIDE DEF Fine, w
  <2>3. /\ Started(r[n - 1], r[n], g, v)
        /\ r[n].waiting = IF w.on # id THEN Append(r[n - 1].waiting, w) ELSE r[n - 1].waiting
        /\ w.on = id /\ r[n - 1].pending <= w.gen /\ w.gen >= g
               => Len(r[n].calls) > Len(r[n - 1].calls)
    BY <2>2, TurnEffect
  <2>4. Started(l, r[n - 1], g, v)
    BY <1>7 DEF Fine
  <2>5. /\ Started(l, r[n], g, v)
        /\ Len(l.calls) <= Len(r[n - 1].calls) /\ Len(r[n - 1].calls) <= Len(r[n].calls)
    BY <2>2, <2>3, <2>4, StartedMore
  <2>6. ASSUME NEW x
        PROVE  x \in Range(r[n].waiting)
                   <=> \E i \in 1 .. n : l.waiting[i] = x /\ x.on # id
    <3>1. x \in Range(r[n - 1].waiting)
              <=> \E i \in 1 .. (n - 1) : l.waiting[i] = x /\ x.on # id
      BY <1>7 DEF Fine
    <3>2. x \in Range(r[n].waiting)
              <=> x \in Range(r[n - 1].waiting) \/ (x = w /\ w.on # id)
      <4>1. r[n - 1].waiting \in Seq(Waiter)
        BY <2>2, LoopSequences
      <4>2. x \in Range(Append(r[n - 1].waiting, w)) <=> x \in Range(r[n - 1].waiting) \/ x = w
        BY <2>2, <4>1, RangeAppend
      <4> QED
        BY <2>3, <4>2
    <3> QED
      BY <2>1, <3>1, <3>2 DEF w
  <2>7. ASSUME NEW i \in 1 .. n, Woken(l.waiting[i]) PROVE Len(r[n].calls) > Len(l.calls)
    <3>1. Len(l.calls) \in Nat /\ Len(r[n - 1].calls) \in Nat /\ Len(r[n].calls) \in Nat
      BY <2>2, LoopSequences
    <3>2. CASE i = n
      <4>1. r[n - 1].pending = l.pending
        BY <2>4 DEF Started
      <4>2. w.on = id /\ l.pending <= w.gen /\ w.gen >= g
        BY <2>7, <3>2 DEF w
      <4>3. Len(r[n].calls) > Len(r[n - 1].calls)
        BY <2>3, <4>1, <4>2
      <4>4. Len(l.calls) <= Len(r[n - 1].calls)
        BY <2>5
      <4> QED
        BY <3>1, <4>3, <4>4
    <3>3. CASE i \in 1 .. (n - 1)
      <4> HIDE DEF Woken
      <4>1. Len(r[n - 1].calls) > Len(l.calls)
        BY <1>7, <2>7, <3>3 DEF Fine
      <4>2. Len(r[n - 1].calls) <= Len(r[n].calls)
        BY <2>5
      <4> QED
        BY <3>1, <4>1, <4>2
    <3> QED
      BY <2>1, <3>2, <3>3
  <2> QED
    BY <2>5, <2>6, <2>7 DEF Fine
<1>8. Fine(N)
  <2> HIDE DEF Fine
  <2>1. 0 \in S /\ \A n \in 1 .. N : n - 1 \in S => n \in S
    BY <1>5, <1>6, <1>7, <1>2
  <2> HIDE DEF S
  <2>2. N \in S
    BY <1>2, <1>5, <2>1, UpTo
  <2> QED
    BY <2>2 DEF S
<1>9. \A w : w \in Range(l.waiting) <=> \E i \in 1 .. N : l.waiting[i] = w
  BY <1>2 DEF Range, N
<1> QED
  BY <1>3, <1>8, <1>9 DEF Resumed

\* The run c has ended: its flush gives the slot back, its move is over, the flushes that
\* waited for it have gone on and nobody is told that something runs.
Finished(l, m, c, g, v) ==
    /\ Extends(l.calls, m.calls, g, v)
    /\ ~m.isRunning
    /\ m.move = IF c.by = "move" THEN None ELSE l.move
    /\ m.pending = l.pending /\ m.viewport = l.viewport
    /\ m.shelf = l.shelf
    /\ m.inflight # NoRun =>
           \/ /\ m.inflight = l.inflight /\ m.inflightGen = l.inflightGen
              /\ ~(c.by = "flush" /\ l.inflightGen = c.gen)
           \/ \E i \in 1 .. Len(m.calls) : /\ i > Len(l.calls)
                                           /\ m.calls[i].id = m.inflight
                                           /\ m.calls[i].gen = m.inflightGen
    /\ \A w : w \in Range(m.waiting) <=> w \in Range(l.waiting) /\ w.on # c.id
    /\ (\E w \in Range(l.waiting) : w.on = c.id /\ l.pending <= w.gen /\ w.gen >= g)
           => Len(m.calls) > Len(l.calls)

\* FinishRun is the end of the run and what wakes on it.
LEMMA FinishRunEffect ==
    ASSUME NEW l \in Loop, NEW c, NEW g \in Nat, NEW v \in Val
    PROVE  /\ Finished(l, FinishRun(l, c, g, v), c, g, v)
           /\ FinishRun(l, c, g, v).shown = l.shown
<1> DEFINE e == EndRun(l, c.by, c.gen)
           m == FinishRun(l, c, g, v)
<1>1. e \in Loop
  BY EndRunTyped
<1>2. m = Resume(e, c.id, g, v)
  BY DEF FinishRun
<1>3. /\ e.calls = l.calls /\ ~e.isRunning /\ e.waiting = l.waiting
      /\ e.move = IF c.by = "move" THEN None ELSE l.move
      /\ e.pending = l.pending /\ e.viewport = l.viewport
      /\ e.shelf = l.shelf /\ e.shown = l.shown
      /\ e.inflight # NoRun => /\ e.inflight = l.inflight /\ e.inflightGen = l.inflightGen
                               /\ ~(c.by = "flush" /\ l.inflightGen = c.gen)
  BY DEF EndRun, Loop
<1> HIDE DEF e, m
<1>4. Resumed(e, m, c.id, g, v)
  BY <1>1, <1>2, ResumeEffect
<1>5. Started(e, m, g, v)
  BY <1>4 DEF Resumed
<1>6. /\ Extends(l.calls, m.calls, g, v)
      /\ ~m.isRunning
      /\ m.move = IF c.by = "move" THEN None ELSE l.move
      /\ m.pending = l.pending /\ m.viewport = l.viewport
      /\ m.shelf = l.shelf /\ m.shown = l.shown
  BY <1>3, <1>5 DEF Started
<1>7. m.inflight # NoRun =>
          \/ /\ m.inflight = l.inflight /\ m.inflightGen = l.inflightGen
             /\ ~(c.by = "flush" /\ l.inflightGen = c.gen)
          \/ \E i \in 1 .. Len(m.calls) : /\ i > Len(l.calls)
                                          /\ m.calls[i].id = m.inflight
                                          /\ m.calls[i].gen = m.inflightGen
  BY <1>3, <1>5 DEF Started, SlotFollows
<1>8. /\ \A w : w \in Range(m.waiting) <=> w \in Range(l.waiting) /\ w.on # c.id
      /\ (\E w \in Range(l.waiting) : w.on = c.id /\ l.pending <= w.gen /\ w.gen >= g)
             => Len(m.calls) > Len(l.calls)
  BY <1>3, <1>4 DEF Resumed
<1>9. Finished(l, m, c, g, v)
  BY <1>6, <1>7, <1>8 DEF Finished
<1> QED
  BY <1>6, <1>9 DEF m

\* What an answer does to a run.  Its mesh waits on the shelf when the viewport is still to
\* be loaded; otherwise the run has ended, and it is painted unless it failed, was
\* cancelled or is of an older generation.
Shelved(l, m, c) ==
    /\ m.calls = l.calls /\ m.waiting = l.waiting
    /\ m.pending = l.pending /\ m.isRunning = l.isRunning /\ m.move = l.move
    /\ m.inflight = l.inflight /\ m.inflightGen = l.inflightGen
    /\ m.viewport = "loading" /\ m.shelf = Append(l.shelf, c) /\ m.shown = l.shown

Paints(l, c, outcome, g) ==
    outcome \notin {"error", "cancelled"} /\ ~(Scrub(c) /\ c.gen < g)

\* An answer ends the run, or puts its mesh on the shelf of a viewport that loads.
LEMMA AnsweredEffect ==
    ASSUME NEW l \in Loop, NEW c \in Execute, NEW outcome, NEW g \in Nat, NEW v \in Val
    PROVE  LET m == Answered(l, c, outcome, g, v)
           IN  \/ /\ Finished(l, m, c, g, v)
                  /\ ~Paints(l, c, outcome, g) /\ m.shown = l.shown
               \/ /\ Finished(l, m, c, g, v) /\ l.viewport = "made"
                  /\ Paints(l, c, outcome, g) /\ m.shown = c.val
               \/ /\ Shelved(l, m, c) /\ l.viewport # "made"
                  /\ Paints(l, c, outcome, g)
<1> DEFINE m == Answered(l, c, outcome, g, v)
           k == IF outcome = "error" THEN [l EXCEPT !.status = "Error"]
                ELSE IF Scrub(c) /\ c.gen < g THEN l
                ELSE IF outcome = "cancelled" THEN ClearStaleStatus(l, c, g)
                ELSE [l EXCEPT !.status = "Ready", !.shown = c.val]
<1>1. c.val \in Val
  BY DEF Execute
<1>2. /\ k \in Loop
      /\ k.calls = l.calls /\ k.waiting = l.waiting
      /\ k.pending = l.pending /\ k.isRunning = l.isRunning /\ k.move = l.move
      /\ k.inflight = l.inflight /\ k.inflightGen = l.inflightGen
      /\ k.viewport = l.viewport /\ k.shelf = l.shelf
      /\ k.shown = IF Paints(l, c, outcome, g) THEN c.val ELSE l.shown
  BY <1>1 DEF ClearStaleStatus, Loop, Paints
<1>3. CASE Paints(l, c, outcome, g) /\ l.viewport # "made"
  <2>1. m = [l EXCEPT !.status = "Ready", !.viewport = "loading", !.shelf = Append(@, c)]
    BY <1>3 DEF Answered, Paints
  <2>2. Shelved(l, m, c)
    BY <2>1 DEF Shelved, Loop
  <2> QED
    BY <1>3, <2>2
<1>4. CASE ~(Paints(l, c, outcome, g) /\ l.viewport # "made")
  <2>1. m = FinishRun(k, c, g, v)
    BY <1>4 DEF Answered, Paints
  <2> HIDE DEF k, m
  <2>2. Finished(k, m, c, g, v) /\ m.shown = k.shown
    BY <1>2, <2>1, FinishRunEffect
  <2>3. Finished(l, m, c, g, v)
    BY <1>2, <2>2 DEF Finished
  <2> QED
    BY <1>2, <1>4, <2>2, <2>3 DEF m
<1> QED
  BY <1>3, <1>4

\* A mesh on the shelf is painted, or not, and its run ends.
LEMMA ServedEffect ==
    ASSUME NEW l \in Loop, NEW c \in Execute, NEW g \in Nat, NEW v \in Val
    PROVE  /\ Finished(l, Served(l, c, g, v), c, g, v)
           /\ Served(l, c, g, v).shown = IF l.viewport = "made" THEN c.val ELSE l.shown
<1> DEFINE m == Served(l, c, g, v)
           k == IF l.viewport = "made" THEN [l EXCEPT !.shown = c.val]
                                       ELSE [l EXCEPT !.status = "Error"]
<1>1. c.val \in Val
  BY DEF Execute
<1>2. /\ k \in Loop
      /\ k.calls = l.calls /\ k.waiting = l.waiting
      /\ k.pending = l.pending /\ k.isRunning = l.isRunning /\ k.move = l.move
      /\ k.inflight = l.inflight /\ k.inflightGen = l.inflightGen
      /\ k.viewport = l.viewport /\ k.shelf = l.shelf
      /\ k.shown = IF l.viewport = "made" THEN c.val ELSE l.shown
  BY <1>1 DEF Loop
<1>3. m = FinishRun(k, c, g, v)
  BY DEF Served
<1> HIDE DEF k, m
<1>4. Finished(k, m, c, g, v) /\ m.shown = k.shown
  BY <1>2, <1>3, FinishRunEffect
<1>5. Finished(l, m, c, g, v)
  BY <1>2, <1>4 DEF Finished
<1> QED
  BY <1>2, <1>4, <1>5 DEF m

\* Everything that stands for a call still does when one of them has ended, if it stands
\* for another or for one that has just been sent.
LEMMA FinishKeepsAlive ==
    ASSUME NEW l \in Loop, NEW m \in Loop, NEW c, NEW g, NEW v, NEW R, NEW X,
           Finished(l, m, c, g, v), Alive(l, R),
           \A d \in R : d.live => d = c \/ d \in X
    PROVE  Alive(m, X \cup Range(m.calls))
<1>1. /\ Len(l.calls) \in Nat /\ Len(m.calls) \in Nat
      /\ \A i \in 1 .. Len(m.calls) : m.calls[i] \in Range(m.calls)
  BY LoopSequences DEF Range
<1>2. SlotAlive(m, X \cup Range(m.calls))
  <2>1. SUFFICES ASSUME m.inflight # NoRun
                 PROVE  \E d \in X \cup Range(m.calls) :
                            /\ d.live /\ d.kind = "execute" /\ d.by = "flush"
                            /\ d.id = m.inflight /\ d.gen = m.inflightGen
    BY DEF SlotAlive
  <2>2. CASE /\ m.inflight = l.inflight /\ m.inflightGen = l.inflightGen
             /\ ~(c.by = "flush" /\ l.inflightGen = c.gen)
    <3>1. PICK d \in R : /\ d.live /\ d.kind = "execute" /\ d.by = "flush"
                         /\ d.id = l.inflight /\ d.gen = l.inflightGen
      BY <2>1, <2>2 DEF Alive, SlotAlive
    <3>2. d \in X
      BY <2>2, <3>1
    <3> QED
      BY <2>2, <3>1, <3>2
  <2>3. CASE \E i \in 1 .. Len(m.calls) : /\ i > Len(l.calls)
                                          /\ m.calls[i].id = m.inflight
                                          /\ m.calls[i].gen = m.inflightGen
    <3>1. PICK i \in 1 .. Len(m.calls) : /\ i > Len(l.calls)
                                         /\ m.calls[i].id = m.inflight
                                         /\ m.calls[i].gen = m.inflightGen
      BY <2>3
    <3>2. NewFlush(m.calls[i], g, v)
      BY <3>1 DEF Finished, Extends
    <3> QED
      BY <1>1, <3>1, <3>2 DEF NewFlush
  <2> QED
    BY <2>1, <2>2, <2>3 DEF Finished
<1>3. WaitersAlive(m, X \cup Range(m.calls))
  <2>1. SUFFICES ASSUME NEW w \in Range(m.waiting)
                 PROVE  \E d \in X \cup Range(m.calls) :
                            d.live /\ d.kind = "execute" /\ d.by = "flush" /\ d.id = w.on
    BY DEF WaitersAlive
  <2>2. w \in Range(l.waiting) /\ w.on # c.id
    BY DEF Finished
  <2>3. PICK d \in R : d.live /\ d.kind = "execute" /\ d.by = "flush" /\ d.id = w.on
    BY <2>2 DEF Alive, WaitersAlive
  <2>4. d \in X
    BY <2>2, <2>3
  <2> QED
    BY <2>3, <2>4
<1>4. ButtonAlive(m, X \cup Range(m.calls))
  BY DEF ButtonAlive, Finished
<1>5. MoveAlive(m, X \cup Range(m.calls))
  <2>1. SUFFICES ASSUME m.move # None
                 PROVE  \E d \in X \cup Range(m.calls) : d.live /\ d.by = "move"
    BY DEF MoveAlive
  <2>2. c.by # "move" /\ m.move = l.move
    BY <2>1 DEF Finished
  <2>3. PICK d \in R : d.live /\ d.by = "move"
    BY <2>1, <2>2 DEF Alive, MoveAlive
  <2> QED
    BY <2>2, <2>3
<1> QED
  BY <1>2, <1>3, <1>4, <1>5 DEF Alive

\* When the viewport has loaded, or has not, all that waited for it has ended, and the last
\* mesh that was painted is the last of the shelf.
Unshelved(l, m, viewport, g, v) ==
    /\ Extends(l.calls, m.calls, g, v)
    /\ m.pending = l.pending /\ m.viewport = viewport /\ m.shelf = <<>>
    /\ m.shown = IF l.shelf # <<>> /\ viewport = "made"
                 THEN l.shelf[Len(l.shelf)].val ELSE l.shown
    /\ Alive(m, Range(m.calls))
    /\ \A w \in Range(m.waiting) : w \in Range(l.waiting)
    /\ \A w \in Range(l.waiting) :
           l.pending <= w.gen /\ w.gen >= g
               => w \in Range(m.waiting) \/ Len(m.calls) > Len(l.calls)

\* Every run on the shelf ends, in order.
LEMMA UnshelveEffect ==
    ASSUME NEW l \in Loop, NEW viewport \in Loaded, NEW g \in Nat, NEW v \in Val,
           Alive(l, InHand(l))
    PROVE  Unshelved(l, Unshelve(l, viewport, g, v), viewport, g, v)
<1>1. PICK r : Servings(r, l, viewport, g, v)
  BY UnshelveSteps
<1> DEFINE q == l.shelf
           N == Len(q)
           Rest(n) == {q[i] : i \in n + 1 .. N}
           Fine(n) == /\ Extends(l.calls, r[n].calls, g, v)
                      /\ r[n].pending = l.pending /\ r[n].viewport = viewport
                      /\ r[n].shelf = <<>>
                      /\ r[n].shown = IF n # 0 /\ viewport = "made" THEN q[n].val ELSE l.shown
                      /\ Alive(r[n], Rest(n) \cup Range(r[n].calls))
                      /\ \A w \in Range(r[n].waiting) : w \in Range(l.waiting)
                      /\ \A w \in Range(l.waiting) :
                             l.pending <= w.gen /\ w.gen >= g
                                 => \/ w \in Range(r[n].waiting)
                                    \/ Len(r[n].calls) > Len(l.calls)
           S == {n \in 0 .. N : Fine(n)}
<1>2. N \in Nat /\ (\A i \in 1 .. N : q[i] \in Execute) /\ q \in Seq(Execute)
  BY LoopSequences
<1>3. /\ r \in [0 .. N -> Loop] /\ r[0] = [l EXCEPT !.viewport = viewport, !.shelf = <<>>]
      /\ \A n \in 1 .. N : r[n] = Served(r[n - 1], q[n], g, v)
      /\ Unshelve(l, viewport, g, v) = r[N]
  BY <1>1 DEF Servings
<1>4. \A n \in 0 .. N : r[n] \in Loop
  BY <1>3
<1>5. /\ 0 \in 0 .. N /\ N \in 0 .. N /\ 1 .. 0 = {} /\ N + 1 .. N = {}
      /\ \A i \in 1 .. N : i \in 0 + 1 .. N
      /\ q # <<>> <=> N # 0
  BY <1>2
<1>6. \A d : d \in Range(q) => d \in Rest(0)
  BY <1>2, <1>5 DEF Range
<1> HIDE DEF N, q
<1>7. Fine(0)
  <2>1. /\ r[0].calls = l.calls /\ r[0].waiting = l.waiting /\ r[0].isRunning = l.isRunning
        /\ r[0].move = l.move /\ r[0].pending = l.pending /\ r[0].viewport = viewport
        /\ r[0].shelf = <<>> /\ r[0].shown = l.shown
        /\ r[0].inflight = l.inflight /\ r[0].inflightGen = l.inflightGen
    BY <1>3 DEF Loop
  <2>2. Extends(l.calls, r[0].calls, g, v)
    BY <2>1, LoopSequences DEF Extends
  <2>3. \A d \in InHand(l) : d \in Rest(0) \cup Range(r[0].calls)
    BY <1>6, <2>1 DEF InHand, q
  <2> HIDE DEF Rest
  <2>4. Alive(r[0], Rest(0) \cup Range(r[0].calls))
    BY <2>1, <2>3 DEF Alive, SlotAlive, WaitersAlive, ButtonAlive, MoveAlive
  <2> QED
    BY <2>1, <2>2, <2>4
<1>8. ASSUME NEW n \in 1 .. N, Fine(n - 1) PROVE Fine(n)
  <2>1. /\ n - 1 \in 0 .. N /\ n \in 0 .. N /\ n \in Nat /\ n # 0
        /\ \A i \in (n - 1) + 1 .. N : i = n \/ i \in n + 1 .. N
    BY <1>2
  <2> DEFINE k == r[n - 1]
             m == r[n]
  <2>2. k \in Loop /\ m \in Loop /\ q[n] \in Execute /\ m = Served(k, q[n], g, v)
    BY <1>2, <1>3, <1>4, <2>1
  <2>3. \A d \in Rest(n - 1) \cup Range(k.calls) :
            d = q[n] \/ d \in Rest(n) \cup Range(k.calls)
    BY <2>1
  <2>4. /\ Extends(l.calls, k.calls, g, v)
        /\ k.pending = l.pending /\ k.viewport = viewport /\ k.shelf = <<>>
        /\ Alive(k, Rest(n - 1) \cup Range(k.calls))
        /\ \A w \in Range(k.waiting) : w \in Range(l.waiting)
        /\ \A w \in Range(l.waiting) :
               l.pending <= w.gen /\ w.gen >= g
                   => w \in Range(k.waiting) \/ Len(k.calls) > Len(l.calls)
    BY <1>8
  <2> HIDE DEF k, m, Rest
  <2>5. /\ Finished(k, m, q[n], g, v)
        /\ m.shown = IF k.viewport = "made" THEN q[n].val ELSE k.shown
    BY <2>2, ServedEffect
  <2>6. /\ Extends(l.calls, m.calls, g, v)
        /\ Len(l.calls) <= Len(k.calls) /\ Len(k.calls) <= Len(m.calls)
    <3>1. l.calls \in Seq(Call) /\ k.calls \in Seq(Call) /\ m.calls \in Seq(Call)
      BY <2>2, LoopSequences
    <3>2. Extends(k.calls, m.calls, g, v)
      BY <2>5 DEF Finished
    <3> QED
      BY <2>4, <3>1, <3>2, ExtendsMore
  <2>7. m.pending = l.pending /\ m.viewport = viewport /\ m.shelf = <<>>
    BY <2>4, <2>5 DEF Finished
  <2>8. m.shown = IF n # 0 /\ viewport = "made" THEN q[n].val ELSE l.shown
    <3>1. viewport # "made" => k.shown = l.shown
      BY <1>8 DEF k
    <3> QED
      BY <2>1, <2>4, <2>5, <3>1
  <2>9. Alive(m, Rest(n) \cup Range(m.calls))
    <3>1. Alive(m, (Rest(n) \cup Range(k.calls)) \cup Range(m.calls))
      BY <2>2, <2>3, <2>4, <2>5, FinishKeepsAlive
    <3>2. \A d \in Range(k.calls) : d \in Range(m.calls)
      <4>1. k.calls \in Seq(Call) /\ m.calls \in Seq(Call) /\ Extends(k.calls, m.calls, g, v)
        BY <2>2, <2>5, LoopSequences DEF Finished
      <4>2. /\ DOMAIN k.calls = 1 .. Len(k.calls) /\ DOMAIN m.calls = 1 .. Len(m.calls)
            /\ \A i \in 1 .. Len(k.calls) : i \in 1 .. Len(m.calls) /\ m.calls[i] = k.calls[i]
        BY <4>1 DEF Extends
      <4> QED
        BY <4>2 DEF Range
    <3>3. (Rest(n) \cup Range(k.calls)) \cup Range(m.calls) = Rest(n) \cup Range(m.calls)
      BY <3>2
    <3> QED
      BY <3>1, <3>3
  <2>10. \A w \in Range(m.waiting) : w \in Range(l.waiting)
    BY <2>4, <2>5 DEF Finished
  <2>11. ASSUME NEW w \in Range(l.waiting), l.pending <= w.gen, w.gen >= g
         PROVE  w \in Range(m.waiting) \/ Len(m.calls) > Len(l.calls)
    <3>1. Len(l.calls) \in Nat /\ Len(k.calls) \in Nat /\ Len(m.calls) \in Nat
      BY <2>2, LoopSequences
    <3>2. CASE Len(k.calls) > Len(l.calls)
      BY <2>6, <3>1, <3>2
    <3>3. CASE w \in Range(k.waiting) /\ w.on # q[n].id
      BY <2>5, <3>3 DEF Finished
    <3>4. CASE w \in Range(k.waiting) /\ w.on = q[n].id
      <4>1. Len(m.calls) > Len(k.calls)
        BY <2>4, <2>5, <2>11, <3>4 DEF Finished
      <4> QED
        BY <2>6, <3>1, <4>1
    <3> QED
      BY <2>4, <2>11, <3>2, <3>3, <3>4
  <2> QED
    BY <2>6, <2>7, <2>8, <2>9, <2>10, <2>11 DEF m
<1>9. Fine(N)
  <2> HIDE DEF Fine
  <2>1. 0 \in S /\ \A n \in 1 .. N : n - 1 \in S => n \in S
    BY <1>5, <1>7, <1>8, <1>2
  <2> HIDE DEF S
  <2>2. N \in S
    BY <1>2, <1>5, <2>1, UpTo
  <2> QED
    BY <2>2 DEF S
<1>10. Rest(N) = {}
  BY <1>5
<1>11. Rest(N) \cup Range(r[N].calls) = Range(r[N].calls)
  BY <1>10
<1> HIDE DEF Rest
<1>12. Alive(r[N], Range(r[N].calls))
  BY <1>9, <1>11
<1>13. r[N].shown = IF l.shelf # <<>> /\ viewport = "made"
                    THEN l.shelf[Len(l.shelf)].val ELSE l.shown
  BY <1>5, <1>9 DEF N, q
<1>14. Unshelved(l, r[N], viewport, g, v)
  BY <1>9, <1>12, <1>13 DEF Unshelved
<1> QED
  BY <1>3, <1>14

-----------------------------------------------------------------------------
(* The calls on their way, when one is sent and when some flushes send more. *)

\* A sequence with one more.
LEMMA AppendIs ==
    ASSUME NEW T, NEW s \in Seq(T), NEW c \in T
    PROVE  /\ Len(s) \in Nat /\ Len(Append(s, c)) = Len(s) + 1
           /\ Append(s, c) \in Seq(T)
           /\ Append(s, c)[Len(s) + 1] = c
           /\ \A i \in 1 .. Len(s) : Append(s, c)[i] = s[i] /\ i \in 1 .. Len(s) + 1
           /\ \A i \in 1 .. Len(s) + 1 : i \in 1 .. Len(s) \/ i = Len(s) + 1
           /\ Len(s) + 1 \in 1 .. Len(s) + 1
  OBVIOUS

\* A call that is sent times out after those before it.
LEMMA PostKeepsOrder ==
    ASSUME NEW s \in Seq(Call), NEW c \in Call, c.live, InOrder(s)
    PROVE  InOrder(Append(s, c))
<1> DEFINE t == Append(s, c)
<1>1. /\ Len(s) \in Nat /\ Len(t) = Len(s) + 1 /\ t[Len(s) + 1] = c
      /\ \A i \in 1 .. Len(s) : t[i] = s[i]
      /\ \A i \in 1 .. Len(s) + 1 : i \in 1 .. Len(s) \/ i = Len(s) + 1
  BY AppendIs
<1> HIDE DEF t
<1>2. SUFFICES ASSUME NEW i \in 1 .. Len(t), NEW j \in 1 .. Len(t),
                      i < j, SameLimit(t[i], t[j]), ~t[j].live
               PROVE  ~t[i].live
  BY DEF InOrder, t
<1>3. j \in 1 .. Len(s) /\ i \in 1 .. Len(s)
  BY <1>1, <1>2
<1> QED
  BY <1>1, <1>2, <1>3 DEF InOrder

\* A call that is no harvest leaves the newest harvest what it was.
LEMMA PostKeepsHarvest ==
    ASSUME NEW s \in Seq(Call), NEW c \in Call, NEW a, NEW d,
           HarvestKnown(s, a, d), c.kind # "resolve"
    PROVE  HarvestKnown(Append(s, c), a, d)
<1> DEFINE t == Append(s, c)
<1>1. /\ Len(s) \in Nat /\ Len(t) = Len(s) + 1 /\ t[Len(s) + 1] = c
      /\ \A i \in 1 .. Len(s) : t[i] = s[i] /\ i \in 1 .. Len(s) + 1
      /\ \A i \in 1 .. Len(s) + 1 : i \in 1 .. Len(s) \/ i = Len(s) + 1
  BY AppendIs
<1> HIDE DEF t
<1>2. ASSUME NEW i \in 1 .. Len(t), t[i].kind = "resolve",
             \A j \in 1 .. Len(t) : j > i => t[j].kind # "resolve"
      PROVE  IF t[i].live THEN t[i].header = a ELSE d = a
  <2>1. i \in 1 .. Len(s) /\ t[i] = s[i]
    BY <1>1, <1>2
  <2>2. \A j \in 1 .. Len(s) : j > i => s[j].kind # "resolve"
    BY <1>1, <1>2
  <2> QED
    BY <1>2, <2>1, <2>2 DEF HarvestKnown
<1>3. ASSUME \A i \in 1 .. Len(t) : t[i].kind # "resolve" PROVE d = a
  <2>1. \A i \in 1 .. Len(s) : s[i].kind # "resolve"
    BY <1>1, <1>3
  <2> QED
    BY <2>1 DEF HarvestKnown
<1> QED
  BY <1>2, <1>3 DEF HarvestKnown, t

\* A harvest that is sent is the newest.
LEMMA PostHarvest ==
    ASSUME NEW s \in Seq(Call), NEW c \in Call, NEW d, c.kind = "resolve", c.live
    PROVE  HarvestKnown(Append(s, c), c.header, d)
<1> DEFINE t == Append(s, c)
<1>1. /\ Len(s) \in Nat /\ Len(t) = Len(s) + 1 /\ t[Len(s) + 1] = c
      /\ \A i \in 1 .. Len(s) + 1 : i \in 1 .. Len(s) \/ i = Len(s) + 1
      /\ Len(s) + 1 \in 1 .. Len(s) + 1
  BY AppendIs
<1> HIDE DEF t
<1>2. ASSUME NEW i \in 1 .. Len(t), \A j \in 1 .. Len(t) : j > i => t[j].kind # "resolve"
      PROVE  t[i] = c
  BY <1>1, <1>2
<1>3. ~\A i \in 1 .. Len(t) : t[i].kind # "resolve"
  BY <1>1
<1> QED
  BY <1>2, <1>3 DEF HarvestKnown, t

\* An execute that is sent is the newest.
LEMMA PostPaints ==
    ASSUME NEW s \in Seq(Call), NEW c \in Call, NEW sh, c.kind = "execute", c.live, Right(c, sh)
    PROVE  Painting(Append(s, c), sh) /\ ~NoneLive(Append(s, c))
<1> DEFINE t == Append(s, c)
<1>1. /\ Len(s) \in Nat /\ Len(t) = Len(s) + 1 /\ t[Len(s) + 1] = c
      /\ \A i \in 1 .. Len(s) + 1 : i \in 1 .. Len(s) \/ i = Len(s) + 1
      /\ Len(s) + 1 \in 1 .. Len(s) + 1
  BY AppendIs
<1> HIDE DEF t
<1>2. ASSUME NEW i \in 1 .. Len(t), LastExecute(t, i) PROVE t[i] = c
  BY <1>1, <1>2 DEF LastExecute
<1> QED
  BY <1>1, <1>2 DEF Painting, NoneLive, t

\* A call that is no execute leaves the newest execute what it was.
LEMMA PostKeepsMesh ==
    ASSUME NEW s \in Seq(Call), NEW c \in Call, NEW sh, c.kind # "execute"
    PROVE  /\ Painting(s, sh) => Painting(Append(s, c), sh)
           /\ NoneLive(Append(s, c)) => NoneLive(s)
<1> DEFINE t == Append(s, c)
<1>1. /\ Len(s) \in Nat /\ Len(t) = Len(s) + 1 /\ t[Len(s) + 1] = c
      /\ \A i \in 1 .. Len(s) : t[i] = s[i] /\ i \in 1 .. Len(s) + 1
      /\ \A i \in 1 .. Len(s) + 1 : i \in 1 .. Len(s) \/ i = Len(s) + 1
  BY AppendIs
<1> HIDE DEF t
<1>2. ASSUME Painting(s, sh), NEW i \in 1 .. Len(t), LastExecute(t, i), t[i].live
      PROVE  Right(t[i], sh)
  <2>1. i \in 1 .. Len(s) /\ t[i] = s[i]
    BY <1>1, <1>2 DEF LastExecute
  <2>2. LastExecute(s, i)
    BY <1>1, <1>2, <2>1 DEF LastExecute
  <2> QED
    BY <1>2, <2>1, <2>2 DEF Painting
<1>3. ASSUME NoneLive(t) PROVE NoneLive(s)
  BY <1>1, <1>3 DEF NoneLive
<1> QED
  BY <1>2, <1>3 DEF Painting, t

\* Flushes time out after the calls before them.
LEMMA FlushesKeepOrder ==
    ASSUME NEW s \in Seq(Call), NEW t \in Seq(Call), NEW g, NEW v, Extends(s, t, g, v), InOrder(s)
    PROVE  InOrder(t)
<1>1. Len(s) \in Nat /\ Len(t) \in Nat
  OBVIOUS
<1>2. SUFFICES ASSUME NEW i \in 1 .. Len(t), NEW j \in 1 .. Len(t),
                      i < j, SameLimit(t[i], t[j]), ~t[j].live
               PROVE  ~t[i].live
  BY DEF InOrder
<1>3. ~(j > Len(s))
  BY <1>2 DEF Extends, NewFlush
<1>4. j \in 1 .. Len(s) /\ i \in 1 .. Len(s)
  BY <1>1, <1>2, <1>3
<1>5. t[i] = s[i] /\ t[j] = s[j]
  BY <1>4 DEF Extends
<1> QED
  BY <1>2, <1>4, <1>5 DEF InOrder

\* Flushes leave the newest harvest what it was.
LEMMA FlushesKeepHarvest ==
    ASSUME NEW s \in Seq(Call), NEW t \in Seq(Call), NEW g, NEW v, NEW a, NEW d,
           Extends(s, t, g, v), HarvestKnown(s, a, d)
    PROVE  HarvestKnown(t, a, d)
<1>1. Len(s) \in Nat /\ Len(t) \in Nat /\ Len(s) <= Len(t)
  BY DEF Extends
<1>2. \A i \in 1 .. Len(s) : i \in 1 .. Len(t) /\ t[i] = s[i]
  BY <1>1 DEF Extends
<1>3. \A i \in 1 .. Len(t) : i \in 1 .. Len(s) \/ t[i].kind = "execute"
  BY <1>1 DEF Extends, NewFlush
<1>4. ASSUME NEW i \in 1 .. Len(t), t[i].kind = "resolve",
             \A j \in 1 .. Len(t) : j > i => t[j].kind # "resolve"
      PROVE  IF t[i].live THEN t[i].header = a ELSE d = a
  <2>1. i \in 1 .. Len(s) /\ t[i] = s[i]
    BY <1>2, <1>3, <1>4
  <2>2. \A j \in 1 .. Len(s) : j > i => s[j].kind # "resolve"
    BY <1>2, <1>4
  <2> QED
    BY <1>4, <2>1, <2>2 DEF HarvestKnown
<1>5. ASSUME \A i \in 1 .. Len(t) : t[i].kind # "resolve" PROVE d = a
  <2>1. \A i \in 1 .. Len(s) : s[i].kind # "resolve"
    BY <1>2, <1>5
  <2> QED
    BY <2>1 DEF HarvestKnown
<1> QED
  BY <1>4, <1>5 DEF HarvestKnown

\* The last execute is one of the new, if there are any, and what it was if there are none.
LEMMA FlushesPaint ==
    ASSUME NEW s \in Seq(Call), NEW t \in Seq(Call), NEW sh, Extends(s, t, sh.gen, sh.val)
    PROVE  /\ Len(t) > Len(s) => Painting(t, sh) /\ ~NoneLive(t)
           /\ ~(Len(t) > Len(s)) => t = s
<1>1. Len(s) \in Nat /\ Len(t) \in Nat /\ Len(s) <= Len(t)
  BY DEF Extends
<1>2. ASSUME Len(t) > Len(s) PROVE Painting(t, sh) /\ ~NoneLive(t)
  <2>1. Len(t) \in 1 .. Len(t) /\ NewFlush(t[Len(t)], sh.gen, sh.val)
    BY <1>1, <1>2 DEF Extends
  <2>2. ASSUME NEW i \in 1 .. Len(t), LastExecute(t, i) PROVE i = Len(t)
    BY <1>1, <2>1, <2>2 DEF LastExecute, NewFlush
  <2> QED
    BY <2>1, <2>2 DEF Painting, NoneLive, NewFlush, Right
<1>3. ASSUME ~(Len(t) > Len(s)) PROVE t = s
  <2>1. Len(t) = Len(s)
    BY <1>1, <1>3
  <2>2. \A i \in 1 .. Len(s) : t[i] = s[i]
    BY DEF Extends
  <2> QED
    BY <2>1, <2>2
<1> QED
  BY <1>2, <1>3

-----------------------------------------------------------------------------
(* The calls on their way, when one of them is answered or times out.      *)

\* A sequence without its first.
LEMMA TailIs ==
    ASSUME NEW T, NEW s \in Seq(T), s # <<>>
    PROVE  /\ Len(s) \in Nat /\ Len(Tail(s)) = Len(s) - 1 /\ Tail(s) \in Seq(T)
           /\ Head(s) = s[1] /\ 1 \in 1 .. Len(s) /\ s[1] \in T
           /\ \A i \in 1 .. Len(s) - 1 : Tail(s)[i] = s[i + 1] /\ i + 1 \in 1 .. Len(s)
           /\ \A i \in 1 .. Len(s) : i # 1 => i - 1 \in 1 .. Len(s) - 1 /\ Tail(s)[i - 1] = s[i]
  OBVIOUS

\* The oldest call is answered: the others time out in the order they did.
LEMMA TailKeepsOrder ==
    ASSUME NEW s \in Seq(Call), s # <<>>, InOrder(s)
    PROVE  InOrder(Tail(s))
<1> DEFINE t == Tail(s)
<1>1. /\ Len(s) \in Nat /\ Len(t) = Len(s) - 1
      /\ \A i \in 1 .. Len(s) - 1 : t[i] = s[i + 1] /\ i + 1 \in 1 .. Len(s)
  BY TailIs
<1> HIDE DEF t
<1>2. SUFFICES ASSUME NEW i \in 1 .. Len(t), NEW j \in 1 .. Len(t),
                      i < j, SameLimit(t[i], t[j]), ~t[j].live
               PROVE  ~t[i].live
  BY DEF InOrder, t
<1>3. t[i] = s[i + 1] /\ t[j] = s[j + 1] /\ i + 1 \in 1 .. Len(s) /\ j + 1 \in 1 .. Len(s)
  BY <1>1
<1>4. i + 1 < j + 1
  BY <1>1, <1>2
<1> QED
  BY <1>2, <1>3, <1>4 DEF InOrder

\* A head that is no newest harvest, or has timed out, leaves the harvests as they were.
LEMMA TailKeepsHarvest ==
    ASSUME NEW s \in Seq(Call), s # <<>>, NEW a, NEW d, HarvestKnown(s, a, d),
           \/ s[1].kind # "resolve"
           \/ ~s[1].live
           \/ \E j \in 1 .. Len(s) : j > 1 /\ s[j].kind = "resolve"
    PROVE  HarvestKnown(Tail(s), a, d)
<1> DEFINE t == Tail(s)
<1>1. /\ Len(s) \in Nat /\ Len(t) = Len(s) - 1 /\ 1 \in 1 .. Len(s)
      /\ \A i \in 1 .. Len(s) - 1 : t[i] = s[i + 1] /\ i + 1 \in 1 .. Len(s)
      /\ \A i \in 1 .. Len(s) : i # 1 => i - 1 \in 1 .. Len(s) - 1 /\ t[i - 1] = s[i]
  BY TailIs
<1> HIDE DEF t
<1>2. ASSUME NEW i \in 1 .. Len(t), t[i].kind = "resolve",
             \A j \in 1 .. Len(t) : j > i => t[j].kind # "resolve"
      PROVE  IF t[i].live THEN t[i].header = a ELSE d = a
  <2>1. i + 1 \in 1 .. Len(s) /\ t[i] = s[i + 1]
    BY <1>1
  <2>2. ASSUME NEW j \in 1 .. Len(s), j > i + 1 PROVE s[j].kind # "resolve"
    <3>1. j # 1 /\ j - 1 > i
      BY <1>1, <2>2
    <3>2. j - 1 \in 1 .. Len(t) /\ t[j - 1] = s[j]
      BY <1>1, <3>1
    <3> QED
      BY <1>2, <3>1, <3>2
  <2> QED
    BY <1>2, <2>1, <2>2 DEF HarvestKnown
<1>3. ASSUME \A i \in 1 .. Len(t) : t[i].kind # "resolve" PROVE d = a
  <2>1. ASSUME NEW j \in 1 .. Len(s), j > 1 PROVE s[j].kind # "resolve"
    <3>1. j # 1
      BY <2>1
    <3>2. j - 1 \in 1 .. Len(t) /\ t[j - 1] = s[j]
      BY <1>1, <3>1
    <3> QED
      BY <1>3, <3>2
  <2>2. CASE s[1].kind = "resolve"
    <3>1. \A j \in 1 .. Len(s) : j > 1 => s[j].kind # "resolve"
      BY <2>1
    <3>2. ~s[1].live
      BY <2>2, <3>1
    <3>3. 1 \in 1 .. Len(s)
      BY <1>1
    <3> QED
      BY <2>2, <3>1, <3>2, <3>3 DEF HarvestKnown
  <2>3. CASE s[1].kind # "resolve"
    <3>1. \A i \in 1 .. Len(s) : i = 1 \/ i > 1
      OBVIOUS
    <3>2. \A i \in 1 .. Len(s) : s[i].kind # "resolve"
      BY <2>1, <2>3, <3>1
    <3> QED
      BY <3>2 DEF HarvestKnown
  <2> QED
    BY <2>2, <2>3
<1> QED
  BY <1>2, <1>3 DEF HarvestKnown, t

\* The newest harvest, once applied, is what the store declares.
LEMMA TailAppliesHarvest ==
    ASSUME NEW s \in Seq(Call), s # <<>>, NEW a, NEW d, HarvestKnown(s, a, d),
           s[1].kind = "resolve", s[1].live,
           \A j \in 1 .. Len(s) : j > 1 => s[j].kind # "resolve"
    PROVE  HarvestKnown(Tail(s), a, s[1].header)
<1> DEFINE t == Tail(s)
<1>1. /\ Len(s) \in Nat /\ Len(t) = Len(s) - 1 /\ 1 \in 1 .. Len(s)
      /\ \A i \in 1 .. Len(s) - 1 : t[i] = s[i + 1] /\ i + 1 \in 1 .. Len(s)
  BY TailIs
<1> HIDE DEF t
<1>2. \A i \in 1 .. Len(t) : t[i].kind # "resolve"
  <2>1. SUFFICES ASSUME NEW i \in 1 .. Len(t) PROVE t[i].kind # "resolve"
    OBVIOUS
  <2>2. i + 1 > 1 /\ i + 1 \in 1 .. Len(s) /\ t[i] = s[i + 1]
    BY <1>1
  <2> QED
    BY <2>2
<1>3. s[1].header = a
  BY <1>1 DEF HarvestKnown
<1> QED
  BY <1>2, <1>3 DEF HarvestKnown, t

\* The oldest call is answered: the newest execute is what it was, unless it was this one.
LEMMA TailKeepsMesh ==
    ASSUME NEW s \in Seq(Call), s # <<>>, NEW sh
    PROVE  /\ Painting(s, sh) => Painting(Tail(s), sh)
           /\ NoneLive(Tail(s)) /\ (s[1].kind = "execute" => ~s[1].live) => NoneLive(s)
           /\ InOrder(s) /\ s[1].kind = "execute" /\ s[1].live /\ NoneLive(Tail(s)) =>
                  \A j \in 1 .. Len(s) : j > 1 => s[j].kind # "execute"
<1> DEFINE t == Tail(s)
<1>1. /\ Len(s) \in Nat /\ Len(t) = Len(s) - 1 /\ 1 \in 1 .. Len(s)
      /\ \A i \in 1 .. Len(s) - 1 : t[i] = s[i + 1] /\ i + 1 \in 1 .. Len(s)
      /\ \A i \in 1 .. Len(s) : i # 1 => i - 1 \in 1 .. Len(s) - 1 /\ t[i - 1] = s[i]
  BY TailIs
<1> HIDE DEF t
<1>2. ASSUME Painting(s, sh), NEW i \in 1 .. Len(t), LastExecute(t, i), t[i].live
      PROVE  Right(t[i], sh)
  <2>1. i + 1 \in 1 .. Len(s) /\ t[i] = s[i + 1]
    BY <1>1
  <2>2. ASSUME NEW j \in 1 .. Len(s), j > i + 1 PROVE s[j].kind # "execute"
    <3>1. j # 1 /\ j - 1 > i
      BY <1>1, <2>2
    <3>2. j - 1 \in 1 .. Len(t) /\ t[j - 1] = s[j]
      BY <1>1, <3>1
    <3> QED
      BY <1>2, <3>1, <3>2 DEF LastExecute
  <2>3. LastExecute(s, i + 1)
    BY <1>2, <2>1, <2>2 DEF LastExecute
  <2> QED
    BY <1>2, <2>1, <2>3 DEF Painting
<1>3. ASSUME NoneLive(t), s[1].kind = "execute" => ~s[1].live PROVE NoneLive(s)
  <2>1. SUFFICES ASSUME NEW i \in 1 .. Len(s), s[i].kind = "execute" PROVE ~s[i].live
    BY DEF NoneLive
  <2>2. CASE i = 1
    BY <1>3, <2>1, <2>2
  <2>3. CASE i # 1
    BY <1>1, <1>3, <2>1, <2>3 DEF NoneLive
  <2> QED
    BY <2>2, <2>3
<1>4. ASSUME InOrder(s), s[1].kind = "execute", s[1].live, NoneLive(t),
             NEW j \in 1 .. Len(s), j > 1, s[j].kind = "execute"
      PROVE  FALSE
  <2>1. j # 1
    BY <1>4
  <2>2. ~s[j].live
    BY <1>1, <1>4, <2>1 DEF NoneLive
  <2>3. SameLimit(s[1], s[j])
    BY <1>4 DEF SameLimit
  <2> QED
    BY <1>1, <1>4, <2>2, <2>3 DEF InOrder
<1> QED
  BY <1>2, <1>3, <1>4 DEF Painting, t

\* The call i is no longer listened for.
TimedOut(s, i) == [s EXCEPT ![i].live = FALSE]

\* The calls when one has timed out.
LEMMA TimedOutIs ==
    ASSUME NEW s \in Seq(Call), NEW i \in 1 .. Len(s)
    PROVE  /\ TimedOut(s, i) \in Seq(Call) /\ Len(TimedOut(s, i)) = Len(s)
           /\ ~TimedOut(s, i)[i].live
           /\ TimedOut(s, i)[i].kind = s[i].kind
           /\ \A j \in 1 .. Len(s) : j # i => TimedOut(s, i)[j] = s[j]
           /\ \A j \in 1 .. Len(s) : TimedOut(s, i)[j].kind = s[j].kind
<1> DEFINE c == [s[i] EXCEPT !.live = FALSE]
<1>1. s[i] \in Call
  OBVIOUS
<1>2. c \in Call /\ ~c.live /\ c.kind = s[i].kind
  BY <1>1 DEF Call, Execute, Analyze, Resolve
<1>3. TimedOut(s, i) = [s EXCEPT ![i] = c]
  BY DEF TimedOut
<1> HIDE DEF c
<1>4. /\ [s EXCEPT ![i] = c] \in Seq(Call) /\ Len([s EXCEPT ![i] = c]) = Len(s)
      /\ [s EXCEPT ![i] = c][i] = c
      /\ \A j \in 1 .. Len(s) : j # i => [s EXCEPT ![i] = c][j] = s[j]
  BY <1>2, ExceptSeq
<1> QED
  BY <1>2, <1>3, <1>4

\* All that time out before it have done so.
TimesOutNext(s, i) ==
    s[i].live /\ \A j \in 1 .. i - 1 : SameLimit(s[i], s[j]) => ~s[j].live

\* A call times out after those before it have.
LEMMA TimeOutKeepsOrder ==
    ASSUME NEW s \in Seq(Call), NEW i \in 1 .. Len(s), InOrder(s), TimesOutNext(s, i)
    PROVE  InOrder(TimedOut(s, i))
<1> DEFINE t == TimedOut(s, i)
<1>1. /\ Len(t) = Len(s) /\ ~t[i].live
      /\ \A j \in 1 .. Len(s) : j # i => t[j] = s[j]
      /\ \A j \in 1 .. Len(s) : t[j].kind = s[j].kind
  BY TimedOutIs
<1>2. \A j, k \in 1 .. Len(s) : SameLimit(t[j], t[k]) <=> SameLimit(s[j], s[k])
  BY <1>1 DEF SameLimit
<1> HIDE DEF t
<1>3. SUFFICES ASSUME NEW j \in 1 .. Len(s), NEW k \in 1 .. Len(s),
                      j < k, SameLimit(t[j], t[k]), ~t[k].live
               PROVE  ~t[j].live
  BY <1>1 DEF InOrder, t
<1>4. CASE j = i
  BY <1>1, <1>4
<1>5. CASE j # i /\ k = i
  <2>1. j \in 1 .. i - 1 /\ SameLimit(s[i], s[j])
    BY <1>2, <1>3, <1>5 DEF SameLimit
  <2> QED
    BY <1>1, <1>5, <2>1 DEF TimesOutNext
<1>6. CASE j # i /\ k # i
  BY <1>1, <1>2, <1>3, <1>6 DEF InOrder
<1> QED
  BY <1>4, <1>5, <1>6

\* A call that is no harvest times out: the newest harvest is what it was.
LEMMA TimeOutKeepsHarvest ==
    ASSUME NEW s \in Seq(Call), NEW i \in 1 .. Len(s), NEW a, NEW d,
           HarvestKnown(s, a, d), s[i].kind # "resolve"
    PROVE  HarvestKnown(TimedOut(s, i), a, d)
<1> DEFINE t == TimedOut(s, i)
<1>1. /\ Len(t) = Len(s)
      /\ \A j \in 1 .. Len(s) : j # i => t[j] = s[j]
      /\ \A j \in 1 .. Len(s) : t[j].kind = s[j].kind
  BY TimedOutIs
<1> HIDE DEF t
<1>2. ASSUME NEW j \in 1 .. Len(s), t[j].kind = "resolve",
             \A k \in 1 .. Len(s) : k > j => t[k].kind # "resolve"
      PROVE  IF t[j].live THEN t[j].header = a ELSE d = a
  <2>1. j # i /\ t[j] = s[j]
    BY <1>1, <1>2
  <2>2. \A k \in 1 .. Len(s) : k > j => s[k].kind # "resolve"
    BY <1>1, <1>2
  <2> QED
    BY <1>2, <2>1, <2>2 DEF HarvestKnown
<1>3. ASSUME \A j \in 1 .. Len(s) : t[j].kind # "resolve" PROVE d = a
  BY <1>1, <1>3 DEF HarvestKnown
<1> QED
  BY <1>1, <1>2, <1>3 DEF HarvestKnown, t

\* A harvest that times out is applied: it is the newest, or a newer one is still to come.
LEMMA TimeOutAppliesHarvest ==
    ASSUME NEW s \in Seq(Call), NEW i \in 1 .. Len(s), NEW a, NEW d,
           HarvestKnown(s, a, d), InOrder(s), s[i].kind = "resolve", s[i].live
    PROVE  HarvestKnown(TimedOut(s, i), a, s[i].header)
<1> DEFINE t == TimedOut(s, i)
<1>1. /\ Len(t) = Len(s) /\ ~t[i].live
      /\ \A j \in 1 .. Len(s) : j # i => t[j] = s[j]
      /\ \A j \in 1 .. Len(s) : t[j].kind = s[j].kind
  BY TimedOutIs
<1> HIDE DEF t
<1>2. ASSUME NEW j \in 1 .. Len(s), t[j].kind = "resolve",
             \A k \in 1 .. Len(s) : k > j => t[k].kind # "resolve"
      PROVE  IF t[j].live THEN t[j].header = a ELSE s[i].header = a
  <2>1. s[j].kind = "resolve" /\ \A k \in 1 .. Len(s) : k > j => s[k].kind # "resolve"
    BY <1>1, <1>2
  <2>2. IF s[j].live THEN s[j].header = a ELSE d = a
    BY <2>1 DEF HarvestKnown
  <2>3. CASE j = i
    BY <1>1, <2>2, <2>3
  <2>4. CASE j # i
    <3>1. ~(i > j)
      BY <2>1
    <3>2. i < j /\ SameLimit(s[i], s[j])
      BY <2>1, <2>4, <3>1 DEF SameLimit
    <3>3. s[j].live
      BY <3>2 DEF InOrder
    <3> QED
      BY <1>1, <2>2, <2>4, <3>3
  <2> QED
    BY <2>3, <2>4
<1>3. ~\A j \in 1 .. Len(s) : t[j].kind # "resolve"
  BY <1>1
<1> QED
  BY <1>1, <1>2, <1>3 DEF HarvestKnown, t

\* What times out paints nothing, and leaves the newest execute what it was if it is none.
LEMMA TimeOutKeepsMesh ==
    ASSUME NEW s \in Seq(Call), NEW i \in 1 .. Len(s), NEW sh
    PROVE  /\ Painting(s, sh) => Painting(TimedOut(s, i), sh)
           /\ NoneLive(TimedOut(s, i)) /\ s[i].kind # "execute" => NoneLive(s)
<1> DEFINE t == TimedOut(s, i)
<1>1. /\ Len(t) = Len(s) /\ ~t[i].live
      /\ \A j \in 1 .. Len(s) : j # i => t[j] = s[j]
      /\ \A j \in 1 .. Len(s) : t[j].kind = s[j].kind
  BY TimedOutIs
<1> HIDE DEF t
<1>2. ASSUME Painting(s, sh), NEW j \in 1 .. Len(s), LastExecute(t, j), t[j].live
      PROVE  Right(t[j], sh)
  <2>1. j # i /\ t[j] = s[j]
    BY <1>1, <1>2
  <2>2. LastExecute(s, j)
    BY <1>1, <1>2 DEF LastExecute
  <2> QED
    BY <1>2, <2>1, <2>2 DEF Painting
<1>3. ASSUME NoneLive(t), s[i].kind # "execute" PROVE NoneLive(s)
  <2>1. SUFFICES ASSUME NEW j \in 1 .. Len(s), s[j].kind = "execute" PROVE ~s[j].live
    BY DEF NoneLive
  <2>2. j # i
    BY <1>3, <2>1
  <2> QED
    BY <1>1, <1>3, <2>1, <2>2 DEF NoneLive
<1> QED
  BY <1>1, <1>2, <1>3 DEF Painting, t

-----------------------------------------------------------------------------
(* The answers.                                                            *)

\* l is the loop that no longer waits for the call c.
Released(l, c) ==
    /\ l \in Loop /\ c \in Call /\ c.live
    /\ l.pending = loop.pending /\ l.waiting = loop.waiting
    /\ l.inflight = loop.inflight /\ l.inflightGen = loop.inflightGen
    /\ l.isRunning = loop.isRunning /\ l.move = loop.move
    /\ l.viewport = loop.viewport /\ l.shelf = loop.shelf /\ l.shown = loop.shown
    /\ \A d \in InHand(loop) : d.live => d = c \/ d \in InHand(l)
    /\ InOrder(l.calls)
    /\ Painting(loop.calls, sheet) => Painting(l.calls, sheet)
    /\ NoneLive(l.calls) /\ c.kind # "execute" => NoneLive(loop.calls)
    /\ Due(loop, sheet.gen) /\ ~(c.kind = "resolve" /\ c.by = "move") => Due(l, sheet.gen)
    /\ c.kind # "resolve" => HarvestKnown(l.calls, asked, sheet.declared)

\* An execute that is the newest is not cancelled, and is of what is wanted.
Concludes(l, c, outcome) ==
    outcome # "error" /\ NoneLive(l.calls) /\ Painting(loop.calls, sheet)
        => outcome # "cancelled" /\ Right(c, sheet)

\* The members of a sequence by their places.
LEMMA RangeOfCalls ==
    ASSUME NEW T, NEW s \in Seq(T)
    PROVE  /\ \A i \in 1 .. Len(s) : s[i] \in Range(s)
           /\ \A d \in Range(s) : \E i \in 1 .. Len(s) : s[i] = d
           /\ Len(s) \in Nat
  BY DEF Range

\* The oldest call is answered.
LEMMA ReplyReleases ==
    ASSUME IInv, loop.calls # <<>>, loop.calls[1].live,
           NEW l, l = [loop EXCEPT !.calls = Tail(@)]
    PROVE  /\ Released(l, loop.calls[1]) /\ l.calls = Tail(loop.calls)
           /\ Head(loop.calls) = loop.calls[1]
<1> DEFINE s == loop.calls
           c == loop.calls[1]
<1>1. loop \in Loop /\ sheet \in Sheet
  BY DEF IInv, Typed
<1>2. s \in Seq(Call) /\ s # <<>> /\ Len(s) \in Nat
  BY <1>1, LoopSequences
<1>3. /\ Tail(s) \in Seq(Call) /\ Len(Tail(s)) = Len(s) - 1 /\ Head(s) = s[1]
      /\ 1 \in 1 .. Len(s) /\ s[1] \in Call
      /\ \A i \in 1 .. Len(s) - 1 : Tail(s)[i] = s[i + 1] /\ i + 1 \in 1 .. Len(s)
      /\ \A i \in 1 .. Len(s) : i # 1 => i - 1 \in 1 .. Len(s) - 1 /\ Tail(s)[i - 1] = s[i]
  BY <1>2, TailIs
<1>4. /\ l \in Loop /\ l.calls = Tail(s)
      /\ l.pending = loop.pending /\ l.waiting = loop.waiting
      /\ l.inflight = loop.inflight /\ l.inflightGen = loop.inflightGen
      /\ l.isRunning = loop.isRunning /\ l.move = loop.move
      /\ l.viewport = loop.viewport /\ l.shelf = loop.shelf /\ l.shown = loop.shown
  BY <1>1, <1>3 DEF Loop
<1>5. ASSUME NEW d \in InHand(loop) PROVE d = c \/ d \in InHand(l)
  <2>1. CASE d \in Range(loop.shelf)
    BY <1>4, <2>1 DEF InHand
  <2>2. CASE d \in Range(s)
    <3>1. PICK i \in 1 .. Len(s) : s[i] = d
      BY <1>2, <2>2, RangeOfCalls
    <3>2. CASE i # 1
      <4>1. Tail(s)[i - 1] = d /\ i - 1 \in 1 .. Len(Tail(s))
        BY <1>3, <3>1, <3>2
      <4>2. d \in Range(Tail(s))
        BY <1>3, <4>1, RangeOfCalls
      <4> QED
        BY <1>4, <4>2 DEF InHand
    <3> QED
      BY <3>1, <3>2
  <2> QED
    BY <2>1, <2>2 DEF InHand
<1>6. InOrder(l.calls)
  BY <1>2, <1>4, TailKeepsOrder DEF IInv
<1>7. /\ Painting(loop.calls, sheet) => Painting(l.calls, sheet)
      /\ NoneLive(l.calls) /\ c.kind # "execute" => NoneLive(loop.calls)
  BY <1>2, <1>4, TailKeepsMesh
<1>8. ASSUME Due(loop, sheet.gen), ~(c.kind = "resolve" /\ c.by = "move")
      PROVE  Due(l, sheet.gen)
  <2>1. CASE \E i \in 1 .. Len(s) : s[i].kind = "resolve" /\ s[i].by = "move" /\ s[i].live
    <3>1. PICK i \in 1 .. Len(s) : s[i].kind = "resolve" /\ s[i].by = "move" /\ s[i].live
      BY <2>1
    <3>2. i # 1
      BY <1>8, <3>1
    <3>3. i - 1 \in 1 .. Len(l.calls) /\ l.calls[i - 1] = s[i]
      BY <1>3, <1>4, <3>1, <3>2
    <3> QED
      BY <3>1, <3>3 DEF Due
  <2> QED
    BY <1>4, <1>8, <2>1 DEF Due
<1>9. c.kind # "resolve" => HarvestKnown(l.calls, asked, sheet.declared)
  BY <1>2, <1>4, TailKeepsHarvest DEF IInv
<1> QED
  BY <1>3, <1>4, <1>5, <1>6, <1>7, <1>8, <1>9 DEF Released

\* A call times out.
LEMMA TimeOutReleases ==
    ASSUME IInv, NEW i \in 1 .. Len(loop.calls), TimesOutNext(loop.calls, i),
           NEW l, l = [loop EXCEPT !.calls[i].live = FALSE]
    PROVE  Released(l, loop.calls[i]) /\ l.calls = TimedOut(loop.calls, i)
<1> DEFINE s == loop.calls
           c == loop.calls[i]
<1>1. loop \in Loop /\ sheet \in Sheet
  BY DEF IInv, Typed
<1>2. s \in Seq(Call) /\ Len(s) \in Nat /\ s[i] \in Call
  BY <1>1, LoopSequences
<1>3. /\ TimedOut(s, i) \in Seq(Call) /\ Len(TimedOut(s, i)) = Len(s)
      /\ \A j \in 1 .. Len(s) : j # i => TimedOut(s, i)[j] = s[j]
  BY <1>2, TimedOutIs
<1>4. l = [loop EXCEPT !.calls = TimedOut(s, i)]
  BY <1>1 DEF TimedOut
<1>5. /\ l \in Loop /\ l.calls = TimedOut(s, i)
      /\ l.pending = loop.pending /\ l.waiting = loop.waiting
      /\ l.inflight = loop.inflight /\ l.inflightGen = loop.inflightGen
      /\ l.isRunning = loop.isRunning /\ l.move = loop.move
      /\ l.viewport = loop.viewport /\ l.shelf = loop.shelf /\ l.shown = loop.shown
  BY <1>1, <1>3, <1>4 DEF Loop
<1>6. ASSUME NEW d \in InHand(loop) PROVE d = c \/ d \in InHand(l)
  <2>1. CASE d \in Range(loop.shelf)
    BY <1>5, <2>1 DEF InHand
  <2>2. CASE d \in Range(s)
    <3>1. PICK j \in 1 .. Len(s) : s[j] = d
      BY <1>2, <2>2, RangeOfCalls
    <3>2. CASE j # i
      <4>1. TimedOut(s, i)[j] = d /\ j \in 1 .. Len(TimedOut(s, i))
        BY <1>3, <3>1, <3>2
      <4>2. d \in Range(TimedOut(s, i))
        BY <1>3, <4>1, RangeOfCalls
      <4> QED
        BY <1>5, <4>2 DEF InHand
    <3> QED
      BY <3>1, <3>2
  <2> QED
    BY <2>1, <2>2 DEF InHand
<1>7. InOrder(l.calls)
  BY <1>2, <1>5, TimeOutKeepsOrder DEF IInv
<1>8. /\ Painting(loop.calls, sheet) => Painting(l.calls, sheet)
      /\ NoneLive(l.calls) /\ c.kind # "execute" => NoneLive(loop.calls)
  <2>1. /\ Painting(s, sheet) => Painting(TimedOut(s, i), sheet)
        /\ NoneLive(TimedOut(s, i)) /\ s[i].kind # "execute" => NoneLive(s)
    BY <1>2, TimeOutKeepsMesh
  <2> QED
    BY <1>5, <2>1
<1>9. ASSUME Due(loop, sheet.gen), ~(c.kind = "resolve" /\ c.by = "move")
      PROVE  Due(l, sheet.gen)
  <2>1. CASE \E j \in 1 .. Len(s) : s[j].kind = "resolve" /\ s[j].by = "move" /\ s[j].live
    <3>1. PICK j \in 1 .. Len(s) : s[j].kind = "resolve" /\ s[j].by = "move" /\ s[j].live
      BY <2>1
    <3>2. j # i
      BY <1>9, <3>1
    <3>3. j \in 1 .. Len(l.calls) /\ l.calls[j] = s[j]
      BY <1>3, <1>5, <3>1, <3>2
    <3> QED
      BY <3>1, <3>3 DEF Due
  <2> QED
    BY <1>5, <1>9, <2>1 DEF Due
<1>10. c.kind # "resolve" => HarvestKnown(l.calls, asked, sheet.declared)
  BY <1>2, <1>5, TimeOutKeepsHarvest DEF IInv
<1>11. c.live
  BY DEF TimesOutNext
<1> QED
  BY <1>2, <1>5, <1>6, <1>7, <1>8, <1>9, <1>10, <1>11 DEF Released

\* What is alive stays so when the slot, the waiters, the button and the move do and the
\* calls that are listened for are still in hand.
LEMMA AliveStays ==
    ASSUME NEW l, NEW m, NEW R, NEW X, Alive(l, R),
           m.inflight = l.inflight, m.inflightGen = l.inflightGen,
           \A w \in Range(m.waiting) : w \in Range(l.waiting),
           m.isRunning => l.isRunning, m.move = l.move,
           \A d \in R : d.live => d \in X
    PROVE  Alive(m, X)
<1>1. SlotAlive(m, X)
  BY DEF Alive, SlotAlive
<1>2. WaitersAlive(m, X)
  BY DEF Alive, WaitersAlive
<1>3. ButtonAlive(m, X)
  BY DEF Alive, ButtonAlive
<1>4. MoveAlive(m, X)
  BY DEF Alive, MoveAlive
<1> QED
  BY <1>1, <1>2, <1>3, <1>4 DEF Alive

\* What is alive stays so when there are more calls.
LEMMA AliveMore ==
    ASSUME NEW l, NEW R, NEW X, Alive(l, R), \A d \in R : d \in X
    PROVE  Alive(l, X)
<1>1. /\ \A d \in R : d.live => d \in X
      /\ \A w \in Range(l.waiting) : w \in Range(l.waiting)
  OBVIOUS
<1> QED
  BY <1>1, AliveStays

\* No call is lost when flushes are started.
LEMMA ExtendsRange ==
    ASSUME NEW T, NEW s \in Seq(T), NEW t \in Seq(T), NEW g, NEW v, Extends(s, t, g, v)
    PROVE  \A d \in Range(s) : d \in Range(t)
<1>1. /\ DOMAIN s = 1 .. Len(s) /\ DOMAIN t = 1 .. Len(t) /\ Len(s) \in Nat /\ Len(t) \in Nat
      /\ \A i \in 1 .. Len(s) : i \in 1 .. Len(t) /\ t[i] = s[i]
  BY DEF Extends
<1> QED
  BY <1>1 DEF Range

\* What a sheet holds.
LEMMA SheetFields ==
    ASSUME NEW sh \in Sheet
    PROVE  sh.declared \in Val /\ sh.val \in Val /\ sh.gen \in Nat /\ sh.commit \in Val \cup {None}
  BY DEF Sheet

\* Loops whose waiters, edit and harvests are the same have the same to start.
LEMMA DueStays ==
    ASSUME NEW l \in Loop, NEW m \in Loop, NEW g \in Nat, NEW v, Due(l, g),
           Extends(l.calls, m.calls, g, v), m.pending = l.pending,
           \A w \in Range(l.waiting) : w.gen = g => w \in Range(m.waiting)
    PROVE  Due(m, g)
<1>1. CASE \E i \in 1 .. Len(l.calls) :
               l.calls[i].kind = "resolve" /\ l.calls[i].by = "move" /\ l.calls[i].live
  <2>1. PICK i \in 1 .. Len(l.calls) :
                 l.calls[i].kind = "resolve" /\ l.calls[i].by = "move" /\ l.calls[i].live
    BY <1>1
  <2>2. i \in 1 .. Len(m.calls) /\ m.calls[i] = l.calls[i]
    BY LoopSequences DEF Extends
  <2> QED
    BY <2>1, <2>2 DEF Due
<1> QED
  BY <1>1 DEF Due

\* The run of the execute c has ended.
LEMMA RunEnds ==
    ASSUME IInv, NEW l, NEW c, Released(l, c), c.kind = "execute", loop' \in Loop,
           Finished(l, loop', c, sheet.gen, sheet.val),
           UNCHANGED <<editorVars, sheet, asked, wanted>>,
           ~failed' /\ NoneLive(l.calls) /\ Painting(loop.calls, sheet)
               => l.shelf = <<>> /\ loop'.shown = sheet.val
    PROVE  IInv'
<1> DEFINE g == sheet.gen
           v == sheet.val
<1>1. /\ loop \in Loop /\ sheet \in Sheet /\ l \in Loop /\ c \in Call
      /\ g \in Nat /\ v \in Val /\ wanted \in Nat
  BY SheetFields DEF IInv, Typed, Released
<1>2. Typed'
  BY DEF IInv, Typed, editorVars
<1>3. l.calls \in Seq(Call) /\ loop'.calls \in Seq(Call)
  BY <1>1, LoopSequences
<1>4. Extends(l.calls, loop'.calls, g, v)
  BY DEF Finished
<1>5. GensBounded'
  <2>1. /\ \A w \in Range(loop'.waiting) : w \in Range(loop.waiting)
        /\ loop'.pending = loop.pending
    BY DEF Finished, Released
  <2> QED
    BY <2>1 DEF IInv, GensBounded
<1>6. Alive(loop, InHand(loop)) /\ \A d \in InHand(loop) : d.live => d = c \/ d \in InHand(l)
  BY DEF IInv, Released
<1>7. Alive(loop', InHand(loop'))
  <2>1. Alive(l, InHand(loop))
    <3>1. /\ l.inflight = loop.inflight /\ l.inflightGen = loop.inflightGen
          /\ \A w \in Range(l.waiting) : w \in Range(loop.waiting)
          /\ l.isRunning => loop.isRunning
          /\ l.move = loop.move
          /\ \A d \in InHand(loop) : d.live => d \in InHand(loop)
      BY DEF Released
    <3> QED
      BY <1>6, <3>1, AliveStays
  <2>2. Alive(loop', InHand(l) \cup Range(loop'.calls))
    BY <1>1, <1>6, <2>1, FinishKeepsAlive
  <2>3. \A d \in InHand(l) \cup Range(loop'.calls) : d \in InHand(loop')
    <3>1. \A d \in Range(l.calls) : d \in Range(loop'.calls)
      BY <1>3, <1>4, ExtendsRange
    <3>2. loop'.shelf = l.shelf
      BY DEF Finished
    <3> QED
      BY <3>1, <3>2 DEF InHand
  <2> QED
    BY <2>2, <2>3, AliveMore
<1>8. InOrder(loop'.calls)
  BY <1>3, <1>4, FlushesKeepOrder DEF Released
<1>9. HarvestKnown(loop'.calls, asked, sheet.declared)
  <2>1. HarvestKnown(l.calls, asked, sheet.declared)
    BY DEF Released
  <2> QED
    BY <1>3, <1>4, <2>1, FlushesKeepHarvest
<1>10. ShelfWaits'
  BY DEF IInv, ShelfWaits, Finished, Released
<1>11. MeshComes(loop', sheet, wanted, failed')
  <2>1. SUFFICES ASSUME sheet.commit = None, wanted = g, ~Due(loop', g)
                 PROVE  MeshKnown(loop', sheet, failed')
    BY DEF MeshComes
  <2>2. CASE Len(loop'.calls) > Len(l.calls)
    BY <1>3, <1>4, <2>2, FlushesPaint DEF MeshKnown
  <2>3. CASE ~(Len(loop'.calls) > Len(l.calls))
    <3>1. loop'.calls = l.calls
      BY <1>3, <1>4, <2>3, FlushesPaint
    <3>2. ~Due(l, g)
      <4>1. ASSUME NEW w \in Range(l.waiting), w.gen = g PROVE w \in Range(loop'.waiting)
        <5>1. w \in Range(loop.waiting) /\ l.pending = loop.pending
          BY DEF Released
        <5>2. l.pending <= w.gen /\ w.gen >= g
          BY <1>1, <4>1, <5>1 DEF IInv, GensBounded
        <5>3. w.on # c.id
          BY <2>3, <5>2 DEF Finished
        <5> QED
          BY <5>3 DEF Finished
      <4>2. loop'.pending = l.pending
        BY DEF Finished
      <4> QED
        BY <1>1, <1>4, <2>1, <4>1, <4>2, DueStays
    <3>3. ~Due(loop, g)
      BY <3>2 DEF Released
    <3>4. Painting(loop.calls, sheet)
      BY <2>1, <3>3 DEF IInv, MeshComes, MeshKnown
    <3>5. Painting(loop'.calls, sheet)
      BY <3>1, <3>4 DEF Released
    <3>6. ASSUME NoneLive(loop'.calls) PROVE Painted(loop', sheet, failed')
      <4>1. failed' \/ (l.shelf = <<>> /\ loop'.shown = sheet.val)
        BY <3>1, <3>4, <3>6
      <4>2. loop'.shelf = l.shelf
        BY DEF Finished
      <4> QED
        BY <4>1, <4>2 DEF Painted
    <3> QED
      BY <3>5, <3>6 DEF MeshKnown
  <2> QED
    BY <2>2, <2>3
<1>12. CommitIsCurrent'
  BY DEF IInv, CommitIsCurrent
<1> QED
  BY <1>2, <1>5, <1>7, <1>8, <1>9, <1>10, <1>11, <1>12 DEF IInv

\* The mesh of the execute c waits for the viewport.
LEMMA MeshShelved ==
    ASSUME IInv, NEW l, NEW c, Released(l, c), c \in Execute, loop' \in Loop,
           Shelved(l, loop', c),
           UNCHANGED <<editorVars, sheet, asked, wanted>>,
           NoneLive(l.calls) /\ Painting(loop.calls, sheet) => c.val = sheet.val
    PROVE  IInv'
<1>1. /\ loop \in Loop /\ sheet \in Sheet /\ l \in Loop
      /\ sheet.gen \in Nat /\ l.shelf \in Seq(Execute)
  BY SheetFields, LoopSequences DEF IInv, Typed, Released
<1>2. Typed'
  BY DEF IInv, Typed, editorVars
<1>3. GensBounded'
  BY DEF IInv, GensBounded, Shelved, Released
<1>4. Alive(loop', InHand(loop'))
  <2>1. Alive(loop, InHand(loop))
    BY DEF IInv
  <2>2. /\ loop'.inflight = loop.inflight /\ loop'.inflightGen = loop.inflightGen
        /\ \A w \in Range(loop'.waiting) : w \in Range(loop.waiting)
        /\ loop'.isRunning => loop.isRunning
        /\ loop'.move = loop.move
    BY DEF Shelved, Released
  <2>3. ASSUME NEW d \in InHand(loop), d.live PROVE d \in InHand(loop')
    <3>1. d = c \/ d \in InHand(l)
      BY <2>3 DEF Released
    <3>2. \A e : e \in Range(loop'.shelf) <=> e \in Range(l.shelf) \/ e = c
      BY <1>1, RangeAppend DEF Shelved
    <3> QED
      BY <3>1, <3>2 DEF InHand, Shelved
  <2>4. \A d \in InHand(loop) : d.live => d \in InHand(loop')
    BY <2>3
  <2> QED
    BY <2>1, <2>2, <2>4, AliveStays
<1>5. InOrder(loop'.calls)
  BY DEF Shelved, Released
<1>6. HarvestKnown(loop'.calls, asked, sheet.declared)
  <2>1. c.kind # "resolve"
    BY DEF Execute
  <2> QED
    BY <2>1 DEF Shelved, Released
<1>7. ShelfWaits'
  BY DEF ShelfWaits, Shelved
<1>8. MeshComes(loop', sheet, wanted, failed')
  <2>1. SUFFICES ASSUME sheet.commit = None, wanted = sheet.gen, ~Due(loop', sheet.gen)
                 PROVE  MeshKnown(loop', sheet, failed')
    BY DEF MeshComes
  <2>2. ~Due(l, sheet.gen)
    BY <2>1 DEF Due, Shelved
  <2>3. ~Due(loop, sheet.gen)
    <3>1. c.kind # "resolve"
      BY DEF Execute
    <3> QED
      BY <2>2, <3>1 DEF Released
  <2>4. Painting(loop.calls, sheet)
    BY <2>1, <2>3 DEF IInv, MeshComes, MeshKnown
  <2>5. Painting(loop'.calls, sheet)
    BY <2>4 DEF Released, Shelved
  <2>6. ASSUME NoneLive(loop'.calls) PROVE Painted(loop', sheet, failed')
    <3>1. c.val = sheet.val
      BY <2>4, <2>6 DEF Shelved
    <3>2. loop'.shelf # <<>> /\ loop'.shelf[Len(loop'.shelf)] = c
      BY <1>1 DEF Shelved
    <3> QED
      BY <3>1, <3>2 DEF Painted
  <2> QED
    BY <2>5, <2>6 DEF MeshKnown
<1>9. CommitIsCurrent'
  BY DEF IInv, CommitIsCurrent
<1> QED
  BY <1>2, <1>3, <1>4, <1>5, <1>6, <1>7, <1>8, <1>9 DEF IInv

\* An execute has an outcome: its run ends, or its mesh waits for the viewport.
LEMMA EndExecuteKeeps ==
    ASSUME IInv, NEW l, NEW c, Released(l, c), c.kind = "execute", NEW outcome,
           outcome \in {"ok", "cancelled", "error"},
           EndExecute(l, c, outcome), Concludes(l, c, outcome)
    PROVE  IInv'
<1>1. /\ l \in Loop /\ c \in Execute /\ sheet.gen \in Nat /\ sheet.val \in Val
  BY CallKinds, SheetFields DEF IInv, Typed, Released
<1>2. /\ loop' = Answered(l, c, outcome, sheet.gen, sheet.val)
      /\ failed' = (outcome = "error" \/ (outcome = "cancelled" /\ failed))
      /\ UNCHANGED <<editorVars, sheet, asked, wanted>>
  BY DEF EndExecute
<1>3. loop' \in Loop
  BY <1>1, <1>2, AnsweredTyped
<1>4. NoneLive(l.calls) /\ Painting(loop.calls, sheet) /\ outcome # "error"
          => /\ Paints(l, c, outcome, sheet.gen)
             /\ c.val = sheet.val
  <2>1. SUFFICES ASSUME NoneLive(l.calls), Painting(loop.calls, sheet), outcome # "error"
                 PROVE  Paints(l, c, outcome, sheet.gen) /\ c.val = sheet.val
    OBVIOUS
  <2>2. outcome # "cancelled" /\ Right(c, sheet)
    BY <2>1 DEF Concludes
  <2>3. c.gen \in Nat
    BY <1>1 DEF Execute
  <2>4. ~(Scrub(c) /\ c.gen < sheet.gen)
    BY <1>1, <2>2, <2>3 DEF Scrub, Right
  <2> QED
    BY <1>2, <2>1, <2>2, <2>4 DEF Paints, Right
<1>5. \/ /\ Finished(l, loop', c, sheet.gen, sheet.val)
         /\ ~Paints(l, c, outcome, sheet.gen) /\ loop'.shown = l.shown
      \/ /\ Finished(l, loop', c, sheet.gen, sheet.val) /\ l.viewport = "made"
         /\ Paints(l, c, outcome, sheet.gen) /\ loop'.shown = c.val
      \/ /\ Shelved(l, loop', c) /\ l.viewport # "made"
         /\ Paints(l, c, outcome, sheet.gen)
  BY <1>1, <1>2, AnsweredEffect
<1>6. CASE /\ Finished(l, loop', c, sheet.gen, sheet.val)
           /\ ~Paints(l, c, outcome, sheet.gen) /\ loop'.shown = l.shown
  <2>1. ~failed' /\ NoneLive(l.calls) /\ Painting(loop.calls, sheet)
            => l.shelf = <<>> /\ loop'.shown = sheet.val
    BY <1>2, <1>4, <1>6
  <2> QED
    BY <1>2, <1>3, <1>6, <2>1, RunEnds
<1>7. CASE /\ Finished(l, loop', c, sheet.gen, sheet.val) /\ l.viewport = "made"
           /\ Paints(l, c, outcome, sheet.gen) /\ loop'.shown = c.val
  <2>1. l.shelf = <<>>
    BY <1>7 DEF IInv, ShelfWaits, Released
  <2>2. ~failed' /\ NoneLive(l.calls) /\ Painting(loop.calls, sheet)
            => l.shelf = <<>> /\ loop'.shown = sheet.val
    BY <1>2, <1>4, <1>7, <2>1
  <2> QED
    BY <1>2, <1>3, <1>7, <2>2, RunEnds
<1>8. CASE /\ Shelved(l, loop', c) /\ l.viewport # "made"
           /\ Paints(l, c, outcome, sheet.gen)
  <2>1. NoneLive(l.calls) /\ Painting(loop.calls, sheet) => c.val = sheet.val
    BY <1>4, <1>8 DEF Paints
  <2> QED
    BY <1>1, <1>2, <1>3, <1>8, <2>1, MeshShelved
<1> QED
  BY <1>5, <1>6, <1>7, <1>8

\* A call that is no execute, no run's and no move's stands for nothing.
LEMMA AliveWithout ==
    ASSUME NEW l, NEW m, NEW R, NEW X, NEW c, Alive(l, R), c.kind # "execute",
           m.inflight = l.inflight, m.inflightGen = l.inflightGen, m.waiting = l.waiting,
           \A d \in R : d.live => d = c \/ d \in X,
           ButtonAlive(m, X), MoveAlive(m, X)
    PROVE  Alive(m, X)
<1>1. SlotAlive(m, X)
  BY DEF Alive, SlotAlive
<1>2. WaitersAlive(m, X)
  BY DEF Alive, WaitersAlive
<1> QED
  BY <1>1, <1>2 DEF Alive

\* What is in hand when a call has been sent.
LEMMA InHandPosted ==
    ASSUME NEW l \in Loop, NEW m \in Loop, NEW e \in Call,
           m.calls = Append(l.calls, e), m.shelf = l.shelf
    PROVE  \A d : d \in InHand(m) <=> d \in InHand(l) \/ d = e
<1>1. \A d : d \in Range(m.calls) <=> d \in Range(l.calls) \/ d = e
  BY LoopSequences, RangeAppend
<1> QED
  BY <1>1 DEF InHand

\* A call that is no execute and no move's harvest is answered, and nothing is sent.
LEMMA MeshWithout ==
    ASSUME IInv, NEW l, NEW m, NEW c, Released(l, c), c.kind # "execute",
           ~(c.kind = "resolve" /\ c.by = "move"),
           m.calls = l.calls, m.pending = l.pending, m.waiting = l.waiting,
           m.shelf = l.shelf, m.shown = l.shown
    PROVE  MeshComes(m, sheet, wanted, failed)
<1>1. SUFFICES ASSUME sheet.commit = None, wanted = sheet.gen, ~Due(m, sheet.gen)
               PROVE  MeshKnown(m, sheet, failed)
  BY DEF MeshComes
<1>2. ~Due(l, sheet.gen)
  BY <1>1 DEF Due
<1>3. ~Due(loop, sheet.gen)
  BY <1>2 DEF Released
<1>4. MeshKnown(loop, sheet, failed)
  BY <1>1, <1>3 DEF IInv, MeshComes
<1>5. Painting(m.calls, sheet)
  BY <1>4 DEF MeshKnown, Released
<1>6. ASSUME NoneLive(m.calls) PROVE Painted(m, sheet, failed)
  <2>1. NoneLive(loop.calls)
    BY <1>6 DEF Released
  <2>2. Painted(loop, sheet, failed)
    BY <1>4, <2>1 DEF MeshKnown
  <2>3. m.shelf = loop.shelf /\ m.shown = loop.shown
    BY DEF Released
  <2> QED
    BY <2>2, <2>3 DEF Painted
<1> QED
  BY <1>5, <1>6 DEF MeshKnown

\* An analysis has an outcome: an explicit run goes on to its execute.
LEMMA EndAnalyzeKeeps ==
    ASSUME IInv, NEW l, NEW c, Released(l, c), c.kind = "analyze", NEW outcome,
           NEW newest, EndAnalyze(l, c, outcome, newest)
    PROVE  IInv'
<1> DEFINE verdict == IF newest /\ outcome # "cancelled" /\ ~l.isRunning /\ ~Busy(l)
                      THEN [l EXCEPT !.status = IF outcome = "ok" THEN "Ready" ELSE "Error"]
                      ELSE l
           e == [kind |-> "execute", by |-> "run", id |-> FreshId(l),
                 gen |-> 0, val |-> sheet.val, live |-> TRUE]
<1>1. /\ l \in Loop /\ c \in Analyze /\ loop \in Loop /\ sheet \in Sheet
      /\ sheet.gen \in Nat /\ sheet.val \in Val
  BY CallKinds, SheetFields DEF IInv, Typed, Released
<1>2. /\ verdict \in Loop
      /\ verdict.calls = l.calls /\ verdict.waiting = l.waiting
      /\ verdict.pending = l.pending /\ verdict.isRunning = l.isRunning
      /\ verdict.move = l.move /\ verdict.viewport = l.viewport
      /\ verdict.inflight = l.inflight /\ verdict.inflightGen = l.inflightGen
      /\ verdict.shelf = l.shelf /\ verdict.shown = l.shown
  <2>1. CASE verdict = l
    BY <1>1, <2>1
  <2>2. CASE \E st \in {"Ready", "Error"} : verdict = [l EXCEPT !.status = st]
    <3>1. PICK st \in {"Ready", "Error"} : verdict = [l EXCEPT !.status = st]
      BY <2>2
    <3> HIDE DEF verdict
    <3> QED
      BY <1>1, <3>1 DEF Loop
  <2> QED
    BY <2>1, <2>2
<1>3. /\ loop' = IF c.by = "editor" THEN verdict ELSE PostCall(verdict, e)
      /\ UNCHANGED <<editorVars, sheet, history>>
  BY DEF EndAnalyze
<1>4. e \in Call /\ e.live /\ e.kind = "execute" /\ e.by = "run" /\ e.val = sheet.val
  BY <1>1, FreshIdIsFresh DEF Call, Execute
<1> HIDE DEF verdict, e
<1>5. loop' \in Loop
  BY <1>2, <1>3, <1>4, PostCallTyped
<1>6. /\ loop'.calls = IF c.by = "editor" THEN l.calls ELSE Append(l.calls, e)
      /\ loop'.waiting = l.waiting /\ loop'.pending = l.pending
      /\ loop'.isRunning = l.isRunning /\ loop'.move = l.move
      /\ loop'.inflight = l.inflight /\ loop'.inflightGen = l.inflightGen
      /\ loop'.viewport = l.viewport /\ loop'.shelf = l.shelf /\ loop'.shown = l.shown
  BY <1>2, <1>3 DEF PostCall, Loop
<1>7. Typed'
  BY <1>3, <1>5 DEF IInv, Typed, editorVars, history
<1>8. GensBounded'
  BY <1>3, <1>6 DEF IInv, GensBounded, Released, history
<1>9. l.calls \in Seq(Call) /\ c.by \in {"run", "editor"} /\ c.kind # "execute"
  BY <1>1, LoopSequences DEF Analyze
<1>10. Alive(loop', InHand(loop'))
  <2>1. Alive(loop, InHand(loop))
    BY DEF IInv
  <2>2. \A d \in InHand(l) : d \in InHand(loop')
    <3>1. CASE c.by = "editor"
      BY <1>6, <3>1 DEF InHand
    <3>2. CASE c.by # "editor"
      BY <1>1, <1>4, <1>5, <1>6, <3>2, InHandPosted
    <3> QED
      BY <3>1, <3>2
  <2>3. \A d \in InHand(loop) : d.live => d = c \/ d \in InHand(loop')
    BY <2>2 DEF Released
  <2>4. ButtonAlive(loop', InHand(loop'))
    <3>1. CASE c.by = "editor"
      BY <1>6, <2>1, <2>3, <3>1 DEF Alive, ButtonAlive, Released
    <3>2. CASE c.by # "editor"
      <4>1. e \in InHand(loop')
        BY <1>1, <1>4, <1>5, <1>6, <3>2, InHandPosted
      <4> QED
        BY <1>4, <4>1 DEF ButtonAlive
    <3> QED
      BY <3>1, <3>2
  <2>5. MoveAlive(loop', InHand(loop'))
    BY <1>6, <1>9, <2>1, <2>3 DEF Alive, MoveAlive, Released
  <2>6. /\ loop'.inflight = loop.inflight /\ loop'.inflightGen = loop.inflightGen
        /\ loop'.waiting = loop.waiting
    BY <1>6 DEF Released
  <2> QED
    BY <1>9, <2>1, <2>3, <2>4, <2>5, <2>6, AliveWithout
<1>11. InOrder(l.calls) /\ HarvestKnown(l.calls, asked, sheet.declared)
  BY DEF Released
<1>12. InOrder(loop'.calls)
  BY <1>4, <1>6, <1>9, <1>11, PostKeepsOrder
<1>13. HarvestKnown(loop'.calls, asked, sheet.declared)
  <2>1. e.kind # "resolve"
    BY <1>4
  <2> QED
    BY <1>4, <1>6, <1>9, <1>11, <2>1, PostKeepsHarvest
<1>14. ShelfWaits'
  BY <1>6 DEF IInv, ShelfWaits, Released
<1>15. MeshComes(loop', sheet, wanted, failed)
  <2>1. CASE c.by = "editor"
    BY <1>6, <1>9, <2>1, MeshWithout
  <2>2. CASE c.by # "editor"
    <3>1. Right(e, sheet)
      BY <1>4 DEF Right
    <3>2. Painting(loop'.calls, sheet) /\ ~NoneLive(loop'.calls)
      BY <1>4, <1>6, <1>9, <2>2, <3>1, PostPaints
    <3> QED
      BY <3>2 DEF MeshComes, MeshKnown
  <2> QED
    BY <2>1, <2>2
<1>16. CommitIsCurrent'
  BY <1>3 DEF IInv, CommitIsCurrent
<1> QED
  BY <1>3, <1>7, <1>8, <1>10, <1>12, <1>13, <1>14, <1>15, <1>16 DEF IInv, history

\* The recorded value of a history move takes the sheet's place and its rebuild is sent.
LEMMA OverlayEffect ==
    ASSUME NEW l, l \in Loop, NEW s, s \in Sheet, NEW v \in Val, Overlay(l, s, v)
    PROVE  /\ loop' \in Loop /\ sheet' \in Sheet
           /\ sheet'.gen = s.gen + 1 /\ sheet'.declared = s.declared
           /\ sheet'.val = v /\ sheet'.commit = None
           /\ wanted' = s.gen + 1
           /\ \E e \in Call : /\ e.kind = "execute" /\ e.by = "move" /\ e.live
                              /\ e.val = v /\ e.gen = s.gen + 1
                              /\ loop'.calls = Append(l.calls, e)
           /\ ~loop'.isRunning
           /\ loop'.waiting = l.waiting /\ loop'.pending = l.pending /\ loop'.move = l.move
           /\ loop'.inflight = l.inflight /\ loop'.inflightGen = l.inflightGen
           /\ loop'.viewport = l.viewport /\ loop'.shelf = l.shelf
<1> DEFINE id == FreshId(l)
           e == [kind |-> "execute", by |-> "move", id |-> id, gen |-> s.gen + 1,
                 val |-> v, live |-> TRUE]
<1>1. s.gen \in Nat /\ s.gen + 1 \in Nat /\ ~(s.gen + 1 < s.gen + 1) /\ s.declared \in Val
  BY SheetFields
<1>2. id \in Nat
  BY FreshIdIsFresh
<1>3. loop' = RunScrub(l, "move", id, s.gen + 1, s.gen + 1, v)
  BY DEF Overlay
<1>4. sheet' = [declared |-> s.declared, val |-> v, gen |-> s.gen + 1, commit |-> None]
      /\ wanted' = s.gen + 1
  BY DEF Overlay, Replace
<1>5. e \in Call /\ e.kind = "execute" /\ e.by = "move" /\ e.live
      /\ e.val = v /\ e.gen = s.gen + 1
  BY <1>1, <1>2 DEF Call, Execute
<1>6. loop' = PostCall([l EXCEPT !.status = "Updating", !.isRunning = FALSE,
                                 !.analyzeTimer = FALSE], e)
  BY <1>1, <1>3 DEF RunScrub
<1> HIDE DEF id, e
<1>7. loop' \in Loop
  BY <1>1, <1>2, <1>3, RunScrubTyped
<1>8. /\ loop'.calls = Append(l.calls, e)
      /\ ~loop'.isRunning
      /\ loop'.waiting = l.waiting /\ loop'.pending = l.pending /\ loop'.move = l.move
      /\ loop'.inflight = l.inflight /\ loop'.inflightGen = l.inflightGen
      /\ loop'.viewport = l.viewport /\ loop'.shelf = l.shelf
  BY <1>6 DEF PostCall, Loop
<1>9. sheet' \in Sheet
  BY <1>1, <1>4 DEF Sheet
<1> QED
  BY <1>4, <1>5, <1>7, <1>8, <1>9

\* A harvest that is applied leaves the store alone or is a generation of its own.
LEMMA ApplyResolvedIs ==
    ASSUME NEW s \in Sheet, NEW header \in Val, NEW keep, NEW force
    PROVE  LET t == ApplyResolved(s, header, keep, force)
           IN  /\ t \in Sheet /\ t.declared = header
               /\ t = s \/ (t.gen = s.gen + 1 /\ t.commit = None)
<1>1. s.gen \in Nat /\ s.gen + 1 \in Nat /\ s.val \in Val
  BY SheetFields
<1>2. CASE ~force /\ header = s.declared
  BY <1>2 DEF ApplyResolved
<1>3. CASE ~(~force /\ header = s.declared)
  <2> DEFINE val == IF keep THEN s.val ELSE header
  <2>1. ApplyResolved(s, header, keep, force)
            = [declared |-> header, val |-> val, gen |-> s.gen + 1, commit |-> None]
    BY <1>3 DEF ApplyResolved, Replace
  <2>2. val \in Val
    BY <1>1
  <2> HIDE DEF val
  <2> QED
    BY <1>1, <2>1, <2>2 DEF Sheet
<1> QED
  BY <1>2, <1>3

\* A harvest has an outcome: it fills the sheet if it is the newest, and the move goes on.
LEMMA EndResolveKeeps ==
    ASSUME IInv, NEW l, NEW c, Released(l, c), c.kind = "resolve", NEW outcome,
           NEW applies \in BOOLEAN, EndResolve(l, c, outcome, applies),
           HarvestKnown(l.calls, asked, IF applies THEN c.header ELSE sheet.declared)
    PROVE  IInv'
<1> DEFINE s == IF applies THEN ApplyResolved(sheet, c.header, c.keep, c.force) ELSE sheet
<1>1. /\ l \in Loop /\ c \in Resolve /\ loop \in Loop /\ sheet \in Sheet
      /\ sheet.gen \in Nat /\ c.header \in Val /\ l.calls \in Seq(Call)
      /\ wanted \in Nat /\ wanted <= sheet.gen
  BY CallKinds, SheetFields, LoopSequences
     DEF IInv, Typed, GensBounded, Released, Resolve
<1>2. /\ s \in Sheet
      /\ s = sheet \/ (s.gen = sheet.gen + 1 /\ s.commit = None)
      /\ s.declared = IF applies THEN c.header ELSE sheet.declared
  BY <1>1, ApplyResolvedIs
<1>3. /\ lastFp' = IF applies /\ outcome = "ok" THEN c.header ELSE lastFp
      /\ IF c.by = "move"
         THEN Overlay(l, s, c.header)
         ELSE sheet' = s /\ UNCHANGED wanted /\ loop' = l
      /\ UNCHANGED <<text, resolveTimer, asked, failed>>
  BY DEF EndResolve
<1>4. PICK s0 : s0 = s
  OBVIOUS
<1> HIDE DEF s
<1>5. lastFp' \in Val /\ text' \in Val /\ asked' \in Val
  BY <1>1, <1>3 DEF IInv, Typed
<1>6. c.kind # "execute" /\ c.by \in {"page", "move"}
  BY <1>1 DEF Resolve
<1>7. InOrder(l.calls)
  BY DEF Released
<1>8. Alive(loop, InHand(loop))
  BY DEF IInv
<1>9. CASE c.by = "move"
  <2>1. Overlay(l, s0, c.header) /\ s0 \in Sheet /\ s0.gen \in Nat
        /\ s0.declared = (IF applies THEN c.header ELSE sheet.declared)
        /\ s0.gen >= sheet.gen
    BY <1>1, <1>2, <1>3, <1>4, <1>9, SheetFields
  <2>2. /\ loop' \in Loop /\ sheet' \in Sheet
        /\ sheet'.gen = s0.gen + 1 /\ sheet'.declared = s0.declared
        /\ sheet'.val = c.header /\ sheet'.commit = None
        /\ wanted' = s0.gen + 1
        /\ \E e \in Call : /\ e.kind = "execute" /\ e.by = "move" /\ e.live
                           /\ e.val = c.header /\ e.gen = s0.gen + 1
                           /\ loop'.calls = Append(l.calls, e)
        /\ ~loop'.isRunning
        /\ loop'.waiting = l.waiting /\ loop'.pending = l.pending /\ loop'.move = l.move
        /\ loop'.inflight = l.inflight /\ loop'.inflightGen = l.inflightGen
        /\ loop'.viewport = l.viewport /\ loop'.shelf = l.shelf
    BY <1>1, <2>1, OverlayEffect
  <2>3. PICK e \in Call : /\ e.kind = "execute" /\ e.by = "move" /\ e.live
                          /\ e.val = c.header /\ e.gen = s0.gen + 1
                          /\ loop'.calls = Append(l.calls, e)
    BY <2>2
  <2>4. Typed'
    BY <1>5, <2>1, <2>2 DEF Typed
  <2>5. GensBounded'
    <3>1. loop.pending <= sheet.gen /\ \A w \in Range(loop.waiting) : w.gen <= sheet.gen
      BY DEF IInv, GensBounded
    <3>2. /\ loop.pending \in Nat /\ loop.waiting \in Seq(Waiter)
          /\ \A w \in Range(loop.waiting) : w.gen \in Nat
      <4>1. loop.pending \in Nat /\ loop.waiting \in Seq(Waiter)
        BY <1>1, LoopSequences DEF Loop
      <4>2. \A w \in Range(loop.waiting) : w \in Waiter
        BY <4>1, RangeOfSeq
      <4> QED
        BY <4>1, <4>2 DEF Waiter
    <3>3. loop'.pending = loop.pending /\ loop'.waiting = loop.waiting
      BY <2>2 DEF Released
    <3>4. sheet'.gen > sheet.gen /\ sheet'.gen \in Nat /\ sheet'.gen # 0
      BY <1>1, <2>1, <2>2
    <3>5. loop.pending <= sheet'.gen /\ \A w \in Range(loop.waiting) : w.gen <= sheet'.gen
      BY <1>1, <3>1, <3>2, <3>4
    <3>6. wanted' <= sheet'.gen
      BY <2>1, <2>2
    <3> QED
      BY <3>3, <3>4, <3>5, <3>6 DEF GensBounded
  <2>6. \A d : d \in InHand(loop') <=> d \in InHand(l) \/ d = e
    BY <1>1, <2>2, <2>3, InHandPosted
  <2>7. Alive(loop', InHand(loop'))
    <3>1. \A d \in InHand(loop) : d.live => d = c \/ d \in InHand(loop')
      BY <2>6 DEF Released
    <3>2. MoveAlive(loop', InHand(loop')) /\ ButtonAlive(loop', InHand(loop'))
      BY <2>2, <2>3, <2>6 DEF MoveAlive, ButtonAlive
    <3>3. /\ loop'.inflight = loop.inflight /\ loop'.inflightGen = loop.inflightGen
          /\ loop'.waiting = loop.waiting
      BY <2>2 DEF Released
    <3> QED
      BY <1>6, <1>8, <3>1, <3>2, <3>3, AliveWithout
  <2>8. InOrder(loop'.calls)
    BY <1>1, <1>7, <2>3, PostKeepsOrder
  <2>9. HarvestKnown(loop'.calls, asked, sheet'.declared)
    <3>1. e.kind # "resolve" /\ HarvestKnown(l.calls, asked, sheet'.declared)
      BY <2>1, <2>2, <2>3
    <3> QED
      BY <1>1, <2>3, <3>1, PostKeepsHarvest
  <2>10. ShelfWaits'
    BY <2>2 DEF IInv, ShelfWaits, Released
  <2>11. MeshComes(loop', sheet', wanted', failed')
    <3>1. Right(e, sheet')
      BY <2>1, <2>2, <2>3 DEF Right
    <3>2. PICK sh : sh = sheet'
      OBVIOUS
    <3>3. Painting(loop'.calls, sh) /\ ~NoneLive(loop'.calls)
      BY <1>1, <2>3, <3>1, <3>2, PostPaints
    <3> QED
      BY <3>2, <3>3 DEF MeshComes, MeshKnown
  <2>12. CommitIsCurrent'
    BY <2>2 DEF CommitIsCurrent
  <2> QED
    BY <1>3, <2>4, <2>5, <2>7, <2>8, <2>9, <2>10, <2>11, <2>12 DEF IInv
<1>10. CASE c.by # "move"
  <2>1. sheet' = s /\ UNCHANGED wanted /\ loop' = l
    BY <1>3, <1>10
  <2>2. /\ l.pending = loop.pending /\ l.waiting = loop.waiting
        /\ l.inflight = loop.inflight /\ l.inflightGen = loop.inflightGen
        /\ l.isRunning = loop.isRunning /\ l.move = loop.move
        /\ l.viewport = loop.viewport /\ l.shelf = loop.shelf /\ l.shown = loop.shown
    BY DEF Released
  <2>3. Typed'
    BY <1>1, <1>2, <1>5, <2>1 DEF Typed, IInv
  <2>4. GensBounded'
    <3>1. loop.pending <= sheet.gen /\ \A w \in Range(loop.waiting) : w.gen <= sheet.gen
      BY DEF IInv, GensBounded
    <3>2. /\ loop.pending \in Nat
          /\ \A w \in Range(loop.waiting) : w.gen \in Nat
      <4>1. loop.pending \in Nat /\ loop.waiting \in Seq(Waiter)
        BY <1>1, LoopSequences DEF Loop
      <4>2. \A w \in Range(loop.waiting) : w \in Waiter
        BY <4>1, RangeOfSeq
      <4> QED
        BY <4>1, <4>2 DEF Waiter
    <3>3. s.gen >= sheet.gen /\ s.gen \in Nat /\ s.gen # 0
      BY <1>1, <1>2 DEF IInv, GensBounded
    <3>4. /\ loop.pending <= s.gen /\ wanted <= s.gen
          /\ \A w \in Range(loop.waiting) : w.gen <= s.gen
      BY <1>1, <3>1, <3>2, <3>3
    <3> QED
      BY <2>1, <2>2, <3>3, <3>4 DEF GensBounded
  <2>5. Alive(l, InHand(l))
    <3>1. \A d \in InHand(loop) : d.live => d = c \/ d \in InHand(l)
      BY DEF Released
    <3>2. ButtonAlive(l, InHand(l))
      <4>1. c.kind = "resolve"
        OBVIOUS
      <4> QED
        BY <1>8, <2>2, <3>1, <4>1 DEF Alive, ButtonAlive
    <3>3. MoveAlive(l, InHand(l))
      BY <1>8, <1>10, <2>2, <3>1 DEF Alive, MoveAlive
    <3> QED
      BY <1>6, <1>8, <2>2, <3>1, <3>2, <3>3, AliveWithout
  <2>6. HarvestKnown(l.calls, asked, s.declared)
    BY <1>2
  <2>7. ShelfWaits'
    BY <2>1, <2>2 DEF IInv, ShelfWaits
  <2>8. MeshComes(l, s, wanted, failed)
    <3>1. CASE s = sheet
      BY <1>6, <1>10, <3>1, MeshWithout
    <3>2. CASE s.gen = sheet.gen + 1
      <4>1. wanted # s.gen
        BY <1>1, <3>2
      <4> QED
        BY <4>1 DEF MeshComes
    <3> QED
      BY <1>2, <3>1, <3>2
  <2>9. CommitIsCurrent'
    BY <1>2, <2>1 DEF IInv, CommitIsCurrent
  <2> QED
    BY <1>3, <1>7, <2>1, <2>3, <2>4, <2>5, <2>6, <2>7, <2>8, <2>9 DEF IInv
<1> QED
  BY <1>9, <1>10

\* The worker answers its oldest call.
LEMMA ReplyKeeps ==
    ASSUME IInv, NEW outcome \in {"ok", "cancelled", "error"}, Reply(outcome)
    PROVE  IInv'
<1> DEFINE s == loop.calls
<1>1. /\ s # <<>>
      /\ outcome = "ok" => ~Superseded(1)
      /\ outcome = "cancelled" => MayCancel(1)
      /\ Head(s).live
  BY DEF Reply
<1>2. PICK l : l = [loop EXCEPT !.calls = Tail(@)]
  OBVIOUS
<1>3. s \in Seq(Call) /\ Len(s) \in Nat /\ DOMAIN s = 1 .. Len(s)
  BY LoopSequences DEF IInv, Typed
<1>4. Head(s) = s[1] /\ 1 \in 1 .. Len(s) /\ s[1] \in Call
  BY <1>1, <1>3, TailIs
<1>5. /\ Released(l, s[1]) /\ l.calls = Tail(s)
  BY <1>1, <1>2, <1>4, ReplyReleases
<1>6. PICK c : c = s[1]
  OBVIOUS
<1>7. CASE c.kind = "execute"
  <2>1. EndExecute(l, c, outcome)
    BY <1>2, <1>4, <1>6, <1>7 DEF Reply
  <2>2. Concludes(l, c, outcome)
    <3>1. SUFFICES ASSUME outcome # "error", NoneLive(l.calls), Painting(loop.calls, sheet)
                   PROVE  outcome # "cancelled" /\ Right(c, sheet)
      BY DEF Concludes
    <3>2. \A j \in 1 .. Len(s) : j > 1 => s[j].kind # "execute"
      BY <1>1, <1>3, <1>4, <1>5, <1>6, <1>7, <3>1, TailKeepsMesh DEF IInv
    <3>3. ~MayCancel(1)
      BY <1>3, <1>6, <1>7, <3>2 DEF MayCancel, Superseded
    <3>4. LastExecute(s, 1) /\ s[1].live
      BY <1>1, <1>4, <1>6, <1>7, <3>2 DEF LastExecute
    <3>5. Right(c, sheet)
      BY <1>4, <1>6, <3>1, <3>4 DEF Painting
    <3> QED
      BY <1>1, <3>3, <3>5
  <2> QED
    BY <1>5, <1>6, <1>7, <2>1, <2>2, EndExecuteKeeps
<1>8. CASE c.kind = "analyze"
  <2>1. EndAnalyze(l, c, outcome, ~Superseded(1))
    BY <1>2, <1>4, <1>6, <1>8 DEF Reply
  <2>2. PICK newest : newest = ~Superseded(1)
    OBVIOUS
  <2>3. EndAnalyze(l, c, outcome, newest)
    BY <2>1, <2>2
  <2> QED
    BY <1>5, <1>6, <1>8, <2>3, EndAnalyzeKeeps
<1>9. CASE c.kind = "resolve"
  <2>1. EndResolve(l, c, outcome, outcome # "cancelled" /\ ~Superseded(1))
    BY <1>2, <1>4, <1>6, <1>9 DEF Reply
  <2>2. PICK applies \in BOOLEAN : applies = (outcome # "cancelled" /\ ~Superseded(1))
    OBVIOUS
  <2>3. EndResolve(l, c, outcome, applies)
    BY <2>1, <2>2
  <2>4. HarvestKnown(s, asked, sheet.declared)
    BY DEF IInv
  <2>5. Superseded(1) <=> \E j \in 1 .. Len(s) : j > 1 /\ s[j].kind = "resolve"
    BY <1>3, <1>6, <1>9 DEF Superseded
  <2>6. outcome = "cancelled" => Superseded(1)
    BY <1>1, <1>6, <1>9 DEF MayCancel
  <2>7. CASE Superseded(1)
    <3>1. HarvestKnown(Tail(s), asked, sheet.declared)
      BY <1>1, <1>3, <2>4, <2>5, <2>7, TailKeepsHarvest
    <3> QED
      BY <1>5, <1>6, <1>9, <2>2, <2>3, <2>7, <3>1, EndResolveKeeps
  <2>8. CASE ~Superseded(1)
    <3>1. HarvestKnown(Tail(s), asked, s[1].header)
      BY <1>1, <1>3, <1>4, <1>6, <1>9, <2>4, <2>5, <2>8, TailAppliesHarvest
    <3>2. applies = TRUE
      BY <2>2, <2>6, <2>8
    <3> QED
      BY <1>5, <1>6, <1>9, <2>3, <3>1, <3>2, EndResolveKeeps
  <2> QED
    BY <2>7, <2>8
<1> QED
  BY <1>4, <1>6, <1>7, <1>8, <1>9, CallKinds

\* A call times out.
LEMMA TimeOutKeeps ==
    ASSUME IInv, NEW i \in DOMAIN loop.calls, TimeOut(i)
    PROVE  IInv'
<1> DEFINE s == loop.calls
<1>1. s \in Seq(Call) /\ Len(s) \in Nat /\ DOMAIN s = 1 .. Len(s) /\ s[i] \in Call
  BY LoopSequences DEF IInv, Typed
<1>2. i \in 1 .. Len(s) /\ TimesOutNext(s, i)
  BY <1>1 DEF TimeOut, TimesOutNext
<1>3. PICK l : l = [loop EXCEPT !.calls[i].live = FALSE]
  OBVIOUS
<1>4. Released(l, s[i]) /\ l.calls = TimedOut(s, i)
  BY <1>2, <1>3, TimeOutReleases
<1>5. PICK c : c = s[i]
  OBVIOUS
<1>6. CASE c.kind = "execute"
  <2>1. EndExecute(l, c, "error")
    BY <1>3, <1>5, <1>6 DEF TimeOut
  <2>2. Concludes(l, c, "error")
    BY DEF Concludes
  <2> QED
    BY <1>4, <1>5, <1>6, <2>1, <2>2, EndExecuteKeeps
<1>7. CASE c.kind = "analyze"
  <2>1. EndAnalyze(l, c, "error", ~Superseded(i))
    BY <1>3, <1>5, <1>7 DEF TimeOut
  <2>2. PICK newest : newest = ~Superseded(i)
    OBVIOUS
  <2>3. EndAnalyze(l, c, "error", newest)
    BY <2>1, <2>2
  <2> QED
    BY <1>4, <1>5, <1>7, <2>3, EndAnalyzeKeeps
<1>8. CASE c.kind = "resolve"
  <2>1. EndResolve(l, c, "error", TRUE)
    BY <1>3, <1>5, <1>8 DEF TimeOut
  <2>2. HarvestKnown(l.calls, asked, c.header)
    BY <1>1, <1>2, <1>4, <1>5, <1>8, TimeOutAppliesHarvest DEF IInv, TimesOutNext
  <2>3. HarvestKnown(l.calls, asked, IF TRUE THEN c.header ELSE sheet.declared)
    BY <2>2
  <2> QED
    BY <1>4, <1>5, <1>8, <2>1, <2>3, EndResolveKeeps
<1> QED
  BY <1>1, <1>5, <1>6, <1>7, <1>8, CallKinds

-----------------------------------------------------------------------------
(* The user, the timers and the viewport.                                  *)

\* A call that is no execute changes nothing about the mesh to come.
LEMMA PostKeepsComes ==
    ASSUME NEW l \in Loop, NEW m \in Loop, NEW e \in Call, e.kind # "execute",
           m.calls = Append(l.calls, e), m.pending = l.pending, m.waiting = l.waiting,
           m.shelf = l.shelf, m.shown = l.shown,
           NEW sh, NEW w, NEW f, MeshComes(l, sh, w, f)
    PROVE  MeshComes(m, sh, w, f)
<1>1. l.calls \in Seq(Call)
  BY LoopSequences
<1>2. /\ Len(l.calls) \in Nat /\ Len(m.calls) = Len(l.calls) + 1
      /\ \A i \in 1 .. Len(l.calls) : m.calls[i] = l.calls[i] /\ i \in 1 .. Len(l.calls) + 1
  BY <1>1, AppendIs
<1>3. Due(l, sh.gen) => Due(m, sh.gen)
  BY <1>2 DEF Due
<1>4. /\ Painting(l.calls, sh) => Painting(m.calls, sh)
      /\ NoneLive(m.calls) => NoneLive(l.calls)
  <2>1. /\ Painting(l.calls, sh) => Painting(Append(l.calls, e), sh)
        /\ NoneLive(Append(l.calls, e)) => NoneLive(l.calls)
    BY <1>1, PostKeepsMesh
  <2> QED
    BY <2>1
<1> QED
  BY <1>3, <1>4 DEF MeshComes, MeshKnown, Painted

\* Nothing that is waited for changes.
LEMMA QuietKeepsComes ==
    ASSUME NEW l, NEW m, m.calls = l.calls, m.pending = l.pending, m.waiting = l.waiting,
           m.shelf = l.shelf, m.shown = l.shown,
           NEW sh, NEW w, NEW f, MeshComes(l, sh, w, f)
    PROVE  MeshComes(m, sh, w, f)
  BY DEF MeshComes, MeshKnown, Painted, Due

\* The user types.
LEMMA EditKeeps ==
    ASSUME IInv, NEW l \in Val, Edit(l)
    PROVE  IInv'
<1>1. loop \in Loop
  BY DEF IInv, Typed
<1>2. /\ loop' = [loop EXCEPT !.analyzeTimer = TRUE]
      /\ UNCHANGED <<lastFp, sheet, asked, wanted, failed>> /\ text' = l
  BY DEF Edit, history
<1>3. /\ loop' \in Loop /\ loop'.calls = loop.calls /\ loop'.waiting = loop.waiting
      /\ loop'.pending = loop.pending /\ loop'.isRunning = loop.isRunning
      /\ loop'.move = loop.move /\ loop'.viewport = loop.viewport
      /\ loop'.inflight = loop.inflight /\ loop'.inflightGen = loop.inflightGen
      /\ loop'.shelf = loop.shelf /\ loop'.shown = loop.shown
  BY <1>1, <1>2 DEF Loop
<1>4. Typed'
  BY <1>2, <1>3 DEF IInv, Typed
<1>5. GensBounded'
  BY <1>2, <1>3 DEF IInv, GensBounded
<1>6. Alive(loop', InHand(loop'))
  BY <1>3, AliveStays DEF IInv, InHand
<1>7. MeshComes(loop', sheet, wanted, failed)
  BY <1>3, QuietKeepsComes DEF IInv
<1> QED
  BY <1>2, <1>3, <1>4, <1>5, <1>6, <1>7 DEF IInv, ShelfWaits, CommitIsCurrent

\* What dispatching an edit does to the loop.
LEMMA DispatchIs ==
    ASSUME NEW l \in Loop, NEW g \in Nat
    PROVE  LET m == Dispatch(l, g)
           IN  /\ m \in Loop /\ m.calls = l.calls /\ m.waiting = l.waiting
               /\ m.pending = IF l.move = None THEN g ELSE l.pending
               /\ m.isRunning = l.isRunning /\ m.move = l.move /\ m.viewport = l.viewport
               /\ m.inflight = l.inflight /\ m.inflightGen = l.inflightGen
               /\ m.shelf = l.shelf /\ m.shown = l.shown
  BY DEF Dispatch, Loop

\* The generations of the flushes that wait are numbers.
LEMMA WaiterGens ==
    ASSUME NEW l \in Loop
    PROVE  l.pending \in Nat /\ \A w \in Range(l.waiting) : w.gen \in Nat /\ w.on \in Nat
<1>1. l.pending \in Nat /\ l.waiting \in Seq(Waiter)
  BY LoopSequences DEF Loop
<1>2. \A w \in Range(l.waiting) : w \in Waiter
  BY <1>1, RangeOfSeq
<1> QED
  BY <1>1, <1>2 DEF Waiter

\* The slider moves.
LEMMA DragKeeps ==
    ASSUME IInv, NEW v \in Val, Drag(v)
    PROVE  IInv'
<1>1. loop \in Loop /\ sheet \in Sheet /\ sheet.gen \in Nat /\ wanted \in Nat
  BY SheetFields DEF IInv, Typed
<1>2. /\ sheet' = [sheet EXCEPT !.val = v, !.commit = v]
      /\ UNCHANGED <<text, lastFp, resolveTimer, asked, failed>>
      /\ \/ UNCHANGED <<loop, wanted>>
         \/ loop' = Dispatch(loop, sheet.gen) /\ wanted' = Wanted(sheet.gen)
  BY DEF Drag, editorVars
<1>3. /\ sheet' \in Sheet /\ sheet'.val = v /\ sheet'.commit = v
      /\ sheet'.gen = sheet.gen /\ sheet'.declared = sheet.declared
  BY <1>1, <1>2 DEF Sheet
<1>4. /\ loop' \in Loop /\ loop'.calls = loop.calls /\ loop'.waiting = loop.waiting
      /\ loop'.pending \in {loop.pending, sheet.gen} /\ wanted' \in {wanted, sheet.gen}
      /\ loop'.isRunning = loop.isRunning
      /\ loop'.move = loop.move /\ loop'.viewport = loop.viewport
      /\ loop'.inflight = loop.inflight /\ loop'.inflightGen = loop.inflightGen
      /\ loop'.shelf = loop.shelf /\ loop'.shown = loop.shown
  BY <1>1, <1>2, DispatchIs DEF Wanted
<1>5. Typed'
  BY <1>1, <1>2, <1>3, <1>4 DEF IInv, Typed
<1>6. GensBounded'
  BY <1>1, <1>3, <1>4 DEF IInv, GensBounded
<1>7. Alive(loop', InHand(loop'))
  BY <1>4, AliveStays DEF IInv, InHand
<1>8. MeshComes(loop', sheet', wanted', failed')
  BY <1>3, ValAssumption DEF MeshComes
<1> QED
  BY <1>2, <1>3, <1>4, <1>5, <1>6, <1>7, <1>8 DEF IInv, ShelfWaits, CommitIsCurrent

\* The slider rests, a value is entered or the sheet is reset.
LEMMA CommittedKeeps ==
    ASSUME IInv, NEW v \in Val, Committed(v)
    PROVE  IInv'
<1>1. /\ loop \in Loop /\ sheet \in Sheet /\ sheet.gen \in Nat /\ wanted \in Nat
      /\ wanted <= sheet.gen /\ loop.pending <= sheet.gen
      /\ \A w \in Range(loop.waiting) : w.gen <= sheet.gen
  BY SheetFields DEF IInv, Typed, GensBounded
<1>2. /\ sheet' = [sheet EXCEPT !.val = v, !.gen = @ + 1, !.commit = None]
      /\ UNCHANGED <<text, lastFp, resolveTimer, asked, failed>>
      /\ loop' = Dispatch(loop, sheet.gen + 1) /\ wanted' = Wanted(sheet.gen + 1)
  BY DEF Committed, editorVars
<1>3. /\ sheet' \in Sheet /\ sheet'.commit = None
      /\ sheet'.gen = sheet.gen + 1 /\ sheet'.declared = sheet.declared
  <2>1. sheet.gen + 1 \in Nat /\ None \in Val \cup {None}
    BY <1>1
  <2>2. sheet' = [declared |-> sheet.declared, val |-> v, gen |-> sheet.gen + 1, commit |-> None]
    BY <1>1, <1>2 DEF Sheet
  <2> QED
    BY <1>1, <2>1, <2>2, SheetFields DEF Sheet
<1>4. /\ loop' \in Loop /\ loop'.calls = loop.calls /\ loop'.waiting = loop.waiting
      /\ loop'.pending = IF loop.move = None THEN sheet.gen + 1 ELSE loop.pending
      /\ loop'.isRunning = loop.isRunning
      /\ loop'.move = loop.move /\ loop'.viewport = loop.viewport
      /\ loop'.inflight = loop.inflight /\ loop'.inflightGen = loop.inflightGen
      /\ loop'.shelf = loop.shelf /\ loop'.shown = loop.shown
  <2>1. sheet.gen + 1 \in Nat
    BY <1>1
  <2> QED
    BY <1>1, <1>2, <2>1, DispatchIs
<1>5. wanted' = IF loop.move = None THEN sheet.gen + 1 ELSE wanted
  BY <1>2 DEF Wanted
<1>6. Typed'
  BY <1>1, <1>2, <1>3, <1>4, <1>5 DEF IInv, Typed
<1>7. GensBounded'
  <2>1. loop.pending \in Nat /\ \A w \in Range(loop.waiting) : w.gen \in Nat
    BY <1>1, WaiterGens
  <2>2. /\ loop'.pending <= sheet.gen + 1 /\ wanted' <= sheet.gen + 1
        /\ \A w \in Range(loop.waiting) : w.gen <= sheet.gen + 1
        /\ sheet.gen + 1 # 0
    BY <1>1, <1>4, <1>5, <2>1
  <2> QED
    BY <1>3, <1>4, <2>2 DEF GensBounded
<1>8. Alive(loop', InHand(loop'))
  BY <1>4, AliveStays DEF IInv, InHand
<1>9. MeshComes(loop', sheet', wanted', failed')
  <2>1. CASE loop.move = None
    BY <1>3, <1>4, <2>1 DEF MeshComes, Due
  <2>2. CASE loop.move # None
    <3>1. wanted' # sheet'.gen
      BY <1>1, <1>3, <1>5, <2>2
    <3> QED
      BY <3>1 DEF MeshComes
  <2> QED
    BY <2>1, <2>2
<1> QED
  BY <1>2, <1>3, <1>4, <1>6, <1>7, <1>8, <1>9 DEF IInv, ShelfWaits, CommitIsCurrent

\* The user runs the text.
LEMMA RunKeeps ==
    ASSUME IInv, Run
    PROVE  IInv'
<1> DEFINE e1 == Harvest("page", text, TRUE, TRUE)
           e2 == [kind |-> "analyze", by |-> "run", live |-> TRUE]
           k == [loop EXCEPT !.status = "Running", !.isRunning = TRUE, !.analyzeTimer = FALSE]
           l == PostCall(k, e1)
<1>1. loop \in Loop /\ text \in Val
  BY DEF IInv, Typed
<1>2. /\ e1 \in Call /\ e1.kind = "resolve" /\ e1.live /\ e1.header = text
      /\ e2 \in Call /\ e2.kind = "analyze" /\ e2.live /\ e2.by = "run"
  BY <1>1 DEF Harvest, Call, Resolve, Analyze
<1>3. /\ loop' = PostCall(l, e2) /\ asked' = text
      /\ UNCHANGED <<text, lastFp, resolveTimer, sheet, wanted, failed>>
  BY DEF Run, editorVars
<1>4. k \in Loop /\ k.calls = loop.calls
  BY <1>1 DEF Loop
<1> HIDE DEF e1, e2
<1>5. l \in Loop /\ loop' \in Loop
  BY <1>2, <1>3, <1>4, PostCallTyped
<1>6. /\ l.calls = Append(loop.calls, e1) /\ l.waiting = loop.waiting
      /\ l.pending = loop.pending /\ l.isRunning = TRUE
      /\ l.move = loop.move /\ l.viewport = loop.viewport
      /\ l.inflight = loop.inflight /\ l.inflightGen = loop.inflightGen
      /\ l.shelf = loop.shelf /\ l.shown = loop.shown
  BY <1>1 DEF PostCall, Loop
<1> HIDE DEF l, k
<1>7. /\ loop'.calls = Append(l.calls, e2) /\ loop'.waiting = l.waiting
      /\ loop'.pending = l.pending /\ loop'.isRunning = TRUE
      /\ loop'.move = l.move /\ loop'.viewport = l.viewport
      /\ loop'.inflight = l.inflight /\ loop'.inflightGen = l.inflightGen
      /\ loop'.shelf = l.shelf /\ loop'.shown = l.shown
  BY <1>3, <1>5, <1>6 DEF PostCall, Loop
<1>8. loop.calls \in Seq(Call) /\ l.calls \in Seq(Call)
  BY <1>1, <1>5, LoopSequences
<1>9. Typed'
  BY <1>1, <1>3, <1>5 DEF IInv, Typed
<1>10. GensBounded'
  BY <1>3, <1>6, <1>7 DEF IInv, GensBounded
<1>11. Alive(loop', InHand(loop'))
  <2>1. \A d : d \in InHand(l) <=> d \in InHand(loop) \/ d = e1
    BY <1>1, <1>2, <1>5, <1>6, InHandPosted
  <2>2. \A d : d \in InHand(loop') <=> d \in InHand(l) \/ d = e2
    BY <1>2, <1>5, <1>7, InHandPosted
  <2>3. Alive(loop, InHand(loop)) /\ \A d \in InHand(loop) : d \in InHand(loop')
    BY <2>1, <2>2 DEF IInv
  <2>4. SlotAlive(loop', InHand(loop'))
    BY <1>6, <1>7, <2>3 DEF Alive, SlotAlive
  <2>5. WaitersAlive(loop', InHand(loop'))
    BY <1>6, <1>7, <2>3 DEF Alive, WaitersAlive
  <2>6. ButtonAlive(loop', InHand(loop'))
    BY <1>2, <2>2 DEF ButtonAlive
  <2>7. MoveAlive(loop', InHand(loop'))
    BY <1>6, <1>7, <2>3 DEF Alive, MoveAlive
  <2> QED
    BY <2>4, <2>5, <2>6, <2>7 DEF Alive
<1>12. InOrder(loop'.calls)
  <2>1. InOrder(l.calls)
    BY <1>2, <1>6, <1>8, PostKeepsOrder DEF IInv
  <2> QED
    BY <1>2, <1>7, <1>8, <2>1, PostKeepsOrder
<1>13. HarvestKnown(loop'.calls, text, sheet.declared)
  <2>1. HarvestKnown(l.calls, text, sheet.declared)
    BY <1>2, <1>6, <1>8, PostHarvest
  <2>2. e2.kind # "resolve"
    BY <1>2
  <2> QED
    BY <1>2, <1>7, <1>8, <2>1, <2>2, PostKeepsHarvest
<1>14. MeshComes(loop', sheet, wanted, failed)
  <2>1. e1.kind # "execute" /\ e2.kind # "execute"
    BY <1>2
  <2>2. MeshComes(l, sheet, wanted, failed)
    BY <1>1, <1>2, <1>5, <1>6, <2>1, PostKeepsComes DEF IInv
  <2> QED
    BY <1>2, <1>5, <1>7, <2>1, <2>2, PostKeepsComes
<1> QED
  BY <1>3, <1>6, <1>7, <1>9, <1>10, <1>11, <1>12, <1>13, <1>14
     DEF IInv, ShelfWaits, CommitIsCurrent

\* An undo, a redo or a restore.
LEMMA MoveKeeps ==
    ASSUME IInv, NEW v \in Val, Move(v)
    PROVE  IInv'
<1>1. /\ loop \in Loop /\ sheet \in Sheet /\ sheet.gen \in Nat /\ v # None
      /\ loop.calls \in Seq(Call) /\ wanted <= sheet.gen /\ wanted \in Nat
  BY SheetFields, LoopSequences, ValAssumption DEF IInv, Typed, GensBounded
<1>2. PICK l : l = [loop EXCEPT !.move = v, !.pending = 0]
  OBVIOUS
<1>3. /\ l \in Loop /\ l.calls = loop.calls /\ l.waiting = loop.waiting
      /\ l.pending = 0 /\ l.isRunning = loop.isRunning /\ l.move = v
      /\ l.viewport = loop.viewport
      /\ l.inflight = loop.inflight /\ l.inflightGen = loop.inflightGen
      /\ l.shelf = loop.shelf /\ l.shown = loop.shown
  BY <1>1, <1>2 DEF Loop
<1>4. /\ loop.move = None /\ text' = v /\ UNCHANGED <<lastFp, failed>>
      /\ IF text = v
         THEN Overlay(l, sheet, v) /\ UNCHANGED asked
         ELSE /\ loop' = PostCall(l, Harvest("move", v, FALSE, TRUE))
              /\ asked' = v
              /\ UNCHANGED <<sheet, wanted>>
  BY <1>2 DEF Move
<1>5. /\ InOrder(loop.calls) /\ HarvestKnown(loop.calls, asked, sheet.declared)
      /\ Alive(loop, InHand(loop)) /\ \A d \in InHand(loop) : d \in InHand(l)
  BY <1>3 DEF IInv, InHand
<1>6. loop.pending \in Nat /\ \A w \in Range(loop.waiting) : w.gen \in Nat /\ w.gen <= sheet.gen
  BY <1>1, WaiterGens DEF IInv, GensBounded
<1>7. CASE text = v
  <2>1. /\ loop' \in Loop /\ sheet' \in Sheet
        /\ sheet'.gen = sheet.gen + 1 /\ sheet'.declared = sheet.declared
        /\ sheet'.val = v /\ sheet'.commit = None
        /\ wanted' = sheet.gen + 1
        /\ \E e \in Call : /\ e.kind = "execute" /\ e.by = "move" /\ e.live
                           /\ e.val = v /\ e.gen = sheet.gen + 1
                           /\ loop'.calls = Append(l.calls, e)
        /\ ~loop'.isRunning
        /\ loop'.waiting = l.waiting /\ loop'.pending = l.pending /\ loop'.move = l.move
        /\ loop'.inflight = l.inflight /\ loop'.inflightGen = l.inflightGen
        /\ loop'.viewport = l.viewport /\ loop'.shelf = l.shelf
    BY <1>1, <1>3, <1>4, <1>7, OverlayEffect
  <2>2. PICK e \in Call : /\ e.kind = "execute" /\ e.by = "move" /\ e.live
                          /\ e.val = v /\ e.gen = sheet.gen + 1
                          /\ loop'.calls = Append(l.calls, e)
    BY <2>1
  <2>3. Typed'
    <3>1. sheet.gen + 1 \in Nat
      BY <1>1
    <3> QED
      BY <1>4, <1>7, <2>1, <3>1 DEF IInv, Typed
  <2>4. GensBounded'
    <3>1. 0 <= sheet.gen + 1 /\ \A w \in Range(loop.waiting) : w.gen <= sheet.gen + 1
      BY <1>1, <1>6
    <3>2. sheet.gen + 1 <= sheet.gen + 1 /\ sheet.gen + 1 # 0
      BY <1>1
    <3> QED
      BY <1>3, <2>1, <3>1, <3>2 DEF GensBounded
  <2>5. Alive(loop', InHand(loop'))
    <3>1. \A d : d \in InHand(loop') <=> d \in InHand(l) \/ d = e
      BY <1>3, <2>1, <2>2, InHandPosted
    <3>2. \A d \in InHand(loop) : d \in InHand(loop')
      BY <1>5, <3>1
    <3>3. SlotAlive(loop', InHand(loop'))
      BY <1>3, <1>5, <2>1, <3>2 DEF Alive, SlotAlive
    <3>4. WaitersAlive(loop', InHand(loop'))
      BY <1>3, <1>5, <2>1, <3>2 DEF Alive, WaitersAlive
    <3>5. ButtonAlive(loop', InHand(loop')) /\ MoveAlive(loop', InHand(loop'))
      BY <2>1, <2>2, <3>1 DEF ButtonAlive, MoveAlive
    <3> QED
      BY <3>3, <3>4, <3>5 DEF Alive
  <2>6. InOrder(loop'.calls)
    BY <1>1, <1>3, <1>5, <2>2, PostKeepsOrder
  <2>7. HarvestKnown(loop'.calls, asked, sheet.declared)
    <3>1. e.kind # "resolve"
      BY <2>2
    <3> QED
      BY <1>1, <1>3, <1>5, <2>2, <3>1, PostKeepsHarvest
  <2>8. ShelfWaits'
    BY <1>3, <2>1 DEF IInv, ShelfWaits
  <2>9. MeshComes(loop', sheet', wanted', failed')
    <3>1. Right(e, sheet')
      BY <1>1, <2>1, <2>2 DEF Right
    <3>2. PICK sh : sh = sheet'
      OBVIOUS
    <3>3. Painting(loop'.calls, sh) /\ ~NoneLive(loop'.calls)
      BY <1>1, <1>3, <2>2, <3>1, <3>2, PostPaints
    <3> QED
      BY <3>2, <3>3 DEF MeshComes, MeshKnown
  <2>10. CommitIsCurrent'
    BY <2>1 DEF CommitIsCurrent
  <2> QED
    BY <1>4, <1>7, <2>1, <2>3, <2>4, <2>5, <2>6, <2>7, <2>8, <2>9, <2>10 DEF IInv
<1>8. CASE text # v
  <2> DEFINE e == Harvest("move", v, FALSE, TRUE)
  <2>1. /\ e \in Call /\ e.kind = "resolve" /\ e.live /\ e.header = v /\ e.by = "move"
        /\ e.kind # "execute"
    BY DEF Harvest, Call, Resolve
  <2>2. /\ loop' = PostCall(l, e) /\ asked' = v
        /\ UNCHANGED <<sheet, wanted, lastFp, failed>> /\ text' = v
    BY <1>4, <1>8
  <2> HIDE DEF e
  <2>3. loop' \in Loop
    BY <1>3, <2>1, <2>2, PostCallTyped
  <2>4. /\ loop'.calls = Append(l.calls, e) /\ loop'.waiting = l.waiting
        /\ loop'.pending = l.pending /\ loop'.isRunning = l.isRunning
        /\ loop'.move = l.move /\ loop'.viewport = l.viewport
        /\ loop'.inflight = l.inflight /\ loop'.inflightGen = l.inflightGen
        /\ loop'.shelf = l.shelf /\ loop'.shown = l.shown
    BY <1>3, <2>2 DEF PostCall, Loop
  <2>5. Typed'
    BY <1>1, <2>2, <2>3 DEF IInv, Typed
  <2>6. GensBounded'
    BY <1>1, <1>3, <1>6, <2>2, <2>4 DEF IInv, GensBounded
  <2>7. Alive(loop', InHand(loop'))
    <3>1. \A d : d \in InHand(loop') <=> d \in InHand(l) \/ d = e
      BY <1>3, <2>1, <2>3, <2>4, InHandPosted
    <3>2. \A d \in InHand(loop) : d \in InHand(loop')
      BY <1>5, <3>1
    <3>3. SlotAlive(loop', InHand(loop'))
      BY <1>3, <1>5, <2>4, <3>2 DEF Alive, SlotAlive
    <3>4. WaitersAlive(loop', InHand(loop'))
      BY <1>3, <1>5, <2>4, <3>2 DEF Alive, WaitersAlive
    <3>5. ButtonAlive(loop', InHand(loop'))
      BY <1>3, <1>5, <2>4, <3>2 DEF Alive, ButtonAlive
    <3>6. MoveAlive(loop', InHand(loop'))
      BY <2>1, <3>1 DEF MoveAlive
    <3> QED
      BY <3>3, <3>4, <3>5, <3>6 DEF Alive
  <2>8. InOrder(loop'.calls)
    BY <1>1, <1>3, <1>5, <2>1, <2>4, PostKeepsOrder
  <2>9. HarvestKnown(loop'.calls, v, sheet.declared)
    BY <1>1, <1>3, <2>1, <2>4, PostHarvest
  <2>10. ShelfWaits'
    BY <1>3, <2>4 DEF IInv, ShelfWaits
  <2>11. MeshComes(loop', sheet, wanted, failed)
    <3>1. /\ Len(loop'.calls) \in 1 .. Len(loop'.calls)
          /\ loop'.calls[Len(loop'.calls)] = e
      BY <1>1, <1>3, <2>1, <2>4, AppendIs
    <3>2. Due(loop', sheet.gen)
      BY <2>1, <3>1 DEF Due
    <3> QED
      BY <3>2 DEF MeshComes
  <2>12. CommitIsCurrent'
    BY <2>2 DEF IInv, CommitIsCurrent
  <2> QED
    BY <2>2, <2>5, <2>6, <2>7, <2>8, <2>9, <2>10, <2>11, <2>12 DEF IInv
<1> QED
  BY <1>7, <1>8

\* A call that is no execute is sent by a timer.
LEMMA TimerPosts ==
    ASSUME IInv, NEW e \in Call, e.live, e.kind # "execute", loop' \in Loop,
           loop'.calls = Append(loop.calls, e), loop'.waiting = loop.waiting,
           loop'.pending = loop.pending, loop'.isRunning = loop.isRunning,
           loop'.move = loop.move, loop'.viewport = loop.viewport,
           loop'.inflight = loop.inflight, loop'.inflightGen = loop.inflightGen,
           loop'.shelf = loop.shelf, loop'.shown = loop.shown,
           UNCHANGED <<text, lastFp, sheet, wanted, failed>>,
           asked' = IF e.kind = "resolve" THEN e.header ELSE asked,
           asked' \in Val
    PROVE  IInv'
<1>1. loop \in Loop /\ loop.calls \in Seq(Call)
  BY LoopSequences DEF IInv, Typed
<1>2. Typed'
  BY DEF IInv, Typed
<1>3. GensBounded'
  BY DEF IInv, GensBounded
<1>4. Alive(loop', InHand(loop'))
  <2>1. \A d : d \in InHand(loop') <=> d \in InHand(loop) \/ d = e
    BY <1>1, InHandPosted
  <2>2. \A d \in InHand(loop) : d.live => d \in InHand(loop')
    BY <2>1
  <2>3. Alive(loop, InHand(loop))
    BY DEF IInv
  <2> QED
    BY <2>2, <2>3, AliveStays
<1>5. InOrder(loop'.calls)
  BY <1>1, PostKeepsOrder DEF IInv
<1>6. HarvestKnown(loop'.calls, asked', sheet.declared)
  <2>1. CASE e.kind = "resolve"
    BY <1>1, <2>1, PostHarvest
  <2>2. CASE e.kind # "resolve"
    BY <1>1, <2>2, PostKeepsHarvest DEF IInv
  <2> QED
    BY <2>1, <2>2
<1>7. MeshComes(loop', sheet, wanted, failed)
  BY <1>1, PostKeepsComes DEF IInv
<1> QED
  BY <1>2, <1>3, <1>4, <1>5, <1>6, <1>7 DEF IInv, ShelfWaits, CommitIsCurrent

\* The debounce of the harvest ends.
LEMMA ResolveTimerKeeps ==
    ASSUME IInv, ResolveTimer
    PROVE  IInv'
<1> DEFINE e == Harvest("page", text, TRUE, FALSE)
<1>1. loop \in Loop /\ text \in Val
  BY DEF IInv, Typed
<1>2. UNCHANGED <<text, lastFp, sheet, wanted, failed>>
  BY DEF ResolveTimer
<1>3. CASE text = lastFp
  <2>1. UNCHANGED <<loop, asked>>
    BY <1>3 DEF ResolveTimer
  <2> QED
    BY <1>2, <2>1 DEF IInv, Typed, GensBounded, ShelfWaits, CommitIsCurrent
<1>4. CASE text # lastFp
  <2>1. e \in Call /\ e.kind = "resolve" /\ e.live /\ e.header = text
    BY <1>1 DEF Harvest, Call, Resolve
  <2>2. loop' = PostCall(loop, e) /\ asked' = text
    BY <1>4 DEF ResolveTimer
  <2> HIDE DEF e
  <2>3. loop' \in Loop
    BY <1>1, <2>1, <2>2, PostCallTyped
  <2>4. /\ loop'.calls = Append(loop.calls, e) /\ loop'.waiting = loop.waiting
        /\ loop'.pending = loop.pending /\ loop'.isRunning = loop.isRunning
        /\ loop'.move = loop.move /\ loop'.viewport = loop.viewport
        /\ loop'.inflight = loop.inflight /\ loop'.inflightGen = loop.inflightGen
        /\ loop'.shelf = loop.shelf /\ loop'.shown = loop.shown
    BY <1>1, <2>2 DEF PostCall, Loop
  <2>5. e.kind # "execute" /\ asked' = (IF e.kind = "resolve" THEN e.header ELSE asked)
        /\ asked' \in Val
    BY <1>1, <2>1, <2>2
  <2> QED
    BY <1>2, <2>1, <2>3, <2>4, <2>5, TimerPosts
<1> QED
  BY <1>3, <1>4

\* The debounce of the analysis ends.
LEMMA AnalyzeTimerKeeps ==
    ASSUME IInv, AnalyzeTimer
    PROVE  IInv'
<1> DEFINE e == [kind |-> "analyze", by |-> "editor", live |-> TRUE]
           l == [loop EXCEPT !.analyzeTimer = FALSE,
                             !.status = IF loop.isRunning \/ Busy(loop) THEN @ ELSE "Analyzing"]
<1>1. loop \in Loop /\ asked \in Val
  BY DEF IInv, Typed
<1>2. UNCHANGED <<text, lastFp, sheet, asked, wanted, failed>> /\ loop' = PostCall(l, e)
  BY DEF AnalyzeTimer, editorVars, history
<1>3. e \in Call /\ e.kind = "analyze" /\ e.live
  BY DEF Call, Analyze
<1>4. /\ l \in Loop /\ l.calls = loop.calls /\ l.waiting = loop.waiting
      /\ l.pending = loop.pending /\ l.isRunning = loop.isRunning
      /\ l.move = loop.move /\ l.viewport = loop.viewport
      /\ l.inflight = loop.inflight /\ l.inflightGen = loop.inflightGen
      /\ l.shelf = loop.shelf /\ l.shown = loop.shown
  BY <1>1 DEF Loop
<1> HIDE DEF e, l
<1>5. loop' \in Loop
  BY <1>2, <1>3, <1>4, PostCallTyped
<1>6. /\ loop'.calls = Append(loop.calls, e) /\ loop'.waiting = loop.waiting
      /\ loop'.pending = loop.pending /\ loop'.isRunning = loop.isRunning
      /\ loop'.move = loop.move /\ loop'.viewport = loop.viewport
      /\ loop'.inflight = loop.inflight /\ loop'.inflightGen = loop.inflightGen
      /\ loop'.shelf = loop.shelf /\ loop'.shown = loop.shown
  BY <1>2, <1>4 DEF PostCall, Loop
<1>7. e.kind # "execute" /\ asked' = (IF e.kind = "resolve" THEN e.header ELSE asked)
      /\ asked' \in Val
  BY <1>1, <1>2, <1>3
<1> QED
  BY <1>2, <1>3, <1>5, <1>6, <1>7, TimerPosts

\* The timer of the newest edit: its flush starts a run when none is in flight.
LEMMA FlushStartsKeeps ==
    ASSUME IInv, FlushTimer, loop.inflight = NoRun
    PROVE  IInv'
<1> DEFINE l == [loop EXCEPT !.pending = 0]
           g == sheet.gen
           v == sheet.val
<1>1. /\ loop \in Loop /\ sheet \in Sheet /\ g \in Nat /\ v \in Val
      /\ loop.pending \in Nat /\ loop.pending <= g
  BY SheetFields, WaiterGens DEF IInv, Typed, GensBounded
<1>2. /\ l \in Loop /\ l.calls = loop.calls /\ l.waiting = loop.waiting
      /\ l.pending = 0 /\ l.isRunning = loop.isRunning
      /\ l.move = loop.move /\ l.viewport = loop.viewport
      /\ l.inflight = loop.inflight /\ l.inflightGen = loop.inflightGen
      /\ l.shelf = loop.shelf /\ l.shown = loop.shown
  BY <1>1 DEF Loop
<1>3. loop' = RunFlush(l, loop.pending, g, v)
  BY DEF FlushTimer
<1>4. UNCHANGED <<text, lastFp, sheet, asked, wanted, failed>>
  BY DEF FlushTimer, editorVars, history
<1> HIDE DEF l
<1>5. loop' \in Loop
  BY <1>1, <1>2, <1>3, RunFlushTyped
<1>6. /\ Started(l, loop', g, v) /\ loop'.waiting = loop.waiting
      /\ loop.pending >= g => Len(loop'.calls) > Len(l.calls)
  BY <1>1, <1>2, <1>3, FlushStarts
<1>7. /\ Extends(loop.calls, loop'.calls, g, v)
      /\ loop'.isRunning => loop.isRunning
      /\ loop'.move = loop.move /\ loop'.pending = 0
      /\ loop'.viewport = loop.viewport /\ loop'.shelf = loop.shelf /\ loop'.shown = loop.shown
      /\ SlotFollows(l, loop')
  BY <1>2, <1>6 DEF Started
<1>8. loop.calls \in Seq(Call) /\ loop'.calls \in Seq(Call)
  BY <1>1, <1>5, LoopSequences
<1>9. Typed'
  BY <1>4, <1>5 DEF IInv, Typed
<1>10. GensBounded'
  BY <1>1, <1>4, <1>6, <1>7 DEF IInv, GensBounded
<1>11. Alive(loop', InHand(loop'))
  <2>1. \A d \in Range(loop.calls) : d \in Range(loop'.calls)
    BY <1>7, <1>8, ExtendsRange
  <2>2. Alive(loop, InHand(loop)) /\ \A d \in InHand(loop) : d \in InHand(loop')
    BY <1>7, <2>1 DEF IInv, InHand
  <2>3. SlotAlive(loop', InHand(loop'))
    <3>1. SUFFICES ASSUME loop'.inflight # NoRun
                   PROVE  \E d \in InHand(loop') :
                              /\ d.live /\ d.kind = "execute" /\ d.by = "flush"
                              /\ d.id = loop'.inflight /\ d.gen = loop'.inflightGen
      BY DEF SlotAlive
    <3>2. \E i \in 1 .. Len(loop'.calls) : /\ i > Len(loop.calls)
                                           /\ loop'.calls[i].id = loop'.inflight
                                           /\ loop'.calls[i].gen = loop'.inflightGen
      BY <1>2, <1>7, <3>1 DEF SlotFollows
    <3>3. PICK i \in 1 .. Len(loop'.calls) : /\ i > Len(loop.calls)
                                             /\ loop'.calls[i].id = loop'.inflight
                                             /\ loop'.calls[i].gen = loop'.inflightGen
      BY <3>2
    <3>4. NewFlush(loop'.calls[i], g, v)
      BY <1>7, <3>3 DEF Extends
    <3>5. loop'.calls[i] \in InHand(loop')
      BY <1>8, RangeOfCalls DEF InHand
    <3> QED
      BY <3>3, <3>4, <3>5 DEF NewFlush
  <2>4. WaitersAlive(loop', InHand(loop'))
    BY <1>6, <2>2 DEF Alive, WaitersAlive
  <2>5. ButtonAlive(loop', InHand(loop'))
    BY <1>7, <2>2 DEF Alive, ButtonAlive
  <2>6. MoveAlive(loop', InHand(loop'))
    BY <1>7, <2>2 DEF Alive, MoveAlive
  <2> QED
    BY <2>3, <2>4, <2>5, <2>6 DEF Alive
<1>12. InOrder(loop'.calls)
  BY <1>7, <1>8, FlushesKeepOrder DEF IInv
<1>13. HarvestKnown(loop'.calls, asked, sheet.declared)
  BY <1>7, <1>8, FlushesKeepHarvest DEF IInv
<1>14. MeshComes(loop', sheet, wanted, failed)
  <2>1. SUFFICES ASSUME sheet.commit = None, wanted = g, ~Due(loop', g)
                 PROVE  MeshKnown(loop', sheet, failed)
    BY DEF MeshComes
  <2>2. CASE Len(loop'.calls) > Len(loop.calls)
    BY <1>7, <1>8, <2>2, FlushesPaint DEF MeshKnown
  <2>3. CASE ~(Len(loop'.calls) > Len(loop.calls))
    <3>1. loop'.calls = loop.calls
      BY <1>7, <1>8, <2>3, FlushesPaint
    <3>2. loop.pending # g
      BY <1>1, <1>2, <1>6, <2>3
    <3>3. ~Due(loop, g)
      BY <1>6, <2>1, <3>1, <3>2 DEF Due
    <3>4. MeshKnown(loop, sheet, failed)
      BY <2>1, <3>3 DEF IInv, MeshComes
    <3> QED
      BY <1>7, <3>1, <3>4 DEF MeshKnown, Painted
  <2> QED
    BY <2>2, <2>3
<1> QED
  BY <1>4, <1>7, <1>9, <1>10, <1>11, <1>12, <1>13, <1>14 DEF IInv, ShelfWaits, CommitIsCurrent

\* A flush whose timer fires while a run is in flight waits for that run.
LEMMA FlushWaitsKeeps ==
    ASSUME IInv, FlushTimer, loop.inflight # NoRun
    PROVE  IInv'
<1> DEFINE w == [gen |-> loop.pending, on |-> loop.inflight]
<1>1. /\ loop \in Loop /\ sheet \in Sheet /\ sheet.gen \in Nat
      /\ loop.pending \in Nat /\ loop.inflight \in Nat /\ loop.waiting \in Seq(Waiter)
      /\ loop.pending <= sheet.gen
  BY SheetFields, LoopSequences, WaiterGens DEF IInv, Typed, GensBounded, Loop
<1>2. w \in Waiter /\ w.gen = loop.pending /\ w.on = loop.inflight
  BY <1>1 DEF Waiter
<1>3. loop' = [loop EXCEPT !.pending = 0, !.waiting = Append(@, w)]
  BY DEF FlushTimer
<1>4. UNCHANGED <<text, lastFp, sheet, asked, wanted, failed>>
  BY DEF FlushTimer, editorVars, history
<1> HIDE DEF w
<1>5. /\ loop' \in Loop /\ loop'.calls = loop.calls /\ loop'.waiting = Append(loop.waiting, w)
      /\ loop'.pending = 0 /\ loop'.isRunning = loop.isRunning
      /\ loop'.move = loop.move /\ loop'.viewport = loop.viewport
      /\ loop'.inflight = loop.inflight /\ loop'.inflightGen = loop.inflightGen
      /\ loop'.shelf = loop.shelf /\ loop'.shown = loop.shown
  <2>1. Append(loop.waiting, w) \in Seq([gen : Nat, on : Nat])
    BY <1>1, <1>2 DEF Waiter
  <2> QED
    BY <1>1, <1>3, <2>1 DEF Loop
<1>6. \A x : x \in Range(loop'.waiting) <=> x \in Range(loop.waiting) \/ x = w
  BY <1>1, <1>2, <1>5, RangeAppend
<1>7. Typed'
  BY <1>4, <1>5 DEF IInv, Typed
<1>8. GensBounded'
  BY <1>1, <1>2, <1>4, <1>5, <1>6 DEF IInv, GensBounded
<1>9. Alive(loop', InHand(loop'))
  <2>1. Alive(loop, InHand(loop)) /\ InHand(loop') = InHand(loop)
    BY <1>5 DEF IInv, InHand
  <2>2. SlotAlive(loop', InHand(loop'))
    BY <1>5, <2>1 DEF Alive, SlotAlive
  <2>3. WaitersAlive(loop', InHand(loop'))
    <3>1. SUFFICES ASSUME NEW x \in Range(loop'.waiting)
                   PROVE  \E d \in InHand(loop) :
                              d.live /\ d.kind = "execute" /\ d.by = "flush" /\ d.id = x.on
      BY <2>1 DEF WaitersAlive
    <3>2. CASE x = w
      BY <1>2, <2>1, <3>2 DEF Alive, SlotAlive
    <3>3. CASE x \in Range(loop.waiting)
      BY <2>1, <3>3 DEF Alive, WaitersAlive
    <3> QED
      BY <1>6, <3>2, <3>3
  <2>4. ButtonAlive(loop', InHand(loop'))
    BY <1>5, <2>1 DEF Alive, ButtonAlive
  <2>5. MoveAlive(loop', InHand(loop'))
    BY <1>5, <2>1 DEF Alive, MoveAlive
  <2> QED
    BY <2>2, <2>3, <2>4, <2>5 DEF Alive
<1>10. MeshComes(loop', sheet, wanted, failed)
  <2>1. Due(loop, sheet.gen) => Due(loop', sheet.gen)
    BY <1>2, <1>5, <1>6 DEF Due
  <2> QED
    BY <1>5, <2>1 DEF IInv, MeshComes, MeshKnown, Painted
<1> QED
  BY <1>4, <1>5, <1>7, <1>8, <1>9, <1>10 DEF IInv, ShelfWaits, CommitIsCurrent

\* An answer nobody listens for any more.
LEMMA LateReplyKeeps ==
    ASSUME IInv, LateReply
    PROVE  IInv'
<1> DEFINE s == loop.calls
<1>1. loop \in Loop /\ s \in Seq(Call)
  BY LoopSequences DEF IInv, Typed
<1>2. /\ s # <<>> /\ ~Head(s).live /\ loop' = [loop EXCEPT !.calls = Tail(s)]
      /\ UNCHANGED <<text, lastFp, sheet, asked, wanted, failed>>
  BY DEF LateReply, editorVars, history
<1>3. /\ Tail(s) \in Seq(Call) /\ Len(Tail(s)) = Len(s) - 1 /\ Head(s) = s[1]
      /\ Len(s) \in Nat /\ 1 \in 1 .. Len(s)
      /\ \A i \in 1 .. Len(s) - 1 : Tail(s)[i] = s[i + 1] /\ i + 1 \in 1 .. Len(s)
      /\ \A i \in 1 .. Len(s) : i # 1 => i - 1 \in 1 .. Len(s) - 1 /\ Tail(s)[i - 1] = s[i]
  BY <1>1, <1>2, TailIs
<1>4. /\ loop' \in Loop /\ loop'.calls = Tail(s) /\ loop'.waiting = loop.waiting
      /\ loop'.pending = loop.pending /\ loop'.isRunning = loop.isRunning
      /\ loop'.move = loop.move /\ loop'.viewport = loop.viewport
      /\ loop'.inflight = loop.inflight /\ loop'.inflightGen = loop.inflightGen
      /\ loop'.shelf = loop.shelf /\ loop'.shown = loop.shown
  BY <1>1, <1>2, <1>3 DEF Loop
<1>5. Typed' /\ GensBounded'
  BY <1>2, <1>4 DEF IInv, Typed, GensBounded
<1>6. Alive(loop', InHand(loop'))
  <2>1. ASSUME NEW d \in Range(s), d.live PROVE d \in Range(loop'.calls)
    <3>1. PICK i \in 1 .. Len(s) : s[i] = d
      BY <1>1, RangeOfCalls
    <3>2. i # 1
      BY <1>2, <1>3, <2>1, <3>1
    <3>3. i - 1 \in 1 .. Len(Tail(s)) /\ Tail(s)[i - 1] = d
      BY <1>3, <3>1, <3>2
    <3> QED
      BY <1>3, <1>4, <3>3, RangeOfCalls
  <2>2. \A d \in InHand(loop) : d.live => d \in InHand(loop')
    BY <1>4, <2>1 DEF InHand
  <2> QED
    BY <1>4, <2>2, AliveStays DEF IInv
<1>7. InOrder(loop'.calls)
  BY <1>1, <1>2, <1>4, TailKeepsOrder DEF IInv
<1>8. HarvestKnown(loop'.calls, asked, sheet.declared)
  BY <1>1, <1>2, <1>3, <1>4, TailKeepsHarvest DEF IInv
<1>9. MeshComes(loop', sheet, wanted, failed)
  <2>1. SUFFICES ASSUME sheet.commit = None, wanted = sheet.gen, ~Due(loop', sheet.gen)
                 PROVE  MeshKnown(loop', sheet, failed)
    BY DEF MeshComes
  <2>2. ~Due(loop, sheet.gen)
    <3>1. ASSUME NEW i \in 1 .. Len(s), s[i].kind = "resolve", s[i].by = "move", s[i].live
          PROVE  FALSE
      <4>1. i # 1
        BY <1>2, <1>3, <3>1
      <4>2. i - 1 \in 1 .. Len(Tail(s)) /\ Tail(s)[i - 1] = s[i]
        BY <1>3, <4>1
      <4> QED
        BY <1>4, <2>1, <3>1, <4>2 DEF Due
    <3> QED
      BY <1>4, <2>1, <3>1 DEF Due
  <2>3. MeshKnown(loop, sheet, failed)
    BY <2>1, <2>2 DEF IInv, MeshComes
  <2>4. Painting(loop'.calls, sheet)
    BY <1>1, <1>2, <1>4, <2>3, TailKeepsMesh DEF MeshKnown
  <2>5. NoneLive(loop'.calls) => NoneLive(s)
    <3>1. /\ Painting(s, sheet) => Painting(Tail(s), sheet)
          /\ NoneLive(Tail(s)) /\ (s[1].kind = "execute" => ~s[1].live) => NoneLive(s)
      BY <1>1, <1>2, TailKeepsMesh
    <3> QED
      BY <1>2, <1>3, <1>4, <3>1
  <2> QED
    BY <1>4, <2>3, <2>4, <2>5 DEF MeshKnown, Painted
<1> QED
  BY <1>2, <1>4, <1>5, <1>6, <1>7, <1>8, <1>9 DEF IInv, ShelfWaits, CommitIsCurrent

\* All that waited for the viewport has ended.
LEMMA UnshelvesKeep ==
    ASSUME IInv, NEW viewport \in Loaded,
           loop.viewport = "loading",
           loop' = Unshelve(loop, viewport, sheet.gen, sheet.val),
           UNCHANGED <<editorVars, sheet, asked, wanted>>,
           failed' = IF viewport = "made" THEN failed ELSE TRUE
    PROVE  IInv'
<1> DEFINE g == sheet.gen
           v == sheet.val
<1>1. /\ loop \in Loop /\ sheet \in Sheet /\ g \in Nat /\ v \in Val /\ wanted \in Nat
  BY SheetFields DEF IInv, Typed
<1>2. loop' \in Loop
  BY <1>1, UnshelveTyped
<1>3. Unshelved(loop, loop', viewport, g, v)
  BY <1>1, UnshelveEffect DEF IInv
<1>4. /\ Extends(loop.calls, loop'.calls, g, v)
      /\ loop'.pending = loop.pending /\ loop'.viewport = viewport /\ loop'.shelf = <<>>
      /\ loop'.shown = IF loop.shelf # <<>> /\ viewport = "made"
                       THEN loop.shelf[Len(loop.shelf)].val ELSE loop.shown
      /\ Alive(loop', Range(loop'.calls))
      /\ \A w \in Range(loop'.waiting) : w \in Range(loop.waiting)
      /\ \A w \in Range(loop.waiting) :
             loop.pending <= w.gen /\ w.gen >= g
                 => w \in Range(loop'.waiting) \/ Len(loop'.calls) > Len(loop.calls)
  BY <1>3 DEF Unshelved
<1>5. loop.calls \in Seq(Call) /\ loop'.calls \in Seq(Call)
  BY <1>1, <1>2, LoopSequences
<1>6. Typed'
  BY <1>2 DEF IInv, Typed, editorVars
<1>7. GensBounded'
  BY <1>4 DEF IInv, GensBounded
<1>8. Alive(loop', InHand(loop'))
  BY <1>4, AliveMore DEF InHand
<1>9. InOrder(loop'.calls)
  BY <1>4, <1>5, FlushesKeepOrder DEF IInv
<1>10. HarvestKnown(loop'.calls, asked, sheet.declared)
  BY <1>4, <1>5, FlushesKeepHarvest DEF IInv
<1>11. MeshComes(loop', sheet, wanted, failed')
  <2>1. SUFFICES ASSUME sheet.commit = None, wanted = g, ~Due(loop', g)
                 PROVE  MeshKnown(loop', sheet, failed')
    BY DEF MeshComes
  <2>2. CASE Len(loop'.calls) > Len(loop.calls)
    BY <1>4, <1>5, <2>2, FlushesPaint DEF MeshKnown
  <2>3. CASE ~(Len(loop'.calls) > Len(loop.calls))
    <3>1. loop'.calls = loop.calls
      BY <1>4, <1>5, <2>3, FlushesPaint
    <3>2. ~Due(loop, g)
      <4>1. ASSUME NEW w \in Range(loop.waiting), w.gen = g PROVE w \in Range(loop'.waiting)
        <5>1. loop.pending <= w.gen /\ w.gen >= g
          BY <1>1, <4>1 DEF IInv, GensBounded
        <5> QED
          BY <1>4, <2>3, <5>1
      <4> QED
        BY <1>1, <1>2, <1>4, <2>1, <4>1, DueStays
    <3>3. MeshKnown(loop, sheet, failed)
      BY <2>1, <3>2 DEF IInv, MeshComes
    <3>4. Painted(loop, sheet, failed) => Painted(loop', sheet, failed')
      BY <1>4 DEF Painted
    <3> QED
      BY <3>1, <3>3, <3>4 DEF MeshKnown
  <2> QED
    BY <2>2, <2>3
<1>12. ShelfWaits' /\ CommitIsCurrent'
  BY <1>4 DEF IInv, ShelfWaits, CommitIsCurrent
<1> QED
  BY <1>6, <1>7, <1>8, <1>9, <1>10, <1>11, <1>12 DEF IInv

-----------------------------------------------------------------------------
(* The invariant and what it shows.                                        *)

\* The page starts with the invariant.
LEMMA InitIInv ==
    ASSUME Init
    PROVE  IInv
<1> DEFINE boot == [kind |-> "execute", by |-> "boot", id |-> 1, gen |-> 1,
                    val |-> Declared, live |-> TRUE]
<1>1. /\ text = Declared /\ lastFp = Declared /\ asked = Declared /\ wanted = 1
      /\ sheet = [declared |-> Declared, val |-> Declared, gen |-> 1, commit |-> None]
      /\ loop = [pending |-> 0, waiting |-> <<>>, inflight |-> NoRun, inflightGen |-> 0,
                 calls |-> <<boot>>, status |-> "Updating", isRunning |-> FALSE,
                 analyzeTimer |-> FALSE, viewport |-> "none", shelf |-> <<>>,
                 shown |-> None, move |-> None]
  BY DEF Init
<1>2. boot \in Call /\ boot.kind = "execute" /\ boot.live /\ boot.gen = 1 /\ boot.val = Declared
  BY ValAssumption DEF Call, Execute
<1> HIDE DEF boot
<1>3. /\ <<boot>> \in Seq(Call) /\ Len(<<boot>>) = 1 /\ <<boot>>[1] = boot
      /\ <<>> \in Seq([gen : Nat, on : Nat]) /\ <<>> \in Seq(Execute)
      /\ \A i \in 1 .. 1 : i = 1
  BY <1>2
<1>4. Typed
  BY <1>1, <1>3, ValAssumption DEF Typed, Sheet, Loop, NoRun
<1>5. /\ loop.calls = <<boot>> /\ loop.waiting = <<>> /\ loop.pending = 0
      /\ loop.inflight = NoRun /\ ~loop.isRunning /\ loop.move = None
      /\ loop.viewport = "none" /\ loop.shelf = <<>>
      /\ sheet.gen = 1 /\ sheet.val = Declared /\ sheet.declared = Declared /\ sheet.commit = None
  BY <1>1
<1>6. Range(loop.waiting) = {}
  BY <1>5 DEF Range
<1>7. GensBounded
  BY <1>1, <1>5, <1>6 DEF GensBounded
<1>8. Alive(loop, InHand(loop))
  BY <1>5, <1>6 DEF Alive, SlotAlive, WaitersAlive, ButtonAlive, MoveAlive
<1>9. InOrder(loop.calls)
  BY <1>2, <1>3, <1>5 DEF InOrder
<1>10. HarvestKnown(loop.calls, asked, sheet.declared)
  BY <1>1, <1>2, <1>3, <1>5 DEF HarvestKnown
<1>11. MeshComes(loop, sheet, wanted, failed)
  BY <1>2, <1>3, <1>5 DEF MeshComes, MeshKnown, Painting, NoneLive, Right
<1> QED
  BY <1>4, <1>5, <1>7, <1>8, <1>9, <1>10, <1>11 DEF IInv, ShelfWaits, CommitIsCurrent

\* Every step keeps the invariant.
LEMMA NextKeeps ==
    ASSUME IInv, [Next]_vars
    PROVE  IInv'
<1>1. ASSUME NEW v \in Val, Edit(v) \/ Drag(v) \/ Commit(v) \/ Move(v) PROVE IInv'
  BY <1>1, EditKeeps, DragKeeps, CommittedKeeps, MoveKeeps DEF Commit
<1>2. CASE Reset
  <2>1. sheet.declared \in Val
    BY SheetFields DEF IInv, Typed
  <2>2. PICK v \in Val : v = sheet.declared
    BY <2>1
  <2>3. Committed(v)
    BY <1>2, <2>2 DEF Reset
  <2> QED
    BY <2>3, CommittedKeeps
<1>3. CASE Run
  BY <1>3, RunKeeps
<1>4. CASE CommitTimer
  <2>1. sheet.commit \in Val
    BY <1>4, SheetFields DEF IInv, Typed, CommitTimer
  <2>2. PICK v \in Val : v = sheet.commit
    BY <2>1
  <2>3. Committed(v)
    BY <1>4, <2>2 DEF CommitTimer
  <2> QED
    BY <2>3, CommittedKeeps
<1>5. CASE ResolveTimer
  BY <1>5, ResolveTimerKeeps
<1>6. CASE AnalyzeTimer
  BY <1>6, AnalyzeTimerKeeps
<1>7. CASE FlushTimer
  BY <1>7, FlushStartsKeeps, FlushWaitsKeeps
<1>8. CASE \E outcome \in {"ok", "cancelled", "error"} : Reply(outcome)
  BY <1>8, ReplyKeeps
<1>9. CASE LateReply
  BY <1>9, LateReplyKeeps
<1>10. CASE Load
  <2>1. /\ loop.viewport = "loading"
        /\ loop' = Unshelve(loop, "made", sheet.gen, sheet.val)
        /\ UNCHANGED <<editorVars, sheet, asked, wanted>>
        /\ failed' = IF "made" = "made" THEN failed ELSE TRUE
    BY <1>10 DEF Load, history
  <2>2. "made" \in Loaded
    BY DEF Loaded
  <2> QED
    BY <2>1, <2>2, UnshelvesKeep
<1>11. CASE \E i \in DOMAIN loop.calls : TimeOut(i)
  BY <1>11, TimeOutKeeps
<1>12. CASE LoadFails
  <2>1. /\ loop.viewport = "loading"
        /\ loop' = Unshelve(loop, "none", sheet.gen, sheet.val)
        /\ UNCHANGED <<editorVars, sheet, asked, wanted>>
        /\ failed' = IF "none" = "made" THEN failed ELSE TRUE
    BY <1>12 DEF LoadFails
  <2>2. "none" \in Loaded
    BY DEF Loaded
  <2> QED
    BY <2>1, <2>2, UnshelvesKeep
<1>13. CASE UNCHANGED vars
  BY <1>13 DEF vars, editorVars, history, IInv, Typed, GensBounded, ShelfWaits, CommitIsCurrent
<1> QED
  BY <1>1, <1>2, <1>3, <1>4, <1>5, <1>6, <1>7, <1>8, <1>9, <1>10, <1>11, <1>12, <1>13
     DEF Next, User, Timers, Answers, Faults

\* At every moment of the page the invariant holds.
THEOREM PageInvariant == Spec => []IInv
<1>1. Init => IInv
  BY InitIInv
<1>2. IInv /\ [Next]_vars => IInv'
  BY NextKeeps
<1> QED
  BY <1>1, <1>2, PTL DEF Spec

\* With no call on its way and no mesh on the shelf nothing that is alive can wait, since
\* what waits stands for such a call.
LEMMA StillIsFree ==
    ASSUME IInv, Still
    PROVE  /\ Range(loop.waiting) = {} /\ loop.waiting = <<>>
           /\ loop.inflight = NoRun /\ ~loop.isRunning /\ loop.move = None
<1>1. loop.calls = <<>> /\ loop.shelf = <<>>
  BY DEF Still
<1>2. InHand(loop) = {}
  BY <1>1 DEF InHand, Range
<1>3. Alive(loop, {})
  BY <1>2 DEF IInv
<1>4. Range(loop.waiting) = {} /\ loop.inflight = NoRun /\ ~loop.isRunning /\ loop.move = None
  BY <1>3 DEF Alive, SlotAlive, WaitersAlive, ButtonAlive, MoveAlive
<1>5. loop.waiting \in Seq(Waiter)
  BY LoopSequences DEF IInv, Typed
<1>6. loop.waiting = <<>>
  <2>1. SUFFICES ASSUME loop.waiting # <<>> PROVE FALSE
    OBVIOUS
  <2>2. loop.waiting[1] \in Range(loop.waiting)
    BY <1>5, <2>1 DEF Range
  <2> QED
    BY <1>4, <2>2
<1> QED
  BY <1>4, <1>6

\* When the page comes to rest after an edit, and the last rebuild did not fail, the mesh
\* on show is that of the values in the sheet.
LEMMA RestShowsSheet ==
    ASSUME IInv
    PROVE  SettledMesh
<1>1. SUFFICES ASSUME Still, wanted = sheet.gen, ~failed
               PROVE  loop.shown = sheet.val
  BY DEF SettledMesh, NewestWanted
<1>2. /\ sheet.commit = None /\ loop.pending = 0 /\ loop.calls = <<>> /\ loop.shelf = <<>>
  BY <1>1 DEF Still
<1>3. Range(loop.waiting) = {}
  BY <1>1, StillIsFree
<1>4. ~Due(loop, sheet.gen)
  BY <1>2, <1>3 DEF IInv, GensBounded, Due
<1>5. MeshKnown(loop, sheet, failed)
  BY <1>1, <1>2, <1>4 DEF IInv, MeshComes
<1>6. NoneLive(loop.calls)
  BY <1>2 DEF NoneLive
<1> QED
  BY <1>1, <1>2, <1>5, <1>6 DEF MeshKnown, Painted

\* The mesh on show when the page comes to rest is that of the sheet: no debounce, dropped,
\* cancelled, overtaken or timed-out rebuild, and no viewport that loads late, costs an
\* edit, however many there are.
THEOREM RestingMesh == Spec => []SettledMesh
  BY PageInvariant, RestShowsSheet, PTL

\* A flush that waits (awaitCurrentFlush) waits for a run that has not ended.
THEOREM WaitingFlushesWake == Spec => []NoOrphanWait
<1>1. IInv => NoOrphanWait
  <2>1. ASSUME IInv PROVE WaitersAlive(loop, InHand(loop))
    BY <2>1 DEF IInv, Alive
  <2> QED
    BY <2>1 DEF NoOrphanWait, WaitersAlive, InHand
<1> QED
  BY <1>1, PageInvariant, PTL

\* When the page comes to rest the sheet shows the parameters of the last text a harvest
\* was asked of (paramsResolveSeq).
THEOREM RestingSheet == Spec => []SheetOfLastHarvest
<1>1. IInv => SheetOfLastHarvest
  <2>1. SUFFICES ASSUME IInv, Still PROVE sheet.declared = asked
    BY DEF SheetOfLastHarvest
  <2>2. loop.calls = <<>>
    BY <2>1 DEF Still
  <2> QED
    BY <2>1, <2>2 DEF IInv, HarvestKnown
<1> QED
  BY <1>1, PageInvariant, PTL

\* The commit timer of the sheet never holds another value than the store.
THEOREM CommitTimerCurrent == Spec => []CommitIsCurrent
<1>1. IInv => CommitIsCurrent
  BY DEF IInv
<1> QED
  BY <1>1, PageInvariant, PTL

\* When no timer is set and no call is on its way, no flush waits, no move is unfinished
\* and the scheduler's slot and the run button are free.
THEOREM RestingLoopFree == Spec => []NothingHangs
<1>1. IInv => NothingHangs
  BY StillIsFree DEF NothingHangs
<1> QED
  BY <1>1, PageInvariant, PTL

=============================================================================
