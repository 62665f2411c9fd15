------------------------ MODULE ProjectHistoryProofs ------------------------
(***************************************************************************)
(* What is proved of the project controller (ProjectHistory) and of the    *)
(* undo stack it keeps (UndoStack), for any documents, number of events    *)
(* and limit of the stack.                                                 *)
(*                                                                         *)
(* The invariants are stacked, each one resting on those before it:        *)
(*   Inv       types, the line of the stack, what waits in the chain;      *)
(*   DirtyExact, inductive by itself;                                      *)
(*   MarkedInv the record's ids, the tip and the version marked current;   *)
(*   SavedInv  what is scheduled, awaited or already in the record.        *)
(***************************************************************************)
EXTENDS ProjectHistory, SequenceTheorems, TLAPS

-----------------------------------------------------------------------------
(* The undo stack.                                                         *)

\* A stack on which nothing was put has neither past nor future.
StackInv(h, S) ==
    /\ h \in StackOf(S)
    /\ Distinct(h) /\ Bounded(h)
    /\ h.present = NoSnap => h.past = <<>> /\ h.future = <<>>

LEMMA ResetKeeps ==
    ASSUME NEW S, NEW snap \in S, NoSnap \notin S
    PROVE  StackInv(ResetStack(snap), S) /\ ResetStack(snap).present = snap
<1>1. <<>> \in Seq(S) /\ Len(<<>>) = 0
  BY EmptySeq
<1>2. ResetStack(snap) \in StackOf(S)
  BY <1>1 DEF ResetStack, StackOf
<1> QED
  BY <1>1, <1>2, LimitAssumption DEF ResetStack, StackInv, Distinct, Bounded

\* The past with the present on top: one longer, and trimmed at the bottom when it is too long.
LEMMA DropOldestKeeps ==
    ASSUME NEW S, NEW past \in Seq(S), NEW e \in S, Len(past) <= Limit,
           \A i \in 1..(Len(past) - 1) : past[i] # past[i + 1],
           past # <<>> => past[Len(past)] # e
    PROVE  LET s == DropOldest(Append(past, e)) IN
           /\ s \in Seq(S) /\ s # <<>> /\ Len(s) <= Limit /\ s[Len(s)] = e
           /\ \A i \in 1..(Len(s) - 1) : s[i] # s[i + 1]
<1> DEFINE t == Append(past, e)
           s == DropOldest(t)
<1>1. /\ t \in Seq(S) /\ t # <<>> /\ Len(t) = Len(past) + 1 /\ t[Len(past) + 1] = e
      /\ \A i \in 1..Len(past) : t[i] = past[i]
      /\ Len(past) \in Nat
  BY AppendProperties, LenProperties
<1>2. \A i \in 1..(Len(t) - 1) : t[i] # t[i + 1]
  <2>1. ASSUME NEW i \in 1..(Len(t) - 1) PROVE t[i] # t[i + 1]
    <3>1. CASE i = Len(past)
      <4>1. past # <<>>
        BY <1>1, <3>1, EmptySeq
      <4> QED
        BY <1>1, <2>1, <3>1, <4>1
    <3>2. CASE i < Len(past)
      <4>1. i \in 1..(Len(past) - 1) /\ i + 1 \in 1..Len(past)
        BY <1>1, <2>1, <3>2
      <4> QED
        BY <1>1, <4>1
    <3> QED
      BY <1>1, <2>1, <3>1, <3>2
  <2> QED
    BY <2>1
<1> HIDE DEF t
<1>3. CASE Len(t) > Limit
  <2>1. s = Tail(t)
    BY <1>3 DEF DropOldest
  <2>2. /\ s \in Seq(S) /\ Len(s) = Len(t) - 1
        /\ \A i \in 1..Len(s) : s[i] = t[i + 1]
    BY <1>1, <2>1, HeadTailProperties
  <2> HIDE DEF s
  <2>3. Len(t) = Limit + 1 /\ Len(s) >= 2
    BY <1>1, <1>3, <2>2, LimitAssumption
  <2>4. s # <<>>
    BY <2>3, EmptySeq, LimitAssumption
  <2>5. s[Len(s)] = e
    BY <1>1, <2>2, <2>3, LimitAssumption
  <2>6. ASSUME NEW i \in 1..(Len(s) - 1) PROVE s[i] # s[i + 1]
    <3>1. i \in 1..Len(s) /\ i + 1 \in 1..Len(s) /\ i + 1 \in 1..(Len(t) - 1)
      BY <2>2, <2>3, <2>6, LimitAssumption
    <3> QED
      BY <1>2, <2>2, <3>1
  <2> QED
    BY <2>2, <2>3, <2>4, <2>5, <2>6, LimitAssumption DEF s, t
<1>4. CASE ~(Len(t) > Limit)
  <2>1. s = t
    BY <1>4 DEF DropOldest
  <2> QED
    BY <1>1, <1>2, <1>4, <2>1, LimitAssumption DEF t
<1> QED
  BY <1>3, <1>4

LEMMA PushKeeps ==
    ASSUME NEW S, NEW h, StackInv(h, S), NEW snap \in S, NoSnap \notin S
    PROVE  StackInv(Push(h, snap), S) /\ Push(h, snap).present = snap
<1>1. /\ h = [past |-> h.past, present |-> h.present, future |-> h.future]
      /\ h.past \in Seq(S) /\ h.present \in S \cup {NoSnap} /\ h.future \in Seq(S)
  BY DEF StackInv, StackOf
<1>2. <<>> \in Seq(S) /\ Len(<<>>) = 0
  BY EmptySeq
<1>3. CASE snap = h.present
  BY <1>3 DEF Push
<1>4. CASE snap # h.present /\ h.present = NoSnap
  <2>1. Push(h, snap) = [past |-> <<>>, present |-> snap, future |-> <<>>]
    BY <1>1, <1>4 DEF Push, StackInv
  <2> QED
    BY <2>1, ResetKeeps DEF ResetStack
<1>5. CASE snap # h.present /\ h.present # NoSnap
  <2> DEFINE s == DropOldest(Append(h.past, h.present))
  <2>1. Push(h, snap) = [past |-> s, present |-> snap, future |-> <<>>]
    BY <1>5 DEF Push
  <2>2. /\ s \in Seq(S) /\ s # <<>> /\ Len(s) <= Limit /\ s[Len(s)] = h.present
        /\ \A i \in 1..(Len(s) - 1) : s[i] # s[i + 1]
    BY <1>1, <1>5, DropOldestKeeps DEF StackInv, Distinct, Bounded
  <2> HIDE DEF s
  <2>3. Push(h, snap) \in StackOf(S)
    BY <1>2, <2>1, <2>2 DEF StackOf
  <2> QED
    BY <1>2, <1>5, <2>1, <2>2, <2>3 DEF StackInv, Distinct, Bounded
<1> QED
  BY <1>3, <1>4, <1>5

\* All but the last of a sequence of which neighbours differ.
LEMMA FrontKeeps ==
    ASSUME NEW S, NEW s \in Seq(S), s # <<>>,
           \A i \in 1..(Len(s) - 1) : s[i] # s[i + 1]
    PROVE  LET f == SubSeq(s, 1, Len(s) - 1) IN
           /\ Len(s) \in Nat \ {0} /\ s[Len(s)] \in S
           /\ f \in Seq(S) /\ Len(f) = Len(s) - 1
           /\ \A i \in 1..(Len(f) - 1) : f[i] # f[i + 1]
           /\ f # <<>> => f[Len(f)] # s[Len(s)]
<1> DEFINE f == SubSeq(s, 1, Len(s) - 1)
<1>1. Len(s) \in Nat \ {0} /\ \A i \in 1..Len(s) : s[i] \in S
  BY EmptySeq, ElementOfSeq
<1>2. /\ f \in Seq(S) /\ Len(f) = Len(s) - 1
      /\ \A i \in 1..Len(f) : f[i] = s[i]
  <2> DEFINE n == Len(s) - 1
  <2>1. n \in Nat /\ n < Len(s)
    BY <1>1
  <2> HIDE DEF n
  <2>2. /\ SubSeq(s, 1, n) \in Seq(S) /\ Len(SubSeq(s, 1, n)) = n
        /\ \A i \in 1..n : SubSeq(s, 1, n)[i] = s[i]
    BY <2>1, LenProperties
  <2> QED
    BY <2>2 DEF n
<1> HIDE DEF f
<1>3. ASSUME NEW i \in 1..(Len(f) - 1) PROVE f[i] # f[i + 1]
  <2>1. i \in 1..Len(f) /\ i + 1 \in 1..Len(f) /\ i \in 1..(Len(s) - 1)
    BY <1>1, <1>2, <1>3
  <2> QED
    BY <1>2, <2>1
<1>4. ASSUME f # <<>> PROVE f[Len(f)] # s[Len(s)]
  <2>1. Len(f) \in Nat \ {0}
    BY <1>2, <1>4, EmptySeq
  <2>2. Len(f) \in 1..(Len(s) - 1) /\ Len(f) \in 1..Len(f) /\ Len(f) + 1 = Len(s)
    BY <1>1, <1>2, <2>1
  <2> QED
    BY <1>2, <2>2
<1> QED
  BY <1>1, <1>2, <1>3, <1>4 DEF f

\* One more on top of a sequence of which neighbours differ.
LEMMA OnTop ==
    ASSUME NEW S, NEW s \in Seq(S), NEW e \in S, s # <<>> => s[Len(s)] # e,
           \A i \in 1..(Len(s) - 1) : s[i] # s[i + 1]
    PROVE  LET t == Append(s, e) IN
           /\ t \in Seq(S) /\ t # <<>> /\ t[Len(t)] = e
           /\ \A i \in 1..(Len(t) - 1) : t[i] # t[i + 1]
<1> DEFINE t == Append(s, e)
<1>1. /\ t \in Seq(S) /\ t # <<>> /\ Len(t) = Len(s) + 1 /\ t[Len(s) + 1] = e
      /\ \A i \in 1..Len(s) : t[i] = s[i]
      /\ Len(s) \in Nat
  BY AppendProperties, LenProperties
<1> HIDE DEF t
<1>2. ASSUME NEW i \in 1..(Len(t) - 1) PROVE t[i] # t[i + 1]
  <2>1. CASE i = Len(s)
    <3>1. s # <<>>
      BY <1>1, <1>2, <2>1, EmptySeq
    <3> QED
      BY <1>1, <1>2, <2>1, <3>1
  <2>2. CASE i < Len(s)
    <3>1. i \in 1..(Len(s) - 1) /\ i + 1 \in 1..Len(s) /\ i \in 1..Len(s)
      BY <1>1, <1>2, <2>2
    <3> QED
      BY <1>1, <3>1
  <2> QED
    BY <1>1, <1>2, <2>1, <2>2
<1> QED
  BY <1>1, <1>2 DEF t

LEMMA UndoKeeps ==
    ASSUME NEW S, NEW h, StackInv(h, S), NoSnap \notin S, h.past # <<>>
    PROVE  StackInv(Undo(h), S) /\ Undo(h).present \in S
<1>1. /\ h.past \in Seq(S) /\ h.present \in S /\ h.future \in Seq(S)
  BY DEF StackInv, StackOf
<1> DEFINE f == SubSeq(h.past, 1, Len(h.past) - 1)
           t == Append(h.future, h.present)
           e == h.past[Len(h.past)]
<1>2. /\ Len(h.past) \in Nat \ {0} /\ e \in S
      /\ f \in Seq(S) /\ Len(f) = Len(h.past) - 1
      /\ \A i \in 1..(Len(f) - 1) : f[i] # f[i + 1]
      /\ f # <<>> => f[Len(f)] # e
  <2>1. PICK s \in Seq(S) : s = h.past
    BY <1>1
  <2>2. s # <<>> /\ \A i \in 1..(Len(s) - 1) : s[i] # s[i + 1]
    BY <2>1 DEF StackInv, Distinct
  <2>3. LET b == SubSeq(s, 1, Len(s) - 1) IN
        /\ Len(s) \in Nat \ {0} /\ s[Len(s)] \in S
        /\ b \in Seq(S) /\ Len(b) = Len(s) - 1
        /\ \A i \in 1..(Len(b) - 1) : b[i] # b[i + 1]
        /\ b # <<>> => b[Len(b)] # s[Len(s)]
    BY <2>2, FrontKeeps
  <2> QED
    BY <2>1, <2>3
<1>3. /\ t \in Seq(S) /\ t # <<>> /\ t[Len(t)] = h.present
      /\ \A i \in 1..(Len(t) - 1) : t[i] # t[i + 1]
  <2>1. PICK s \in Seq(S), d \in S : s = h.future /\ d = h.present
    BY <1>1
  <2>2. /\ s # <<>> => s[Len(s)] # d
        /\ \A i \in 1..(Len(s) - 1) : s[i] # s[i + 1]
    BY <2>1 DEF StackInv, Distinct
  <2>3. LET b == Append(s, d) IN
        /\ b \in Seq(S) /\ b # <<>> /\ b[Len(b)] = d
        /\ \A i \in 1..(Len(b) - 1) : b[i] # b[i + 1]
    BY <2>2, OnTop
  <2> QED
    BY <2>1, <2>3
<1>4. Undo(h) = [past |-> f, present |-> e, future |-> t]
  BY DEF Undo
<1>5. e # h.present /\ Len(h.past) <= Limit
  BY DEF StackInv, Distinct, Bounded
<1> HIDE DEF f, t, e
<1>6. Undo(h) \in StackOf(S)
  BY <1>2, <1>3, <1>4 DEF StackOf
<1> QED
  BY <1>2, <1>3, <1>4, <1>5, <1>6, LimitAssumption DEF StackInv, Distinct, Bounded

LEMMA RedoKeeps ==
    ASSUME NEW S, NEW h, StackInv(h, S), NoSnap \notin S, h.future # <<>>
    PROVE  StackInv(Redo(h), S) /\ Redo(h).present \in S
<1>1. /\ h.past \in Seq(S) /\ h.present \in S /\ h.future \in Seq(S)
  BY DEF StackInv, StackOf
<1> DEFINE t == DropOldest(Append(h.past, h.present))
<1>3. /\ t \in Seq(S) /\ t # <<>> /\ t[Len(t)] = h.present /\ Len(t) <= Limit
      /\ \A i \in 1..(Len(t) - 1) : t[i] # t[i + 1]
  <2>1. /\ Len(h.past) <= Limit
        /\ \A i \in 1..(Len(h.past) - 1) : h.past[i] # h.past[i + 1]
        /\ h.past # <<>> => h.past[Len(h.past)] # h.present
    BY DEF StackInv, Distinct, Bounded
  <2> QED
    BY <1>1, <2>1, DropOldestKeeps
<1> DEFINE f == SubSeq(h.future, 1, Len(h.future) - 1)
           e == h.future[Len(h.future)]
<1>2. /\ e \in S /\ f \in Seq(S)
      /\ \A i \in 1..(Len(f) - 1) : f[i] # f[i + 1]
      /\ f # <<>> => f[Len(f)] # e
  BY <1>1, FrontKeeps DEF StackInv, Distinct
<1>4. Redo(h) = [past |-> t, present |-> e, future |-> f]
  BY DEF Redo
<1>5. e # h.present
  BY DEF StackInv, Distinct
<1> HIDE DEF f, t, e
<1>6. Redo(h) \in StackOf(S)
  BY <1>2, <1>3, <1>4 DEF StackOf
<1> QED
  BY <1>2, <1>3, <1>4, <1>5, <1>6 DEF StackInv, Distinct, Bounded

-----------------------------------------------------------------------------
(* Flags.                                                                  *)

Flags ==
    /\ dirty \in BOOLEAN /\ mounted \in BOOLEAN /\ unrecorded \in BOOLEAN
    /\ autoTimer \in BOOLEAN /\ autosave \in BOOLEAN /\ hydrated \in BOOLEAN

LEMMA FlagsStep == Flags /\ [Next]_vars => Flags'
<1> SUFFICES ASSUME Flags, [Next]_vars PROVE Flags'
  OBVIOUS
<1> USE DEF Flags, project, sheet, timers, disk, line
<1>1. CASE UNCHANGED vars
  BY <1>1, Zenon DEF vars
<1>2. CASE Moves
  <2>1. CASE UndoStep
    BY <2>1, Zenon DEF UndoStep, Step, Apply, Replace, DirtyAt
  <2>2. CASE RedoStep
    BY <2>2, Zenon DEF RedoStep, Step, Apply, Replace, DirtyAt
  <2>3. CASE Harvested
    BY <2>3, Zenon DEF Harvested, Replace, DirtyAt
  <2>4. CASE MoveDone
    BY <2>4, Zenon DEF MoveDone
  <2> QED
    BY <1>2, <2>1, <2>2, <2>3, <2>4 DEF Moves
<1>3. CASE Opening
  <2>1. CASE Mount
    BY <2>1, Zenon DEF Mount
  <2>2. CASE OpenStart
    BY <2>2, Zenon DEF OpenStart
  <2>3. CASE OpenLoad
    BY <2>3, Zenon DEF OpenLoad
  <2>4. CASE OpenTips
    BY <2>4, Zenon DEF OpenTips, Commit
  <2>5. CASE OpenSeeded
    BY <2>5, Zenon DEF OpenSeeded, Checkpointed
  <2> QED
    BY <1>3, <2>1, <2>2, <2>3, <2>4, <2>5 DEF Opening
<1>4. CASE Checkpoints
  <2>1. CASE LabelStart
    BY <2>1, Zenon DEF LabelStart, RecordCheckpoint, Commit
  <2>2. CASE AutoStart
    BY <2>2, Zenon DEF AutoStart, RecordCheckpoint, Commit
  <2>3. CASE CommitDone
    BY <2>3, Zenon DEF CommitDone, Checkpointed
  <2> QED
    BY <1>4, <2>1, <2>2, <2>3 DEF Checkpoints
<1>5. CASE Restoring
  <2>1. CASE RestoreStart
    BY <2>1, Zenon DEF RestoreStart
  <2>2. CASE RestoreDone
    BY <2>2, Zenon DEF RestoreDone
  <2>3. CASE RestoreTip
    BY <2>3, Zenon DEF RestoreTip, Apply, Replace, DirtyAt
  <2> QED
    BY <1>5, <2>1, <2>2, <2>3 DEF Restoring
<1>6. CASE Clearing
  <2>1. CASE ClearStart
    BY <2>1, Zenon DEF ClearStart
  <2>2. CASE ClearReset
    BY <2>2, Zenon DEF ClearReset, Commit
  <2>3. CASE ClearDone
    BY <2>3, Zenon DEF ClearDone, Replace, DirtyAt
  <2>4. CASE ClearTail
    BY <2>4, Zenon DEF ClearTail, Edit, DirtyAt, Adopt
  <2> QED
    BY <1>6, <2>1, <2>2, <2>3, <2>4 DEF Clearing
<1>7. CASE Timers
  <2>1. CASE EditorTimer
    BY <2>1, Zenon DEF EditorTimer, SetText, Edit, DirtyAt
  <2>2. CASE AutoTimer
    BY <2>2, Zenon DEF AutoTimer, Sync, Edit, DirtyAt, Adopt
  <2>3. CASE Autosave
    BY <2>3, Zenon DEF Autosave, SaveWorktree
  <2> QED
    BY <1>7, <2>1, <2>2, <2>3 DEF Timers
<1>8. CASE Harvest
  BY <1>8, Zenon DEF Harvest, Edit, DirtyAt, Adopt
<1>9. CASE User
  <2>1. CASE Type
    BY <2>1, Zenon DEF Type, SetText, Edit, DirtyAt
  <2>2. CASE Drag
    BY <2>2, Zenon DEF Drag, Edit, DirtyAt, Adopt
  <2>3. CASE Scrub
    BY <2>3, Zenon DEF Scrub, Edit, DirtyAt
  <2>4. CASE Run
    BY <2>4, Zenon DEF Run, Sync, Edit, DirtyAt, Adopt
  <2>5. CASE Flush
    BY <2>5, Zenon DEF Flush, SaveWorktree
  <2>6. CASE AskUndo \/ AskRedo \/ AskClear
    BY <2>6, Zenon DEF AskUndo, AskRedo, AskClear
  <2>7. CASE AskLabel
    BY <2>7, Zenon DEF AskLabel, Sync, Edit, DirtyAt, Adopt
  <2>8. CASE AskRestore
    BY <2>8, Zenon DEF AskRestore
  <2> QED
    BY <1>9, <2>1, <2>2, <2>3, <2>4, <2>5, <2>6, <2>7, <2>8 DEF User
<1> QED
  BY <1>1, <1>2, <1>3, <1>4, <1>5, <1>6, <1>7, <1>8, <1>9 DEF Next, System

-----------------------------------------------------------------------------
(* Texts, documents and the record.                                        *)

TextsOrEmpty == Texts \cup {EmptyText}
ValsOrNone == Vals \cup {NoVals}

LEMMA DocParts ==
    ASSUME NEW d \in Docs
    PROVE  /\ d = [text |-> d.text, vals |-> d.vals]
           /\ d.text \in TextsOrEmpty /\ d.vals \in ValsOrNone
           /\ d.text.lits \in ValsOrNone
           /\ \A t \in TextsOrEmpty :
                 /\ WithText(d, t) \in Docs
                 /\ WithText(d, t).text = t /\ WithText(d, t).vals = d.vals
           /\ \A v \in ValsOrNone :
                 /\ WithVals(d, v) \in Docs
                 /\ WithVals(d, v).text = d.text /\ WithVals(d, v).vals = v
<1> USE DEF Docs, TextsOrEmpty, ValsOrNone
<1>1. d.text \in TextsOrEmpty
  OBVIOUS
<1>2. d.text.lits \in ValsOrNone
  BY <1>1 DEF Texts, EmptyText
<1> QED
  BY <1>2 DEF WithText, WithVals

LEMMA TextParts ==
    /\ SeedText \in Texts /\ EmptyText \notin Texts
    /\ Blank \in Docs /\ NoVals \in ValsOrNone /\ SeedVal \in ValsOrNone
    /\ \A t \in TextsOrEmpty : t.lits \in ValsOrNone /\ t = [body |-> t.body, lits |-> t.lits]
    /\ \A t \in TextsOrEmpty : \A v \in ValsOrNone : [text |-> t, vals |-> v] \in Docs
  BY SeedAssumption DEF SeedText, EmptyText, Texts, Blank, Docs, TextsOrEmpty, ValsOrNone

\* A literal is rewritten only where there is one.
LEMMA RewriteText ==
    ASSUME NEW t \in TextsOrEmpty, NEW v \in ValsOrNone
    PROVE  Rewrite(t, v) \in TextsOrEmpty
<1>1. CASE v = NoVals \/ t.lits = NoVals
  BY <1>1 DEF Rewrite
<1>2. CASE ~(v = NoVals \/ t.lits = NoVals)
  <2>1. t \in Texts /\ v \in Vals
    BY <1>2 DEF TextsOrEmpty, ValsOrNone, EmptyText
  <2>2. [t EXCEPT !.lits = v] \in Texts
    BY <2>1 DEF Texts
  <2> QED
    BY <1>2, <2>2 DEF Rewrite, TextsOrEmpty
<1> QED
  BY <1>1, <1>2

LEMMA OverlayVals ==
    ASSUME NEW live, NEW d \in Docs
    PROVE  Overlay(live, d) \in ValsOrNone
  BY DocParts DEF Overlay, ValsOrNone

LEMMA VersionParts ==
    ASSUME NEW vs \in Seq(Version)
    PROVE  /\ Len(vs) \in Nat
           /\ \A i \in 1..Len(vs) : vs[i].id \in Nat /\ vs[i].doc \in Docs
           /\ vs # <<>> => Len(vs) \in 1..Len(vs)
<1>1. \A i \in 1..Len(vs) : vs[i] \in Version
  BY ElementOfSeq
<1>2. vs # <<>> => Len(vs) \in Nat \ {0}
  BY EmptySeq
<1> QED
  BY <1>1, <1>2, LenProperties DEF Version

LEMMA BlobType ==
    ASSUME versions \in Seq(Version)
    PROVE  /\ \A ref : Blob(ref) \in Docs \cup {NoDoc}
           /\ TipId \in Nat
<1>1. \A ref : Blob(ref) \in Docs \cup {NoDoc}
  <2>1. ASSUME NEW ref, \E i \in 1..Len(versions) : versions[i].id = ref
        PROVE  Blob(ref) \in Docs
    <3> DEFINE k == CHOOSE i \in 1..Len(versions) : versions[i].id = ref
    <3>1. k \in 1..Len(versions)
      BY <2>1
    <3>2. Blob(ref) = versions[k].doc
      BY <2>1 DEF Blob
    <3> HIDE DEF k
    <3> QED
      BY <3>1, <3>2, VersionParts
  <2> QED
    BY <2>1 DEF Blob
<1>2. TipId \in Nat
  BY VersionParts DEF TipId, NoVersion
<1> QED
  BY <1>1, <1>2

Record ==
    /\ worktree \in Docs \cup {NoDoc} /\ versions \in Seq(Version) /\ nextId \in Nat

LEMMA KeptType == versions \in Seq(Version) => Kept \in Seq(Version)
  BY EmptySeq DEF Kept

LEMMA CommitType ==
    ASSUME Record, NEW d \in Docs, Commit(d)
    PROVE  Record' /\ hydrated' = TRUE
<1>1. [id |-> nextId, doc |-> d] \in Version
  BY DEF Record, Version
<1>2. Append(Kept, [id |-> nextId, doc |-> d]) \in Seq(Version)
  BY <1>1, KeptType, AppendProperties DEF Record
<1> QED
  BY <1>2 DEF Commit, Record

LEMMA SaveType ==
    ASSUME Record, NEW d \in Docs, SaveWorktree(d)
    PROVE  Record' /\ (versions' = versions \/ (versions' = Kept /\ hydrated' = TRUE))
<1>1. CASE UNCHANGED disk
  <2>1. worktree' = worktree /\ versions' = versions /\ nextId' = nextId
    BY <1>1 DEF disk
  <2> QED
    BY <2>1 DEF Record
<1>2. CASE worktree' = d /\ versions' = Kept /\ hydrated' = TRUE /\ UNCHANGED nextId
  BY <1>2, KeptType DEF Record
<1> QED
  BY <1>1, <1>2 DEF SaveWorktree

-----------------------------------------------------------------------------
(* The line of history operations.                                         *)

LEMMA EntryParts ==
    ASSUME NEW c \in Seq(Entry), c # <<>>
    PROVE  /\ Len(c) \in Nat \ {0} /\ Head(c) = c[1]
           /\ Head(c).op \in Ops /\ Head(c).ref \in Nat /\ Head(c).seed \in Docs \cup {NoDoc}
<1>1. Head(c) \in Entry /\ Len(c) \in Nat \ {0} /\ Head(c) = c[1]
  BY HeadTailProperties, EmptySeq
<1> QED
  BY <1>1 DEF Entry

LEMMA EnqueueType ==
    ASSUME chain \in Seq(Entry), NEW op \in Ops, NEW ref \in Nat, NEW seed \in Docs \cup {NoDoc},
           Enqueue(op, ref, seed)
    PROVE  /\ chain' \in Seq(Entry) /\ chain' # <<>>
           /\ Len(chain') = Len(chain) + 1 /\ Len(chain) \in Nat
           /\ \A i \in 1..Len(chain) : chain'[i] = chain[i]
           /\ chain'[Len(chain) + 1] = [op |-> op, ref |-> ref, seed |-> seed]
           /\ chain # <<>> => Head(chain') = Head(chain)
<1> DEFINE e == [op |-> op, ref |-> ref, seed |-> seed]
<1>1. e \in Entry
  BY DEF Entry
<1>2. chain' = Append(chain, e)
  BY DEF Enqueue
<1> HIDE DEF e
<1>3. Len(chain) \in Nat
  BY LenProperties
<1>4. chain # <<>> => Head(chain') = Head(chain)
  BY <1>2, HeadTailAppend
<1> QED
  BY <1>1, <1>2, <1>3, <1>4, AppendProperties DEF e

LEMMA FinishType ==
    ASSUME chain \in Seq(Entry), chain # <<>>, Finish
    PROVE  /\ chain' \in Seq(Entry) /\ Len(chain') = Len(chain) - 1
           /\ \A i \in 1..Len(chain') : chain'[i] = chain[i + 1]
           /\ Len(chain) \in Nat \ {0} /\ pc' = "idle" /\ held' = NoDoc
  BY HeadTailProperties, EmptySeq DEF Finish

\* What an operation that waits was started with: an open has a seed, a restore a version that is
\* there and the document of before, a move the document it puts on screen.
Midway ==
    /\ pc = "load" => Head(chain).op = "open"
    /\ pc = "restore" => Blob(Head(chain).ref) \in Docs /\ held \in Docs
    /\ pc = "harvest" => held \in Docs

\* A version is restored from a drawer that has read the record, which only a clear forgets.
RestoreRead ==
    (\E i \in 1..Len(chain) : chain[i].op = "restore") => hydrated \/ versions = <<>>

RestoreHeads == pc = "restore" => Head(chain).op = "restore"

Line ==
    /\ ChainType
    /\ \A i \in 1..Len(chain) : chain[i].op = "open" => chain[i].seed \in Docs
    /\ Midway /\ RestoreRead /\ RestoreHeads

LEMMA BlobSame == versions' = versions => (\A ref : Blob(ref)' = Blob(ref)) /\ TipId' = TipId
  BY DEF Blob, TipId

LEMMA LineSame ==
    ASSUME Line, UNCHANGED line, versions' = versions, hydrated' = hydrated \/ hydrated' = TRUE
    PROVE  Line'
<1>1. chain' = chain /\ pc' = pc /\ held' = held
  BY DEF line
<1>2. ChainType'
  BY <1>1 DEF Line, ChainType
<1>3. Blob(Head(chain).ref)' = Blob(Head(chain).ref)
  BY <1>1 DEF Blob
<1>4. Midway' /\ RestoreRead' /\ RestoreHeads'
  BY <1>1, <1>3 DEF Line, Midway, RestoreRead, RestoreHeads
<1> QED
  BY <1>1, <1>2, <1>4 DEF Line

LEMMA LineSaved ==
    ASSUME Line, UNCHANGED line, NEW d, SaveWorktree(d)
    PROVE  Line'
<1>1. CASE UNCHANGED disk
  BY <1>1, LineSame DEF disk
<1>2. CASE versions' = Kept /\ hydrated' = TRUE
  <2>1. chain' = chain /\ pc' = pc /\ held' = held
    BY DEF line
  <2>2. ChainType' /\ RestoreRead' /\ RestoreHeads'
    BY <1>2, <2>1 DEF Line, ChainType, RestoreRead, RestoreHeads
  <2>3. ASSUME pc = "restore" PROVE versions' = versions
    <3>1. versions # <<>>
      <4>1. versions = <<>> => Blob(Head(chain).ref) = NoDoc
        BY EmptySeq DEF Blob
      <4> QED
        BY <2>3, <4>1, NoDocAssumption DEF Line, Midway
    <3>2. chain # <<>> /\ chain \in Seq(Entry) /\ Head(chain).op = "restore"
      BY <2>3 DEF Line, ChainType, RestoreHeads
    <3>3. Len(chain) \in Nat \ {0} /\ chain[1].op = "restore"
      BY <3>2, EntryParts
    <3>4. hydrated
      BY <3>1, <3>3 DEF Line, RestoreRead
    <3> QED
      BY <1>2, <3>4 DEF Kept
  <2>4. Midway'
    <3>1. pc = "restore" => Blob(Head(chain).ref)' = Blob(Head(chain).ref)
      BY <2>1, <2>3 DEF Blob
    <3> QED
      BY <2>1, <3>1 DEF Line, Midway
  <2> QED
    BY <2>1, <2>2, <2>4 DEF Line
<1> QED
  BY <1>1, <1>2 DEF SaveWorktree

LEMMA LineGrows ==
    ASSUME Line, NEW op \in Ops, NEW ref \in Nat, NEW seed \in Docs \cup {NoDoc},
           Enqueue(op, ref, seed), op = "open" => seed \in Docs,
           UNCHANGED <<pc, held, versions>>, hydrated' = hydrated \/ hydrated' = TRUE,
           op = "restore" => hydrated' = TRUE
    PROVE  Line'
<1>1. /\ chain' \in Seq(Entry) /\ chain' # <<>>
      /\ Len(chain') = Len(chain) + 1 /\ Len(chain) \in Nat
      /\ \A i \in 1..Len(chain) : chain'[i] = chain[i]
      /\ chain'[Len(chain) + 1] = [op |-> op, ref |-> ref, seed |-> seed]
      /\ chain # <<>> => Head(chain') = Head(chain)
  BY EnqueueType DEF Line, ChainType
<1>2. pc # "idle" => chain # <<>> /\ Head(chain') = Head(chain)
  BY <1>1 DEF Line, ChainType
<1>3. ChainType'
  BY <1>1 DEF Line, ChainType
<1>4. \A i \in 1..Len(chain') :
         i \in 1..Len(chain) \/ chain'[i] = [op |-> op, ref |-> ref, seed |-> seed]
  BY <1>1
<1>5. \A i \in 1..Len(chain') : chain'[i].op = "open" => chain'[i].seed \in Docs
  BY <1>1, <1>4 DEF Line
<1>6. pc # "idle" => Blob(Head(chain).ref)' = Blob(Head(chain).ref)
  BY <1>2 DEF Blob
<1>7. Midway' /\ RestoreHeads'
  BY <1>2, <1>6 DEF Line, Midway, RestoreHeads
<1>8. RestoreRead'
  <2>1. CASE op = "restore"
    BY <2>1 DEF RestoreRead
  <2>2. CASE op # "restore"
    BY <1>1, <1>4, <2>2 DEF Line, RestoreRead
  <2> QED
    BY <2>1, <2>2
<1> QED
  BY <1>3, <1>5, <1>7, <1>8 DEF Line

LEMMA LineShrinks ==
    ASSUME Line, chain # <<>>, Finish, versions' = versions,
           hydrated' = hydrated \/ hydrated' = TRUE
    PROVE  Line'
<1>1. /\ chain' \in Seq(Entry) /\ Len(chain') = Len(chain) - 1
      /\ \A i \in 1..Len(chain') : chain'[i] = chain[i + 1]
      /\ Len(chain) \in Nat \ {0} /\ pc' = "idle" /\ held' = NoDoc
  BY FinishType DEF Line, ChainType
<1>2. \A i \in 1..Len(chain') : i + 1 \in 1..Len(chain)
  BY <1>1
<1>3. ChainType'
  BY <1>1 DEF ChainType, Waits
<1>4. RestoreRead'
  BY <1>1, <1>2 DEF Line, RestoreRead
<1> QED
  BY <1>1, <1>2, <1>3, <1>4 DEF Line, Midway, RestoreHeads

LEMMA LineWaits ==
    ASSUME Line, chain # <<>>, NEW wait \in Waits, NEW d \in Docs \cup {NoDoc}, Await(wait, d),
           wait = "load" => Head(chain).op = "open",
           wait = "restore" => /\ Head(chain).op = "restore" /\ d \in Docs
                               /\ Blob(Head(chain).ref) \in Docs /\ versions' = versions,
           wait = "harvest" => d \in Docs,
           \/ hydrated' = TRUE \/ versions' = <<>>
           \/ versions' = versions /\ hydrated' = hydrated
    PROVE  Line'
<1>1. chain' = chain /\ pc' = wait /\ held' = d
  BY DEF Await
<1>2. ChainType'
  BY <1>1 DEF Line, ChainType
<1>3. wait = "restore" => Blob(Head(chain).ref)' = Blob(Head(chain).ref)
  BY <1>1 DEF Blob
<1>4. Midway' /\ RestoreHeads'
  BY <1>1, <1>3 DEF Midway, RestoreHeads
<1>5. RestoreRead'
  BY <1>1 DEF Line, RestoreRead
<1> QED
  BY <1>1, <1>2, <1>4, <1>5 DEF Line

-----------------------------------------------------------------------------
(* The document, and the page that shows it.                               *)

DocInv ==
    /\ doc \in Docs /\ StackInv(stack, Docs)
    /\ tip \in Nat /\ aligned \in Nat /\ tipDoc \in Docs \cup {NoDoc}

PageInv ==
    /\ editor \in TextsOrEmpty /\ store \in ValsOrNone /\ editorTimer \in TextsOrEmpty
    /\ tails \in Nat /\ inputs \in 0..MaxInputs

Inv == Flags /\ DocInv /\ PageInv /\ Record /\ Line

LEMMA Unchanged ==
    /\ DocInv /\ UNCHANGED project => DocInv'
    /\ PageInv /\ UNCHANGED <<sheet, timers, inputs>> => PageInv'
    /\ Record /\ UNCHANGED disk => Record'
  BY DEF DocInv, PageInv, Record, project, sheet, timers, disk

LEMMA EditType ==
    ASSUME DocInv, NEW d \in Docs, Edit(d)
    PROVE  doc' = d /\ aligned' \in Nat
  BY DEF DocInv, Edit, NoVersion

LEMMA SetTextType ==
    ASSUME DocInv, NEW t \in TextsOrEmpty, SetText(t)
    PROVE  doc' \in Docs /\ aligned' \in Nat /\ doc' = WithText(doc, t)
<1>1. /\ doc = [text |-> doc.text, vals |-> doc.vals]
      /\ WithText(doc, t) \in Docs
  BY DocParts DEF DocInv
<1>2. CASE t = doc.text
  <2>1. WithText(doc, t) = doc
    BY <1>1, <1>2 DEF WithText
  <2> QED
    BY <1>1, <1>2, <2>1 DEF SetText, DocInv
<1>3. CASE t # doc.text
  <2>1. Edit(WithText(doc, t))
    BY <1>3 DEF SetText, WithText
  <2> QED
    BY <1>1, <2>1, EditType
<1> QED
  BY <1>2, <1>3

\* Putting a document on screen leaves the operation at the head of the chain, waiting.
LEMMA ApplyType ==
    ASSUME PageInv, Line, chain # <<>>, NEW d \in Docs, NEW marker \in Nat, Apply(d, marker),
           UNCHANGED <<versions, hydrated, inputs>>
    PROVE  doc' \in Docs /\ aligned' \in Nat /\ PageInv' /\ Line'
<1> DEFINE buf == Rewrite(d.text, d.vals)
           arg == WithText(d, buf)
<1>1. buf \in TextsOrEmpty /\ arg \in Docs
  BY DocParts, RewriteText
<1>2. /\ editor' = IF mounted THEN buf ELSE editor
      /\ IF buf # editor
         THEN /\ Replace(arg, marker) /\ Await("harvest", arg)
              /\ UNCHANGED store
         ELSE /\ store' = Overlay(store, arg)
              /\ Replace(WithVals(d, store'), marker) /\ Await("run", NoDoc)
      /\ UNCHANGED <<mounted, editorTimer, autosave, tails>>
  BY DEF Apply
<1> HIDE DEF buf, arg
<1>3. CASE buf # editor
  <2>1. doc' = arg /\ aligned' = marker /\ store' = store /\ Await("harvest", arg)
    BY <1>2, <1>3 DEF Replace
  <2>2. Line'
    BY <1>1, <2>1, LineWaits DEF Waits
  <2> QED
    BY <1>1, <1>2, <2>1, <2>2 DEF PageInv
<1>4. CASE buf = editor
  <2>1. store' = Overlay(store, arg) /\ doc' = WithVals(d, store') /\ aligned' = marker
        /\ Await("run", NoDoc)
    BY <1>2, <1>4 DEF Replace
  <2>2. store' \in ValsOrNone
    BY <1>1, <2>1, OverlayVals
  <2>3. doc' \in Docs
    BY <2>1, <2>2, DocParts
  <2>4. Line'
    BY <2>1, LineWaits DEF Waits
  <2> QED
    BY <1>1, <1>2, <2>1, <2>2, <2>3, <2>4 DEF PageInv
<1> QED
  BY <1>3, <1>4

LEMMA HeadThere ==
    /\ \A op : Head1(op) => chain # <<>> /\ Head(chain).op = op
    /\ Line /\ pc # "idle" => chain # <<>>
  BY DEF Head1, Line, ChainType

LEMMA FinishSame ==
    ASSUME Line, chain # <<>>, Finish, UNCHANGED disk
    PROVE  Line'
<1>1. versions' = versions /\ hydrated' = hydrated
  BY DEF disk
<1> QED
  BY <1>1, LineShrinks

-----------------------------------------------------------------------------
(* Every operation keeps the types and the line of the stack.              *)

LEMMA MovesKeep == Inv /\ Moves => DocInv' /\ PageInv' /\ Record' /\ Line'
<1> SUFFICES ASSUME Inv, Moves PROVE DocInv' /\ PageInv' /\ Record' /\ Line'
  OBVIOUS
<1> USE NoDocAssumption DEF Inv
<1>1. ASSUME NEW op, NEW possible \in BOOLEAN, NEW h, Step(op, possible, h),
             possible => StackInv(h, Docs) /\ h.present \in Docs
      PROVE  DocInv' /\ PageInv' /\ Record' /\ Line'
  <2>1. chain # <<>> /\ UNCHANGED <<tip, tipDoc, disk, inputs>>
    BY <1>1, HeadThere DEF Step
  <2>2. Record' /\ versions' = versions /\ hydrated' = hydrated
    BY <2>1, Unchanged DEF disk
  <2>3. CASE possible
    <3> DEFINE marker == IF h.present = tipDoc THEN tip ELSE NoVersion
    <3>1. stack' = h /\ Apply(h.present, marker)
      BY <1>1, <2>3 DEF Step
    <3>2. marker \in Nat
      BY DEF DocInv, NoVersion
    <3>3. doc' \in Docs /\ aligned' \in Nat /\ PageInv' /\ Line'
      BY <1>1, <2>1, <2>2, <2>3, <3>1, <3>2, ApplyType
    <3> QED
      BY <1>1, <2>1, <2>2, <2>3, <3>1, <3>3 DEF DocInv
  <2>4. CASE ~possible
    <3>1. Finish /\ UNCHANGED <<stack, doc, dirty, aligned, sheet, timers>>
      BY <1>1, <2>4 DEF Step
    <3>2. DocInv' /\ PageInv'
      BY <2>1, <3>1, Unchanged DEF project
    <3> QED
      BY <2>1, <2>2, <3>1, <3>2, FinishSame
  <2> QED
    BY <2>3, <2>4
<1>2. CASE UndoStep
  <2>1. stack.past # <<>> => StackInv(Undo(stack), Docs) /\ Undo(stack).present \in Docs
    BY UndoKeeps DEF DocInv
  <2> QED
    BY <1>1, <1>2, <2>1 DEF UndoStep
<1>3. CASE RedoStep
  <2>1. stack.future # <<>> => StackInv(Redo(stack), Docs) /\ Redo(stack).present \in Docs
    BY RedoKeeps DEF DocInv
  <2> QED
    BY <1>1, <1>3, <2>1 DEF RedoStep
<1>4. CASE Harvested
  <2>1. PICK live : store' = Overlay(live, held)
    BY <1>4 DEF Harvested
  <2>2. /\ pc = "harvest" /\ UNCHANGED <<stack, tip, tipDoc>>
        /\ doc' = WithVals(doc, store') /\ aligned' = aligned /\ Await("run", NoDoc)
        /\ UNCHANGED <<mounted, editor, timers, disk, inputs>>
    BY <1>4 DEF Harvested, Replace
  <2>3. held \in Docs /\ chain # <<>>
    BY <2>2, HeadThere DEF Line, Midway
  <2>4. store' \in ValsOrNone
    BY <2>1, <2>3, OverlayVals
  <2>5. doc' \in Docs
    BY <2>2, <2>4, DocParts DEF DocInv
  <2>6. DocInv' /\ PageInv' /\ Record'
    BY <2>2, <2>4, <2>5, Unchanged DEF DocInv, PageInv, timers
  <2>7. Line'
    BY <2>2, <2>3, LineWaits DEF Waits, disk
  <2> QED
    BY <2>6, <2>7
<1>5. CASE MoveDone
  <2>1. /\ pc = "run" /\ Finish
        /\ UNCHANGED <<project, sheet, editorTimer, tails, disk, inputs>>
    BY <1>5 DEF MoveDone
  <2>2. DocInv' /\ PageInv' /\ Record'
    BY <2>1, Unchanged DEF PageInv, sheet
  <2> QED
    BY <2>1, <2>2, HeadThere, FinishSame
<1> QED
  BY <1>2, <1>3, <1>4, <1>5 DEF Moves

LEMMA OpeningKeeps == Inv /\ Opening => DocInv' /\ PageInv' /\ Record' /\ Line'
<1> SUFFICES ASSUME Inv, Opening PROVE DocInv' /\ PageInv' /\ Record' /\ Line'
  OBVIOUS
<1> USE NoDocAssumption DEF Inv
<1>1. CASE Mount
  <2> DEFINE seed == [text |-> SeedText, vals |-> store]
  <2>1. /\ Enqueue("open", 0, seed)
        /\ UNCHANGED <<project, editor, store, timers, disk, pc, held, inputs>>
    BY <1>1 DEF Mount
  <2>2. seed \in Docs
    BY TextParts DEF PageInv, TextsOrEmpty
  <2>3. DocInv' /\ PageInv' /\ Record'
    BY <2>1, Unchanged DEF PageInv, timers
  <2> HIDE DEF seed
  <2>4. Line'
    BY <2>1, <2>2, LineGrows DEF Ops, disk
  <2> QED
    BY <2>3, <2>4
<1>2. CASE OpenStart
  <2>1. /\ chain # <<>> /\ Head(chain).op = "open" /\ Await("load", NoDoc)
        /\ UNCHANGED <<project, sheet, timers, disk, inputs>>
    BY <1>2, HeadThere DEF OpenStart
  <2>2. Line'
    BY <2>1, LineWaits DEF Waits, disk
  <2> QED
    BY <2>1, <2>2, Unchanged
<1>3. CASE OpenLoad
  <2>1. /\ pc = "load" /\ hydrated' = TRUE
        /\ doc' = IF worktree # NoDoc THEN worktree ELSE Head(chain).seed
        /\ stack' = ResetStack(doc')
        /\ Await("tips", worktree)
        /\ UNCHANGED <<tip, tipDoc, aligned, sheet, timers, worktree, versions, nextId, inputs>>
    BY <1>3 DEF OpenLoad
  <2>2. chain # <<>> /\ Head(chain).op = "open"
    BY <2>1, HeadThere DEF Line, Midway
  <2>3. Head(chain).seed \in Docs
    <3>1. Len(chain) \in Nat \ {0} /\ Head(chain) = chain[1]
      BY <2>2, EntryParts DEF Line, ChainType
    <3>2. 1 \in 1..Len(chain)
      BY <3>1
    <3> QED
      BY <2>2, <3>1, <3>2 DEF Line
  <2>4. doc' \in Docs
    BY <2>1, <2>3 DEF Record
  <2>5. StackInv(stack', Docs)
    BY <2>1, <2>4, ResetKeeps
  <2>6. worktree \in Docs \cup {NoDoc}
    BY DEF Record
  <2>7. Line'
    BY <2>1, <2>2, <2>6, LineWaits DEF Waits
  <2>8. PageInv' /\ Record'
    BY <2>1, Unchanged DEF Record
  <2> QED
    BY <2>1, <2>4, <2>5, <2>7, <2>8 DEF DocInv
<1>4. CASE OpenTips
  <2>1. /\ pc = "tips" /\ tip' = TipId /\ tipDoc' = Blob(TipId)
        /\ aligned' \in {TipId, NoVersion}
        /\ editor' = doc.text
        /\ store' \in {doc.vals, store}
        /\ UNCHANGED <<doc, stack, mounted, editorTimer, autosave, tails, inputs>>
        /\ IF versions = <<>> /\ doc # Blank
           THEN Commit(doc) /\ Await("seed", NoDoc)
           ELSE Finish /\ UNCHANGED disk
    BY <1>4 DEF OpenTips
  <2>2. chain # <<>>
    BY <2>1, HeadThere
  <2>3. DocInv'
    BY <2>1, BlobType DEF DocInv, Record, NoVersion
  <2>4. PageInv'
    BY <2>1, DocParts DEF DocInv, PageInv
  <2>5. CASE Commit(doc) /\ Await("seed", NoDoc)
    <3>1. Record' /\ hydrated' = TRUE
      BY <2>5, CommitType DEF DocInv
    <3>2. Line'
      BY <2>2, <2>5, <3>1, LineWaits DEF Waits
    <3> QED
      BY <2>3, <2>4, <3>1, <3>2
  <2>6. CASE Finish /\ UNCHANGED disk
    BY <2>2, <2>3, <2>4, <2>6, Unchanged, FinishSame
  <2> QED
    BY <2>1, <2>5, <2>6
<1>5. CASE OpenSeeded
  <2>1. /\ pc = "seed" /\ Finish /\ tip' = TipId /\ tipDoc' = doc /\ aligned' = TipId
        /\ UNCHANGED <<doc, stack, sheet, timers, disk, inputs>>
    BY <1>5 DEF OpenSeeded, Checkpointed
  <2>2. DocInv'
    BY <2>1, BlobType DEF DocInv, Record
  <2> QED
    BY <2>1, <2>2, Unchanged, HeadThere, FinishSame
<1> QED
  BY <1>1, <1>2, <1>3, <1>4, <1>5 DEF Opening

LEMMA CheckpointsKeep == Inv /\ Checkpoints => DocInv' /\ PageInv' /\ Record' /\ Line'
<1> SUFFICES ASSUME Inv, Checkpoints PROVE DocInv' /\ PageInv' /\ Record' /\ Line'
  OBVIOUS
<1> USE NoDocAssumption DEF Inv
<1>1. ASSUME RecordCheckpoint, chain # <<>>
      PROVE  DocInv' /\ PageInv' /\ Record' /\ Line'
  <2>1. /\ stack' = Push(stack, doc) /\ Commit(doc) /\ Await("commit", NoDoc)
        /\ UNCHANGED <<doc, tip, tipDoc, aligned, sheet, timers, inputs>>
    BY <1>1 DEF RecordCheckpoint
  <2>2. Record' /\ hydrated' = TRUE
    BY <2>1, CommitType DEF DocInv
  <2>3. Line'
    BY <1>1, <2>1, <2>2, LineWaits DEF Waits
  <2>4. StackInv(stack', Docs)
    BY <2>1, PushKeeps DEF DocInv
  <2>5. DocInv'
    BY <2>1, <2>4 DEF DocInv
  <2> QED
    BY <2>1, <2>2, <2>3, <2>5, Unchanged
<1>2. CASE LabelStart
  BY <1>1, <1>2, HeadThere DEF LabelStart
<1>3. CASE AutoStart
  <2>1. CASE doc = tipDoc
    <3>1. /\ Finish /\ aligned' \in {tip, aligned}
          /\ UNCHANGED <<doc, stack, tip, tipDoc, sheet, timers, disk, inputs>>
      BY <1>3, <2>1 DEF AutoStart
    <3>2. DocInv'
      BY <3>1 DEF DocInv
    <3> QED
      BY <1>3, <3>1, <3>2, Unchanged, HeadThere, FinishSame DEF AutoStart
  <2>2. CASE doc # tipDoc
    BY <1>1, <1>3, <2>2, HeadThere DEF AutoStart
  <2> QED
    BY <2>1, <2>2
<1>4. CASE CommitDone
  <2>1. /\ pc = "commit" /\ Finish /\ tip' = TipId /\ tipDoc' = doc /\ aligned' = TipId
        /\ UNCHANGED <<doc, stack, sheet, timers, disk, inputs>>
    BY <1>4 DEF CommitDone, Checkpointed
  <2>2. DocInv'
    BY <2>1, BlobType DEF DocInv, Record
  <2> QED
    BY <2>1, <2>2, Unchanged, HeadThere, FinishSame
<1> QED
  BY <1>2, <1>3, <1>4 DEF Checkpoints

LEMMA RestoringKeeps == Inv /\ Restoring => DocInv' /\ PageInv' /\ Record' /\ Line'
<1> SUFFICES ASSUME Inv, Restoring PROVE DocInv' /\ PageInv' /\ Record' /\ Line'
  OBVIOUS
<1> USE NoDocAssumption DEF Inv
<1> DEFINE blob == Blob(Head(chain).ref)
<1>0. blob \in Docs \cup {NoDoc}
  BY BlobType DEF Record
<1>1. CASE RestoreStart
  <2>1. /\ chain # <<>> /\ Head(chain).op = "restore"
        /\ UNCHANGED <<project, sheet, timers, versions, nextId, hydrated, inputs>>
    BY <1>1, HeadThere DEF RestoreStart
  <2>2. CASE blob # NoDoc
    <3>1. worktree' = blob /\ Await("restore", doc)
      BY <1>1, <2>2 DEF RestoreStart
    <3>2. Line'
      BY <1>0, <2>1, <2>2, <3>1, LineWaits DEF Waits, DocInv
    <3>3. Record'
      BY <1>0, <2>1, <2>2, <3>1 DEF Record
    <3> QED
      BY <2>1, <3>2, <3>3, Unchanged
  <2>3. CASE blob = NoDoc
    <3>1. Finish /\ UNCHANGED disk
      BY <1>1, <2>3 DEF RestoreStart, disk
    <3> QED
      BY <2>1, <3>1, Unchanged, FinishSame
  <2> QED
    BY <2>2, <2>3
<1>2. CASE RestoreDone
  <2>1. /\ pc = "restore" /\ stack' = Push(Push(stack, held), blob)
        /\ doc' = blob /\ aligned' = Head(chain).ref /\ Await("tip", NoDoc)
        /\ UNCHANGED <<tip, tipDoc, sheet, timers, disk, inputs>>
    BY <1>2 DEF RestoreDone
  <2>2. blob \in Docs /\ held \in Docs /\ chain # <<>>
    BY <2>1, HeadThere DEF Line, Midway
  <2>3. Head(chain).ref \in Nat
    BY <2>2, EntryParts DEF Line, ChainType
  <2>4. StackInv(Push(stack, held), Docs)
    BY <2>2, PushKeeps DEF DocInv
  <2>5. StackInv(stack', Docs)
    BY <2>1, <2>2, <2>4, PushKeeps
  <2>6. DocInv'
    BY <2>1, <2>2, <2>3, <2>5 DEF DocInv
  <2>7. Line'
    BY <2>1, <2>2, LineWaits DEF Waits, disk
  <2> QED
    BY <2>1, <2>6, <2>7, Unchanged
<1>3. CASE RestoreTip
  <2>1. /\ pc = "tip" /\ tip' = TipId /\ tipDoc' = Blob(TipId) /\ Apply(doc, aligned)
        /\ UNCHANGED <<stack, disk, inputs>>
    BY <1>3 DEF RestoreTip
  <2>2. doc' \in Docs /\ aligned' \in Nat /\ PageInv' /\ Line'
    BY <2>1, HeadThere, ApplyType DEF DocInv, disk
  <2>3. DocInv'
    BY <2>1, <2>2, BlobType DEF DocInv, Record
  <2> QED
    BY <2>1, <2>2, <2>3, Unchanged
<1> QED
  BY <1>1, <1>2, <1>3 DEF Restoring

LEMMA ClearingKeeps == Inv /\ Clearing => DocInv' /\ PageInv' /\ Record' /\ Line'
<1> SUFFICES ASSUME Inv, Clearing PROVE DocInv' /\ PageInv' /\ Record' /\ Line'
  OBVIOUS
<1> USE NoDocAssumption DEF Inv
<1>1. CASE ClearStart
  <2>1. /\ chain # <<>> /\ worktree' = NoDoc /\ versions' = <<>> /\ Await("clear", NoDoc)
        /\ UNCHANGED <<project, sheet, editorTimer, tails, nextId, inputs>>
    BY <1>1, HeadThere DEF ClearStart
  <2>2. Line'
    BY <2>1, LineWaits DEF Waits
  <2>3. Record'
    BY <2>1, EmptySeq DEF Record
  <2>4. PageInv'
    BY <2>1 DEF PageInv, sheet
  <2> QED
    BY <2>1, <2>2, <2>3, <2>4, Unchanged
<1>2. CASE ClearReset
  <2>1. /\ pc = "clear" /\ doc' = [text |-> SeedText, vals |-> NoVals]
        /\ stack' = ResetStack(doc')
        /\ tip' = NoVersion /\ tipDoc' = NoDoc /\ aligned' = NoVersion
        /\ Commit(doc') /\ Await("reseed", NoDoc)
        /\ UNCHANGED <<sheet, timers, inputs>>
    BY <1>2 DEF ClearReset
  <2>2. doc' \in Docs
    BY <2>1, TextParts DEF TextsOrEmpty
  <2>3. PICK d \in Docs : d = doc' /\ Commit(d)
    BY <2>1, <2>2
  <2>4. Record' /\ hydrated' = TRUE
    BY <2>3, CommitType
  <2>5. Line'
    BY <2>1, <2>4, HeadThere, LineWaits DEF Waits
  <2>6. StackInv(stack', Docs)
    BY <2>1, <2>2, ResetKeeps
  <2> QED
    BY <2>1, <2>2, <2>4, <2>5, <2>6, Unchanged DEF DocInv, NoVersion
<1>3. CASE ClearDone
  <2> DEFINE arg == WithText(doc, Rewrite(doc.text, doc.vals))
  <2>1. arg \in Docs /\ arg.text \in TextsOrEmpty
    BY DocParts, RewriteText DEF DocInv
  <2>2. /\ pc = "reseed" /\ tip' = TipId /\ tipDoc' = doc
        /\ editor' = IF mounted THEN arg.text ELSE editor
        /\ store' = Overlay(store, arg)
        /\ doc' = WithVals(IF arg.text # editor THEN arg ELSE doc, store')
        /\ aligned' = TipId /\ tails' = tails + 1 /\ Finish
        /\ UNCHANGED <<stack, editorTimer, disk, inputs>>
    BY <1>3 DEF ClearDone, Replace
  <2> HIDE DEF arg
  <2>3. store' \in ValsOrNone
    BY <2>1, <2>2, OverlayVals
  <2>4. (IF arg.text # editor THEN arg ELSE doc) \in Docs
    BY <2>1 DEF DocInv
  <2>5. doc' \in Docs
    BY <2>2, <2>3, <2>4, DocParts
  <2>6. DocInv'
    BY <2>2, <2>5, BlobType DEF DocInv, Record
  <2>7. PageInv'
    BY <2>1, <2>2, <2>3 DEF PageInv
  <2> QED
    BY <2>2, <2>6, <2>7, Unchanged, HeadThere, FinishSame
<1>4. CASE ClearTail
  <2>1. /\ tails > 0 /\ tails' = tails - 1 /\ store' \in {store, SeedVal}
        /\ Edit(WithVals(doc, store'))
        /\ UNCHANGED <<stack, tip, tipDoc, editor, editorTimer, disk, line, inputs>>
    BY <1>4 DEF ClearTail
  <2>2. store' \in ValsOrNone
    BY <2>1, TextParts DEF PageInv
  <2>3. WithVals(doc, store') \in Docs
    BY <2>2, DocParts DEF DocInv
  <2>4. doc' \in Docs /\ aligned' \in Nat
    BY <2>1, <2>3, EditType
  <2>5. DocInv'
    BY <2>1, <2>4 DEF DocInv
  <2>6. PageInv'
    BY <2>1, <2>2 DEF PageInv
  <2> QED
    BY <2>1, <2>5, <2>6, Unchanged, LineSame DEF disk
<1> QED
  BY <1>1, <1>2, <1>3, <1>4 DEF Clearing

\* What the editor and the sheet show is a document.
LEMMA SyncType ==
    ASSUME DocInv, PageInv, Sync
    PROVE  doc' \in Docs /\ aligned' \in Nat
<1>1. [text |-> editor, vals |-> store] \in Docs
  BY TextParts DEF PageInv
<1> QED
  BY <1>1, EditType DEF Sync

\* The sheet's values become the document's, as an edit.
LEMMA ValsEdit ==
    ASSUME DocInv, store' \in ValsOrNone, Edit(WithVals(doc, store')), UNCHANGED <<tip, tipDoc>>,
           StackInv(stack', Docs) \/ stack' = Push(stack, doc') \/ stack' = stack
    PROVE  DocInv'
<1>1. WithVals(doc, store') \in Docs
  BY DocParts DEF DocInv
<1>2. doc' \in Docs /\ aligned' \in Nat
  BY <1>1, EditType
<1>3. StackInv(stack', Docs)
  BY <1>2, PushKeeps, NoDocAssumption DEF DocInv
<1> QED
  BY <1>2, <1>3 DEF DocInv

LEMMA TimersKeep == Inv /\ Timers => DocInv' /\ PageInv' /\ Record' /\ Line'
<1> SUFFICES ASSUME Inv, Timers PROVE DocInv' /\ PageInv' /\ Record' /\ Line'
  OBVIOUS
<1> USE NoDocAssumption DEF Inv
<1>1. CASE EditorTimer
  <2>1. /\ SetText(editorTimer) /\ stack' = Push(stack, doc') /\ editorTimer' = EmptyText
        /\ UNCHANGED <<tip, tipDoc, sheet, tails, disk, line, inputs>>
    BY <1>1 DEF EditorTimer
  <2>2. doc' \in Docs /\ aligned' \in Nat
    BY <2>1, SetTextType DEF PageInv
  <2>3. StackInv(stack', Docs)
    BY <2>1, <2>2, PushKeeps DEF DocInv
  <2>4. DocInv'
    BY <2>1, <2>2, <2>3 DEF DocInv
  <2>5. PageInv'
    BY <2>1 DEF PageInv, sheet, TextsOrEmpty
  <2> QED
    BY <2>1, <2>4, <2>5, Unchanged, LineSame DEF disk
<1>2. CASE AutoTimer
  <2>1. /\ Sync /\ Enqueue("auto", 0, NoDoc)
        /\ UNCHANGED <<stack, tip, tipDoc, sheet, editorTimer, tails, disk, pc, held, inputs>>
    BY <1>2 DEF AutoTimer
  <2>2. DocInv'
    BY <2>1, SyncType DEF DocInv
  <2>3. Line'
    BY <2>1, LineGrows DEF Ops, disk
  <2>4. PageInv'
    BY <2>1 DEF PageInv, sheet
  <2> QED
    BY <2>1, <2>2, <2>3, <2>4, Unchanged
<1>3. CASE Autosave
  <2>1. SaveWorktree(doc) /\ UNCHANGED <<project, sheet, editorTimer, tails, line, inputs>>
    BY <1>3 DEF Autosave
  <2>2. Record'
    BY <2>1, SaveType DEF DocInv
  <2>3. PageInv'
    BY <2>1 DEF PageInv, sheet
  <2> QED
    BY <2>1, <2>2, <2>3, Unchanged, LineSaved
<1> QED
  BY <1>1, <1>2, <1>3 DEF Timers

LEMMA HarvestKeeps == Inv /\ Harvest => DocInv' /\ PageInv' /\ Record' /\ Line'
<1> SUFFICES ASSUME Inv, Harvest PROVE DocInv' /\ PageInv' /\ Record' /\ Line'
  OBVIOUS
<1> USE DEF Inv
<1>1. /\ store' \in {editor.lits, store}
      /\ UNCHANGED <<mounted, editor, timers, disk, line, inputs>>
      /\ \/ UNCHANGED project
         \/ Edit(WithVals(doc, store')) /\ UNCHANGED <<stack, tip, tipDoc>>
  BY DEF Harvest
<1>2. store' \in ValsOrNone
  BY <1>1, TextParts DEF PageInv
<1>3. DocInv'
  BY <1>1, <1>2, ValsEdit, Unchanged
<1>4. PageInv'
  BY <1>1, <1>2 DEF PageInv, timers
<1> QED
  BY <1>1, <1>3, <1>4, Unchanged, LineSame DEF disk

LEMMA UserKeeps == Inv /\ User => DocInv' /\ PageInv' /\ Record' /\ Line'
<1> SUFFICES ASSUME Inv, User PROVE DocInv' /\ PageInv' /\ Record' /\ Line'
  OBVIOUS
<1> USE NoDocAssumption DEF Inv
<1>0. Input => inputs' \in 0..MaxInputs
  BY InputsAssumption DEF Input, PageInv
<1>1. CASE Type
  <2>1. PICK t \in Typed : editor' = t /\ editorTimer' = t /\ SetText(t)
    BY <1>1 DEF Type
  <2>2. /\ Input /\ UNCHANGED <<stack, tip, tipDoc, store, tails, disk, line>>
    BY <1>1 DEF Type
  <2>3. t \in TextsOrEmpty
    BY <2>1, TypedAssumption DEF TextsOrEmpty
  <2>4. DocInv'
    BY <2>1, <2>2, <2>3, SetTextType DEF DocInv
  <2>5. PageInv'
    BY <1>0, <2>1, <2>2, <2>3 DEF PageInv
  <2> QED
    BY <2>2, <2>4, <2>5, Unchanged, LineSame DEF disk
<1>2. CASE Drag
  <2>1. /\ Input /\ store' \in Vals /\ UNCHANGED <<mounted, editor, timers, disk, line>>
        /\ \/ UNCHANGED project
           \/ Edit(WithVals(doc, store')) /\ UNCHANGED <<stack, tip, tipDoc>>
    BY <1>2 DEF Drag
  <2>2. store' \in ValsOrNone
    BY <2>1 DEF ValsOrNone
  <2>3. DocInv' /\ PageInv'
    BY <1>0, <2>1, <2>2, ValsEdit, Unchanged DEF PageInv, timers
  <2> QED
    BY <2>1, <2>3, Unchanged, LineSame DEF disk
<1>3. CASE Scrub
  <2>1. /\ Input /\ store' \in Vals /\ UNCHANGED <<mounted, editor, disk, line>>
        /\ \/ UNCHANGED project
           \/ /\ Edit(WithVals(doc, store')) /\ stack' = Push(stack, doc')
              /\ UNCHANGED <<tip, tipDoc>>
        /\ UNCHANGED <<editorTimer, tails>>
    BY <1>3 DEF Scrub, timers
  <2>2. store' \in ValsOrNone
    BY <2>1 DEF ValsOrNone
  <2>3. DocInv' /\ PageInv'
    BY <1>0, <2>1, <2>2, ValsEdit, Unchanged DEF PageInv
  <2> QED
    BY <2>1, <2>3, Unchanged, LineSame DEF disk
<1>4. CASE Run
  <2>1. /\ Input /\ stack' = Push(stack, WithText(doc, editor)) /\ Sync
        /\ UNCHANGED <<tip, tipDoc, sheet, editorTimer, tails, disk, line>>
    BY <1>4 DEF Run
  <2>2. WithText(doc, editor) \in Docs
    BY DocParts DEF DocInv, PageInv
  <2>3. StackInv(stack', Docs)
    BY <2>1, <2>2, PushKeeps DEF DocInv
  <2>4. DocInv'
    BY <2>1, <2>3, SyncType DEF DocInv
  <2>5. PageInv'
    BY <1>0, <2>1 DEF PageInv, sheet
  <2> QED
    BY <2>1, <2>4, <2>5, Unchanged, LineSame DEF disk
<1>5. CASE Flush
  <2>1. Input /\ SaveWorktree(doc) /\ UNCHANGED <<project, sheet, editorTimer, tails, line>>
    BY <1>5 DEF Flush
  <2>2. Record'
    BY <2>1, SaveType DEF DocInv
  <2>3. PageInv'
    BY <1>0, <2>1 DEF PageInv, sheet
  <2> QED
    BY <2>1, <2>2, <2>3, Unchanged, LineSaved
<1>6. ASSUME NEW op \in {"undo", "redo", "clear"}, Input, Enqueue(op, 0, NoDoc),
             UNCHANGED <<project, sheet, timers, disk, pc, held>>
      PROVE  DocInv' /\ PageInv' /\ Record' /\ Line'
  <2>1. Line'
    BY <1>6, LineGrows DEF Ops, disk
  <2>2. PageInv'
    BY <1>0, <1>6 DEF PageInv, sheet, timers
  <2> QED
    BY <1>6, <2>1, <2>2, Unchanged
<1>7. CASE AskUndo \/ AskRedo \/ AskClear
  BY <1>6, <1>7 DEF AskUndo, AskRedo, AskClear
<1>8. CASE AskLabel
  <2>1. /\ Input /\ Sync /\ Enqueue("label", 0, NoDoc)
        /\ UNCHANGED <<stack, tip, tipDoc, sheet, timers, disk, pc, held>>
    BY <1>8 DEF AskLabel
  <2>2. DocInv'
    BY <2>1, SyncType DEF DocInv
  <2>3. Line'
    BY <2>1, LineGrows DEF Ops, disk
  <2>4. PageInv'
    BY <1>0, <2>1 DEF PageInv, sheet, timers
  <2> QED
    BY <2>1, <2>2, <2>3, <2>4, Unchanged
<1>9. CASE AskRestore
  <2>1. PICK i \in 1..Len(versions) : Enqueue("restore", versions[i].id, NoDoc)
    BY <1>9 DEF AskRestore
  <2>2. /\ Input /\ hydrated' = TRUE
        /\ UNCHANGED <<project, sheet, timers, worktree, versions, nextId, pc, held>>
    BY <1>9 DEF AskRestore
  <2>3. versions[i].id \in Nat
    BY VersionParts DEF Record
  <2>4. Line'
    BY <2>1, <2>2, <2>3, LineGrows DEF Ops
  <2>5. PageInv'
    BY <1>0, <2>2 DEF PageInv, sheet, timers
  <2> QED
    BY <2>2, <2>4, <2>5, Unchanged DEF Record
<1> QED
  BY <1>1, <1>2, <1>3, <1>4, <1>5, <1>7, <1>8, <1>9 DEF User

-----------------------------------------------------------------------------
(* The invariant of the specification.                                     *)

LEMMA InitKeeps == Init => Inv
<1> SUFFICES ASSUME Init PROVE Inv
  OBVIOUS
<1>1. Flags
  BY Zenon DEF Init, Flags
<1>2. DocInv
  <2>1. StackInv(EmptyStack, Docs)
    <3>1. <<>> \in Seq(Docs) /\ Len(<<>>) = 0
      BY EmptySeq
    <3> QED
      BY <3>1, LimitAssumption DEF EmptyStack, StackInv, StackOf, Distinct, Bounded
  <2> QED
    BY <2>1, TextParts DEF Init, DocInv, NoVersion
<1>3. PageInv
  BY TextParts, InputsAssumption DEF Init, PageInv, TextsOrEmpty
<1>4. Record
  <2>1. CASE worktree = NoDoc /\ versions = <<>> /\ nextId = 1
    BY <2>1, EmptySeq DEF Record
  <2>2. CASE \E left \in Earlier :
               /\ worktree = left[1]
               /\ versions = <<[id |-> 1, doc |-> left[2]]>> /\ nextId = 2
    <3>1. PICK left \in Earlier : /\ worktree = left[1] /\ nextId = 2
                                  /\ versions = <<[id |-> 1, doc |-> left[2]]>>
      BY <2>2
    <3>2. left[1] \in Docs /\ left[2] \in Docs
      BY EarlierAssumption
    <3> DEFINE v == [id |-> 1, doc |-> left[2]]
    <3>3. v \in Version
      BY <3>2 DEF Version
    <3> HIDE DEF v
    <3>4. <<v>> \in Seq(Version)
      BY <3>3
    <3>5. versions \in Seq(Version)
      BY <3>1, <3>4 DEF v
    <3> QED
      BY <3>1, <3>2, <3>5 DEF Record
  <2> QED
    BY <2>1, <2>2 DEF Init
<1>5. Line
  BY EmptySeq DEF Init, Line, ChainType, Waits, Midway, RestoreRead, RestoreHeads
<1> QED
  BY <1>1, <1>2, <1>3, <1>4, <1>5 DEF Inv

LEMMA NextKeeps == Inv /\ [Next]_vars => Inv'
<1> SUFFICES ASSUME Inv, [Next]_vars PROVE Inv'
  OBVIOUS
<1>1. Flags'
  BY FlagsStep DEF Inv
<1>2. CASE Next
  BY <1>1, <1>2, MovesKeep, OpeningKeeps, CheckpointsKeep, RestoringKeeps, ClearingKeeps,
     TimersKeep, HarvestKeeps, UserKeeps DEF Inv, Next, System
<1>3. CASE UNCHANGED vars
  BY <1>1, <1>3, Unchanged, LineSame DEF Inv, vars, disk
<1> QED
  BY <1>2, <1>3

LEMMA Invariant == Spec => []Inv
  BY InitKeeps, NextKeeps, PTL DEF Spec

\* Every variable keeps its shape, and an operation that waits is at the head of the chain,
\* whatever the events interrupt (project-controller.js:100-115).
THEOREM ShapesKept == Spec => []TypeOK
<1>1. Inv => TypeOK
  BY DEF Inv, Flags, DocInv, PageInv, Record, Line, TypeOK, ProjectType, PageType, DiskType,
     StackInv, TextsOrEmpty, ValsOrNone
<1> QED
  BY <1>1, Invariant, PTL

\* An undo or a redo always changes the document, and the past never outgrows its limit, for any
\* documents and any number of events (undo-stack.js:85-122).
THEOREM UndoLineKept == Spec => []UndoLine
<1>1. Inv => UndoLine
  BY DEF Inv, DocInv, StackInv, UndoLine
<1> QED
  BY <1>1, Invariant, PTL

-----------------------------------------------------------------------------
(* The chip that says the working copy is edited.                          *)

\* An assignment to the document computes the flag anew, and what assigns neither leaves it.
LEMMA Recomputed ==
    ASSUME dirty' = DirtyAt(doc', tipDoc')
    PROVE  DirtyExact'
  BY Zenon DEF DirtyAt, DirtyExact

LEMMA NotRecomputed ==
    ASSUME DirtyExact, UNCHANGED <<doc, tipDoc, dirty>>, pc' = pc \/ pc \notin {"tip", "tips"}
    PROVE  DirtyExact'
  BY Zenon DEF DirtyExact

LEMMA EditExact ==
    /\ \A d : Edit(d) /\ tipDoc' = tipDoc => DirtyExact'
    /\ \A t : DirtyExact /\ SetText(t) /\ tipDoc' = tipDoc /\ pc' = pc => DirtyExact'
    /\ \A d, m : Replace(d, m) => DirtyExact'
<1>1. \A d : Edit(d) /\ tipDoc' = tipDoc => DirtyExact'
  BY Recomputed DEF Edit
<1>2. \A d, m : Replace(d, m) => DirtyExact'
  BY Recomputed DEF Replace
<1> QED
  BY <1>1, <1>2, NotRecomputed DEF SetText

LEMMA DirtyStep == DirtyExact /\ [Next]_vars => DirtyExact'
<1> SUFFICES ASSUME DirtyExact, [Next]_vars PROVE DirtyExact'
  OBVIOUS
<1> USE DEF project, line
<1>1. CASE UNCHANGED vars
  BY <1>1, NotRecomputed DEF vars
<1>2. CASE Moves
  <2>1. ASSUME NEW op, NEW possible, NEW h, Step(op, possible, h) PROVE DirtyExact'
    <3>1. \A d, m : Apply(d, m) => DirtyExact'
      BY EditExact DEF Apply
    <3>2. CASE possible
      BY <2>1, <3>1, <3>2 DEF Step
    <3>3. CASE ~possible
      BY <2>1, <3>3, NotRecomputed DEF Step, Head1
    <3> QED
      BY <3>2, <3>3
  <2> QED
    BY <1>2, <2>1, EditExact, NotRecomputed DEF Moves, UndoStep, RedoStep, Harvested, MoveDone
<1>3. CASE Opening
  <2>1. CASE OpenLoad
    BY <2>1 DEF OpenLoad, Await, DirtyExact
  <2>2. CASE OpenTips
    <3>1. tipDoc' # NoDoc => dirty' = ~(doc' = tipDoc')
      BY <2>2, Zenon DEF OpenTips
    <3> QED
      BY <3>1, Zenon DEF DirtyExact
  <2>3. CASE OpenSeeded
    BY <2>3, Zenon DEF OpenSeeded, Checkpointed, DirtyExact
  <2>4. CASE Mount \/ OpenStart
    BY <2>4, NotRecomputed DEF Mount, OpenStart, Head1
  <2> QED
    BY <1>3, <2>1, <2>2, <2>3, <2>4 DEF Opening
<1>4. CASE Checkpoints
  <2>1. CASE LabelStart
    BY <2>1, NotRecomputed DEF LabelStart, RecordCheckpoint, Head1
  <2>2. CASE AutoStart /\ doc = tipDoc
    BY <2>2, Zenon DEF AutoStart, DirtyExact
  <2>3. CASE AutoStart /\ doc # tipDoc
    BY <2>3, Zenon DEF AutoStart, RecordCheckpoint, DirtyExact
  <2>4. CASE CommitDone
    BY <2>4, Zenon DEF CommitDone, Checkpointed, DirtyExact
  <2> QED
    BY <1>4, <2>1, <2>2, <2>3, <2>4 DEF Checkpoints
<1>5. CASE Restoring
  <2>1. CASE RestoreStart
    BY <2>1, NotRecomputed DEF RestoreStart, Head1
  <2>2. CASE RestoreDone
    BY <2>2 DEF RestoreDone, Await, DirtyExact
  <2>3. CASE RestoreTip
    BY <2>3, EditExact DEF RestoreTip, Apply
  <2> QED
    BY <1>5, <2>1, <2>2, <2>3 DEF Restoring
<1>6. CASE Clearing
  <2>1. CASE ClearStart
    BY <2>1, NotRecomputed DEF ClearStart, Head1
  <2>2. CASE ClearReset
    BY <2>2 DEF ClearReset, DirtyExact
  <2>3. CASE ClearDone \/ ClearTail
    BY <2>3, EditExact DEF ClearDone, ClearTail
  <2> QED
    BY <1>6, <2>1, <2>2, <2>3 DEF Clearing
<1>7. CASE Timers
  BY <1>7, EditExact, NotRecomputed DEF Timers, EditorTimer, AutoTimer, Sync, Autosave
<1>8. CASE Harvest
  BY <1>8, EditExact, NotRecomputed DEF Harvest
<1>9. CASE User
  BY <1>9, EditExact, NotRecomputed DEF User, Type, Drag, Scrub, Run, Flush, Sync, AskUndo, AskRedo,
     AskLabel, AskRestore, AskClear
<1> QED
  BY <1>1, <1>2, <1>3, <1>4, <1>5, <1>6, <1>7, <1>8, <1>9 DEF Next, System

\* The chip never lies about the tip's document as the controller knows it, whichever callback
\* changed the working copy or the tip last (project-controller.js:149).
THEOREM ChipTellsTruth == Spec => []DirtyExact
<1>1. Init => DirtyExact
  BY DEF Init, DirtyExact
<1> QED
  BY <1>1, DirtyStep, PTL DEF Spec

-----------------------------------------------------------------------------
(* Versions and their blobs.                                               *)

IdsOf(vs, next) ==
    /\ \A i \in 1..Len(vs) : vs[i].id \in 1..(next - 1)
    /\ \A i, j \in 1..Len(vs) : vs[i].id = vs[j].id => i = j

BlobIn(vs, ref) ==
    IF \E i \in 1..Len(vs) : vs[i].id = ref
    THEN vs[CHOOSE i \in 1..Len(vs) : vs[i].id = ref].doc
    ELSE NoDoc

NewestIn(vs) == IF vs = <<>> THEN NoVersion ELSE vs[Len(vs)].id

LEMMA OfVersions ==
    /\ \A ref : Blob(ref) = BlobIn(versions, ref) /\ Blob(ref)' = BlobIn(versions', ref)
    /\ TipId = NewestIn(versions) /\ TipId' = NewestIn(versions')
  BY DEF Blob, BlobIn, TipId, NewestIn

LEMMA BlobFacts ==
    ASSUME NEW vs \in Seq(Version), NEW next \in Nat, IdsOf(vs, next)
    PROVE  /\ \A i \in 1..Len(vs) : BlobIn(vs, vs[i].id) = vs[i].doc
           /\ \A ref : BlobIn(vs, ref) # NoDoc => ref \in 1..(next - 1) /\ vs # <<>>
           /\ vs # <<>> => NewestIn(vs) \in 1..(next - 1) /\ BlobIn(vs, NewestIn(vs)) \in Docs
           /\ vs = <<>> => NewestIn(vs) = NoVersion
<1>1. ASSUME NEW i \in 1..Len(vs) PROVE BlobIn(vs, vs[i].id) = vs[i].doc
  <2> DEFINE k == CHOOSE j \in 1..Len(vs) : vs[j].id = vs[i].id
  <2>1. k \in 1..Len(vs) /\ vs[k].id = vs[i].id
    OBVIOUS
  <2>2. BlobIn(vs, vs[i].id) = vs[k].doc
    BY DEF BlobIn
  <2> HIDE DEF k
  <2>3. k = i
    BY <2>1 DEF IdsOf
  <2> QED
    BY <2>2, <2>3
<1>2. ASSUME NEW ref, BlobIn(vs, ref) # NoDoc PROVE ref \in 1..(next - 1) /\ vs # <<>>
  <2>1. PICK i \in 1..Len(vs) : vs[i].id = ref
    BY <1>2 DEF BlobIn
  <2> QED
    BY <2>1, EmptySeq DEF IdsOf
<1>3. ASSUME vs # <<>> PROVE NewestIn(vs) \in 1..(next - 1) /\ BlobIn(vs, NewestIn(vs)) \in Docs
  <2>1. Len(vs) \in 1..Len(vs) /\ NewestIn(vs) = vs[Len(vs)].id
    BY <1>3, VersionParts DEF NewestIn
  <2>2. BlobIn(vs, NewestIn(vs)) = vs[Len(vs)].doc
    BY <1>1, <2>1
  <2> QED
    BY <2>1, <2>2, VersionParts DEF IdsOf
<1> QED
  BY <1>1, <1>2, <1>3 DEF NewestIn

LEMMA BlobGrows ==
    ASSUME NEW vs \in Seq(Version), NEW next \in Nat \ {0}, NEW d \in Docs, IdsOf(vs, next)
    PROVE  LET ws == Append(vs, [id |-> next, doc |-> d]) IN
           /\ IdsOf(ws, next + 1) /\ ws # <<>>
           /\ NewestIn(ws) = next /\ BlobIn(ws, next) = d
           /\ \A ref : ref # next => BlobIn(ws, ref) = BlobIn(vs, ref)
<1> DEFINE e == [id |-> next, doc |-> d]
           ws == Append(vs, e)
<1>1. e \in Version /\ e.id = next /\ e.doc = d
  BY DEF Version
<1> HIDE DEF e
<1>2. /\ ws \in Seq(Version) /\ ws # <<>> /\ Len(ws) = Len(vs) + 1 /\ ws[Len(vs) + 1] = e
      /\ \A i \in 1..Len(vs) : ws[i] = vs[i]
      /\ Len(vs) \in Nat
  BY <1>1, AppendProperties, LenProperties
<1> HIDE DEF ws
<1>3. \A i \in 1..Len(ws) : i \in 1..Len(vs) \/ i = Len(vs) + 1
  BY <1>2
<1>4. \A i \in 1..Len(vs) : i \in 1..Len(ws) /\ ws[i].id \in 1..(next - 1)
  BY <1>2 DEF IdsOf
<1>5. \A i \in 1..Len(ws) : ws[i].id \in 1..next
  <2>1. ASSUME NEW i \in 1..Len(ws) PROVE ws[i].id \in 1..next
    <3>1. CASE i \in 1..Len(vs)
      BY <1>4, <3>1
    <3>2. CASE i = Len(vs) + 1
      BY <1>1, <1>2, <3>2
    <3> QED
      BY <1>3, <3>1, <3>2
  <2> QED
    BY <2>1
<1>6. ASSUME NEW i \in 1..Len(ws), NEW j \in 1..Len(ws), ws[i].id = ws[j].id PROVE i = j
  <2>1. CASE i \in 1..Len(vs) /\ j \in 1..Len(vs)
    BY <1>2, <1>6, <2>1 DEF IdsOf
  <2>2. CASE i = Len(vs) + 1 /\ j \in 1..Len(vs)
    BY <1>1, <1>2, <1>4, <1>6, <2>2
  <2>3. CASE i \in 1..Len(vs) /\ j = Len(vs) + 1
    BY <1>1, <1>2, <1>4, <1>6, <2>3
  <2> QED
    BY <1>3, <2>1, <2>2, <2>3
<1>7. IdsOf(ws, next + 1)
  BY <1>5, <1>6 DEF IdsOf
<1>8. next + 1 \in Nat /\ Len(ws) \in 1..Len(ws) /\ ws[Len(ws)] = e
  BY <1>2
<1>9. NewestIn(ws) = next /\ BlobIn(ws, next) = d
  <2>1. BlobIn(ws, ws[Len(ws)].id) = ws[Len(ws)].doc
    BY <1>2, <1>7, <1>8, BlobFacts
  <2> QED
    BY <1>1, <1>2, <1>8, <2>1 DEF NewestIn
<1>10. ASSUME NEW ref, ref # next PROVE BlobIn(ws, ref) = BlobIn(vs, ref)
  <2>1. CASE \E i \in 1..Len(vs) : vs[i].id = ref
    <3>1. PICK i \in 1..Len(vs) : vs[i].id = ref
      BY <2>1
    <3>2. i \in 1..Len(ws) /\ ws[i] = vs[i]
      BY <1>2, <1>4
    <3>3. BlobIn(vs, ref) = vs[i].doc
      BY <3>1, BlobFacts
    <3>4. BlobIn(ws, ws[i].id) = ws[i].doc
      BY <1>2, <1>7, <1>8, <3>2, BlobFacts
    <3> QED
      BY <3>1, <3>2, <3>3, <3>4
  <2>2. CASE ~ \E i \in 1..Len(vs) : vs[i].id = ref
    <3>1. ~ \E i \in 1..Len(ws) : ws[i].id = ref
      BY <1>1, <1>2, <1>3, <1>10, <2>2
    <3> QED
      BY <2>2, <3>1 DEF BlobIn
  <2> QED
    BY <2>1, <2>2
<1> QED
  BY <1>2, <1>7, <1>9, <1>10 DEF ws, e

\* Ids are never used again, and what has a tip or a marker has read the record.
Ids ==
    /\ nextId \in Nat \ {0} /\ tip < nextId /\ aligned < nextId
    /\ IdsOf(versions, nextId)

Read ==
    /\ ~hydrated => versions = <<>> \/ (tip = NoVersion /\ aligned = NoVersion)
    /\ pc \in {"tips", "commit", "seed", "reseed"} => hydrated
    /\ pc \in {"commit", "seed", "reseed"} => versions # <<>>
    /\ worktree = NoDoc => versions = <<>>
    /\ tip = NoVersion => tipDoc = NoDoc

Asked(ops) == \E i \in 1..Len(chain) : chain[i].op \in ops

\* Which operation waits where; an open has a seed that is not the blank document.
Heads ==
    /\ pc \in {"tips", "seed"} => Head(chain).op = "open"
    /\ pc = "tip" => Head(chain).op = "restore"
    /\ pc \in {"harvest", "run"} => Head(chain).op \in {"undo", "redo", "restore"}
    /\ Asked({"open"}) => mounted
    /\ \A i \in 1..Len(chain) : chain[i].op = "open" => chain[i].seed # Blank

\* A commit adds one version with an id of its own.
LEMMA Committed ==
    ASSUME Inv, Ids, Read, NEW d \in Docs, Commit(d)
    PROVE  /\ nextId' = nextId + 1 /\ IdsOf(versions', nextId') /\ versions' # <<>>
           /\ hydrated' = TRUE /\ worktree' = d
           /\ TipId' = nextId /\ BlobIn(versions', nextId) = d
           /\ tip # NoVersion \/ aligned # NoVersion =>
                 \A ref : ref < nextId => Blob(ref)' = Blob(ref)
<1>1. /\ nextId' = nextId + 1 /\ hydrated' = TRUE /\ worktree' = d
      /\ versions' = Append(Kept, [id |-> nextId, doc |-> d])
  BY DEF Commit
<1>2. Kept \in Seq(Version) /\ nextId \in Nat \ {0}
  BY KeptType DEF Inv, Record, Ids
<1>3. IdsOf(Kept, nextId)
  BY EmptySeq DEF Ids, Kept, IdsOf
<1>4. /\ IdsOf(versions', nextId + 1) /\ versions' # <<>>
      /\ NewestIn(versions') = nextId /\ BlobIn(versions', nextId) = d
      /\ \A ref : ref # nextId => BlobIn(versions', ref) = BlobIn(Kept, ref)
  BY <1>1, <1>2, <1>3, BlobGrows
<1>5. tip # NoVersion \/ aligned # NoVersion => Kept = versions
  BY DEF Read, Kept
<1>6. ASSUME tip # NoVersion \/ aligned # NoVersion, NEW ref, ref < nextId
      PROVE  Blob(ref)' = Blob(ref)
  <2>1. ref # nextId
    BY <1>2, <1>6
  <2> QED
    BY <1>4, <1>5, <1>6, <2>1, OfVersions
<1>7. TipId' = nextId /\ BlobIn(versions', nextId) = d
  BY <1>4, OfVersions
<1>8. nextId' = nextId + 1 /\ IdsOf(versions', nextId') /\ versions' # <<>>
  BY <1>1, <1>4
<1>9. tip # NoVersion \/ aligned # NoVersion => \A ref : ref < nextId => Blob(ref)' = Blob(ref)
  BY <1>6
<1> QED
  BY <1>1, <1>7, <1>8, <1>9

\* A save of the working tree keeps the versions, once there is a tip or a marker.
LEMMA Saved ==
    ASSUME Read, NEW d, SaveWorktree(d)
    PROVE  /\ nextId' = nextId /\ (hydrated' = hydrated \/ hydrated' = TRUE)
           /\ \/ versions' = versions
              \/ /\ versions' = <<>> /\ ~hydrated /\ hydrated' = TRUE
                 /\ tip = NoVersion /\ aligned = NoVersion
           /\ \/ worktree' = d
              \/ worktree' = worktree /\ versions' = versions /\ pc = "load"
  BY DEF SaveWorktree, disk, Read, Kept

LEMMA Appended ==
    ASSUME chain \in Seq(Entry), NEW e \in Entry, chain' = Append(chain, e)
    PROVE  /\ \A ops : Asked(ops)' <=> Asked(ops) \/ e.op \in ops
           /\ chain # <<>> => Head(chain') = Head(chain)
           /\ \A i \in 1..Len(chain') : chain'[i] = e \/ (i \in 1..Len(chain) /\ chain'[i] = chain[i])
<1>1. /\ Len(chain') = Len(chain) + 1 /\ Len(chain) \in Nat
      /\ \A i \in 1..Len(chain) : chain'[i] = chain[i]
      /\ chain'[Len(chain) + 1] = e
  BY AppendProperties, LenProperties
<1>2. \A i \in 1..Len(chain') : i \in 1..Len(chain) \/ i = Len(chain) + 1
  BY <1>1
<1>3. \A i \in 1..Len(chain) : i \in 1..Len(chain')
  BY <1>1
<1>4. Len(chain) + 1 \in 1..Len(chain')
  BY <1>1
<1>5. chain # <<>> => Head(chain') = Head(chain)
  BY HeadTailAppend
<1>6. \A ops : Asked(ops)' <=> Asked(ops) \/ e.op \in ops
  BY <1>1, <1>2, <1>3, <1>4 DEF Asked
<1> QED
  BY <1>1, <1>2, <1>5, <1>6

LEMMA Popped ==
    ASSUME chain \in Seq(Entry), chain # <<>>, Finish
    PROVE  /\ \A ops : Asked(ops) <=> Asked(ops)' \/ Head(chain).op \in ops
           /\ \A i \in 1..Len(chain') : i + 1 \in 1..Len(chain) /\ chain'[i] = chain[i + 1]
           /\ pc' = "idle" /\ held' = NoDoc
<1>1. /\ Len(chain') = Len(chain) - 1
      /\ \A i \in 1..Len(chain') : chain'[i] = chain[i + 1]
      /\ Len(chain) \in Nat \ {0} /\ pc' = "idle" /\ held' = NoDoc
      /\ Head(chain) = chain[1]
  BY FinishType, EntryParts
<1>2. \A i \in 1..Len(chain') : i + 1 \in 1..Len(chain)
  BY <1>1
<1>3. \A i \in 1..Len(chain) : i = 1 \/ (i - 1 \in 1..Len(chain') /\ (i - 1) + 1 = i)
  BY <1>1
<1>4. 1 \in 1..Len(chain)
  BY <1>1
<1>5. \A ops : Asked(ops) <=> Asked(ops)' \/ Head(chain).op \in ops
  BY <1>1, <1>2, <1>3, <1>4 DEF Asked
<1> QED
  BY <1>1, <1>2, <1>5

-----------------------------------------------------------------------------
(* What may happen while an operation of the chain waits: the mount, the   *)
(* end of a clear, a timer, a harvest, the user.                           *)

\* The document keeps its marker or loses it, one operation at most joins the chain, and the
\* record changes by a save of the working tree.
Aside ==
    /\ UNCHANGED <<tip, tipDoc, pc, held, nextId>>
    /\ (doc' = doc /\ aligned' = aligned) \/ aligned' = NoVersion
    /\ hydrated' = hydrated \/ hydrated' = TRUE
    /\ \/ versions' = versions
       \/ versions' = <<>> /\ ~hydrated /\ hydrated' = TRUE /\ tip = NoVersion /\ aligned = NoVersion
    /\ (worktree' = worktree /\ versions' = versions) \/ worktree' = doc
    /\ \/ chain' = chain /\ mounted' = mounted
       \/ \E e \in Entry :
            /\ chain' = Append(chain, e)
            /\ IF e.op = "open" THEN mounted' = TRUE /\ e.seed # Blank ELSE mounted' = mounted

Interrupts == Mount \/ ClearTail \/ Timers \/ Harvest \/ User

LEMMA EditAside ==
    /\ \A d : Edit(d) => (doc' = doc /\ aligned' = aligned) \/ aligned' = NoVersion
    /\ \A t : SetText(t) => (doc' = doc /\ aligned' = aligned) \/ aligned' = NoVersion
  BY DEF Edit, SetText

LEMMA EnqueueAside ==
    ASSUME NEW op \in Ops, NEW ref \in Nat, op # "open", Enqueue(op, ref, NoDoc), mounted' = mounted
    PROVE  \E e \in Entry :
             /\ chain' = Append(chain, e)
             /\ IF e.op = "open" THEN mounted' = TRUE /\ e.seed # Blank ELSE mounted' = mounted
<1> DEFINE e == [op |-> op, ref |-> ref, seed |-> NoDoc]
<1>1. e \in Entry /\ e.op = op
  BY DEF Entry
<1>2. chain' = Append(chain, e)
  BY DEF Enqueue
<1> HIDE DEF e
<1> QED
  BY <1>1, <1>2

LEMMA InterruptsAside == Inv /\ Ids /\ Read /\ Interrupts => Aside
<1> SUFFICES ASSUME Inv, Ids, Read, Interrupts PROVE Aside
  OBVIOUS
<1> USE DEF project, sheet, timers, disk, line
<1>1. CASE Mount
  <2> DEFINE e == [op |-> "open", ref |-> 0, seed |-> [text |-> SeedText, vals |-> store]]
  <2>1. e \in Entry /\ e.op = "open" /\ e.seed # Blank
    <3>1. [text |-> SeedText, vals |-> store] \in Docs
      BY TextParts DEF Inv, PageInv, TextsOrEmpty
    <3>2. SeedText # EmptyText
      BY TextParts
    <3>3. [text |-> SeedText, vals |-> store] # Blank
      BY <3>2 DEF Blank
    <3> QED
      BY <3>1, <3>3 DEF Entry, Ops
  <2>2. chain' = Append(chain, e) /\ mounted' = TRUE
    BY <1>1 DEF Mount, Enqueue
  <2>3. UNCHANGED <<project, disk, pc, held>>
    BY <1>1 DEF Mount
  <2> HIDE DEF e
  <2> QED
    BY <2>1, <2>2, <2>3 DEF Aside
<1>2. CASE ClearTail
  BY <1>2, EditAside DEF ClearTail, Aside
<1>3. CASE Timers
  <2>1. CASE EditorTimer
    BY <2>1, EditAside DEF EditorTimer, Aside
  <2>2. CASE AutoTimer
    <3>1. /\ Enqueue("auto", 0, NoDoc) /\ UNCHANGED <<tip, tipDoc, pc, held, disk, mounted>>
          /\ (doc' = doc /\ aligned' = aligned) \/ aligned' = NoVersion
      BY <2>2, EditAside DEF AutoTimer, Sync
    <3> QED
      BY <3>1, EnqueueAside DEF Aside, Ops
  <2>3. CASE Autosave
    <3>1. SaveWorktree(doc) /\ UNCHANGED <<project, mounted, line>>
      BY <2>3 DEF Autosave
    <3> QED
      BY <3>1, Saved DEF Aside
  <2> QED
    BY <1>3, <2>1, <2>2, <2>3 DEF Timers
<1>4. CASE Harvest
  BY <1>4, EditAside DEF Harvest, Aside
<1>5. CASE User
  <2>1. CASE Type
    BY <2>1, EditAside DEF Type, Aside
  <2>2. CASE Drag
    BY <2>2, EditAside DEF Drag, Aside
  <2>3. CASE Scrub
    BY <2>3, EditAside DEF Scrub, Aside
  <2>4. CASE Run
    BY <2>4, EditAside DEF Run, Sync, Aside
  <2>5. CASE Flush
    <3>1. SaveWorktree(doc) /\ UNCHANGED <<project, mounted, line>>
      BY <2>5 DEF Flush
    <3> QED
      BY <3>1, Saved DEF Aside
  <2>6. CASE AskUndo \/ AskRedo \/ AskClear
    <3>1. PICK op \in {"undo", "redo", "clear"} : Enqueue(op, 0, NoDoc)
      BY <2>6 DEF AskUndo, AskRedo, AskClear
    <3>2. UNCHANGED <<project, mounted, disk, pc, held>>
      BY <2>6 DEF AskUndo, AskRedo, AskClear
    <3> QED
      BY <3>1, <3>2, EnqueueAside DEF Aside, Ops
  <2>7. CASE AskLabel
    <3>1. /\ Enqueue("label", 0, NoDoc) /\ UNCHANGED <<tip, tipDoc, pc, held, disk, mounted>>
          /\ (doc' = doc /\ aligned' = aligned) \/ aligned' = NoVersion
      BY <2>7, EditAside DEF AskLabel, Sync
    <3> QED
      BY <3>1, EnqueueAside DEF Aside, Ops
  <2>8. CASE AskRestore
    <3>1. PICK i \in 1..Len(versions) : Enqueue("restore", versions[i].id, NoDoc)
      BY <2>8 DEF AskRestore
    <3>2. hydrated' = TRUE /\ UNCHANGED <<project, mounted, worktree, versions, nextId, pc, held>>
      BY <2>8 DEF AskRestore
    <3>3. versions[i].id \in Nat
      BY VersionParts DEF Inv, Record
    <3> QED
      BY <3>1, <3>2, <3>3, EnqueueAside DEF Aside, Ops
  <2> QED
    BY <1>5, <2>1, <2>2, <2>3, <2>4, <2>5, <2>6, <2>7, <2>8 DEF User
<1> QED
  BY <1>1, <1>2, <1>3, <1>4, <1>5 DEF Interrupts

-----------------------------------------------------------------------------
(* What the chain itself does.                                             *)

\* The operations that neither read nor write the record but for the working tree.
Walks ==
    \/ UndoStep \/ RedoStep \/ Harvested \/ MoveDone \/ OpenStart
    \/ RestoreStart \/ (AutoStart /\ doc = tipDoc)

Records == LabelStart \/ (AutoStart /\ doc # tipDoc)

Replies == OpenSeeded \/ CommitDone \/ ClearDone

LEMMA NextCases ==
    Next => \/ Interrupts \/ Walks \/ Records \/ Replies
            \/ OpenLoad \/ OpenTips \/ RestoreDone \/ RestoreTip \/ ClearStart \/ ClearReset
  BY DEF Next, System, Moves, Opening, Checkpoints, Restoring, Clearing, Interrupts, Walks, Records,
         Replies

LEMMA ApplyWaits ==
    ASSUME NEW d, NEW marker, Apply(d, marker)
    PROVE  /\ pc' \in {"harvest", "run"} /\ chain' = chain /\ mounted' = mounted
           /\ aligned' = marker
  BY DEF Apply, Await, Replace

LEMMA Walking ==
    ASSUME Inv, Walks
    PROVE  /\ UNCHANGED <<tip, tipDoc, versions, nextId, hydrated, mounted>>
           /\ aligned' \in {aligned, tip, NoVersion}
           /\ worktree' = worktree \/ worktree' \in Docs
           /\ \/ Await(pc', held') /\ chain # <<>>
              \/ Finish /\ chain # <<>>
           /\ pc' \in {"idle", "harvest", "run", "load", "restore"}
           /\ pc \in {"idle", "harvest", "run"}
<1> USE DEF Inv, disk, project, sheet, timers, Head1
<1>1. ASSUME NEW op, NEW possible \in BOOLEAN, NEW h, Step(op, possible, h)
      PROVE  /\ UNCHANGED <<tip, tipDoc, worktree, versions, nextId, hydrated, mounted>>
             /\ pc = "idle"
             /\ aligned' \in {aligned, tip, NoVersion}
             /\ chain # <<>>
             /\ (Await(pc', held') /\ pc' \in {"harvest", "run"}) \/ Finish
  <2>1. chain # <<>> /\ pc = "idle" /\ UNCHANGED <<tip, tipDoc, worktree, versions, nextId, hydrated>>
    BY <1>1, HeadThere DEF Step
  <2>2. CASE possible
    <3>1. Apply(h.present, IF h.present = tipDoc THEN tip ELSE NoVersion)
      BY <1>1, <2>2 DEF Step
    <3>2. /\ pc' \in {"harvest", "run"} /\ chain' = chain /\ mounted' = mounted
          /\ aligned' \in {tip, NoVersion}
      BY <3>1, ApplyWaits
    <3> QED
      BY <2>1, <3>2 DEF Await
  <2>3. CASE ~possible
    BY <1>1, <2>1, <2>3 DEF Step
  <2> QED
    BY <2>2, <2>3
<1>2. CASE UndoStep \/ RedoStep
  BY <1>1, <1>2 DEF UndoStep, RedoStep, Finish
<1>3. CASE Harvested
  BY <1>3, HeadThere DEF Harvested, Replace, Await
<1>4. CASE MoveDone
  BY <1>4, HeadThere DEF MoveDone, Finish
<1>5. CASE OpenStart
  BY <1>5, HeadThere DEF OpenStart, Await
<1>6. CASE RestoreStart
  <2>1. chain # <<>> /\ UNCHANGED <<project, sheet, versions, nextId, hydrated>>
    BY <1>6, HeadThere DEF RestoreStart
  <2>2. CASE Blob(Head(chain).ref) # NoDoc
    BY <1>6, <2>1, <2>2, BlobType DEF RestoreStart, Await, Record
  <2>3. CASE Blob(Head(chain).ref) = NoDoc
    BY <1>6, <2>1, <2>3 DEF RestoreStart, Finish
  <2> QED
    BY <2>1, <2>2, <2>3
<1>7. CASE AutoStart /\ doc = tipDoc
  BY <1>7, HeadThere DEF AutoStart, Finish
<1> QED
  BY <1>2, <1>3, <1>4, <1>5, <1>6, <1>7 DEF Walks

LEMMA Replying ==
    ASSUME Inv, Replies
    PROVE  /\ tip' = TipId /\ tipDoc' = doc /\ aligned' = TipId
           /\ UNCHANGED <<worktree, versions, nextId, hydrated, mounted>>
           /\ pc \in {"seed", "commit", "reseed"} /\ chain # <<>> /\ Finish
<1> USE DEF Inv, disk, sheet
<1>1. CASE OpenSeeded
  BY <1>1, HeadThere DEF OpenSeeded, Checkpointed
<1>2. CASE CommitDone
  BY <1>2, HeadThere DEF CommitDone, Checkpointed
<1>3. CASE ClearDone
  BY <1>3, HeadThere DEF ClearDone, Replace
<1> QED
  BY <1>1, <1>2, <1>3 DEF Replies

LEMMA Recording ==
    ASSUME Records
    PROVE  /\ chain # <<>> /\ Head(chain).op \in {"label", "auto"} /\ pc = "idle" /\ Commit(doc)
           /\ Await("commit", NoDoc) /\ UNCHANGED <<doc, tip, tipDoc, aligned, mounted>>
  BY DEF Records, LabelStart, AutoStart, RecordCheckpoint, Head1, sheet

\* The newest version, and what having one says.
LEMMA Newest ==
    ASSUME Inv, Ids
    PROVE  /\ TipId \in Nat /\ TipId < nextId
           /\ versions # <<>> => TipId # NoVersion /\ Blob(TipId) \in Docs
           /\ versions = <<>> => TipId = NoVersion /\ \A ref : Blob(ref) = NoDoc
           /\ \A ref : Blob(ref) # NoDoc => ref \in 1..(nextId - 1)
<1>1. versions \in Seq(Version) /\ nextId \in Nat \ {0} /\ IdsOf(versions, nextId)
  BY DEF Inv, Record, Ids
<1>2. /\ versions # <<>> => TipId \in 1..(nextId - 1) /\ Blob(TipId) \in Docs
      /\ versions = <<>> => TipId = NoVersion
      /\ \A ref : Blob(ref) # NoDoc => ref \in 1..(nextId - 1) /\ versions # <<>>
  BY <1>1, BlobFacts, OfVersions
<1> QED
  BY <1>1, <1>2 DEF NoVersion

\* An operation that restores has a record that was read.
LEMMA RestoringRead ==
    ASSUME Inv, chain # <<>>, Head(chain).op = "restore"
    PROVE  hydrated \/ versions = <<>>
<1>1. Len(chain) \in Nat \ {0} /\ Head(chain) = chain[1]
  BY EntryParts DEF Inv, Line, ChainType
<1>2. 1 \in 1..Len(chain)
  BY <1>1
<1> QED
  BY <1>1, <1>2 DEF Inv, Line, RestoreRead

LEMMA IdsStep == Inv /\ Ids /\ Read /\ Heads /\ [Next]_vars => Ids' /\ Read'
<1> SUFFICES ASSUME Inv, Ids, Read, Heads, [Next]_vars PROVE Ids' /\ Read'
  OBVIOUS
<1>0. nextId \in Nat \ {0} /\ tip \in Nat /\ aligned \in Nat /\ doc \in Docs
  BY DEF Ids, Inv, DocInv
<1>1. CASE UNCHANGED vars
  BY <1>1 DEF vars, project, disk, line, Ids, Read
<1>2. CASE Interrupts
  <2>1. Aside
    BY <1>2, InterruptsAside
  <2>2. IdsOf(versions', nextId')
    BY <2>1, EmptySeq DEF Aside, Ids, IdsOf
  <2>3. Ids'
    BY <1>0, <2>1, <2>2 DEF Aside, Ids, NoVersion
  <2>4. pc \in {"tips", "commit", "seed", "reseed"} => hydrated' /\ versions' = versions
    BY <2>1 DEF Aside, Read
  <2>5. worktree' = NoDoc => versions' = <<>>
    BY <1>0, <2>1, NoDocAssumption DEF Aside, Read
  <2>6. ~hydrated' => versions' = versions /\ ~hydrated /\ aligned' \in {aligned, NoVersion}
    BY <2>1 DEF Aside
  <2>7. Read'
    BY <2>1, <2>4, <2>5, <2>6 DEF Aside, Read
  <2> QED
    BY <2>3, <2>7
<1>3. CASE Walks
  <2>1. /\ UNCHANGED <<tip, tipDoc, versions, nextId, hydrated>>
        /\ aligned' \in {aligned, tip, NoVersion}
        /\ worktree' = worktree \/ worktree' \in Docs
        /\ pc' \in {"idle", "harvest", "run", "load", "restore"}
    BY <1>3, Walking
  <2> QED
    BY <1>0, <2>1, NoDocAssumption DEF Ids, Read, NoVersion
<1>4. CASE Records
  <2>1. /\ Commit(doc) /\ pc' = "commit" /\ UNCHANGED <<tip, tipDoc, aligned>>
    BY <1>4, Recording DEF Await
  <2>2. /\ nextId' = nextId + 1 /\ IdsOf(versions', nextId') /\ versions' # <<>>
        /\ hydrated' = TRUE /\ worktree' = doc
    BY <1>0, <2>1, Committed
  <2> QED
    BY <1>0, <2>1, <2>2, NoDocAssumption DEF Ids, Read
<1>5. CASE Replies
  <2>1. /\ tip' = TipId /\ tipDoc' = doc /\ aligned' = TipId
        /\ UNCHANGED <<worktree, versions, nextId, hydrated>>
        /\ pc \in {"seed", "commit", "reseed"} /\ pc' = "idle"
    BY <1>5, Replying DEF Finish
  <2>2. TipId \in Nat /\ TipId < nextId /\ TipId # NoVersion /\ hydrated
    BY <2>1, Newest DEF Read
  <2> QED
    BY <2>1, <2>2 DEF Ids, Read
<1>6. CASE OpenLoad
  <2>1. /\ hydrated' = TRUE /\ pc' = "tips"
        /\ UNCHANGED <<tip, tipDoc, aligned, worktree, versions, nextId>>
    BY <1>6 DEF OpenLoad, Await
  <2> QED
    BY <2>1 DEF Ids, Read
<1>7. CASE OpenTips
  <2>1. /\ pc = "tips" /\ tip' = TipId /\ tipDoc' = Blob(TipId) /\ aligned' \in {TipId, NoVersion}
        /\ IF versions = <<>> /\ doc # Blank
           THEN Commit(doc) /\ Await("seed", NoDoc) ELSE Finish /\ UNCHANGED disk
    BY <1>7 DEF OpenTips
  <2>2. TipId \in Nat /\ TipId < nextId /\ hydrated /\ (TipId = NoVersion => Blob(TipId) = NoDoc)
    BY <2>1, Newest DEF Read
  <2>3. CASE Commit(doc) /\ Await("seed", NoDoc)
    <3>1. /\ nextId' = nextId + 1 /\ IdsOf(versions', nextId') /\ versions' # <<>>
          /\ hydrated' = TRUE /\ worktree' = doc
      BY <1>0, <2>3, Committed
    <3> QED
      BY <1>0, <2>1, <2>2, <2>3, <3>1, NoDocAssumption DEF Ids, Read, Await, NoVersion
  <2>4. CASE Finish /\ UNCHANGED disk
    BY <1>0, <2>1, <2>2, <2>4 DEF Ids, Read, Finish, disk, NoVersion
  <2> QED
    BY <2>1, <2>3, <2>4
<1>8. CASE RestoreDone
  <2>1. /\ pc = "restore" /\ aligned' = Head(chain).ref /\ pc' = "tip"
        /\ UNCHANGED <<tip, tipDoc, worktree, versions, nextId, hydrated>>
    BY <1>8 DEF RestoreDone, Await, disk
  <2>2. Blob(Head(chain).ref) # NoDoc /\ Head(chain).op = "restore" /\ chain # <<>>
    BY <2>1, HeadThere, NoDocAssumption DEF Inv, Line, Midway, RestoreHeads
  <2>3. Head(chain).ref \in 1..(nextId - 1)
    BY <2>2, Newest
  <2>4. hydrated \/ versions = <<>>
    BY <2>2, RestoringRead
  <2> QED
    BY <1>0, <2>1, <2>3, <2>4 DEF Ids, Read
<1>9. CASE RestoreTip
  <2>1. /\ pc = "tip" /\ tip' = TipId /\ tipDoc' = Blob(TipId) /\ aligned' = aligned
        /\ pc' \in {"harvest", "run"} /\ UNCHANGED disk
    BY <1>9, ApplyWaits DEF RestoreTip
  <2>2. hydrated \/ versions = <<>>
    BY <2>1, HeadThere, RestoringRead DEF Heads, Inv
  <2>3. TipId \in Nat /\ TipId < nextId /\ (TipId = NoVersion => Blob(TipId) = NoDoc)
    BY Newest
  <2> QED
    BY <2>1, <2>2, <2>3 DEF Ids, Read, disk
<1>10. CASE ClearStart
  <2>1. /\ versions' = <<>> /\ pc' = "clear" /\ UNCHANGED <<tip, tipDoc, aligned, nextId>>
    BY <1>10 DEF ClearStart, Await, project
  <2>2. IdsOf(versions', nextId')
    BY <2>1, EmptySeq DEF IdsOf
  <2> QED
    BY <2>1, <2>2 DEF Ids, Read
<1>11. CASE ClearReset
  <2>1. /\ tip' = NoVersion /\ tipDoc' = NoDoc /\ aligned' = NoVersion /\ pc' = "reseed"
        /\ doc' = [text |-> SeedText, vals |-> NoVals] /\ Commit(doc')
    BY <1>11 DEF ClearReset, Await
  <2>2. PICK d \in Docs : d = doc' /\ Commit(d)
    BY <2>1, TextParts DEF TextsOrEmpty
  <2>3. /\ nextId' = nextId + 1 /\ IdsOf(versions', nextId') /\ versions' # <<>>
        /\ hydrated' = TRUE /\ worktree' = d
    BY <2>2, Committed
  <2> QED
    BY <1>0, <2>1, <2>2, <2>3, NoDocAssumption DEF Ids, Read, NoVersion
<1> QED
  BY <1>1, <1>2, <1>3, <1>4, <1>5, <1>6, <1>7, <1>8, <1>9, <1>10, <1>11, NextCases

LEMMA WalkHeads ==
    ASSUME Heads, Walks
    PROVE  /\ pc' \in {"harvest", "run"} => Head(chain).op \in {"undo", "redo", "restore"}
           /\ pc' = "load" => Head(chain).op = "open"
           /\ pc' = "idle" => Head(chain).op \in {"undo", "redo", "restore", "auto"}
<1>1. ASSUME NEW op, NEW possible, NEW h, Step(op, possible, h) PROVE Head(chain).op = op
  BY <1>1 DEF Step, Head1
<1>2. CASE UndoStep \/ RedoStep
  <2>1. Head(chain).op \in {"undo", "redo"}
    BY <1>1, <1>2 DEF UndoStep, RedoStep
  <2>2. pc' \in {"idle", "harvest", "run"}
    <3>1. ASSUME NEW op, NEW possible, NEW h, Step(op, possible, h)
          PROVE  pc' \in {"idle", "harvest", "run"}
      <4>1. CASE possible
        BY <3>1, <4>1, ApplyWaits DEF Step
      <4>2. CASE ~possible
        BY <3>1, <4>2 DEF Step, Finish
      <4> QED
        BY <4>1, <4>2
    <3> QED
      BY <1>2, <3>1 DEF UndoStep, RedoStep
  <2> QED
    BY <2>1, <2>2
<1>3. CASE Harvested
  BY <1>3 DEF Harvested, Heads, Await
<1>4. CASE MoveDone
  BY <1>4 DEF MoveDone, Finish, Heads
<1>5. CASE OpenStart
  BY <1>5 DEF OpenStart, Head1, Await
<1>6. CASE RestoreStart
  BY <1>6 DEF RestoreStart, Await, Finish, Head1
<1>7. CASE AutoStart /\ doc = tipDoc
  BY <1>7 DEF AutoStart, Finish, Head1
<1> QED
  BY <1>2, <1>3, <1>4, <1>5, <1>6, <1>7 DEF Walks

LEMMA HeadsStep == Inv /\ Ids /\ Read /\ Heads /\ [Next]_vars => Heads'
<1> SUFFICES ASSUME Inv, Ids, Read, Heads, [Next]_vars PROVE Heads'
  OBVIOUS
<1>0. chain \in Seq(Entry) /\ (pc # "idle" => chain # <<>>)
  BY DEF Inv, Line, ChainType
<1>1. ASSUME UNCHANGED <<chain, mounted>>,
             pc' \in {"tips", "seed"} => Head(chain).op = "open",
             pc' = "tip" => Head(chain).op = "restore",
             pc' \in {"harvest", "run"} => Head(chain).op \in {"undo", "redo", "restore"}
      PROVE  Heads'
  BY <1>1 DEF Heads, Asked
<1>2. ASSUME Finish, chain # <<>>, mounted' = mounted PROVE Heads'
  <2>1. /\ \A ops : Asked(ops)' => Asked(ops)
        /\ \A i \in 1..Len(chain') : i + 1 \in 1..Len(chain) /\ chain'[i] = chain[i + 1]
        /\ pc' = "idle"
    BY <1>0, <1>2, Popped
  <2>2. Asked({"open"})' => mounted'
    BY <1>2, <2>1 DEF Heads
  <2>3. \A i \in 1..Len(chain') : chain'[i].op = "open" => chain'[i].seed # Blank
    BY <2>1 DEF Heads
  <2> QED
    BY <2>1, <2>2, <2>3 DEF Heads
<1>3. CASE UNCHANGED vars
  BY <1>1, <1>3 DEF vars, line, sheet, Heads
<1>4. CASE Interrupts
  <2>1. Aside
    BY <1>4, InterruptsAside
  <2>2. CASE chain' = chain /\ mounted' = mounted
    BY <1>1, <2>1, <2>2 DEF Aside, Heads
  <2>3. CASE \E e \in Entry :
               /\ chain' = Append(chain, e)
               /\ IF e.op = "open" THEN mounted' = TRUE /\ e.seed # Blank ELSE mounted' = mounted
    <3>1. PICK e \in Entry :
            /\ chain' = Append(chain, e)
            /\ IF e.op = "open" THEN mounted' = TRUE /\ e.seed # Blank ELSE mounted' = mounted
      BY <2>3
    <3>2. /\ \A ops : Asked(ops)' <=> Asked(ops) \/ e.op \in ops
          /\ chain # <<>> => Head(chain') = Head(chain)
          /\ \A i \in 1..Len(chain') : chain'[i] = e \/ (i \in 1..Len(chain) /\ chain'[i] = chain[i])
      BY <1>0, <3>1, Appended
    <3>3. Asked({"open"})' => mounted'
      <4>1. Asked({"open"})' => Asked({"open"}) \/ e.op = "open"
        BY <3>2
      <4> QED
        BY <3>1, <4>1 DEF Heads
    <3>4. \A i \in 1..Len(chain') : chain'[i].op = "open" => chain'[i].seed # Blank
      BY <3>1, <3>2 DEF Heads
    <3>5. pc' = pc /\ (pc # "idle" => Head(chain') = Head(chain))
      BY <1>0, <2>1, <3>2 DEF Aside
    <3> QED
      BY <3>3, <3>4, <3>5 DEF Heads
  <2> QED
    BY <2>1, <2>2, <2>3 DEF Aside
<1>5. CASE Walks
  <2>1. /\ mounted' = mounted /\ chain # <<>> /\ (Await(pc', held') \/ Finish)
        /\ pc' \in {"idle", "harvest", "run", "load", "restore"}
    BY <1>5, Walking
  <2>2. CASE Await(pc', held')
    BY <1>1, <1>5, <2>1, <2>2, WalkHeads DEF Await
  <2> QED
    BY <1>2, <2>1, <2>2
<1>6. CASE Records
  BY <1>1, <1>6, Recording DEF Await
<1>7. CASE Replies
  BY <1>2, <1>7, Replying
<1>8. CASE OpenLoad
  BY <1>1, <1>8 DEF OpenLoad, Await, Inv, Line, Midway, sheet
<1>9. CASE OpenTips
  BY <1>0, <1>1, <1>2, <1>9 DEF OpenTips, Await, Heads
<1>10. CASE RestoreDone
  BY <1>1, <1>10 DEF RestoreDone, Await, Inv, Line, RestoreHeads, sheet
<1>11. CASE RestoreTip
  BY <1>1, <1>11, ApplyWaits DEF RestoreTip, Heads
<1>12. CASE ClearStart
  BY <1>1, <1>12 DEF ClearStart, Await, sheet
<1>13. CASE ClearReset
  BY <1>1, <1>13 DEF ClearReset, Await, sheet
<1> QED
  BY <1>3, <1>4, <1>5, <1>6, <1>7, <1>8, <1>9, <1>10, <1>11, <1>12, <1>13, NextCases

-----------------------------------------------------------------------------
(* The tip and the marker.                                                 *)

Opened == mounted /\ ~Asked({"open"})

\* The tip is the newest version, but while a version is on its way or one was cleared.
TipKnown == Opened /\ pc \notin {"commit", "clear", "reseed"} => tip = TipId

\* Nothing that waits at the head hides an open that is still to come.
LEMMA OpenedKept ==
    ASSUME Inv
    PROVE  /\ UNCHANGED <<chain, mounted>> => (Opened' <=> Opened)
           /\ chain # <<>> /\ Finish /\ mounted' = mounted /\ Head(chain).op # "open" =>
                 (Opened' <=> Opened)
           /\ chain # <<>> /\ Head(chain).op = "open" => ~Opened
<1>0. chain \in Seq(Entry)
  BY DEF Inv, Line, ChainType
<1>1. UNCHANGED <<chain, mounted>> => (Opened' <=> Opened)
  BY DEF Opened, Asked
<1>2. ASSUME chain # <<>>, Finish, mounted' = mounted, Head(chain).op # "open"
      PROVE  Opened' <=> Opened
  <2>1. Asked({"open"}) <=> Asked({"open"})' \/ Head(chain).op \in {"open"}
    BY <1>0, <1>2, Popped
  <2> QED
    BY <1>2, <2>1 DEF Opened
<1>3. ASSUME chain # <<>>, Head(chain).op = "open" PROVE ~Opened
  <2>1. 1 \in 1..Len(chain) /\ chain[1].op \in {"open"}
    BY <1>0, <1>3, EntryParts
  <2> QED
    BY <2>1 DEF Opened, Asked
<1> QED
  BY <1>1, <1>2, <1>3

\* An open that is asked for stays so until the chain comes to it.
LEMMA OpenedAside == Inv /\ Aside /\ Opened' => Opened
<1> SUFFICES ASSUME Inv, Aside, Opened' PROVE Opened
  OBVIOUS
<1>1. CASE chain' = chain /\ mounted' = mounted
  BY <1>1, OpenedKept
<1>2. CASE \E e \in Entry :
             /\ chain' = Append(chain, e)
             /\ IF e.op = "open" THEN mounted' = TRUE /\ e.seed # Blank ELSE mounted' = mounted
  <2>1. PICK e \in Entry :
          /\ chain' = Append(chain, e)
          /\ IF e.op = "open" THEN mounted' = TRUE /\ e.seed # Blank ELSE mounted' = mounted
    BY <1>2
  <2>2. Asked({"open"})' <=> Asked({"open"}) \/ e.op \in {"open"}
    BY <2>1, Appended DEF Inv, Line, ChainType
  <2> QED
    BY <2>1, <2>2 DEF Opened
<1> QED
  BY <1>1, <1>2 DEF Aside

LEMMA TipStep == Inv /\ Ids /\ Read /\ Heads /\ TipKnown /\ [Next]_vars => TipKnown'
<1> SUFFICES ASSUME Inv, Ids, Read, Heads, TipKnown, [Next]_vars PROVE TipKnown'
  OBVIOUS
<1>0. pc # "idle" => chain # <<>>
  BY DEF Inv, Line, ChainType
<1>1. CASE UNCHANGED vars
  BY <1>1, OpenedKept, BlobSame DEF vars, line, sheet, project, disk, TipKnown
<1>2. CASE Interrupts
  <2>1. Aside
    BY <1>2, InterruptsAside
  <2>2. versions' = versions => TipId' = TipId
    BY BlobSame
  <2>3. versions' = <<>> => TipId' = NoVersion
    BY DEF TipId
  <2> QED
    BY <2>1, <2>2, <2>3, OpenedAside DEF Aside, TipKnown
<1>3. CASE Walks
  <2>1. /\ UNCHANGED <<tip, versions, mounted>> /\ chain # <<>>
        /\ Await(pc', held') \/ Finish
        /\ pc \in {"idle", "harvest", "run"}
    BY <1>3, Walking
  <2>2. Opened' <=> Opened
    <3>1. CASE Finish
      <4>1. Head(chain).op # "open"
        BY <1>3, <3>1, WalkHeads DEF Finish
      <4> QED
        BY <2>1, <3>1, <4>1, OpenedKept
    <3>2. CASE Await(pc', held')
      BY <2>1, <3>2, OpenedKept DEF Await
    <3> QED
      BY <2>1, <3>1, <3>2
  <2> QED
    BY <2>1, <2>2, BlobSame DEF TipKnown
<1>4. CASE Records
  BY <1>4, Recording DEF Await, TipKnown
<1>5. CASE Replies
  BY <1>5, Replying, BlobSame DEF TipKnown
<1>6. CASE OpenLoad
  <2>1. UNCHANGED <<chain, mounted>> /\ chain # <<>> /\ Head(chain).op = "open"
    BY <1>6, HeadThere DEF OpenLoad, Await, sheet, Inv, Line, Midway
  <2> QED
    BY <2>1, OpenedKept DEF TipKnown
<1>7. CASE OpenTips
  <2>1. /\ pc = "tips" /\ tip' = TipId /\ mounted' = mounted
        /\ (Finish /\ UNCHANGED disk) \/ Await("seed", NoDoc)
    BY <1>7 DEF OpenTips
  <2>2. CASE Finish /\ UNCHANGED disk
    BY <2>1, <2>2, BlobSame DEF disk, TipKnown
  <2>3. CASE Await("seed", NoDoc)
    <3>1. UNCHANGED <<chain, mounted>> /\ chain # <<>> /\ Head(chain).op = "open"
      BY <1>0, <2>1, <2>3 DEF Await, Heads
    <3> QED
      BY <3>1, OpenedKept DEF TipKnown
  <2> QED
    BY <2>1, <2>2, <2>3
<1>8. CASE RestoreDone
  <2>1. UNCHANGED <<chain, mounted, tip, versions>> /\ pc = "restore"
    BY <1>8 DEF RestoreDone, Await, sheet, disk
  <2> QED
    BY <2>1, OpenedKept, BlobSame DEF TipKnown
<1>9. CASE RestoreTip
  BY <1>9, BlobSame DEF RestoreTip, disk, TipKnown
<1>10. CASE ClearStart \/ ClearReset
  BY <1>10 DEF ClearStart, ClearReset, Await, TipKnown
<1> QED
  BY <1>1, <1>2, <1>3, <1>4, <1>5, <1>6, <1>7, <1>8, <1>9, <1>10, NextCases

-----------------------------------------------------------------------------
(* What a document shows.                                                  *)

LEMMA RewriteIs ==
    ASSUME NEW t \in TextsOrEmpty, NEW v
    PROVE  /\ v = NoVals \/ t.lits = NoVals => Rewrite(t, v) = t
           /\ ~(v = NoVals \/ t.lits = NoVals) => Rewrite(t, v) = [body |-> t.body, lits |-> v]
<1>1. t = [body |-> t.body, lits |-> t.lits]
  BY TextParts
<1> QED
  BY <1>1 DEF Rewrite

LEMMA RewriteTwice ==
    ASSUME NEW t \in TextsOrEmpty, NEW v \in ValsOrNone
    PROVE  Rewrite(Rewrite(t, v), v) = Rewrite(t, v)
<1>1. CASE v = NoVals \/ t.lits = NoVals
  BY <1>1, RewriteIs
<1>2. CASE ~(v = NoVals \/ t.lits = NoVals)
  <2>1. Rewrite(t, v) = [body |-> t.body, lits |-> v] /\ Rewrite(t, v) \in TextsOrEmpty
    BY <1>2, RewriteIs, RewriteText
  <2> QED
    BY <1>2, <2>1, RewriteIs
<1> QED
  BY <1>1, <1>2

LEMMA RewriteOwn ==
    ASSUME NEW t \in TextsOrEmpty
    PROVE  Rewrite(t, t.lits) = t /\ Rewrite(t, NoVals) = t
<1>1. t = [body |-> t.body, lits |-> t.lits]
  BY TextParts
<1> QED
  BY <1>1, RewriteIs

\* The sheet after a move shows what the document of the move showed, unless it is empty.
LEMMA OverlayShows ==
    ASSUME NEW d \in Docs, NEW live, Overlay(live, d) # NoVals
    PROVE  Shown(WithVals(d, Overlay(live, d))) = Shown(d)
<1>1. /\ Overlay(live, d) \in ValsOrNone /\ d.text \in TextsOrEmpty
      /\ d = [text |-> d.text, vals |-> d.vals]
  BY OverlayVals, DocParts
<1>2. /\ WithVals(d, Overlay(live, d)).text = d.text
      /\ WithVals(d, Overlay(live, d)).vals = Overlay(live, d)
  BY <1>1, DocParts
<1>3. CASE d.vals = NoVals
  BY <1>1, <1>2, <1>3, RewriteOwn DEF Overlay, Shown
<1>4. CASE d.vals # NoVals
  <2>1. Overlay(live, d) = d.vals
    BY <1>4 DEF Overlay
  <2> QED
    BY <1>2, <2>1 DEF Shown
<1> QED
  BY <1>3, <1>4

LEMMA RewrittenShows ==
    ASSUME NEW d \in Docs, NEW live
    PROVE  LET arg == WithText(d, Rewrite(d.text, d.vals))
               v == Overlay(live, arg)
           IN  /\ arg \in Docs /\ Shown(arg) = Shown(d)
               /\ v # NoVals => \A x \in {d, arg} : Shown(WithVals(x, v)) = Shown(d)
<1> DEFINE arg == WithText(d, Rewrite(d.text, d.vals))
           v == Overlay(live, arg)
<1>1. /\ d.text \in TextsOrEmpty /\ d.vals \in ValsOrNone
      /\ Rewrite(d.text, d.vals) \in TextsOrEmpty
      /\ d = [text |-> d.text, vals |-> d.vals]
  BY DocParts, RewriteText
<1>2. arg \in Docs /\ arg.text = Rewrite(d.text, d.vals) /\ arg.vals = d.vals
  BY <1>1, DocParts
<1> HIDE DEF arg
<1>3. Shown(arg) = Shown(d)
  BY <1>1, <1>2, RewriteTwice DEF Shown
<1>4. v # NoVals => Shown(WithVals(arg, v)) = Shown(d)
  BY <1>2, <1>3, OverlayShows
<1>5. ASSUME v # NoVals PROVE Shown(WithVals(d, v)) = Shown(d)
  <2>1. CASE d.vals = NoVals
    <3>1. arg.text = d.text
      BY <1>1, <1>2, <2>1, RewriteOwn
    <3>2. v = Overlay(live, d)
      BY <1>2, <2>1, <3>1 DEF Overlay
    <3> QED
      BY <1>5, <3>2, OverlayShows
  <2>2. CASE d.vals # NoVals
    <3>1. v = d.vals
      BY <1>2, <1>5, <2>2 DEF Overlay
    <3>2. WithVals(d, d.vals) = d
      BY <1>1 DEF WithVals
    <3> QED
      BY <3>1, <3>2
  <2> QED
    BY <2>1, <2>2
<1> QED
  BY <1>2, <1>3, <1>4, <1>5 DEF arg

-----------------------------------------------------------------------------
(* The version marked current.                                             *)

Marks(d) == Blob(aligned) # NoDoc /\ (d.vals # NoVals => Shown(d) = Shown(Blob(aligned)))

\* The marked version is there and shows what the working copy shows; while a harvest is awaited
\* it does even without the values.
MarkShown ==
    TipDocIsTip /\ aligned # NoVersion =>
        /\ pc \notin {"clear", "tips"} => Marks(doc)
        /\ pc = "harvest" => Shown(doc) = Shown(Blob(aligned))

\* A marker that outlives the wait of a move marks a document nobody has touched.
Untouched ==
    aligned # NoVersion =>
        /\ pc = "tip" => doc = Blob(aligned)
        /\ pc = "harvest" => doc = held

\* Putting the marked document on screen keeps what it shows.
LEMMA ApplyMarks ==
    ASSUME NEW d \in Docs, NEW marker, Apply(d, marker), UNCHANGED versions,
           aligned' # NoVersion => Blob(marker) = d
    PROVE  /\ aligned' = marker /\ pc' \in {"harvest", "run"}
           /\ aligned' # NoVersion => Marks(doc)'
           /\ aligned' # NoVersion /\ pc' = "harvest" =>
                 Shown(doc)' = Shown(Blob(aligned))' /\ doc' = held'
<1> DEFINE arg == WithText(d, Rewrite(d.text, d.vals))
           v == Overlay(store, arg)
<1>1. /\ arg \in Docs /\ Shown(arg) = Shown(d)
      /\ v # NoVals => Shown(WithVals(d, v)) = Shown(d)
  BY RewrittenShows
<1>2. \/ doc' = arg /\ held' = arg /\ pc' = "harvest"
      \/ doc' = WithVals(d, v) /\ pc' = "run"
  BY DEF Apply, Replace, Await
<1>3. aligned' = marker
  BY ApplyWaits
<1> HIDE DEF arg, v
<1>4. ASSUME aligned' # NoVersion PROVE Blob(aligned)' = d
  BY <1>3, <1>4, OfVersions
<1>5. v = NoVals \/ v # NoVals
  OBVIOUS
<1>6. WithVals(d, v).vals = v
  BY DocParts, OverlayVals, <1>1 DEF v
<1>7. Shown(doc)' = Shown(doc') /\ Shown(Blob(aligned))' = Shown(Blob(aligned)')
  BY DEF Shown, Rewrite
<1> QED
  BY <1>1, <1>2, <1>3, <1>4, <1>6, <1>7, NoDocAssumption DEF Marks

LEMMA MarkStep ==
    Inv /\ Ids /\ Read /\ Heads /\ MarkShown /\ Untouched /\ [Next]_vars => MarkShown' /\ Untouched'
<1> SUFFICES ASSUME Inv, Ids, Read, Heads, MarkShown, Untouched, [Next]_vars
             PROVE  MarkShown' /\ Untouched'
  OBVIOUS
<1>0. doc \in Docs /\ aligned < nextId /\ tip < nextId /\ nextId \in Nat \ {0}
  BY DEF Inv, DocInv, Ids
\* A step that leaves the document, its marker, the tip and the blobs.
<1>1. ASSUME UNCHANGED <<doc, tip, tipDoc>>, aligned' = aligned,
             tip # NoVersion => Blob(tip)' = Blob(tip),
             aligned # NoVersion => Blob(aligned)' = Blob(aligned),
             pc # "clear",
             \/ pc' = pc /\ held' = held /\ pc # "tips"
             \/ pc' \in {"idle", "load", "restore", "run", "commit"} /\ pc # "tips"
             \/ pc' = "tips"
      PROVE  MarkShown' /\ Untouched'
  <2>1. TipDocIsTip' => TipDocIsTip
    BY <1>1 DEF TipDocIsTip
  <2>2. aligned # NoVersion => (Marks(doc)' <=> Marks(doc))
    BY <1>1 DEF Marks, Shown, Rewrite
  <2>3. aligned # NoVersion =>
           Shown(doc)' = Shown(doc) /\ Shown(Blob(aligned))' = Shown(Blob(aligned))
    BY <1>1 DEF Shown, Rewrite
  <2> QED
    BY <1>1, <2>1, <2>2, <2>3 DEF MarkShown, Untouched
<1>2. CASE UNCHANGED vars
  BY <1>2 DEF vars, project, line, disk, MarkShown, Untouched, TipDocIsTip, Marks, Shown, Rewrite, Blob
<1>3. CASE Interrupts
  <2>1. Aside
    BY <1>3, InterruptsAside
  <2>2. CASE aligned' = NoVersion
    BY <2>2 DEF MarkShown, Untouched
  <2>3. CASE aligned' # NoVersion
    <3>1. doc' = doc /\ aligned' = aligned /\ aligned # NoVersion /\ versions' = versions
      BY <2>1, <2>3 DEF Aside
    <3>2. UNCHANGED <<tip, tipDoc, pc, held>> /\ (\A ref : Blob(ref)' = Blob(ref))
      BY <2>1, <3>1, BlobSame DEF Aside
    <3>3. Blob(aligned)' = Blob(aligned) /\ Blob(tip)' = Blob(tip)
      BY <3>1, <3>2, OfVersions
    <3>4. TipDocIsTip' <=> TipDocIsTip
      BY <3>2, <3>3 DEF TipDocIsTip
    <3>5. Shown(doc)' = Shown(doc) /\ Shown(Blob(aligned))' = Shown(Blob(aligned))
      BY <3>1, <3>3 DEF Shown, Rewrite
    <3> QED
      BY <3>1, <3>2, <3>3, <3>4, <3>5 DEF MarkShown, Untouched, Marks
  <2> QED
    BY <2>2, <2>3
<1>4. CASE Walks
  <2>0. /\ UNCHANGED <<tip, tipDoc, versions>>
        /\ pc \in {"idle", "harvest", "run"}
        /\ pc' \in {"idle", "harvest", "run", "load", "restore"}
    BY <1>4, Walking
  <2>1. Blob(tip)' = Blob(tip) /\ (\A ref : Blob(ref)' = Blob(ref))
    BY <2>0, OfVersions
  <2>2. aligned' = aligned => Blob(aligned)' = Blob(aligned)
    BY <2>0, OfVersions
  <2>3. TipDocIsTip' => TipDocIsTip
    BY <2>0, <2>1 DEF TipDocIsTip
  <2>4. ASSUME UNCHANGED <<doc, aligned>>, pc' \in {"idle", "load", "restore", "run"}
        PROVE  MarkShown' /\ Untouched'
    BY <1>1, <2>0, <2>1, <2>2, <2>4
  <2>5. ASSUME NEW op, NEW possible \in BOOLEAN, NEW h, Step(op, possible, h),
               possible => h.present \in Docs
        PROVE  MarkShown' /\ Untouched'
    <3>1. CASE ~possible
      <4>1. UNCHANGED <<doc, aligned>> /\ pc' = "idle"
        BY <2>5, <3>1 DEF Step, Finish
      <4> QED
        BY <2>4, <4>1
    <3>2. CASE possible
      <4> DEFINE marker == IF h.present = tipDoc THEN tip ELSE NoVersion
      <4>1. Apply(h.present, marker) /\ h.present \in Docs /\ pc = "idle"
        BY <2>5, <3>2 DEF Step, Head1
      <4>2. aligned' = marker /\ pc' \in {"harvest", "run"}
        BY <4>1, ApplyWaits
      <4>3. TipDocIsTip /\ aligned' # NoVersion => Blob(marker) = h.present
        BY <4>1, <4>2 DEF TipDocIsTip
      <4>4. TipDocIsTip /\ aligned' # NoVersion =>
              /\ Marks(doc)'
              /\ pc' = "harvest" => Shown(doc)' = Shown(Blob(aligned))'
        <5>1. SUFFICES ASSUME TipDocIsTip, aligned' # NoVersion
                       PROVE  /\ Marks(doc)'
                              /\ pc' = "harvest" => Shown(doc)' = Shown(Blob(aligned))'
          OBVIOUS
        <5>2. Blob(marker) = h.present
          BY <4>3, <5>1
        <5> HIDE DEF marker
        <5> QED
          BY <2>0, <4>1, <5>1, <5>2, ApplyMarks
      <4>5. pc' = "harvest" => doc' = held'
        BY <4>1 DEF Apply, Replace, Await
      <4> QED
        BY <2>3, <4>2, <4>4, <4>5 DEF MarkShown, Untouched
    <3> QED
      BY <3>1, <3>2
  <2>6. CASE UndoStep
    BY <2>5, <2>6, UndoKeeps, NoDocAssumption DEF UndoStep, Inv, DocInv
  <2>7. CASE RedoStep
    BY <2>5, <2>7, RedoKeeps, NoDocAssumption DEF RedoStep, Inv, DocInv
  <2>8. CASE Harvested
    <3>1. PICK live : store' = Overlay(live, held)
      BY <2>8 DEF Harvested
    <3>2. pc = "harvest" /\ doc' = WithVals(doc, store') /\ aligned' = aligned /\ pc' = "run"
      BY <2>8 DEF Harvested, Replace, Await
    <3>3. ASSUME TipDocIsTip', aligned # NoVersion PROVE Marks(doc)'
      <4>1. doc = held /\ Shown(doc) = Shown(Blob(aligned)) /\ Marks(doc)
        BY <2>3, <3>2, <3>3 DEF MarkShown, Untouched
      <4>2. store' # NoVals => Shown(doc') = Shown(doc)
        BY <1>0, <3>1, <3>2, <4>1, OverlayShows
      <4>3. doc'.vals = store'
        BY <1>0, <3>1, <3>2, <4>1, DocParts, OverlayVals
      <4>4. Blob(aligned)' = Blob(aligned)
        BY <2>2, <3>2
      <4>5. Shown(doc)' = Shown(doc') /\ Shown(Blob(aligned))' = Shown(Blob(aligned))
        BY <4>4 DEF Shown, Rewrite
      <4> QED
        BY <4>1, <4>2, <4>3, <4>4, <4>5 DEF Marks
    <3> QED
      BY <3>2, <3>3 DEF MarkShown, Untouched
  <2>9. CASE MoveDone \/ OpenStart \/ RestoreStart
    BY <2>4, <2>9 DEF MoveDone, OpenStart, RestoreStart, project, Await, Finish
  <2>10. CASE AutoStart /\ doc = tipDoc
    <3>1. /\ doc' = doc /\ aligned' = IF tip # NoVersion THEN tip ELSE aligned
          /\ pc' = "idle"
      BY <2>10 DEF AutoStart, Finish
    <3>2. CASE tip = NoVersion
      BY <2>4, <3>1, <3>2
    <3>3. CASE tip # NoVersion
      <4>1. aligned' = tip /\ Blob(aligned)' = Blob(tip)
        BY <2>0, <3>1, <3>3, OfVersions
      <4>2. TipDocIsTip' => Blob(tip) = doc
        BY <2>0, <2>3, <2>10, <3>3 DEF TipDocIsTip
      <4>3. Shown(doc)' = Shown(doc) /\ Shown(Blob(aligned))' = Shown(Blob(tip))
        BY <3>1, <4>1 DEF Shown, Rewrite
      <4>4. TipDocIsTip' => Marks(doc)'
        BY <1>0, <3>1, <4>1, <4>2, <4>3, NoDocAssumption DEF Marks
      <4> QED
        BY <3>1, <4>4 DEF MarkShown, Untouched
    <3> QED
      BY <3>2, <3>3
  <2> QED
    BY <1>4, <2>6, <2>7, <2>8, <2>9, <2>10 DEF Walks
<1>5. CASE Records
  <2>1. /\ pc = "idle" /\ Commit(doc) /\ pc' = "commit"
        /\ UNCHANGED <<doc, tip, tipDoc, aligned>>
    BY <1>5, Recording DEF Await
  <2>2. tip # NoVersion \/ aligned # NoVersion => \A ref : ref < nextId => Blob(ref)' = Blob(ref)
    BY <1>0, <2>1, Committed
  <2>3. tip # NoVersion => Blob(tip)' = Blob(tip)
    BY <1>0, <2>1, <2>2, OfVersions
  <2>4. aligned # NoVersion => Blob(aligned)' = Blob(aligned)
    BY <1>0, <2>1, <2>2, OfVersions
  <2> QED
    BY <1>1, <2>1, <2>3, <2>4
<1>6. CASE Replies
  <2>1. /\ tip' = TipId /\ tipDoc' = doc /\ aligned' = TipId /\ versions' = versions /\ pc' = "idle"
    BY <1>6, Replying DEF Finish
  <2>2. TipDocIsTip' /\ aligned' # NoVersion => Blob(aligned)' = doc
    BY <2>1, OfVersions DEF TipDocIsTip
  <2>3. doc'.vals # NoVals => Shown(doc') = Shown(doc)
    <3>1. CASE OpenSeeded \/ CommitDone
      BY <3>1 DEF OpenSeeded, CommitDone
    <3>2. CASE ClearDone
      <4> DEFINE arg == WithText(doc, Rewrite(doc.text, doc.vals))
                 v == Overlay(store, arg)
      <4>1. PICK x \in {doc, arg} : doc' = WithVals(x, v)
        BY <3>2 DEF ClearDone, Replace
      <4>2. /\ arg \in Docs
            /\ v # NoVals => \A y \in {doc, arg} : Shown(WithVals(y, v)) = Shown(doc)
        BY <1>0, RewrittenShows
      <4>3. v \in ValsOrNone
        BY <4>2, OverlayVals
      <4> HIDE DEF arg, v
      <4>4. doc'.vals = v
        BY <1>0, <4>1, <4>2, <4>3, DocParts
      <4> QED
        BY <4>1, <4>2, <4>4
    <3> QED
      BY <1>6, <3>1, <3>2 DEF Replies
  <2>4. Shown(doc)' = Shown(doc') /\ Shown(Blob(aligned))' = Shown(Blob(aligned)')
    BY DEF Shown, Rewrite
  <2>5. TipDocIsTip' /\ aligned' # NoVersion => Marks(doc)'
    BY <1>0, <2>2, <2>3, <2>4, NoDocAssumption DEF Marks
  <2> QED
    BY <2>1, <2>5 DEF MarkShown, Untouched
<1>7. CASE OpenLoad
  BY <1>7 DEF OpenLoad, Await, MarkShown, Untouched
<1>8. CASE OpenTips
  <2>1. /\ tip' = TipId /\ tipDoc' = Blob(TipId) /\ doc' = doc
        /\ aligned' # NoVersion => aligned' = TipId /\ Blob(TipId) # NoDoc /\ doc = Blob(TipId)
        /\ pc' \in {"idle", "seed"}
    BY <1>8, Zenon DEF OpenTips, Finish, Await
  <2>2. ASSUME aligned' # NoVersion PROVE Blob(aligned)' = doc
    <3>1. versions # <<>>
      BY <2>1, <2>2, Newest
    <3>2. versions' = versions
      BY <1>8, <3>1 DEF OpenTips, disk
    <3> QED
      BY <2>1, <2>2, <3>2, OfVersions
  <2>3. aligned' # NoVersion => Shown(doc)' = Shown(doc) /\ Shown(Blob(aligned))' = Shown(doc)
    BY <2>1, <2>2 DEF Shown, Rewrite
  <2>4. aligned' # NoVersion => Marks(doc)'
    BY <1>0, <2>1, <2>2, <2>3, NoDocAssumption DEF Marks
  <2> QED
    BY <2>1, <2>4 DEF MarkShown, Untouched
<1>9. CASE RestoreDone
  <2>1. /\ pc = "restore" /\ doc' = Blob(Head(chain).ref) /\ aligned' = Head(chain).ref
        /\ pc' = "tip" /\ UNCHANGED <<tip, tipDoc, versions>>
    BY <1>9 DEF RestoreDone, Await, disk
  <2>2. Blob(aligned)' = doc' /\ doc' \in Docs
    BY <2>1, OfVersions DEF Inv, Line, Midway
  <2>3. Marks(doc)'
    <3>1. Shown(doc)' = Shown(Blob(aligned))'
      BY <2>2 DEF Shown, Rewrite
    <3> QED
      BY <2>2, <3>1, NoDocAssumption DEF Marks
  <2> QED
    BY <2>1, <2>2, <2>3 DEF MarkShown, Untouched
<1>10. CASE RestoreTip
  <2>1. pc = "tip" /\ Apply(doc, aligned) /\ UNCHANGED versions
    BY <1>10 DEF RestoreTip, disk
  <2>2. aligned' = aligned
    BY <2>1, ApplyWaits
  <2>3. aligned' # NoVersion => Blob(aligned) = doc
    BY <2>1, <2>2 DEF Untouched
  <2>4. /\ pc' \in {"harvest", "run"}
        /\ aligned' # NoVersion => Marks(doc)'
        /\ aligned' # NoVersion /\ pc' = "harvest" =>
              Shown(doc)' = Shown(Blob(aligned))' /\ doc' = held'
    BY <1>0, <2>1, <2>3, ApplyMarks
  <2> QED
    BY <2>4 DEF MarkShown, Untouched
<1>11. CASE ClearStart
  BY <1>11 DEF ClearStart, Await, MarkShown, Untouched
<1>12. CASE ClearReset
  BY <1>12 DEF ClearReset, MarkShown, Untouched
<1> QED
  BY <1>2, <1>3, <1>4, <1>5, <1>6, <1>7, <1>8, <1>9, <1>10, <1>11, <1>12, NextCases

MarkedInv == Inv /\ Ids /\ Read /\ Heads /\ TipKnown /\ MarkShown /\ Untouched

LEMMA MarkedInit == Init => MarkedInv
<1> SUFFICES ASSUME Init PROVE MarkedInv
  OBVIOUS
<1>1. Inv
  BY InitKeeps
<1>2. /\ tip = NoVersion /\ tipDoc = NoDoc /\ aligned = NoVersion /\ ~mounted
      /\ chain = <<>> /\ pc = "idle" /\ Len(chain) = 0
  BY EmptySeq DEF Init
<1>3. Ids /\ (worktree = NoDoc => versions = <<>>)
  <2>1. CASE worktree = NoDoc /\ versions = <<>> /\ nextId = 1
    BY <1>2, <2>1, EmptySeq DEF Ids, IdsOf, NoVersion
  <2>2. CASE \E left \in Earlier :
               /\ worktree = left[1]
               /\ versions = <<[id |-> 1, doc |-> left[2]]>> /\ nextId = 2
    <3>1. PICK left \in Earlier : /\ worktree = left[1] /\ nextId = 2
                                  /\ versions = <<[id |-> 1, doc |-> left[2]]>>
      BY <2>2
    <3>2. Len(versions) = 1 /\ versions[1].id = 1 /\ worktree # NoDoc
      BY <3>1, EarlierAssumption, NoDocAssumption
    <3> QED
      BY <1>2, <3>1, <3>2 DEF Ids, IdsOf, NoVersion
  <2> QED
    BY <2>1, <2>2 DEF Init
<1>4. Read
  BY <1>2, <1>3 DEF Read
<1>5. Heads /\ TipKnown /\ MarkShown /\ Untouched
  BY <1>2 DEF Heads, Asked, TipKnown, Opened, MarkShown, Untouched
<1> QED
  BY <1>1, <1>3, <1>4, <1>5 DEF MarkedInv

LEMMA MarkedStep == MarkedInv /\ [Next]_vars => MarkedInv'
  BY NextKeeps, IdsStep, HeadsStep, TipStep, MarkStep DEF MarkedInv

\* With nothing running, the tip is the newest version, and the version the drawer marks current
\* exists and shows what the working copy shows once it has values (project-controller.js:79-84).
THEOREM MarkersStaySound == Spec => []MarkersSound
<1>1. MarkedInv => MarkersSound
  <2> SUFFICES ASSUME MarkedInv, mounted, chain = <<>>, TipDocIsTip
               PROVE  /\ tip = TipId
                      /\ aligned # NoVersion => Blob(aligned) # NoDoc
                      /\ aligned # NoVersion /\ doc.vals # NoVals => Shown(doc) = Shown(Blob(aligned))
    BY DEF MarkersSound
  <2>1. pc = "idle"
    BY DEF MarkedInv, Inv, Line, ChainType
  <2>2. Opened
    BY EmptySeq DEF Opened, Asked
  <2> QED
    BY <2>1, <2>2 DEF MarkedInv, TipKnown, MarkShown, Marks
<1> QED
  BY <1>1, MarkedInit, MarkedStep, PTL DEF Spec

-----------------------------------------------------------------------------
(* Durability.                                                             *)

Durable(S) == \E d \in S : d # NoDoc /\ Shown(d) = Shown(doc)

\* Something will still save the working copy, or nobody asked for that.
Scheduled ==
    unrecorded \/ autosave \/ autoTimer \/ editorTimer # EmptyText \/ Asked({"auto", "label"})

Awaited ==
    \/ ~mounted \/ (Asked({"open"}) /\ pc \notin {"tips", "seed"})
    \/ pc \in {"restore", "tip", "harvest", "run", "clear"}

\* What was opened is the working tree, or a seed that the open checkpoints.
Loaded ==
    pc = "tips" => Durable({worktree}) \/ Scheduled \/ (versions = <<>> /\ doc # Blank)

Covered ==
    TipDocIsTip /\ pc # "tips" => Durable({worktree, Blob(tip)}) \/ Scheduled \/ Awaited

\* While a cleared project waits for its checkpoint, its values are the sheet's or none.
Reseeded == pc = "reseed" => doc.vals \in {NoVals, store}

SavedInv == MarkedInv /\ Loaded /\ Covered /\ Reseeded

\* An interruption leaves the working copy as the record has it, or something scheduled.
Kindled ==
    \/ Scheduled'
    \/ ~Scheduled /\ doc' = doc /\ worktree' = worktree /\ versions' = versions
    \/ doc' = doc /\ (worktree' = doc \/ pc = "load")

LEMMA EditKindles ==
    ASSUME DocInv, NEW v \in ValsOrNone, Edit(WithVals(doc, v)), Adopt(v)
    PROVE  unrecorded' \/ (doc' = doc /\ (unrecorded' <=> unrecorded))
<1>1. doc = [text |-> doc.text, vals |-> doc.vals]
  BY DocParts DEF DocInv
<1>2. v = doc.vals => WithVals(doc, v) = doc
  BY <1>1 DEF WithVals
<1> QED
  BY <1>2 DEF Edit, Adopt

LEMMA SyncKindles ==
    ASSUME DocInv, Sync
    PROVE  unrecorded' \/ ((unrecorded' <=> unrecorded) /\ (editor = doc.text => doc' = doc))
<1>1. doc = [text |-> doc.text, vals |-> doc.vals]
  BY DocParts DEF DocInv
<1> QED
  BY <1>1 DEF Sync, Edit, Adopt

LEMMA AskedAside ==
    ASSUME Inv, Aside
    PROVE  \A ops : Asked(ops) => Asked(ops)'
<1>1. CASE chain' = chain
  BY <1>1 DEF Asked
<1>2. CASE \E e \in Entry : chain' = Append(chain, e)
  BY <1>2, Appended DEF Inv, Line, ChainType
<1> QED
  BY <1>1, <1>2 DEF Aside

LEMMA EnqueueAsked ==
    ASSUME Inv, NEW op \in Ops, NEW ref \in Nat, Enqueue(op, ref, NoDoc)
    PROVE  Asked({op})' /\ \A ops : op \in ops => Asked(ops)'
<1> DEFINE e == [op |-> op, ref |-> ref, seed |-> NoDoc]
<1>1. e \in Entry /\ e.op = op
  BY DEF Entry
<1>2. chain' = Append(chain, e)
  BY DEF Enqueue
<1> HIDE DEF e
<1> QED
  BY <1>1, <1>2, Appended DEF Inv, Line, ChainType

LEMMA InterruptsKindle == MarkedInv /\ Interrupts => Kindled
<1> SUFFICES ASSUME MarkedInv, Interrupts PROVE Kindled
  OBVIOUS
<1> USE DEF project, sheet, timers, disk, line
<1>0. DocInv /\ PageInv /\ Aside /\ Inv
  BY InterruptsAside DEF MarkedInv, Inv
<1>1. \A ops : Asked(ops) => Asked(ops)'
  BY <1>0, AskedAside
\* What leaves the timers alone keeps what is scheduled.
<1>2. ASSUME UNCHANGED <<editorTimer, autoTimer, autosave, worktree, versions>>,
             unrecorded' \/ ((unrecorded' <=> unrecorded) /\ doc' = doc)
      PROVE  Kindled
  BY <1>1, <1>2 DEF Kindled, Scheduled
<1>3. CASE Mount
  BY <1>2, <1>3 DEF Mount
<1>4. CASE ClearTail
  <2>1. store' \in ValsOrNone
    BY <1>0, <1>4, TextParts DEF ClearTail, PageInv
  <2> QED
    BY <1>0, <1>2, <1>4, <2>1, EditKindles DEF ClearTail
<1>5. CASE EditorTimer
  BY <1>5 DEF EditorTimer, Kindled, Scheduled
<1>6. CASE AutoTimer
  <2>1. Asked({"auto", "label"})'
    BY <1>0, <1>6, EnqueueAsked DEF AutoTimer, Ops
  <2> QED
    BY <2>1 DEF Kindled, Scheduled
<1>7. CASE Autosave \/ Flush
  <2>1. SaveWorktree(doc) /\ doc' = doc
    BY <1>7 DEF Autosave, Flush
  <2> QED
    BY <2>1 DEF SaveWorktree, Kindled
<1>8. CASE Harvest
  <2>1. store' \in ValsOrNone
    BY <1>0, <1>8, TextParts DEF Harvest, PageInv
  <2>2. CASE Applying
    BY <1>2, <1>8, <2>2 DEF Harvest
  <2>3. CASE ~Applying
    BY <1>0, <1>2, <1>8, <2>1, <2>3, EditKindles DEF Harvest
  <2> QED
    BY <2>2, <2>3
<1>9. CASE Type
  <2>1. PICK t \in Typed : editorTimer' = t
    BY <1>9 DEF Type
  <2>2. t # EmptyText
    BY TypedAssumption, TextParts
  <2> QED
    BY <2>1, <2>2 DEF Kindled, Scheduled
<1>10. CASE Drag
  <2>1. store' \in ValsOrNone
    BY <1>10 DEF Drag, ValsOrNone
  <2>2. CASE Applying
    BY <1>2, <1>10, <2>2 DEF Drag
  <2>3. CASE ~Applying
    BY <1>0, <1>2, <1>10, <2>1, <2>3, EditKindles DEF Drag
  <2> QED
    BY <2>2, <2>3
<1>11. CASE Scrub
  <2>1. CASE Applying
    BY <1>2, <1>11, <2>1 DEF Scrub
  <2>2. CASE ~Applying
    BY <1>11, <2>2 DEF Scrub, Kindled, Scheduled
  <2> QED
    BY <2>1, <2>2
<1>12. CASE Run
  <2>1. CASE editor # doc.text
    BY <1>12, <2>1 DEF Run, Kindled, Scheduled
  <2>2. CASE editor = doc.text
    <3>1. /\ unrecorded' \/ ((unrecorded' <=> unrecorded) /\ doc' = doc)
          /\ UNCHANGED <<editorTimer, autoTimer, worktree, versions>>
          /\ autosave' = (autosave \/ editor # doc.text)
      BY <1>0, <1>12, <2>2, SyncKindles DEF Run
    <3> QED
      BY <1>1, <2>2, <3>1 DEF Kindled, Scheduled
  <2> QED
    BY <2>1, <2>2
<1>13. CASE AskUndo \/ AskRedo \/ AskClear
  BY <1>2, <1>13 DEF AskUndo, AskRedo, AskClear
<1>14. CASE AskLabel
  <2>1. Asked({"auto", "label"})'
    BY <1>0, <1>14, EnqueueAsked DEF AskLabel, Ops
  <2> QED
    BY <2>1 DEF Kindled, Scheduled
<1>15. CASE AskRestore
  BY <1>2, <1>15 DEF AskRestore
<1> QED
  BY <1>3, <1>4, <1>5, <1>6, <1>7, <1>8, <1>9, <1>10, <1>11, <1>12, <1>13, <1>14, <1>15
     DEF Interrupts, Timers, User

LEMMA ReseededAside == Inv /\ Reseeded /\ Interrupts => Reseeded'
<1> SUFFICES ASSUME Inv, Reseeded, Interrupts, pc' = "reseed" PROVE doc'.vals \in {NoVals, store'}
  BY DEF Reseeded
<1> USE DEF project, sheet, timers, disk, line
<1>0. DocInv /\ PageInv
  BY DEF Inv
<1>1. ASSUME pc = "reseed", doc'.vals = doc.vals, store' = store PROVE doc'.vals \in {NoVals, store'}
  BY <1>1 DEF Reseeded
<1>2. ASSUME NEW v \in ValsOrNone, Edit(WithVals(doc, v)) PROVE doc'.vals = v
  BY <1>0, <1>2, DocParts DEF Edit, DocInv
<1>3. ASSUME NEW t \in TextsOrEmpty, SetText(t) PROVE doc'.vals = doc.vals
  BY <1>0, <1>3, SetTextType, DocParts DEF DocInv
<1>4. Sync => doc'.vals = store
  BY DEF Sync, Edit
<1>5. CASE ClearTail
  <2>1. store' \in ValsOrNone
    BY <1>0, <1>5, TextParts DEF ClearTail, PageInv
  <2> QED
    BY <1>2, <1>5, <2>1 DEF ClearTail
<1>6. CASE Harvest
  <2>1. store' \in ValsOrNone /\ pc = "reseed" /\ ~Applying
    BY <1>0, <1>6, TextParts DEF Harvest, PageInv, Applying
  <2> QED
    BY <1>2, <1>6, <2>1 DEF Harvest
<1>7. CASE Drag \/ Scrub
  <2>1. store' \in ValsOrNone /\ pc = "reseed" /\ ~Applying
    BY <1>7 DEF Drag, Scrub, ValsOrNone, Applying
  <2> QED
    BY <1>2, <1>7, <2>1 DEF Drag, Scrub
<1>8. CASE Type
  <2>1. PICK t \in Typed : SetText(t)
    BY <1>8 DEF Type
  <2>2. t \in TextsOrEmpty
    BY TypedAssumption DEF TextsOrEmpty
  <2> QED
    BY <1>1, <1>3, <1>8, <2>1, <2>2 DEF Type
<1>9. CASE EditorTimer
  BY <1>0, <1>1, <1>3, <1>9 DEF EditorTimer, PageInv
<1>10. CASE AutoTimer \/ Run \/ AskLabel
  BY <1>4, <1>10 DEF AutoTimer, Run, AskLabel
<1>11. CASE Mount \/ Autosave \/ Flush \/ AskUndo \/ AskRedo \/ AskClear \/ AskRestore
  BY <1>1, <1>11 DEF Mount, Autosave, Flush, AskUndo, AskRedo, AskClear, AskRestore
<1> QED
  BY <1>5, <1>6, <1>7, <1>8, <1>9, <1>10, <1>11 DEF Interrupts, Timers, User

LEMMA SavedStep == SavedInv /\ [Next]_vars => Loaded' /\ Covered' /\ Reseeded'
<1> SUFFICES ASSUME SavedInv, [Next]_vars PROVE Loaded' /\ Covered' /\ Reseeded'
  OBVIOUS
<1>0. /\ doc \in Docs /\ Inv /\ Ids /\ Read /\ Heads /\ Loaded /\ Covered /\ Reseeded
      /\ chain \in Seq(Entry) /\ (pc # "idle" => chain # <<>>)
  BY DEF SavedInv, MarkedInv, Inv, DocInv, Line, ChainType
<1>1. ASSUME worktree' = doc', doc' \in Docs
      PROVE  Durable({worktree})' /\ Durable({worktree, Blob(tip)})'
  <2>1. Shown(worktree)' = Shown(doc)'
    BY <1>1 DEF Shown, Rewrite
  <2> QED
    BY <1>1, <2>1, NoDocAssumption DEF Durable, Shown, Rewrite
\* A step that leaves the document, the record and what is scheduled.
<1>2. ASSUME UNCHANGED <<doc, worktree, versions, tip, tipDoc>>
      PROVE  /\ Durable({worktree})' <=> Durable({worktree})
             /\ Durable({worktree, Blob(tip)})' <=> Durable({worktree, Blob(tip)})
             /\ pc' # "clear" => (TipDocIsTip' => TipDocIsTip)
  <2>1. Blob(tip)' = Blob(tip)
    BY <1>2, OfVersions
  <2>2. pc' # "clear" => (TipDocIsTip' => TipDocIsTip)
    BY <1>2, <2>1 DEF TipDocIsTip
  <2>3. Durable({worktree})' <=> Durable({worktree})
    BY <1>2 DEF Durable, Shown, Rewrite
  <2>4. Durable({worktree, Blob(tip)})' <=> Durable({worktree, Blob(tip)})
    BY <1>2, <2>1 DEF Durable, Shown, Rewrite
  <2> QED
    BY <2>2, <2>3, <2>4
<1>3. CASE UNCHANGED vars
  <2>1. Asked({"auto", "label"})' = Asked({"auto", "label"}) /\ Asked({"open"})' = Asked({"open"})
    BY <1>3 DEF vars, line, Asked
  <2>2. UNCHANGED <<doc, worktree, versions, tip, tipDoc, pc, mounted, store, unrecorded, autosave,
                    autoTimer, editorTimer>>
    BY <1>3 DEF vars, project, sheet, timers, disk, line
  <2>3. (Scheduled' <=> Scheduled) /\ (Awaited' <=> Awaited)
    BY <2>1, <2>2 DEF Scheduled, Awaited
  <2>4. TipDocIsTip' <=> TipDocIsTip
    BY <2>2 DEF TipDocIsTip, Blob
  <2> QED
    BY <1>0, <1>2, <2>2, <2>3, <2>4 DEF Loaded, Covered, Reseeded
<1>4. CASE Interrupts
  <2>1. Aside /\ Kindled /\ Reseeded'
    BY <1>0, <1>4, InterruptsAside, InterruptsKindle, ReseededAside DEF SavedInv
  <2>2. Awaited => Awaited'
    <3>1. \A ops : Asked(ops) => Asked(ops)'
      BY <1>0, <2>1, AskedAside
    <3>2. pc \in {"tips", "seed"} => mounted
      <4>1. pc \in {"tips", "seed"} => chain # <<>> /\ Head(chain).op = "open"
        BY <1>0 DEF Heads
      <4> QED
        BY <1>0, <4>1, OpenedKept, EntryParts DEF Heads, Asked
    <3>3. (mounted' <=> mounted) \/ Asked({"open"})'
      <4>1. CASE chain' = chain /\ mounted' = mounted
        BY <4>1
      <4>2. CASE \E e \in Entry :
                   /\ chain' = Append(chain, e)
                   /\ IF e.op = "open" THEN mounted' = TRUE /\ e.seed # Blank ELSE mounted' = mounted
        <5>1. PICK e \in Entry :
                   /\ chain' = Append(chain, e)
                   /\ IF e.op = "open" THEN mounted' = TRUE /\ e.seed # Blank ELSE mounted' = mounted
          BY <4>2
        <5>2. Asked({"open"})' <=> Asked({"open"}) \/ e.op \in {"open"}
          BY <1>0, <5>1, Appended
        <5> QED
          BY <5>1, <5>2
      <4> QED
        BY <2>1, <4>1, <4>2 DEF Aside
    <3>4. pc' = pc
      BY <2>1 DEF Aside
    <3> QED
      BY <3>1, <3>2, <3>3, <3>4 DEF Awaited
  <2>3. UNCHANGED <<tip, tipDoc, pc>>
    BY <2>1 DEF Aside
  <2>4. pc = "load" => Awaited'
    <3>1. pc = "load" => chain # <<>> /\ Head(chain).op = "open"
      BY <1>0 DEF Inv, Line, Midway
    <3>2. pc = "load" => Asked({"open"})
      <4>1. pc = "load" => 1 \in 1..Len(chain) /\ chain[1].op \in {"open"}
        BY <1>0, <3>1, EntryParts
      <4> QED
        BY <4>1 DEF Asked
    <3> QED
      BY <2>2, <3>2 DEF Awaited
  <2>5. TipDocIsTip' => TipDocIsTip
    <3>1. tip # NoVersion => versions' = versions
      BY <2>1 DEF Aside
    <3>2. versions' = versions => Blob(tip)' = Blob(tip)
      BY <2>3, OfVersions
    <3> QED
      BY <2>3, <3>1, <3>2 DEF TipDocIsTip
  <2>6. CASE Scheduled'
    BY <2>1, <2>6 DEF Loaded, Covered
  <2>7. CASE ~Scheduled /\ doc' = doc /\ worktree' = worktree /\ versions' = versions
    BY <1>0, <1>2, <2>1, <2>2, <2>3, <2>5, <2>7 DEF Loaded, Covered
  <2>8. CASE doc' = doc /\ worktree' = doc
    BY <1>0, <1>1, <2>1, <2>8 DEF Loaded, Covered
  <2>9. CASE pc = "load"
    BY <2>1, <2>3, <2>4, <2>9 DEF Loaded, Covered
  <2> QED
    BY <2>1, <2>6, <2>7, <2>8, <2>9 DEF Kindled
<1>5. CASE Walks
  <2>1. /\ UNCHANGED <<tip, tipDoc, versions, mounted>> /\ chain # <<>>
        /\ pc \in {"idle", "harvest", "run"}
        /\ pc' \in {"idle", "harvest", "run", "load", "restore"}
    BY <1>0, <1>5, Walking
  <2>2. ASSUME Awaited' PROVE Loaded' /\ Covered' /\ Reseeded'
    BY <2>1, <2>2 DEF Loaded, Covered, Reseeded
  \* An operation that has nothing to do.
  <2>3. ASSUME Finish, pc = "idle", UNCHANGED <<doc, worktree, timers, unrecorded>>,
               Head(chain).op \in {"undo", "redo", "restore"}
        PROVE  Loaded' /\ Covered' /\ Reseeded'
    <3>1. /\ Asked({"auto", "label"}) <=>
                Asked({"auto", "label"})' \/ Head(chain).op \in {"auto", "label"}
          /\ Asked({"open"}) <=> Asked({"open"})' \/ Head(chain).op \in {"open"}
          /\ pc' = "idle"
      BY <1>0, <2>1, <2>3, Popped
    <3>2. Scheduled => Scheduled'
      BY <2>3, <3>1 DEF Scheduled, timers
    <3>3. Awaited => Awaited'
      BY <2>1, <2>3, <3>1 DEF Awaited
    <3> QED
      BY <1>0, <1>2, <2>1, <2>3, <3>1, <3>2, <3>3 DEF Loaded, Covered, Reseeded
  <2>4. ASSUME NEW op \in {"undo", "redo"}, NEW possible \in BOOLEAN, NEW h, Step(op, possible, h)
        PROVE  Loaded' /\ Covered' /\ Reseeded'
    <3>1. CASE possible
      <4>1. Awaited'
        BY <2>4, <3>1, ApplyWaits DEF Step, Awaited
      <4> QED
        BY <2>2, <4>1
    <3>2. CASE ~possible
      <4>1. /\ Finish /\ pc = "idle" /\ UNCHANGED <<doc, worktree, timers, unrecorded>>
            /\ Head(chain).op = op
        BY <2>4, <3>2 DEF Step, Head1, disk
      <4> QED
        BY <2>3, <4>1
    <3> QED
      BY <3>1, <3>2
  <2>5. CASE UndoStep \/ RedoStep
    BY <2>4, <2>5 DEF UndoStep, RedoStep
  <2>6. CASE Harvested
    BY <2>2, <2>6 DEF Harvested, Await, Awaited
  <2>7. CASE MoveDone
    <3>1. Scheduled' /\ pc' = "idle"
      BY <2>7 DEF MoveDone, Scheduled, Finish
    <3> QED
      BY <3>1 DEF Loaded, Covered, Reseeded
  <2>8. CASE OpenStart
    <3>1. chain' = chain /\ Head(chain).op = "open" /\ pc' = "load"
      BY <2>8 DEF OpenStart, Head1, Await
    <3>2. 1 \in 1..Len(chain) /\ chain[1].op \in {"open"}
      BY <1>0, <2>1, <3>1, EntryParts
    <3>3. Asked({"open"})'
      BY <3>1, <3>2 DEF Asked
    <3> QED
      BY <2>2, <3>1, <3>3 DEF Awaited
  <2>9. CASE RestoreStart
    <3>1. CASE Blob(Head(chain).ref) # NoDoc
      BY <2>2, <2>9, <3>1 DEF RestoreStart, Await, Awaited
    <3>2. CASE Blob(Head(chain).ref) = NoDoc
      <4>1. Finish /\ pc = "idle" /\ UNCHANGED <<doc, worktree, timers, unrecorded>>
        BY <2>9, <3>2 DEF RestoreStart, Head1, project
      <4>2. Head(chain).op = "restore"
        BY <2>9 DEF RestoreStart, Head1
      <4> QED
        BY <2>3, <4>1, <4>2
    <3> QED
      BY <3>1, <3>2
  <2>10. CASE AutoStart /\ doc = tipDoc
    <3>1. doc' = doc /\ pc = "idle" /\ pc' = "idle"
      BY <2>10 DEF AutoStart, Finish, Head1
    <3>2. tip # NoVersion
      BY <1>0, <2>10, NoDocAssumption DEF Read
    <3>3. TipDocIsTip' => Blob(tip)' = doc'
      BY <2>1, <2>10, <3>1, <3>2 DEF TipDocIsTip
    <3>4. TipDocIsTip' => Durable({worktree, Blob(tip)})'
      <4>1. Blob(tip)' = doc' => Shown(Blob(tip))' = Shown(doc)'
        BY DEF Shown, Rewrite
      <4> QED
        BY <1>0, <3>1, <3>3, <4>1, NoDocAssumption DEF Durable, Shown, Rewrite
    <3> QED
      BY <3>1, <3>4 DEF Loaded, Covered, Reseeded
  <2> QED
    BY <1>5, <2>5, <2>6, <2>7, <2>8, <2>9, <2>10 DEF Walks
<1>6. CASE Records
  <2>1. worktree' = doc /\ doc' = doc /\ pc' = "commit"
    BY <1>6, Recording DEF Await, Commit
  <2> QED
    BY <1>0, <1>1, <2>1 DEF Loaded, Covered, Reseeded
<1>7. CASE Replies
  <2>1. /\ tip' = TipId /\ tipDoc' = doc /\ UNCHANGED versions /\ pc' = "idle"
        /\ pc \in {"seed", "commit", "reseed"}
    BY <1>0, <1>7, Replying DEF Finish
  <2>2. TipId # NoVersion
    BY <1>0, <2>1, Newest DEF Read
  <2>3. TipDocIsTip' => Blob(tip)' = doc
    BY <2>1, <2>2 DEF TipDocIsTip
  <2>4. Shown(doc') = Shown(doc)
    <3>1. CASE OpenSeeded \/ CommitDone
      BY <3>1 DEF OpenSeeded, CommitDone
    <3>2. CASE ClearDone
      <4> DEFINE arg == WithText(doc, Rewrite(doc.text, doc.vals))
                 v == Overlay(store, arg)
      <4>1. PICK x \in {doc, arg} : doc' = WithVals(x, v)
        BY <3>2 DEF ClearDone, Replace
      <4>2. /\ arg \in Docs
            /\ v # NoVals => \A y \in {doc, arg} : Shown(WithVals(y, v)) = Shown(doc)
        BY <1>0, RewrittenShows
      <4>3. /\ doc.text \in TextsOrEmpty /\ doc.vals \in ValsOrNone
            /\ doc = [text |-> doc.text, vals |-> doc.vals]
            /\ arg.text = Rewrite(doc.text, doc.vals) /\ arg.vals = doc.vals
        BY <1>0, DocParts, RewriteText
      <4>4. doc.vals \in {NoVals, store}
        BY <1>0, <3>2 DEF ClearDone, Reseeded
      <4>5. CASE v = NoVals
        <5>1. doc.vals = NoVals
          BY <4>3, <4>4, <4>5 DEF Overlay
        <5>2. arg = doc
          <6>1. Rewrite(doc.text, doc.vals) = doc.text
            BY <4>3, <5>1, RewriteOwn
          <6> QED
            BY <4>3, <6>1 DEF WithText
        <5>3. WithVals(doc, NoVals) = doc
          BY <4>3, <5>1 DEF WithVals
        <5> QED
          BY <4>1, <4>5, <5>2, <5>3
      <4>6. CASE v # NoVals
        BY <4>1, <4>2, <4>6
      <4> QED
        BY <4>5, <4>6
    <3> QED
      BY <1>7, <3>1, <3>2 DEF Replies
  <2>5. Blob(tip)' = doc => Shown(Blob(tip)') = Shown(doc')
    BY <2>4
  <2>6. TipDocIsTip' => Durable({worktree, Blob(tip)})'
    BY <1>0, <2>3, <2>5, NoDocAssumption DEF Durable, Shown, Rewrite
  <2> QED
    BY <2>1, <2>6 DEF Loaded, Covered, Reseeded
<1>8. CASE OpenLoad
  <2>1. /\ pc = "load" /\ pc' = "tips" /\ UNCHANGED <<worktree, versions>>
        /\ doc' = IF worktree # NoDoc THEN worktree ELSE Head(chain).seed
    BY <1>8 DEF OpenLoad, Await
  <2>2. CASE worktree # NoDoc
    <3>1. worktree' = doc' /\ doc' \in Docs
      BY <1>0, <2>1, <2>2 DEF Inv, Record
    <3> QED
      BY <1>1, <2>1, <3>1 DEF Loaded, Covered, Reseeded
  <2>3. CASE worktree = NoDoc
    <3>1. versions' = <<>>
      BY <1>0, <2>1, <2>3 DEF Read
    <3>2. chain # <<>> /\ Head(chain).op = "open"
      BY <1>0, <2>1 DEF Inv, Line, Midway
    <3>3. 1 \in 1..Len(chain) /\ Head(chain) = chain[1]
      BY <1>0, <3>2, EntryParts
    <3>4. Head(chain).seed # Blank
      BY <1>0, <3>2, <3>3 DEF Heads
    <3> QED
      BY <2>1, <2>3, <3>1, <3>4 DEF Loaded, Covered, Reseeded, Blank, EmptyText
  <2> QED
    BY <2>2, <2>3
<1>9. CASE OpenTips
  <2>1. /\ pc = "tips" /\ doc' = doc /\ UNCHANGED <<autosave, editorTimer>>
        /\ \/ Commit(doc) /\ Await("seed", NoDoc)
           \/ /\ ~(versions = <<>> /\ doc # Blank)
              /\ Finish /\ unrecorded' = (unrecorded \/ autoTimer) /\ UNCHANGED disk
    BY <1>9 DEF OpenTips
  <2>2. CASE Commit(doc) /\ Await("seed", NoDoc)
    <3>1. worktree' = doc' /\ pc' = "seed"
      BY <2>1, <2>2 DEF Commit, Await
    <3> QED
      BY <1>0, <1>1, <2>1, <3>1 DEF Loaded, Covered, Reseeded
  <2>3. CASE /\ ~(versions = <<>> /\ doc # Blank)
             /\ Finish /\ unrecorded' = (unrecorded \/ autoTimer) /\ UNCHANGED disk
    <3>1. chain # <<>> /\ Head(chain).op = "open"
      BY <1>0, <2>1 DEF Heads
    <3>2. /\ Asked({"auto", "label"}) <=>
                Asked({"auto", "label"})' \/ Head(chain).op \in {"auto", "label"}
          /\ pc' = "idle"
      BY <1>0, <2>3, <3>1, Popped
    <3>3. Scheduled => Scheduled'
      BY <2>1, <2>3, <3>1, <3>2 DEF Scheduled
    <3>4. Durable({worktree}) => Durable({worktree, Blob(tip)})'
      BY <2>1, <2>3 DEF Durable, Shown, Rewrite, disk
    <3>5. Durable({worktree}) \/ Scheduled
      BY <1>0, <2>1, <2>3 DEF Loaded
    <3> QED
      BY <3>2, <3>3, <3>4, <3>5 DEF Loaded, Covered, Reseeded
  <2> QED
    BY <2>1, <2>2, <2>3
<1>10. CASE RestoreDone
  BY <1>10 DEF RestoreDone, Await, Awaited, Loaded, Covered, Reseeded
<1>11. CASE RestoreTip
  <2>1. pc' \in {"harvest", "run"}
    BY <1>11, ApplyWaits DEF RestoreTip
  <2> QED
    BY <2>1 DEF Awaited, Loaded, Covered, Reseeded
<1>12. CASE ClearStart
  BY <1>12 DEF ClearStart, Await, Awaited, Loaded, Covered, Reseeded
<1>13. CASE ClearReset
  <2>1. /\ doc' = [text |-> SeedText, vals |-> NoVals] /\ worktree' = doc' /\ pc' = "reseed"
    BY <1>13 DEF ClearReset, Commit, Await
  <2>2. doc' \in Docs /\ doc'.vals = NoVals
    BY <2>1, TextParts DEF TextsOrEmpty
  <2> QED
    BY <1>1, <2>1, <2>2 DEF Loaded, Covered, Reseeded
<1> QED
  BY <1>3, <1>4, <1>5, <1>6, <1>7, <1>8, <1>9, <1>10, <1>11, <1>12, <1>13, NextCases

\* Once nothing is scheduled and nothing runs, what the user sees is in the record, as the working
\* tree or as the tip, but for values only a harvest or a drag put there (main.js:911-947).
THEOREM NothingIsLost == Spec => []SettledIsDurable
<1>1. Init => SavedInv
  BY MarkedInit DEF SavedInv, Init, Loaded, Covered, Reseeded, Awaited
<1>2. SavedInv /\ [Next]_vars => SavedInv'
  BY MarkedStep, SavedStep DEF SavedInv
<1>3. SavedInv => SettledIsDurable
  <2> SUFFICES ASSUME SavedInv, Settled, TipDocIsTip, ~unrecorded
               PROVE  \E d \in {worktree, Blob(tip)} : d # NoDoc /\ Shown(d) = Shown(doc)
    BY DEF SettledIsDurable
  <2>1. pc = "idle" /\ mounted
    BY DEF SavedInv, MarkedInv, Inv, Line, ChainType, Settled
  <2>2. ~Asked({"auto", "label"}) /\ ~Asked({"open"})
    BY EmptySeq DEF Settled, Asked
  <2>3. ~Scheduled /\ ~Awaited
    BY <2>1, <2>2 DEF Settled, Scheduled, Awaited
  <2> QED
    BY <2>1, <2>3 DEF SavedInv, Covered, Durable
<1> QED
  BY <1>1, <1>2, <1>3, PTL DEF Spec

=============================================================================
