----------------------------- MODULE UndoStack -----------------------------
(***************************************************************************)
(* agent-os/src/history/undo-stack.js: past, present and future snapshots  *)
(* of a document.  A push equal to the present is dropped, any other one   *)
(* forgets the future, and the oldest of more than Limit is forgotten.     *)
(***************************************************************************)
EXTENDS Naturals, Sequences

CONSTANTS Limit,  \* createUndoStack's limit, at least 2
          NoSnap  \* the present of a stack nothing has been put on
ASSUME LimitAssumption == Limit \in Nat /\ Limit >= 2

StackOf(S) == [past : Seq(S), present : S \cup {NoSnap}, future : Seq(S)]

EmptyStack == [past |-> <<>>, present |-> NoSnap, future |-> <<>>]

\* Mutant: the bound of a full past is off by one.
DropOldestLate(s) == IF Len(s) > Limit + 1 THEN Tail(s) ELSE s

\* A past is at most one over its bound when it is trimmed.
DropOldest(s) == IF Len(s) > Limit THEN Tail(s) ELSE s

ResetStack(snap) == [past |-> <<>>, present |-> snap, future |-> <<>>]

\* Mutant: a push is recorded even when nothing has changed.
PushAlways(h, snap) ==
    IF h.present = NoSnap THEN ResetStack(snap)
    ELSE [past |-> DropOldest(Append(h.past, h.present)), present |-> snap, future |-> <<>>]

Push(h, snap) ==
    CASE snap = h.present -> h
      [] h.present = NoSnap -> [h EXCEPT !.present = snap, !.future = <<>>]
      [] OTHER -> [past |-> DropOldest(Append(h.past, h.present)), present |-> snap,
                   future |-> <<>>]

Undo(h) ==
    IF h.past = <<>> THEN h
    ELSE [past |-> SubSeq(h.past, 1, Len(h.past) - 1), present |-> h.past[Len(h.past)],
          future |-> Append(h.future, h.present)]

Redo(h) ==
    IF h.future = <<>> THEN h
    ELSE [past |-> DropOldest(Append(h.past, h.present)), present |-> h.future[Len(h.future)],
          future |-> SubSeq(h.future, 1, Len(h.future) - 1)]

----------------------------------------------------------------------------
(* Properties of a stack.                                                  *)

\* Two snapshots one step apart differ: an undo or a redo always changes the document.
Distinct(h) ==
    /\ \A i \in 1..Len(h.past) - 1 : h.past[i] # h.past[i + 1]
    /\ \A i \in 1..Len(h.future) - 1 : h.future[i] # h.future[i + 1]
    /\ h.past # <<>> => h.past[Len(h.past)] # h.present
    /\ h.future # <<>> => h.future[Len(h.future)] # h.present

\* The past never grows beyond its limit, on a push or on a redo.
Bounded(h) == Len(h.past) <= Limit
============================================================================
