----------------------------- MODULE OccSession -----------------------------
(***************************************************************************)
(* The session of the C API (api/src/occ_c_session.cc): a table of         *)
(* entities with the operation each was created by, unique names, frames   *)
(* attached to entities, a stack of open operations and three world        *)
(* planes.  One thread calls it; what is hard is the order of the calls.   *)
(*                                                                         *)
(* The helpers of the source are operators from a session to a session, an *)
(* action is one call that may change it.  A call that is refused is an    *)
(* action too; which of its codes it answers is left out.  Operation ids   *)
(* are sequences, so that "box1" is a prefix of "box10" as it is for       *)
(* strncmp; a shape is its kind and the kinds of the sub-shapes the        *)
(* kernel's explorer visits; the numbers in a frame are left out.          *)
(***************************************************************************)
EXTENDS Integers, Sequences

CONSTANTS
  Op,        \* operation ids a client opens
  Prefix,    \* the prefixes it looks entities up by
  Name,      \* the names it gives
  FrameName, \* the names of the frames it attaches
  Shape,     \* shapes it registers
  KindOf,    \* the kind of each shape
  Subs,      \* the kinds of its sub-shapes, in the explorer's order
  MaxId,     \* bound on ids: no call registers beyond it
  Wanted,    \* the kinds it looks up
  MaxDepth   \* bound on open operations

VARIABLES
  S,        \* the SessionImpl
  refused,  \* the last call answered an error
  issued    \* history: every id that ever was an entity's
vars == <<S, refused, issued>>

Kind == {"BODY", "FACE", "EDGE", "VERTEX", "WIRE", "SHELL", "SOLID", "COMPOUND", "FRAME"}
Plane == {"xy", "yz", "zx"}
WorldOp == [p \in Plane |-> <<"world/", p>>]
WorldName == [p \in Plane |-> IF p = "xy" THEN "world_xy" ELSE IF p = "yz" THEN "world_yz" ELSE "world_zx"]
Tag == Op \cup {<<>>} \cup {WorldOp[p] : p \in Plane}
Label == Name \cup {WorldName[p] : p \in Plane}

ASSUME OpAssumption == <<>> \notin Op
ASSUME NameAssumption == "" \notin Name
ASSUME ShapeAssumption == KindOf \in [Shape -> Kind \cup {"ANY"}] /\ Subs \in [Shape -> Seq(Kind)]
ASSUME BoundAssumption == MaxId \in Nat /\ MaxDepth \in Nat
ASSUME WantedAssumption == Wanted \subseteq Kind \cup {"ANY"}

----------------------------------------------------------------------------
(* Helpers: what the functions of the source make of a session.            *)

Live(s) == DOMAIN s.entities

CurrentOp(s) == IF s.op_stack = <<>> THEN <<>> ELSE s.op_stack[Len(s.op_stack)]

Popped(ops) == SubSeq(ops, 1, Len(ops) - 1)

\* Mutant: the counter moves by one whatever is registered.
RegisterKeepsCounter(s, kinds, has) ==
  [s EXCEPT
     !.next_id = @ + 1,
     !.entities = [id \in Live(s) \cup s.next_id .. (s.next_id + Len(kinds) - 1) |->
        IF id \in Live(s) THEN s.entities[id]
        ELSE [kind |-> kinds[id - s.next_id + 1], created_by |-> CurrentOp(s),
              name |-> "", has_shape |-> has]]]

\* A run of entities with consecutive ids, all created by the current operation.
Register(s, kinds, has) ==
  [s EXCEPT
     !.next_id = @ + Len(kinds),
     !.entities = [id \in Live(s) \cup s.next_id .. (s.next_id + Len(kinds) - 1) |->
        IF id \in Live(s) THEN s.entities[id]
        ELSE [kind |-> kinds[id - s.next_id + 1], created_by |-> CurrentOp(s),
              name |-> "", has_shape |-> has]]]

Without(table, keys) == [k \in DOMAIN table \ keys |-> table[k]]

Bind(s, id, n) ==
  [s EXCEPT !.entities[id].name = n,
            !.name_to_id = [m \in DOMAIN @ \cup {n} |-> IF m = n THEN id ELSE @[m]]]

\* The binding goes only if it is this entity's: world planes may have taken the name.
UnbindName(s, id) ==
  LET n == s.entities[id].name
  IN  [s EXCEPT !.entities[id].name = "",
                !.name_to_id = Without(@, {m \in DOMAIN @ : m = n /\ @[m] = id})]

\* The entity that has the name loses it, its binding stays to be overwritten.
StealName(s, id, n) ==
  IF n \in DOMAIN s.name_to_id /\ s.name_to_id[n] # id /\ s.name_to_id[n] \in Live(s)
  THEN [s EXCEPT !.entities[s.name_to_id[n]].name = ""]
  ELSE s

EraseFrames(s, id) == [s EXCEPT !.frames = {f \in @ : f[1] # id}]

\* Mutant: the plane slots are left.
EraseKeepsPlanes(s, id) == [s EXCEPT !.entities = Without(@, {id})]

Erase(s, id) ==
  [s EXCEPT !.planes = [p \in Plane |-> IF @[p] = id THEN 0 ELSE @[p]],
            !.entities = Without(@, {id})]

HasPlane(s, p) == s.planes[p] # 0 /\ s.planes[p] \in Live(s)

\* A new plane is bound to its name and framed, under an operation of its own.
AddPlane(s, p) ==
  LET id == s.next_id
      pushed == [s EXCEPT !.op_stack = Append(@, WorldOp[p])]
      made == Register(pushed, <<"FACE">>, TRUE)
  IN  [Bind([made EXCEPT !.op_stack = Popped(@)], id, WorldName[p]) EXCEPT
         !.frames = @ \cup {<<id, "cs">>},
         !.planes[p] = id]

\* Mutant: the operation of a plane is not popped.
EnsureLeavesOp(s, p) ==
  IF HasPlane(s, p) THEN s
  ELSE [AddPlane(s, p) EXCEPT !.op_stack = Append(@, WorldOp[p])]

EnsureOne(s, p) == IF HasPlane(s, p) THEN s ELSE AddPlane(s, p)

EnsurePlanes(s) == EnsureOne(EnsureOne(EnsureOne(s, "xy"), "yz"), "zx")

KindMatches(want, have) ==
  \/ want = "ANY"
  \/ want = have
  \/ want = "BODY" /\ have \in {"SOLID", "COMPOUND", "SHELL", "BODY"}

PrefixMatches(prefix, tag) ==
  Len(prefix) > 0 /\ Len(prefix) <= Len(tag) /\ SubSeq(tag, 1, Len(prefix)) = prefix

Matches(s, prefix, kind) ==
  {id \in Live(s) : /\ PrefixMatches(prefix, s.entities[id].created_by)
                    /\ KindMatches(kind, s.entities[id].kind)}

----------------------------------------------------------------------------
(* The calls.                                                              *)

\* The session becomes s, or the call is refused.
Becomes(s) == S' = s /\ issued' = issued \cup Live(s)
Done(s) == Becomes(s) /\ refused' = FALSE
Fail == refused' = TRUE /\ UNCHANGED <<S, issued>>

Init ==
  /\ S = [next_id |-> 1, entities |-> <<>>, name_to_id |-> <<>>, frames |-> {},
          op_stack |-> <<>>, planes |-> [p \in Plane |-> 0]]
  /\ refused = FALSE
  /\ issued = {}

\* Mutant: ids start again.
ClearAll ==
  Done([S EXCEPT !.entities = <<>>, !.name_to_id = <<>>, !.frames = {}, !.op_stack = <<>>,
                 !.planes = [p \in Plane |-> 0], !.next_id = 1])

Clear ==
  Done([S EXCEPT !.entities = <<>>, !.name_to_id = <<>>, !.frames = {}, !.op_stack = <<>>,
                 !.planes = [p \in Plane |-> 0]])

BeginOp(op) ==
  \/ op = <<>> /\ Fail
  \/ /\ op # <<>> /\ Len(S.op_stack) < MaxDepth
     /\ Done([S EXCEPT !.op_stack = Append(@, op)])

\* The empty sequence stands for the null pointer: pop whatever is on top.
EndOp(op) ==
  IF S.op_stack = <<>> \/ (op # <<>> /\ CurrentOp(S) # op)
  THEN Fail
  ELSE Done([S EXCEPT !.op_stack = Popped(@)])

\* The null shape has the kind "ANY"; any other is registered, with or without its parts.
RegisterKinds(shape, kinds) ==
  IF KindOf[shape] = "ANY" THEN Fail
  ELSE /\ S.next_id + Len(kinds) - 1 <= MaxId
       /\ Done(Register(S, kinds, TRUE))

RegisterShapeRootOnly(shape) == RegisterKinds(shape, <<KindOf[shape]>>)
RegisterShape(shape) == RegisterKinds(shape, <<KindOf[shape]>> \o Subs[shape])

ReleaseEntity(id) ==
  IF id \notin Live(S) THEN Fail
  ELSE Done(Erase(EraseFrames(UnbindName(S, id), id), id))

\* Mutant: the name the entity had stays bound to it.
SetNameKeepsOld(id, n) ==
  IF n = "" THEN Fail
  ELSE IF id \notin Live(S) THEN Fail
  ELSE Done(Bind(StealName(S, id, n), id, n))

SetName(id, n) ==
  IF n = "" THEN Fail
  ELSE IF id \notin Live(S) THEN Fail
  ELSE Done(Bind(UnbindName(StealName(S, id, n), id), id, n))

Framed(s, id, f) == [s EXCEPT !.frames = @ \cup {<<id, f>>}]

\* Mutant: the frame is looked at after the free-floating entity is made.
AttachFrameLate(id, f, valid) ==
  IF id = 0
  THEN /\ S.next_id <= MaxId
       /\ IF valid THEN Done(Framed(Register(S, <<"FRAME">>, FALSE), S.next_id, f))
          ELSE Becomes(Register(S, <<"FRAME">>, FALSE)) /\ refused' = TRUE
  ELSE IF ~valid THEN Fail
  ELSE IF id \notin Live(S) THEN Fail
  ELSE Done(Framed(S, id, f))

\* valid: the name is not empty and the axes are those of a frame.
AttachFrame(id, f, valid) ==
  IF ~valid THEN Fail
  ELSE IF id = 0
  THEN S.next_id <= MaxId /\ Done(Framed(Register(S, <<"FRAME">>, FALSE), S.next_id, f))
  ELSE IF id \notin Live(S) THEN Fail
  ELSE Done(Framed(S, id, f))

EnsureWorldPlanes ==
  LET s == EnsurePlanes(S) IN s.next_id <= MaxId + 1 /\ Done(s)

WorldPlane(p) ==
  IF S.planes[p] = 0 THEN EnsureWorldPlanes ELSE Done(S)

Next ==
  \/ Clear
  \/ \E op \in Op \cup {<<>>} : BeginOp(op) \/ EndOp(op)
  \/ \E shape \in Shape : RegisterShape(shape) \/ RegisterShapeRootOnly(shape)
  \/ \E id \in 0 .. S.next_id : ReleaseEntity(id)
  \/ \E id \in 0 .. S.next_id, n \in Name \cup {""} : SetName(id, n)
  \/ \E id \in 0 .. S.next_id, f \in FrameName, valid \in BOOLEAN : AttachFrame(id, f, valid)
  \/ EnsureWorldPlanes
  \/ \E p \in Plane : WorldPlane(p)

Spec == Init /\ [][Next]_vars

----------------------------------------------------------------------------
(* Properties.                                                             *)

EntityRec == [kind : Kind, created_by : Tag, name : Label \cup {""}, has_shape : BOOLEAN]

\* The tables have the shapes the source gives them, and no id is in use that next_id has
\* still to hand out.
TypeOK ==
  /\ S = [next_id |-> S.next_id, entities |-> S.entities, name_to_id |-> S.name_to_id,
          frames |-> S.frames, op_stack |-> S.op_stack, planes |-> S.planes]
  /\ S.next_id \in Nat \ {0}
  /\ Live(S) \subseteq 1 .. S.next_id - 1
  /\ \A id \in Live(S) : S.entities[id] \in EntityRec
  /\ \A n \in DOMAIN S.name_to_id : n \in Label /\ S.name_to_id[n] \in Nat
  /\ S.op_stack \in Seq(Op)
  /\ S.planes \in [Plane -> Nat]
  /\ refused \in BOOLEAN
  /\ issued \subseteq Nat

\* Looking a name up finds a live entity that has that name, however often names were given,
\* stolen and released; and a name that no world plane takes is always found again.
NamesSound ==
  /\ \A n \in DOMAIN S.name_to_id :
       S.name_to_id[n] \in Live(S) /\ S.entities[S.name_to_id[n]].name = n
  /\ \A id \in Live(S) :
       LET n == S.entities[id].name
       IN  n # "" /\ n \notin {WorldName[p] : p \in Plane}
             => n \in DOMAIN S.name_to_id /\ S.name_to_id[n] = id

\* Releasing an entity leaves nothing of it behind: every frame is on a live entity, and a
\* world plane is absent or a live face made by its own operation that still has its frame.
PlacementsLive ==
  /\ \A f \in S.frames : f[1] \in Live(S)
  /\ \A p \in Plane : S.planes[p] # 0 =>
       /\ S.planes[p] \in Live(S)
       /\ S.entities[S.planes[p]].created_by = WorldOp[p]
       /\ S.entities[S.planes[p]].kind = "FACE"
       /\ <<S.planes[p], "cs">> \in S.frames

\* An entity is tagged with the operation its client had open, and only a world plane with
\* another: making one leaves the stack of open operations as it was.
TagsFollowOps ==
  [][ /\ \A id \in Live(S)' \ Live(S) :
           \/ S'.entities[id].created_by = CurrentOp(S)
           \/ \E p \in Plane : S'.planes[p] = id /\ S'.entities[id].created_by = WorldOp[p]
      /\ Live(S)' \ Live(S) # {} => S'.op_stack = S.op_stack ]_S

\* A call that answers an error has not touched the session (attach_frame checks the frame
\* before it makes the entity that is to carry it).
RefusedChangesNothing == [][refused' => S' = S]_vars

\* Reselection: what a query selected and is still alive it selects again, whatever was
\* called in between, ahead of all that is new; and an id, once released or cleared, is never
\* another entity's.  (The subscript says S' # S too, but TLC looks at it last.)
ReselectStable ==
  [][ S' # S =>
      /\ \A prefix \in Prefix, kind \in Wanted :
           LET before == Matches(S, prefix, kind)
               after == Matches(S, prefix, kind)'
           IN  /\ before \cap Live(S)' = after \cap Live(S)
               /\ \A old \in before, new \in after \ before : old < new
      /\ issued \cap (Live(S)' \ Live(S)) = {} ]_S
=============================================================================
