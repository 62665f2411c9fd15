----------------------------- MODULE OccBridge -----------------------------
(***************************************************************************)
(* The bridge between the guest's cad calls and the kernel                 *)
(* (src/agent-os/src/occ-bridge.js): the table of shape ids, the           *)
(* fingerprint memo that answers by id, and, step by step, each wrapper of *)
(* a kernel function with the blocks of the kernel's heap that it          *)
(* allocates, hands over and frees.                                        *)
(*                                                                         *)
(* A call is synchronous, so calls do not interleave; what goes wrong goes *)
(* wrong inside one: an allocation answers null, an id is unknown, the     *)
(* kernel refuses.  A wrapper is written as the list of its steps:         *)
(*   malloc   asks the heap for a block;                                   *)
(*   need     throws when one of the blocks is null;                       *)
(*   try      enters a try whose finally frees the blocks (when not null); *)
(*   ask      looks its operands up and calls the kernel, which refuses    *)
(*            when one of the blocks it must write is null.                *)
(* What the kernel computes, the numbers passed and the texts of errors    *)
(* are left out; wrappers that take the same steps are one row.            *)
(***************************************************************************)
EXTENDS Naturals, Sequences, Functions

CONSTANTS
    MaxId,          \* bound on the shapes made
    MaxGeneration,  \* bound on the memo's generations
    Keys,           \* fingerprints
    NoCall          \* no call is being served

Ids == 1..MaxId
Pointers == 1..MaxId       \* the kernel uses an address again once it is free

VARIABLES
    shapes,       \* this.shapes: id -> pointer
    nextId,
    live,         \* kernel: the shapes that have not been freed
    memo,         \* ShapeMemoTable.map: key -> [id, generation]
    generation,
    memoOn,       \* sessionOpts.memo
    run,          \* the call that is being served
    leaked,       \* blocks the last call neither freed nor can free any more
    last,         \* how the last call ended
    freed         \* ids that have been freed (history variable)

vars == <<shapes, nextId, live, memo, generation, memoOn, run, leaked, last, freed>>
table == <<shapes, nextId, live, freed>>
session == <<memo, generation, memoOn>>

-----------------------------------------------------------------------------
(* The steps of the wrappers.                                              *)

Malloc(block) == [do |-> "malloc", block |-> block]
Need(blocks) == [do |-> "need", blocks |-> blocks]
Try(blocks) == [do |-> "try", blocks |-> blocks]
Ask(arity, blocks, makes) ==
    [do |-> "ask", arity |-> arity, blocks |-> blocks, makes |-> makes]

OutPtr(block) == <<Malloc(block), Need({block})>>
AllocDoubles(block) == <<Malloc(block), Need({block})>>

\* One out pointer before the try, so many operands inside it, a shape adopted.
Wrap(arity) == OutPtr("out") \o <<Try({"out"}), Ask(arity, {"out"}, "shape")>>

Primitive == Wrap(0)         \* makeBox, makeCylinder, makeSphere, makeCone, makeTorus
Combination == Wrap(2)          \* fuse, cut, intersect
Motion == Wrap(1)            \* translate, rotate, scale, mirror, extrude
Pipe == Wrap(2)
Feature == Wrap(1)           \* filletAll, patternLinear, patternPolar
Annulus == Wrap(1)
Rectangle == Wrap(0)
Solid == Wrap(1)             \* revolve, offset3d
Drill == Wrap(1)             \* drillHoleThrough, drillHoleBlind
Sweep == Wrap(1)

\* An array is allocated before the out pointer and before the try.
WithArray(array, arity) ==
    array \o OutPtr("out") \o <<Try({"array", "out"}), Ask(arity, {"array", "out"}, "shape")>>

MakeRoute == WithArray(AllocDoubles("array"), 0)
MakeRouteBends == WithArray(AllocDoubles("array"), 0)
TrsfApply == WithArray(AllocDoubles("array"), 1)
Shell == WithArray(<<Malloc("array"), Need({"array"})>>, 1)

Clash == OutPtr("out") \o <<Try({"out"}), Ask(2, {"out"}, "value")>>

\* The kernel takes null for the two witness points; the bridge reads them all the same.
Distance ==
    <<Malloc("out"), Malloc("pA"), Malloc("pB"), Try({"out", "pA", "pB"}), Ask(2, {"out"}, "value")>>

Volume == <<Malloc("out"), Try({"out"}), Ask(1, {"out"}, "value")>>
BBox == <<Malloc("min"), Malloc("max"), Try({"min", "max"}), Ask(1, {"min", "max"}, "value")>>

FrameFromAxes ==
    <<Malloc("out"), Need({"out"}), Try({"out"}), Ask(0, {"out"}, "value")>>

\* All or nothing: what was allocated is freed when one of the three is null.
MassProperties ==
    LET blocks == {"mass", "com", "inertia"} IN
    <<Try(blocks), Malloc("mass"), Malloc("com"), Malloc("inertia"),
      Need(blocks), Ask(1, blocks, "value")>>

StepWrite == <<Ask(1, {}, "value")>>

ChainBlocks == {"origins", "axes", "angles", "frames", "final", "matrix"}

\* Mutant: the arrays are allocated before the try is entered.
ComposeChainOutside(prefixes) ==
    AllocDoubles("origins") \o AllocDoubles("axes") \o AllocDoubles("angles")
      \o <<Try(ChainBlocks), Malloc("final"), Need({"final"}),
           Ask(0, {"origins", "axes", "angles", "final"}, "value")>>

\* Mutant: the frames are asked for and not looked at.
ComposeChainUnchecked(prefixes) ==
    <<Try(ChainBlocks)>>
      \o AllocDoubles("origins") \o AllocDoubles("axes") \o AllocDoubles("angles")
      \o <<Malloc("frames"), Malloc("final"), Need({"final"}),
           Ask(0, {"origins", "axes", "angles", "final"}, "value")>>

\* Every block inside the try; the prefixes only when they are wanted.
ComposeChain(prefixes) ==
    <<Try(ChainBlocks)>>
      \o AllocDoubles("origins") \o AllocDoubles("axes") \o AllocDoubles("angles")
      \o (IF prefixes THEN <<Malloc("frames"), Need({"frames"})>> ELSE <<>>)
      \o <<Malloc("final"), Need({"final"}),
           Ask(0, {"origins", "axes", "angles", "final"}, "value")>>
      \o (IF prefixes THEN <<Malloc("matrix"), Need({"matrix"}), Ask(0, {"matrix"}, "value")>>
                      ELSE <<>>)

\* The mesh the kernel makes is one more thing the outer finally frees.  bbox and volume, which
\* follow, free what they allocate and may fail without consequence.
ComputeMesh ==
    OutPtr("out") \o <<Try({"out", "mesh"}), Ask(1, {"out"}, "mesh")>>

MeshStats ==
    ComputeMesh
      \o <<Try({"nv", "ni"}), Malloc("nv"), Malloc("ni"), Need({"nv", "ni"}),
           Ask(0, {"nv", "ni"}, "value")>>

Mesh ==
    ComputeMesh
      \o <<Malloc("nv"), Malloc("ni"), Try({"nv", "ni"}), Ask(0, {"nv", "ni"}, "value")>>
      \o OutPtr("vpp") \o OutPtr("npp") \o OutPtr("ipp")
      \o <<Try({"vpp", "npp", "ipp"}), Ask(0, {"vpp", "npp", "ipp"}, "value")>>

Steps ==
    [ primitive |-> Primitive, boolean |-> Combination, motion |-> Motion, pipe |-> Pipe,
      feature |-> Feature, annulus |-> Annulus, rectangle |-> Rectangle, solid |-> Solid,
      drill |-> Drill, sweep |-> Sweep, make_route |-> MakeRoute,
      make_route_bends |-> MakeRouteBends, trsf_apply |-> TrsfApply, shell |-> Shell,
      clash |-> Clash, distance |-> Distance, volume |-> Volume, bbox |-> BBox,
      frame_from_axes |-> FrameFromAxes, mass_properties |-> MassProperties,
      step_write |-> StepWrite, compose_chain |-> ComposeChain(FALSE),
      compose_chain_prefixes |-> ComposeChain(TRUE),
      mesh_stats |-> MeshStats, mesh |-> Mesh ]

Ops == DOMAIN Steps

\* The ids a call names: one for each operand its kernel functions take.
Operands(op) == UNION {1..step.arity : step \in {s \in Range(Steps[op]) : s.do = "ask"}}

-----------------------------------------------------------------------------
(* The table of shapes.                                                    *)

Init ==
    /\ shapes = <<>> /\ nextId = 1 /\ live = {} /\ freed = {}
    /\ memo = <<>> /\ generation = 0 /\ memoOn = FALSE
    /\ run = NoCall /\ leaked = {} /\ last = [op |-> "session", how |-> "ok"]

\* Mutant: the id is the lowest that is not in use.
AdoptLowest(pointer) ==
    LET id == CHOOSE i \in Ids : i \notin DOMAIN shapes /\ \A j \in 1..(i - 1) : j \in DOMAIN shapes
    IN  /\ nextId <= MaxId
        /\ nextId' = nextId + 1
        /\ shapes' = [i \in DOMAIN shapes \cup {id} |-> IF i = id THEN pointer ELSE shapes[i]]
        /\ live' = live \cup {pointer}
        /\ UNCHANGED freed

Adopt(pointer) ==
    /\ nextId <= MaxId
    /\ nextId' = nextId + 1
    /\ shapes' = [i \in DOMAIN shapes \cup {nextId} |-> IF i = nextId THEN pointer ELSE shapes[i]]
    /\ live' = live \cup {pointer}
    /\ UNCHANGED freed

\* free of each of the ids that is in the table.
Free(ids) ==
    /\ live' = live \ {shapes[i] : i \in ids \cap DOMAIN shapes}
    /\ shapes' = Restrict(shapes, DOMAIN shapes \ ids)
    /\ freed' = freed \cup (ids \cap DOMAIN shapes)
    /\ UNCHANGED nextId

-----------------------------------------------------------------------------
(* A call of a kernel wrapper.                                             *)

\* Arguments that do not convert throw before the wrapper has touched anything.
Reject(op) ==
    /\ run = NoCall
    /\ leaked' = {} /\ last' = [op |-> op, how |-> "refused"]
    /\ UNCHANGED <<table, session, run>>

Call(op) ==
    /\ run = NoCall
    /\ \E ids \in [Operands(op) -> Ids] :
          run' = [op |-> op, ids |-> ids, at |-> 1, held |-> {}, nulls |-> {}, frees |-> {}]
    /\ leaked' = {} /\ last' = [op |-> op, how |-> "running"]
    /\ UNCHANGED <<table, session>>

Step == Steps[run.op][run.at]
AtStep(kind) == run # NoCall /\ run.at <= Len(Steps[run.op]) /\ Step.do = kind
Advance(r) == run' = [r EXCEPT !.at = @ + 1] /\ UNCHANGED <<leaked, last>>

\* Leaving a call, by return or by throw, runs the finally of every try it is in.
Leave(how) ==
    /\ leaked' = run.held \ run.frees
    /\ last' = [op |-> run.op, how |-> how]
    /\ run' = NoCall

DoMalloc ==
    /\ AtStep("malloc")
    /\ \/ Advance([run EXCEPT !.held = @ \cup {Step.block}])
       \/ Advance([run EXCEPT !.nulls = @ \cup {Step.block}])
    /\ UNCHANGED <<table, session>>

DoNeed ==
    /\ AtStep("need")
    /\ IF Step.blocks \cap run.nulls = {} THEN Advance(run) ELSE Leave("no memory")
    /\ UNCHANGED <<table, session>>

DoTry ==
    /\ AtStep("try")
    /\ Advance([run EXCEPT !.frees = @ \cup Step.blocks])
    /\ UNCHANGED <<table, session>>

\* An operand that is no shape, a block that is null, geometry that fails, a null result.
AskRefused ==
    /\ AtStep("ask")
    /\ Leave("refused")
    /\ UNCHANGED <<table, session>>

\* Every operand is a shape and every block the kernel must write is there.
Served ==
    /\ \A i \in 1..Step.arity : run.ids[i] \in DOMAIN shapes
    /\ Step.blocks \cap run.nulls = {}

AskShape ==
    /\ AtStep("ask") /\ Served /\ Step.makes = "shape"
    /\ \E pointer \in Pointers \ live : Adopt(pointer)
    /\ Advance(run)
    /\ UNCHANGED session

AskOther ==
    /\ AtStep("ask") /\ Served /\ Step.makes # "shape"
    /\ Advance(IF Step.makes = "mesh" THEN [run EXCEPT !.held = @ \cup {"mesh"}] ELSE run)
    /\ UNCHANGED <<table, session>>

\* An answer is blind when one of the blocks it is read from is null.
Return ==
    /\ run # NoCall /\ run.at > Len(Steps[run.op])
    /\ Leave(IF run.nulls = {} THEN "ok" ELSE "blind")
    /\ UNCHANGED <<table, session>>

-----------------------------------------------------------------------------
(* Calls that only move the tables.                                        *)

Quiet == run = NoCall /\ run' = run /\ leaked' = {} /\ last' = [op |-> "session", how |-> "ok"]

MemoBegin ==
    /\ Quiet /\ generation < MaxGeneration
    /\ generation' = generation + 1
    /\ UNCHANGED <<table, memo, memoOn>>

\* keepIds and the frees of memoEnd; no root is 0.
Current(key) == memo[key].generation = generation

MemoEnd ==
    /\ Quiet
    /\ memo' = Restrict(memo, {key \in DOMAIN memo : Current(key)})
    /\ \E root \in Ids \cup {0} : Free(DOMAIN shapes \ ({root} \cup {e.id : e \in Range(memo')}))
    /\ UNCHANGED <<generation, memoOn>>

\* A hit counts as use in this generation; an entry whose shape is gone is dropped.
CacheGet(key) ==
    /\ Quiet /\ key \in DOMAIN memo
    /\ memo' = IF memo[key].id \in DOMAIN shapes
               THEN [memo EXCEPT ![key].generation = generation]
               ELSE Restrict(memo, DOMAIN memo \ {key})
    /\ UNCHANGED <<table, generation, memoOn>>

\* put takes any id, live or not.
CachePut(key, id) ==
    /\ Quiet
    /\ memo' = [k \in DOMAIN memo \cup {key} |->
                   IF k = key THEN [id |-> id, generation |-> generation] ELSE memo[k]]
    /\ UNCHANGED <<table, generation, memoOn>>

CacheClear == Quiet /\ memo' = <<>> /\ UNCHANGED <<table, generation, memoOn>>

ShapeFree(id) == Quiet /\ Free({id}) /\ UNCHANGED session

\* The worker's own, on abort, failure and before an evaluation without memo.
FreeAll ==
    /\ Quiet
    /\ memo' = <<>> /\ memoOn' = FALSE
    /\ Free(DOMAIN shapes)
    /\ UNCHANGED generation

\* The guest's free_all: under memo it only begins a generation.
FreeAllCall == IF memoOn THEN MemoBegin ELSE FreeAll

SetSessionOpts == Quiet /\ memoOn' = TRUE /\ UNCHANGED <<table, memo, generation>>

Next ==
    \/ \E op \in Ops : Call(op) \/ Reject(op)
    \/ DoMalloc \/ DoNeed \/ DoTry \/ AskRefused \/ AskShape \/ AskOther \/ Return
    \/ MemoBegin \/ MemoEnd \/ CacheClear \/ FreeAll \/ FreeAllCall \/ SetSessionOpts
    \/ \E key \in Keys : CacheGet(key)
    \/ \E key \in Keys, id \in Ids : CachePut(key, id)
    \/ \E id \in Ids : ShapeFree(id)

Spec == Init /\ [][Next]_vars

-----------------------------------------------------------------------------
(* Properties.                                                             *)

\* Every shape the kernel holds has exactly one id and every id a shape the kernel holds, whatever
\* was freed by the guest, by a sweep or by a reset; and an id, once freed, names no other shape, so
\* that a fingerprint put for it can only miss.
IdsNameOneShape ==
    /\ live = Range(shapes) /\ IsInjective(shapes)
    /\ freed \cap DOMAIN shapes = {}

\* No call leaves a block or a mesh behind, however it ends.  The exceptions, all for want of memory,
\* are the wrappers that allocate a block and then an out pointer before they enter their try.
ScratchReturned ==
    leaked # {} =>
      /\ last.how = "no memory"
      /\ \/ last.op \in {"make_route", "make_route_bends", "trsf_apply", "shell"} /\ leaked = {"array"}
         \/ last.op = "mesh" /\ leaked \in {{"vpp"}, {"vpp", "npp"}}

\* What a call answers the kernel has written: a wrapper does not answer from a block it did not
\* get, except distance, whose witness points are then read at address zero.
AnswersAreWritten == last.how = "blind" => last.op = "distance"

=============================================================================
