------------------------- MODULE MCProjectHistory --------------------------
(* Two programs over one parameter with two values.                        *)
EXTENDS ProjectHistory

CONSTANTS flange, plate, v1, v2

MCTyped == {[body |-> flange, lits |-> v1], [body |-> plate, lits |-> v1]}

Seed == [text |-> [body |-> flange, lits |-> v1], vals |-> v1]
Plate == [text |-> [body |-> plate, lits |-> v1], vals |-> v2]

\* A working copy that is the last version, and one that went on from it.
MCEarlier == {<<Plate, Plate>>, <<Seed, Plate>>}
============================================================================
