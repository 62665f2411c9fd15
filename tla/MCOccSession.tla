---------------------------- MODULE MCOccSession ----------------------------
(* A solid with a face; "box1" is looked up and "box10" is the operation.   *)
EXTENDS OccSession, TLC

MCOp == {<<"box1", "0">>}
MCPrefix == {<<"box1">>}
MCName == {"part", "world_xy"}
MCShape == {"box", "null"}
MCKindOf == ("box" :> "SOLID") @@ ("null" :> "ANY")
MCSubs == ("box" :> <<"FACE">>) @@ ("null" :> <<>>)
=============================================================================
