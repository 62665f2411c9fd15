----------------------------- MODULE MCViewport -----------------------------
(***************************************************************************)
(* Viewport for TLC: a mouse and a finger on two pixels, sizes 1 and 2,     *)
(* two directions and one parameter with two values.                     *)
(***************************************************************************)
EXTENDS Viewport

MCPixels == {-1, 1}
MCDefaultLimits == <<1, 2>>
MCExtents == {<<1, 1>>}
MCValues == 0..1

=============================================================================
