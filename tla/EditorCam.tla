----------------------------- MODULE EditorCam -----------------------------
(***************************************************************************)
(* The camera of the viewport and the pointers that move it                *)
(* (src/agent-os/src/view/editor-cam.js): orbit, pan, pinch, wheel, focus, *)
(* fit, look and the change of projection, with the map of pressed         *)
(* pointers, the gesture and the flag by which a handle takes the pointer. *)
(*                                                                         *)
(* Screen and world have one dimension: the point under pixel x is         *)
(* target + x * Size, where Size is the world length of a pixel: half the  *)
(* radius in perspective, the half height in an orthographic view.  Wheel  *)
(* and pinch scale by powers of two.  A ray meets the scene at the point   *)
(* under its pixel, be it on a mesh, on the ground or at the last depth.   *)
(* Momentum (off by default), smoothing of input and the clamp of the      *)
(* polar angle are left out.                                               *)
(***************************************************************************)
EXTENDS Integers, FiniteSets, Functions, TLC

CONSTANTS
    Mouse, Fingers,    \* pointers
    Pixels,            \* where they can be, even numbers
    Reach,             \* bound on |target|: nobody pans further
    Angles,            \* number of directions the camera tells apart
    DefaultLimits      \* size-per-pixel limits before any body is shown: <<min, max>>

ASSUME ScreenAssumption == Pixels \subseteq Int /\ Reach \in Nat /\ Angles \in Nat \ {0}

\* setRadiusLimitsFromExtent: the least length of a pixel is never above the greatest.
ASSUME DefaultLimitsAssumption == DefaultLimits \in Nat \X Nat /\ DefaultLimits[1] <= DefaultLimits[2]

Pointers == {Mouse} \cup Fingers

VARIABLES
    cam,          \* state: [target, angle, radius, half, projection]
    limits,       \* size-per-pixel limits: those of the bodies shown
    pointers,     \* pressed pointers the camera knows of -> pixel
    gesture,      \* "none", "orbit" or "pan"; motion is user while it is not none
    panLast,      \* world point taken for the one under the cursor
    lastX,        \* where the orbit was last
    pinch,        \* distance times scale at the start of a two-finger gesture
    suppressed

camVars == <<cam, limits, pointers, gesture, panLast, lastX, pinch, suppressed>>
input == <<pointers, gesture, panLast, lastX, pinch>>

-----------------------------------------------------------------------------

SizeOf(c) == IF c.projection = "perspective" THEN c.radius \div 2 ELSE c.half
World(c, x) == c.target + x * SizeOf(c)

Clamp(size) == IF size < limits[1] THEN limits[1] ELSE IF size > limits[2] THEN limits[2] ELSE size

\* apply: what every change of the camera ends in; the limits bear on the length the projection uses.
Clamped(c) ==
    IF c.projection = "perspective" THEN [c EXCEPT !.radius = 2 * Clamp(@ \div 2)]
    ELSE [c EXCEPT !.half = Clamp(@)]

Apply(c) == c.target \in -Reach..Reach /\ cam' = Clamped(c)

\* What wheel and pinch scale.
Scale(c) == IF c.projection = "perspective" THEN c.radius ELSE c.half
Rescaled(c, scale) ==
    IF c.projection = "perspective" THEN [c EXCEPT !.radius = scale] ELSE [c EXCEPT !.half = scale]

Turned(c, delta) == [c EXCEPT !.angle = (@ + delta) % Angles]

-----------------------------------------------------------------------------
(* Gestures.                                                               *)

\* Nothing reads panLast, lastX or pinch before the next gesture has set them: here they are 0 meanwhile.
EndMove == gesture' = "none" /\ panLast' = 0 /\ lastX' = 0

\* Orbit about the point that was clicked: it becomes the target, as far from the eye as the old one.
StartOrbit(x) ==
    /\ gesture' = "orbit" /\ lastX' = x /\ panLast' = 0
    /\ Apply([cam EXCEPT !.target = World(cam, x)])
    /\ UNCHANGED pinch

StartPan(x) ==
    /\ gesture' = "pan" /\ lastX' = 0
    /\ panLast' = World(cam, x)

\* The second hit is computed before apply, with the camera still where it was.
UpdatePan(c, x) ==
    LET hit == World(cam, x) IN
    /\ panLast' = hit
    /\ Apply([c EXCEPT !.target = @ + (panLast - hit)])

OrbitDelta(dx) == Apply(Turned(cam, dx))

\* Positions of the two pointers: their distance, never zero, and the point between them.
Two(ps) == Cardinality(DOMAIN ps) = 2
Middle(ps) == LET p == CHOOSE p \in DOMAIN ps : TRUE
                  q == CHOOSE q \in DOMAIN ps : q # p
              IN  (ps[p] + ps[q]) \div 2
Spread(ps) == LET p == CHOOSE p \in DOMAIN ps : TRUE
                  q == CHOOSE q \in DOMAIN ps : q # p
                  d == IF ps[p] > ps[q] THEN ps[p] - ps[q] ELSE ps[q] - ps[p]
              IN  IF d = 0 THEN 1 ELSE d

-----------------------------------------------------------------------------
(* Listeners of the canvas.                                                *)

\* The camera's own pointerdown.  kind is what the button asks for; a finger alone orbits.
OnPointerDown(p, x, kind) ==
    LET ps == [q \in DOMAIN pointers \cup {p} |-> IF q = p THEN x ELSE pointers[q]] IN
    /\ pointers' = ps
    /\ UNCHANGED <<limits, suppressed>>
    /\ IF Two(ps)
       THEN StartPan(Middle(ps)) /\ pinch' = Spread(ps) * Scale(cam) /\ UNCHANGED cam
       ELSE \/ kind = "orbit" /\ StartOrbit(x)
            \/ kind = "pan" /\ StartPan(x) /\ UNCHANGED <<cam, pinch>>
            \/ kind = "none" /\ UNCHANGED <<cam, gesture, panLast, lastX, pinch>>

OnPointerMove(p, x) ==
    LET ps == [q \in DOMAIN pointers |-> IF q = p THEN x ELSE pointers[q]] IN
    /\ pointers' = ps
    /\ UNCHANGED <<limits, suppressed, pinch>>
    /\ IF Two(ps)
       THEN LET pinched == Rescaled(cam, pinch \div Spread(ps)) IN
            IF gesture = "pan"
            THEN UpdatePan(pinched, Middle(ps)) /\ UNCHANGED <<gesture, lastX>>
            ELSE StartPan(Middle(ps)) /\ Apply(pinched)
       ELSE \/ gesture = "orbit" /\ OrbitDelta((x - lastX) \div 2) /\ lastX' = x /\ UNCHANGED <<gesture, panLast>>
            \/ gesture = "pan" /\ UpdatePan(cam, x) /\ UNCHANGED <<gesture, lastX>>
            \/ gesture = "none" /\ UNCHANGED <<cam, gesture, panLast, lastX>>

\* The gesture goes on as long as a pointer is left.
OnPointerUp(p) ==
    /\ pointers' = Restrict(pointers, DOMAIN pointers \ {p})
    /\ IF DOMAIN pointers \subseteq {p} THEN EndMove ELSE UNCHANGED <<gesture, panLast, lastX>>
    /\ pinch' = IF Two(pointers') THEN pinch ELSE 0
    /\ UNCHANGED <<cam, limits>>

\* Scale, then bring the point under the cursor back; whatever was going on has ended.
ZoomAt(x, out) ==
    LET scale == IF out THEN 2 * Scale(cam) ELSE Scale(cam) \div 2
        zoomed == Clamped(Rescaled(cam, scale)) IN
    /\ Apply([zoomed EXCEPT !.target = @ + World(cam, x) - World(zoomed, x)])
    /\ EndMove
    /\ UNCHANGED <<limits, pointers, pinch, suppressed>>

FocusAt(x) ==
    Apply([cam EXCEPT !.target = World(cam, x)]) /\ UNCHANGED <<limits, input, suppressed>>

\* The gate in front of every listener but that of pointerup.
Gated(handler) == IF suppressed THEN UNCHANGED camVars ELSE handler

\* Mutant: the gesture under way is not ended.
SetSuppressedKeepingGesture(on) ==
    /\ suppressed' = on
    /\ UNCHANGED <<gesture, panLast, lastX, cam, limits, pointers, pinch>>

SetSuppressed(on) ==
    /\ suppressed' = on
    /\ IF on THEN EndMove ELSE UNCHANGED <<gesture, panLast, lastX>>
    /\ UNCHANGED <<cam, limits, pointers, pinch>>

-----------------------------------------------------------------------------
(* Commands.                                                               *)

\* Mutant: back in perspective the radius is the one it had before.
SetProjectionOneWay ==
    Apply(IF cam.projection = "perspective"
          THEN [cam EXCEPT !.half = SizeOf(cam), !.projection = "orthographic"]
          ELSE [cam EXCEPT !.projection = "perspective"])

\* The length the new projection uses is set from the one the old one used.
SetProjection ==
    /\ Apply(IF cam.projection = "perspective"
             THEN [cam EXCEPT !.half = SizeOf(cam), !.projection = "orthographic"]
             ELSE [cam EXCEPT !.radius = 2 * SizeOf(cam), !.projection = "perspective"])

FitTo(center, size) ==
    [cam EXCEPT !.target = center,
                !.radius = IF cam.projection = "perspective" THEN 2 * size ELSE @,
                !.half = IF cam.projection = "orthographic" THEN size ELSE @]
FitSphere(center, size) == Apply(FitTo(center, size))

LookDir(angle) == Apply([cam EXCEPT !.angle = angle])

CamInit ==
    /\ cam = [target |-> 0, angle |-> 0, radius |-> 2, half |-> 1, projection |-> "perspective"]
    /\ limits = DefaultLimits
    /\ pointers = <<>> /\ gesture = "none" /\ panLast = 0 /\ lastX = 0
    /\ pinch = 0 /\ suppressed = FALSE

=============================================================================
