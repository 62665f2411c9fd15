------------------------------ MODULE Viewport ------------------------------
(***************************************************************************)
(* Who gets a pointer or a key in the viewport                             *)
(* (src/agent-os/src/view/cad-viewport.js, gimbals.js, view-cube.js,       *)
(* command-router.js, bindings.js): a handle of a parameter takes the      *)
(* pointer that presses it away from the camera until a pointer is         *)
(* released anywhere; the view cube orbits the same camera from a canvas   *)
(* of its own; view keys act unless text is being entered.                 *)
(*                                                                         *)
(* Pointers are a mouse and fingers.  The browser sends a released mouse   *)
(* to the canvas when it is over it or was captured by it, a finger to     *)
(* the canvas it was pressed on, and both to the window in any case.  A    *)
(* finger may be cancelled.  Drawing, materials, the grid, the banner, the *)
(* focus moved by Escape and sizes of the window are left out.             *)
(***************************************************************************)
EXTENDS EditorCam

CONSTANTS
    Values,      \* values of the parameter that has a handle, 0..n
    Extents,     \* limits that bodies bring with them
    NoDrag       \* no handle is held

ASSUME LimitsAssumption ==
    /\ DefaultLimits \notin Extents
    /\ \A e \in Extents : e \in Nat \X Nat /\ e[1] <= e[2]
ASSUME ValuesAssumption == \E n \in Values : n \in Nat /\ Values = 0..n
ASSUME NoDragAssumption == NoDrag \notin [startX : Int, startValue : Int, lastValue : Int]

VARIABLES
    down,        \* browser: pointers pressed on the viewport's canvas
    captured,    \* browser: the mouse's events go to the viewport's canvas
    value,       \* the parameter, as the store has it
    drag,        \* gimbals.dragging: [startX, startValue, lastValue]
    cube         \* the view cube: "idle", "pressed" or "moved"

page == <<down, captured, value, drag, cube>>
vars == <<camVars, page>>

Foci == {"view", "chrome", "text"}

-----------------------------------------------------------------------------
(* Handles.                                                                *)

MaxValue == CHOOSE v \in Values : \A u \in Values : u <= v
ClampParam(v) == IF v < 0 THEN 0 ELSE IF v > MaxValue THEN MaxValue ELSE v

\* The handles are rebuilt on every change of the store: one starts from the value of the moment.
BeginDrag(x) == drag' = [startX |-> x, startValue |-> value, lastValue |-> value]

\* Every move over the window scrubs the handle that is held.
MoveDrag(x) ==
    IF drag = NoDrag THEN UNCHANGED <<drag, value>>
    ELSE LET next == drag.startValue + (x - drag.startX) \div 2 IN
         /\ drag' = [drag EXCEPT !.lastValue = next]
         /\ value' = ClampParam(next)

\* pointerup at the window: commits the last value, or the one it started from.
EndDrag ==
    /\ drag' = NoDrag
    /\ value' = IF drag = NoDrag THEN value ELSE ClampParam(drag.lastValue)
    /\ suppressed' = (suppressed /\ drag = NoDrag)

-----------------------------------------------------------------------------
(* Pointers over the canvas.                                               *)

\* classifyPointerDown: left; middle, right or left with shift; any other button.  A finger is left.
Kinds(p) == IF p = Mouse THEN {"orbit", "pan", "none"} ELSE {"orbit"}

\* The capturing listener comes first: on a handle, the left button starts a drag and the camera
\* is told to keep still.
Press(p, x, kind, onHandle) ==
    /\ p \notin down /\ down' = down \cup {p}
    /\ IF onHandle /\ kind = "orbit"
       THEN BeginDrag(x) /\ SetSuppressed(TRUE) /\ UNCHANGED captured
       ELSE /\ Gated(OnPointerDown(p, x, kind))
            /\ captured' = (captured \/ (p = Mouse /\ ~suppressed /\ (kind # "none" \/ Two(pointers'))))
            /\ UNCHANGED drag
    /\ UNCHANGED <<value, cube>>

\* A finger moves only while it is pressed.
Slide(p, x) ==
    /\ p \in down \cup {Mouse}
    /\ Gated(OnPointerMove(p, x))
    /\ MoveDrag(x)
    /\ UNCHANGED <<down, captured, cube>>

Release(p, inside) ==
    /\ p \in down /\ down' = down \ {p}
    /\ inside \/ (p = Mouse /\ ~captured)
    /\ captured' = (captured /\ p # Mouse)
    /\ IF inside THEN OnPointerUp(p) ELSE UNCHANGED <<cam, limits, input>>
    /\ EndDrag
    /\ UNCHANGED cube

\* The canvas hears of it, the window does not listen: a drag goes on without its pointer.
Cancel(p) ==
    /\ p \in down /\ down' = down \ {p}
    /\ OnPointerUp(p)
    /\ UNCHANGED <<suppressed, captured, value, drag, cube>>

\* Mutant: the wheel listener is installed without the gate.
WheelUngated(x, out) == ZoomAt(x, out) /\ UNCHANGED page
Wheel(x, out) == Gated(ZoomAt(x, out)) /\ UNCHANGED page

DoubleClick(x) == Gated(FocusAt(x)) /\ UNCHANGED page

OnCanvas ==
    \/ \E p \in Pointers, x \in Pixels, kind \in {"orbit", "pan", "none"}, onHandle \in BOOLEAN :
         kind \in Kinds(p) /\ Press(p, x, kind, onHandle)
    \/ \E p \in Pointers, x \in Pixels : Slide(p, x)
    \/ \E p \in Pointers, inside \in BOOLEAN : Release(p, inside)
    \/ \E p \in Fingers : Cancel(p)
    \/ \E x \in Pixels, out \in BOOLEAN : Wheel(x, out)
    \/ \E x \in Pixels : DoubleClick(x)

-----------------------------------------------------------------------------
(* The view cube, pressed by pointers of its own, which it does not tell   *)
(* apart.                                                                  *)

CubePress == cube' = "pressed" /\ UNCHANGED <<camVars, down, captured, value, drag>>

\* Every move turns the camera; more than two pixels at once make it a drag.
CubeMove(x, far) ==
    /\ cube # "idle"
    /\ OrbitDelta(1)
    /\ cube' = IF far THEN "moved" ELSE cube
    /\ MoveDrag(x)
    /\ UNCHANGED <<limits, input, suppressed, down, captured>>

\* Without a drag it was a click, on a face or beside the cube; being cancelled counts as a click.
CubeRelease(cancelled, onFace, angle) ==
    /\ cube # "idle" /\ cube' = "idle"
    /\ IF cube = "pressed" /\ onFace THEN LookDir(angle) ELSE UNCHANGED cam
    /\ IF cancelled THEN UNCHANGED <<drag, value, suppressed>> ELSE EndDrag
    /\ UNCHANGED <<limits, input, down, captured>>

-----------------------------------------------------------------------------
(* Keys and the host.                                                      *)

\* setBodies has been given bodies once; fit keys do nothing before.
HasBodies == limits # DefaultLimits

Fit == HasBodies /\ FitSphere(0, limits[1])

\* shouldHandleViewKey: the numbers and the editor keep their keys, sliders and switches do not.
ViewKey(focus) ==
    /\ focus # "text"
    /\ \/ Fit
       \/ SetProjection
       \/ \E angle \in 0..(Angles - 1) : LookDir(angle)
    /\ UNCHANGED <<limits, input, suppressed, page>>

\* setBodies: the new limits bear on the camera when it is applied next.
SetBodies(extent, fit) ==
    /\ limits' = extent
    /\ IF fit THEN cam' = FitTo(0, extent[1]) ELSE UNCHANGED cam
    /\ UNCHANGED <<input, suppressed, page>>

\* The sheet, an undo or a harvest.
StoreSets(v) ==
    /\ value # v /\ value' = v
    /\ UNCHANGED <<camVars, down, captured, drag, cube>>

-----------------------------------------------------------------------------

Init ==
    /\ CamInit
    /\ down = {} /\ captured = FALSE /\ value = 0 /\ drag = NoDrag /\ cube = "idle"

Next ==
    \/ OnCanvas
    \/ CubePress
    \/ \E x \in Pixels, far \in BOOLEAN : CubeMove(x, far)
    \/ \E cancelled \in BOOLEAN, onFace \in BOOLEAN, angle \in 0..(Angles - 1) :
         CubeRelease(cancelled, onFace, angle)
    \/ \E focus \in Foci : ViewKey(focus)
    \/ \E extent \in Extents, fit \in BOOLEAN : SetBodies(extent, fit)
    \/ \E v \in Values : StoreSets(v)

Spec == Init /\ [][Next]_vars

-----------------------------------------------------------------------------
(* Properties.                                                             *)

\* The camera is held back exactly while a handle is held (cad-viewport.js:149-183), and then it has no
\* gesture; a gesture has a pointer, and every pointer the camera counts is pressed on its canvas, the
\* mouse aside: let go of outside after a button the camera ignores, it is counted until it is pressed again.
GestureOwned ==
    /\ suppressed <=> drag # NoDrag
    /\ suppressed => gesture = "none"
    /\ gesture # "none" => pointers # <<>>
    /\ \A p \in DOMAIN pointers : p \in down \/ (p = Mouse /\ ~captured)

\* While a handle is held no pointer, wheel or double click on the canvas moves the camera, whichever
\* pointer it comes from and whatever was pressed before.
DragOwnsPointer == [][suppressed /\ cam' # cam => ~OnCanvas]_vars

\* Changing the projection keeps the size of what is seen, whatever was zoomed and fitted before in
\* either projection (A13, A14), unless new bodies have just put the size out of its limits; the wheel
\* keeps the point under the cursor (A6).
FramingKept ==
    [][cam' # cam =>
         /\ cam'.projection # cam.projection /\ Clamp(SizeOf(cam)) = SizeOf(cam)
              => SizeOf(cam') = SizeOf(cam) /\ cam'.target = cam.target
         /\ SizeOf(cam') # SizeOf(cam) /\ gesture' = "none" =>
              \A x \in Pixels, out \in BOOLEAN : Wheel(x, out) => World(cam', x) = World(cam, x)]_vars

=============================================================================
