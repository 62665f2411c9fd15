--------------------------- MODULE ViewportProofs ---------------------------
(***************************************************************************)
(* What is proved of the viewport (Viewport, EditorCam): types, whose the  *)
(* gesture is, that a handle keeps the camera still, and that a change of  *)
(* projection or a turn of the wheel keeps the framing.  The arithmetic is *)
(* that of whole lengths; products of a pixel and a length are left to the *)
(* solver as they are.                                                     *)
(***************************************************************************)
EXTENDS Viewport, FiniteSetTheorems, TLAPS

-----------------------------------------------------------------------------
(* Types.                                                                  *)

Projections == {"perspective", "orthographic"}
Camera == [target : Int, angle : Int, radius : Int, half : Int, projection : Projections]
Drags == [startX : Int, startValue : Int, lastValue : Int]

LimitsOK(b) == b \in Nat \X Nat /\ b[1] <= b[2]

\* A map of pressed pointers.
Pressed(ps) ==
    /\ ps = [p \in DOMAIN ps |-> ps[p]]
    /\ \A p \in DOMAIN ps : ps[p] \in Int

InputType ==
    /\ Pressed(pointers) /\ gesture \in {"none", "orbit", "pan"}
    /\ panLast \in Int /\ lastX \in Int /\ pinch \in Int

CamType == cam \in Camera /\ LimitsOK(limits) /\ InputType /\ suppressed \in BOOLEAN

PageType ==
    /\ captured \in BOOLEAN /\ value \in Int
    /\ drag \in Drags \cup {NoDrag} /\ cube \in {"idle", "pressed", "moved"}

\* The shape of every variable.
TypeOK == CamType /\ PageType

\* A size within the limits stays what it is; any other becomes one.
LEMMA ClampInt ==
    ASSUME LimitsOK(limits), NEW size \in Int
    PROVE  Clamp(size) \in Int /\ Clamp(Clamp(size)) = Clamp(size)
  BY DEF LimitsOK, Clamp

LEMMA SizeInt ==
    ASSUME NEW c \in Camera
    PROVE  SizeOf(c) \in Int /\ \A x \in Int : World(c, x) \in Int
<1>1. c.target \in Int /\ c.radius \in Int /\ c.half \in Int
  BY DEF Camera
<1>2. SizeOf(c) \in Int
  BY <1>1 DEF SizeOf
<1>3. \A x \in Int : x * SizeOf(c) \in Int
  BY <1>2
<1> QED
  BY <1>1, <1>2, <1>3 DEF World

\* apply returns a camera and changes nothing but the length its projection uses.
LEMMA ClampedCamera ==
    ASSUME LimitsOK(limits), NEW c \in Camera
    PROVE  /\ Clamped(c) \in Camera
           /\ Clamped(c).projection = c.projection /\ Clamped(c).target = c.target
           /\ SizeOf(Clamped(c)) = Clamp(SizeOf(c))
<1>1. /\ c.target \in Int /\ c.angle \in Int /\ c.radius \in Int /\ c.half \in Int
      /\ c.projection \in Projections
  BY DEF Camera
<1>2. CASE c.projection = "perspective"
  <2> DEFINE size == Clamp(c.radius \div 2)
  <2>1. c.radius \div 2 \in Int
    BY <1>1
  <2>2. size \in Int
    BY <2>1, ClampInt
  <2> HIDE DEF size
  <2>3. Clamped(c) = [c EXCEPT !.radius = 2 * size]
    BY <1>2 DEF Clamped, size
  <2>4. (2 * size) \div 2 = size
    BY <2>2
  <2>5. SizeOf(c) = c.radius \div 2
    BY <1>2 DEF SizeOf
  <2> QED
    BY <1>2, <2>2, <2>3, <2>4, <2>5 DEF Camera, SizeOf, size
<1>3. CASE c.projection = "orthographic"
  <2>1. Clamp(c.half) \in Int
    BY <1>1, ClampInt
  <2>2. Clamped(c) = [c EXCEPT !.half = Clamp(c.half)]
    BY <1>3 DEF Clamped
  <2> QED
    BY <1>3, <2>1, <2>2 DEF Camera, SizeOf
<1> QED
  BY <1>1, <1>2, <1>3 DEF Projections

LEMMA ApplyKeeps ==
    ASSUME LimitsOK(limits), NEW c \in Camera, Apply(c)
    PROVE  /\ cam' \in Camera /\ cam'.projection = c.projection /\ cam'.target = c.target
           /\ SizeOf(cam') = Clamp(SizeOf(c))
  BY ClampedCamera DEF Apply

\* With two pointers pressed there is one, and another one.
LEMMA TwoInt ==
    ASSUME NEW ps, Pressed(ps), Two(ps)
    PROVE  /\ Middle(ps) \in Int
           /\ Spread(ps) \in Nat \ {0}
           /\ DOMAIN ps # {}
<1>1. DOMAIN ps # {}
  BY FS_EmptySet DEF Two
<1>2. \A p \in DOMAIN ps : \E q \in DOMAIN ps : q # p
  <2>1. ASSUME NEW p \in DOMAIN ps, \A q \in DOMAIN ps : q = p
        PROVE  FALSE
    <3>1. DOMAIN ps = {p}
      BY <2>1
    <3>2. Cardinality({p}) = 1
      BY FS_Singleton
    <3> QED
      BY <3>1, <3>2 DEF Two
  <2> QED
    BY <2>1
<1> DEFINE p == CHOOSE p \in DOMAIN ps : TRUE
           q == CHOOSE q \in DOMAIN ps : q # p
<1>3. p \in DOMAIN ps
  BY <1>1
<1>4. q \in DOMAIN ps
  BY <1>2, <1>3
<1>5. ps[p] \in Int /\ ps[q] \in Int
  BY <1>3, <1>4 DEF Pressed
<1>6. Middle(ps) = (ps[p] + ps[q]) \div 2
  BY DEF Middle
<1>7. Spread(ps) = LET d == IF ps[p] > ps[q] THEN ps[p] - ps[q] ELSE ps[q] - ps[p]
                   IN  IF d = 0 THEN 1 ELSE d
  BY DEF Spread
<1> HIDE DEF p, q
<1>8. (ps[p] + ps[q]) \div 2 \in Int
  BY <1>5
<1> QED
  BY <1>1, <1>5, <1>6, <1>7, <1>8

-----------------------------------------------------------------------------
(* The camera's handlers: each keeps the types, a gesture with a pointer,  *)
(* and the projection.                                                     *)

Held == gesture # "none" => DOMAIN pointers # {}

Kept == cam' \in Camera /\ cam'.projection = cam.projection /\ InputType' /\ Held'

LEMMA EndMoveKeeps ==
    ASSUME CamType, EndMove, cam' \in Camera, cam'.projection = cam.projection,
           pinch' \in Int, Pressed(pointers')
    PROVE  Kept
  BY DEF CamType, InputType, EndMove, Kept, Held

\* A camera brought to another target, turned or scaled and then applied.
LEMMA RetargetKeeps ==
    ASSUME CamType, NEW t, Apply([cam EXCEPT !.target = t])
    PROVE  cam' \in Camera /\ cam'.projection = cam.projection
<1> DEFINE c == [cam EXCEPT !.target = t]
<1>1. cam \in Camera /\ LimitsOK(limits)
  BY DEF CamType
<1>2. c.target = t
  BY <1>1 DEF Camera
<1>3. t \in Int
  BY <1>2 DEF Apply
<1>4. c \in Camera /\ c.projection = cam.projection
  BY <1>1, <1>3 DEF Camera
<1> HIDE DEF c
<1> QED
  BY <1>1, <1>4, ApplyKeeps DEF c

LEMMA TurnKeeps ==
    ASSUME CamType, NEW delta \in Int, OrbitDelta(delta)
    PROVE  cam' \in Camera /\ cam'.projection = cam.projection
<1> DEFINE c == Turned(cam, delta)
<1>1. cam \in Camera /\ LimitsOK(limits)
  BY DEF CamType
<1>2. cam.angle \in Int
  BY <1>1 DEF Camera
<1>3. (cam.angle + delta) % Angles \in Int
  BY <1>2, ScreenAssumption
<1>4. c \in Camera /\ c.projection = cam.projection
  BY <1>1, <1>3 DEF Camera, Turned
<1> HIDE DEF c
<1> QED
  BY <1>1, <1>4, ApplyKeeps DEF c, OrbitDelta

LEMMA RescaledCamera ==
    ASSUME NEW c \in Camera, NEW scale \in Int
    PROVE  /\ Rescaled(c, scale) \in Camera
           /\ Rescaled(c, scale).projection = c.projection
           /\ Rescaled(c, scale).target = c.target
  BY DEF Camera, Rescaled

\* The pan moves the camera it is given, which is the one on screen or that one pinched.
LEMMA PanKeeps ==
    ASSUME CamType, NEW c \in Camera, c.projection = cam.projection,
           NEW x \in Int, UpdatePan(c, x)
    PROVE  cam' \in Camera /\ cam'.projection = cam.projection /\ panLast' \in Int
<1> DEFINE t == c.target + (panLast - World(cam, x))
           d == [c EXCEPT !.target = t]
<1>1. cam \in Camera /\ LimitsOK(limits) /\ panLast \in Int
  BY DEF CamType, InputType
<1>2. World(cam, x) \in Int
  BY <1>1, SizeInt
<1>3. t \in Int
  BY <1>1, <1>2 DEF Camera
<1> HIDE DEF t
<1>4. d \in Camera /\ d.projection = c.projection
  BY <1>3 DEF Camera
<1>5. Apply(d) /\ panLast' = World(cam, x)
  BY DEF UpdatePan, t
<1> HIDE DEF d
<1> QED
  BY <1>1, <1>2, <1>4, <1>5, ApplyKeeps

LEMMA DownKeeps ==
    ASSUME CamType, Held, NEW p, NEW x \in Int, NEW kind, OnPointerDown(p, x, kind)
    PROVE  /\ Kept /\ UNCHANGED <<limits, suppressed>>
           /\ DOMAIN pointers' = DOMAIN pointers \cup {p}
<1> DEFINE ps == [q \in DOMAIN pointers \cup {p} |-> IF q = p THEN x ELSE pointers[q]]
<1>1. pointers' = ps /\ UNCHANGED <<limits, suppressed>>
  BY DEF OnPointerDown
<1>2. Pressed(ps) /\ DOMAIN ps = DOMAIN pointers \cup {p}
  BY DEF CamType, InputType, Pressed
<1>3. cam \in Camera /\ LimitsOK(limits) /\ InputType
  BY DEF CamType
<1>4. CASE Two(ps)
  <2>1. StartPan(Middle(ps)) /\ pinch' = Spread(ps) * Scale(cam) /\ UNCHANGED cam
    BY <1>4 DEF OnPointerDown
  <2> HIDE DEF ps
  <2>2. Middle(ps) \in Int /\ Spread(ps) \in Int
    BY <1>2, <1>4, TwoInt
  <2>3. Scale(cam) \in Int
    BY <1>3 DEF Scale, Camera
  <2>4. pinch' \in Int
    BY <2>1, <2>2, <2>3
  <2>5. gesture' = "pan" /\ lastX' = 0 /\ panLast' \in Int
    BY <1>3, <2>1, <2>2, SizeInt DEF StartPan
  <2> QED
    BY <1>1, <1>2, <1>3, <2>1, <2>4, <2>5 DEF Kept, InputType, Held
<1>5. CASE kind = "orbit" /\ StartOrbit(x)
  <2>1. cam' \in Camera /\ cam'.projection = cam.projection
    BY <1>5, RetargetKeeps DEF StartOrbit
  <2>2. gesture' = "orbit" /\ lastX' = x /\ panLast' = 0 /\ pinch' = pinch
    BY <1>5 DEF StartOrbit
  <2> HIDE DEF ps
  <2> QED
    BY <1>1, <1>2, <1>3, <2>1, <2>2 DEF Kept, InputType, Held
<1>6. CASE kind = "pan" /\ StartPan(x) /\ UNCHANGED <<cam, pinch>>
  <2>1. gesture' = "pan" /\ lastX' = 0 /\ panLast' \in Int
    BY <1>3, <1>6, SizeInt DEF StartPan
  <2> HIDE DEF ps
  <2> QED
    BY <1>1, <1>2, <1>3, <1>6, <2>1 DEF Kept, InputType, Held
<1>7. CASE UNCHANGED <<cam, gesture, panLast, lastX, pinch>>
  <2> HIDE DEF ps
  <2> QED
    BY <1>1, <1>2, <1>3, <1>7 DEF Kept, InputType, Held
<1> QED
  BY <1>4, <1>5, <1>6, <1>7 DEF OnPointerDown

LEMMA MoveKeeps ==
    ASSUME CamType, Held, NEW p, NEW x \in Int, OnPointerMove(p, x)
    PROVE  /\ Kept /\ UNCHANGED <<limits, suppressed>>
           /\ DOMAIN pointers' = DOMAIN pointers
<1> DEFINE ps == [q \in DOMAIN pointers |-> IF q = p THEN x ELSE pointers[q]]
<1>1. pointers' = ps /\ UNCHANGED <<limits, suppressed, pinch>>
  BY DEF OnPointerMove
<1>2. Pressed(ps) /\ DOMAIN ps = DOMAIN pointers
  BY DEF CamType, InputType, Pressed
<1>3. cam \in Camera /\ LimitsOK(limits) /\ InputType
  BY DEF CamType
<1>4. CASE Two(ps)
  <2> DEFINE pinched == Rescaled(cam, pinch \div Spread(ps))
  <2>1. IF gesture = "pan"
        THEN UpdatePan(pinched, Middle(ps)) /\ UNCHANGED <<gesture, lastX>>
        ELSE StartPan(Middle(ps)) /\ Apply(pinched)
    BY <1>4 DEF OnPointerMove
  <2> HIDE DEF ps
  <2>2. Middle(ps) \in Int /\ Spread(ps) \in Nat \ {0} /\ DOMAIN ps # {}
    BY <1>2, <1>4, TwoInt
  <2>3. pinch \div Spread(ps) \in Int
    BY <1>3, <2>2 DEF InputType
  <2>4. pinched \in Camera /\ pinched.projection = cam.projection
    BY <1>3, <2>3, RescaledCamera
  <2> HIDE DEF pinched
  <2>5. CASE gesture = "pan"
    <3>1. cam' \in Camera /\ cam'.projection = cam.projection /\ panLast' \in Int
      BY <2>1, <2>2, <2>4, <2>5, PanKeeps
    <3> QED
      BY <1>1, <1>2, <1>3, <2>1, <2>2, <2>5, <3>1 DEF Kept, InputType, Held
  <2>6. CASE gesture # "pan"
    <3>1. cam' \in Camera /\ cam'.projection = cam.projection
      BY <1>3, <2>1, <2>4, <2>6, ApplyKeeps
    <3>2. gesture' = "pan" /\ lastX' = 0 /\ panLast' \in Int
      BY <1>3, <2>1, <2>2, <2>6, SizeInt DEF StartPan
    <3> QED
      BY <1>1, <1>2, <1>3, <2>2, <3>1, <3>2 DEF Kept, InputType, Held
  <2> QED
    BY <2>5, <2>6
<1>5. CASE /\ gesture = "orbit" /\ OrbitDelta((x - lastX) \div 2) /\ lastX' = x
           /\ UNCHANGED <<gesture, panLast>>
  <2>1. (x - lastX) \div 2 \in Int
    BY <1>3 DEF InputType
  <2>2. cam' \in Camera /\ cam'.projection = cam.projection
    BY <1>5, <2>1, TurnKeeps
  <2> HIDE DEF ps
  <2> QED
    BY <1>1, <1>2, <1>3, <1>5, <2>2 DEF Kept, InputType, Held
<1>6. CASE UpdatePan(cam, x) /\ UNCHANGED <<gesture, lastX>>
  <2>1. cam' \in Camera /\ cam'.projection = cam.projection /\ panLast' \in Int
    BY <1>3, <1>6, PanKeeps
  <2> HIDE DEF ps
  <2> QED
    BY <1>1, <1>2, <1>3, <1>6, <2>1 DEF Kept, InputType, Held
<1>7. CASE UNCHANGED <<cam, gesture, panLast, lastX>>
  <2> HIDE DEF ps
  <2> QED
    BY <1>1, <1>2, <1>3, <1>7 DEF Kept, InputType, Held
<1> QED
  BY <1>4, <1>5, <1>6, <1>7 DEF OnPointerMove

\* The gesture goes on only with a pointer that is left.
LEMMA UpKeeps ==
    ASSUME CamType, Held, NEW p, OnPointerUp(p)
    PROVE  /\ Kept /\ UNCHANGED <<cam, limits>>
           /\ DOMAIN pointers' = DOMAIN pointers \ {p}
<1>1. pointers' = Restrict(pointers, DOMAIN pointers \ {p})
  BY DEF OnPointerUp
<1>2. Pressed(pointers') /\ DOMAIN pointers' = DOMAIN pointers \ {p}
  BY <1>1 DEF CamType, InputType, Pressed, Restrict
<1>3. UNCHANGED <<cam, limits>> /\ pinch' \in Int
  BY DEF OnPointerUp, CamType, InputType
<1>4. CASE DOMAIN pointers \subseteq {p}
  BY <1>2, <1>3, <1>4, EndMoveKeeps DEF OnPointerUp, CamType
<1>5. CASE ~(DOMAIN pointers \subseteq {p})
  <2>1. UNCHANGED <<gesture, panLast, lastX>>
    BY <1>5 DEF OnPointerUp
  <2>2. DOMAIN pointers' # {}
    BY <1>2, <1>5
  <2> QED
    BY <1>2, <1>3, <2>1, <2>2 DEF Kept, InputType, Held, CamType
<1> QED
  BY <1>2, <1>3, <1>4, <1>5

\* The wheel: the scaled camera, then the same camera at another target.
LEMMA ZoomKeeps ==
    ASSUME CamType, Held, NEW x \in Int, NEW out \in BOOLEAN, ZoomAt(x, out)
    PROVE  /\ Kept /\ UNCHANGED <<limits, pointers, suppressed>>
           /\ World(cam', x) = World(cam, x)
<1> DEFINE scale == IF out THEN 2 * Scale(cam) ELSE Scale(cam) \div 2
           zoomed == Clamped(Rescaled(cam, scale))
           t == zoomed.target + World(cam, x) - World(zoomed, x)
           c == [zoomed EXCEPT !.target = t]
<1>1. cam \in Camera /\ LimitsOK(limits) /\ InputType
  BY DEF CamType
<1>2. Scale(cam) \in Int
  BY <1>1 DEF Scale, Camera
<1>3. scale \in Int
  BY <1>2
<1>4. /\ Apply(c) /\ EndMove
      /\ UNCHANGED <<limits, pointers, pinch, suppressed>>
  BY DEF ZoomAt
<1> HIDE DEF scale
<1> DEFINE r == Rescaled(cam, scale)
<1>5. r \in Camera /\ r.projection = cam.projection
  BY <1>1, <1>3, RescaledCamera
<1> HIDE DEF r
<1>6. /\ zoomed \in Camera /\ zoomed.projection = cam.projection
      /\ SizeOf(zoomed) = Clamp(SizeOf(r))
  BY <1>1, <1>5, ClampedCamera DEF r
<1> HIDE DEF zoomed
<1>7. Clamp(SizeOf(zoomed)) = SizeOf(zoomed)
  BY <1>1, <1>5, <1>6, SizeInt, ClampInt
<1>8. /\ zoomed.target \in Int /\ World(cam, x) \in Int /\ World(zoomed, x) \in Int
      /\ SizeOf(zoomed) \in Int
  BY <1>1, <1>6, SizeInt DEF Camera
<1>9. t \in Int
  BY <1>8
<1> HIDE DEF t
<1>10. /\ c \in Camera /\ c.projection = zoomed.projection /\ c.target = t
       /\ SizeOf(c) = SizeOf(zoomed)
  BY <1>6, <1>9 DEF Camera, SizeOf
<1> HIDE DEF c
<1>11. /\ cam' \in Camera /\ cam'.projection = cam.projection /\ cam'.target = t
       /\ SizeOf(cam') = SizeOf(zoomed)
  BY <1>1, <1>4, <1>6, <1>7, <1>10, ApplyKeeps
<1>12. World(cam', x) = World(cam, x)
  <2> DEFINE w == x * SizeOf(zoomed)
  <2>1. w \in Int
    BY <1>8
  <2>2. World(zoomed, x) = zoomed.target + w /\ World(cam', x) = t + w
    BY <1>11 DEF World
  <2> HIDE DEF w
  <2> QED
    BY <1>8, <2>1, <2>2 DEF t
<1>13. Kept
  BY <1>1, <1>4, <1>11, EndMoveKeeps DEF InputType
<1> QED
  BY <1>4, <1>12, <1>13

-----------------------------------------------------------------------------
(* The handles.                                                            *)

LEMMA ParamInt == \A v \in Int : ClampParam(v) \in Int
<1>1. MaxValue \in Int
  <2>1. PICK n \in Values : n \in Nat /\ Values = 0..n
    BY ValuesAssumption
  <2>2. \A u \in Values : u <= n
    BY <2>1
  <2>3. MaxValue \in Values
    BY <2>2 DEF MaxValue
  <2> QED
    BY <2>1, <2>3
<1> QED
  BY <1>1 DEF ClampParam

\* A handle that is held stays held, and one that is not does not become so.
LEMMA MoveDragKeeps ==
    ASSUME PageType, NEW x \in Int, MoveDrag(x)
    PROVE  /\ drag' \in Drags \cup {NoDrag} /\ (drag' = NoDrag <=> drag = NoDrag)
           /\ value' \in Int
<1>1. CASE drag = NoDrag
  BY <1>1 DEF MoveDrag, PageType
<1>2. CASE drag # NoDrag
  <2> DEFINE next == drag.startValue + (x - drag.startX) \div 2
  <2>1. drag \in Drags
    BY <1>2 DEF PageType
  <2>2. drag.startValue \in Int /\ drag.startX \in Int
    BY <2>1 DEF Drags
  <2>3. next \in Int
    BY <2>2
  <2>4. drag' = [drag EXCEPT !.lastValue = next] /\ value' = ClampParam(next)
    BY <1>2 DEF MoveDrag
  <2> HIDE DEF next
  <2>5. drag' \in Drags
    BY <2>1, <2>3, <2>4 DEF Drags
  <2> QED
    BY <1>2, <2>3, <2>4, <2>5, ParamInt, NoDragAssumption DEF Drags
<1> QED
  BY <1>1, <1>2

LEMMA EndDragKeeps ==
    ASSUME PageType, EndDrag
    PROVE  drag' = NoDrag /\ value' \in Int
<1>1. drag # NoDrag => drag.lastValue \in Int
  BY DEF PageType, Drags
<1> QED
  BY <1>1, ParamInt DEF EndDrag, PageType

-----------------------------------------------------------------------------
(* Whose the gesture is.                                                   *)

\* Held is GestureOwned's third part, of the map's domain.
Inv == TypeOK /\ Held /\ GestureOwned

\* What the camera counts is pressed, the mouse aside: the last part of GestureOwned.
Counted == \A p \in DOMAIN pointers : p \in down \/ (p = Mouse /\ ~captured)

LEMMA OwnedParts ==
    Held /\ (suppressed <=> drag # NoDrag) /\ (suppressed => gesture = "none") /\ Counted
        => GestureOwned
<1>1. DOMAIN pointers # {} => pointers # <<>>
  OBVIOUS
<1> QED
  BY <1>1 DEF GestureOwned, Held, Counted

LEMMA PressKeeps ==
    ASSUME Inv, NEW p \in Pointers, NEW x \in Pixels, NEW kind, NEW onHandle \in BOOLEAN,
           Press(p, x, kind, onHandle)
    PROVE  Inv' /\ cam'.projection = cam.projection
<1> USE DEF Inv
<1>1. x \in Int /\ CamType /\ PageType
  BY ScreenAssumption DEF TypeOK
<1>2. down' = down \cup {p} /\ UNCHANGED <<value, cube>>
  BY DEF Press
<1>3. CASE onHandle /\ kind = "orbit"
  <2>1. BeginDrag(x) /\ SetSuppressed(TRUE) /\ UNCHANGED captured
    BY <1>3 DEF Press
  <2>2. drag' \in Drags /\ drag' # NoDrag
    BY <1>1, <2>1, NoDragAssumption DEF BeginDrag, Drags, PageType
  <2>3. /\ EndMove /\ suppressed' = TRUE
        /\ UNCHANGED <<cam, limits, pointers, pinch>>
    BY <2>1 DEF SetSuppressed
  <2>4. Kept
    BY <1>1, <2>3, EndMoveKeeps DEF CamType, InputType
  <2>5. TypeOK'
    BY <1>1, <1>2, <2>1, <2>2, <2>3, <2>4 DEF TypeOK, CamType, PageType, Kept
  <2>6. Counted'
    BY <1>2, <2>1, <2>3 DEF Counted, GestureOwned
  <2>7. gesture' = "none"
    BY <2>3 DEF EndMove
  <2> QED
    BY <2>2, <2>3, <2>4, <2>5, <2>6, <2>7, OwnedParts DEF Kept, Held, GestureOwned, Counted
<1>4. CASE ~(onHandle /\ kind = "orbit")
  <2>1. /\ Gated(OnPointerDown(p, x, kind)) /\ UNCHANGED drag
        /\ captured' = (captured \/ (p = Mouse /\ ~suppressed /\ (kind # "none" \/ Two(pointers'))))
    BY <1>4 DEF Press
  <2>2. captured' \in BOOLEAN
    BY <1>1, <2>1 DEF PageType
  <2>3. captured' => captured \/ p = Mouse
    BY <2>1
  <2>4. CASE suppressed
    <3>1. UNCHANGED camVars
      BY <2>1, <2>4 DEF Gated
    <3>2. captured' = captured
      BY <1>1, <2>1, <2>4 DEF PageType
    <3> QED
      BY <1>1, <1>2, <2>1, <3>1, <3>2
      DEF camVars, TypeOK, CamType, InputType, Pressed, PageType, Held, GestureOwned
  <2>5. CASE ~suppressed
    <3>1. /\ Kept /\ UNCHANGED <<limits, suppressed>>
          /\ DOMAIN pointers' = DOMAIN pointers \cup {p}
      BY <1>1, <2>1, <2>5, DownKeeps DEF Gated
    <3>2. TypeOK'
      BY <1>1, <1>2, <2>1, <2>2, <3>1 DEF TypeOK, CamType, PageType, Kept, LimitsOK
    <3>3. Counted'
      BY <1>2, <2>3, <3>1 DEF Counted, GestureOwned
    <3> QED
      BY <2>1, <2>5, <3>1, <3>2, <3>3, OwnedParts DEF Kept, Held, GestureOwned, Counted
  <2> QED
    BY <2>4, <2>5
<1> QED
  BY <1>3, <1>4

LEMMA SlideKeeps ==
    ASSUME Inv, NEW p \in Pointers, NEW x \in Pixels, Slide(p, x)
    PROVE  Inv' /\ cam'.projection = cam.projection
<1> USE DEF Inv
<1>1. x \in Int /\ CamType /\ PageType
  BY ScreenAssumption DEF TypeOK
<1>2. Gated(OnPointerMove(p, x)) /\ MoveDrag(x) /\ UNCHANGED <<down, captured, cube>>
  BY DEF Slide
<1>3. drag' \in Drags \cup {NoDrag} /\ (drag' = NoDrag <=> drag = NoDrag) /\ value' \in Int
  BY <1>1, <1>2, MoveDragKeeps
<1>4. CASE suppressed
  <2>1. UNCHANGED camVars
    BY <1>2, <1>4 DEF Gated
  <2> QED
    BY <1>1, <1>2, <1>3, <2>1
    DEF camVars, TypeOK, CamType, InputType, Pressed, PageType, Held, GestureOwned
<1>5. CASE ~suppressed
  <2>1. /\ Kept /\ UNCHANGED <<limits, suppressed>>
        /\ DOMAIN pointers' = DOMAIN pointers
    BY <1>1, <1>2, <1>5, MoveKeeps DEF Gated
  <2>2. TypeOK'
    BY <1>1, <1>2, <1>3, <2>1 DEF TypeOK, CamType, PageType, Kept, LimitsOK
  <2>3. Counted'
    BY <1>2, <2>1 DEF Counted, GestureOwned
  <2> QED
    BY <1>3, <1>5, <2>1, <2>2, <2>3, OwnedParts DEF Kept, Held, GestureOwned, Counted
<1> QED
  BY <1>4, <1>5

\* A mouse that is let go of outside has not been captured.
LEMMA ReleaseKeeps ==
    ASSUME Inv, NEW p \in Pointers, NEW inside \in BOOLEAN, Release(p, inside)
    PROVE  Inv' /\ UNCHANGED cam
<1> USE DEF Inv
<1>1. CamType /\ PageType
  BY DEF TypeOK
<1>2. /\ down' = down \ {p} /\ captured' = (captured /\ p # Mouse)
      /\ inside \/ (p = Mouse /\ ~captured)
      /\ EndDrag /\ UNCHANGED cube
      /\ IF inside THEN OnPointerUp(p) ELSE UNCHANGED <<cam, limits, input>>
  BY DEF Release
<1>3. drag' = NoDrag /\ value' \in Int
  BY <1>1, <1>2, EndDragKeeps
<1>4. suppressed' = FALSE
  BY <1>1, <1>2 DEF EndDrag, GestureOwned, CamType
<1>5. Kept /\ UNCHANGED <<cam, limits>>
  <2>1. CASE inside
    BY <1>1, <1>2, <2>1, UpKeeps
  <2>2. CASE ~inside
    BY <1>1, <1>2, <2>2 DEF input, Kept, InputType, Pressed, Held, CamType
  <2> QED
    BY <2>1, <2>2
<1>6. captured' \in BOOLEAN
  BY <1>1, <1>2 DEF PageType
<1>7. TypeOK'
  BY <1>1, <1>2, <1>3, <1>4, <1>5, <1>6 DEF TypeOK, CamType, PageType, Kept, LimitsOK
<1>8. Counted'
  <2>1. CASE inside
    <3>1. DOMAIN pointers' = DOMAIN pointers \ {p}
      BY <1>1, <1>2, <2>1, UpKeeps
    <3> QED
      BY <1>2, <3>1 DEF Counted, GestureOwned
  <2>2. CASE ~inside
    BY <1>2, <2>2 DEF input, Counted, GestureOwned
  <2> QED
    BY <2>1, <2>2
<1> QED
  BY <1>3, <1>4, <1>5, <1>7, <1>8, OwnedParts DEF Kept, Held, GestureOwned, Counted

LEMMA CancelKeeps ==
    ASSUME Inv, NEW p \in Fingers, Cancel(p)
    PROVE  Inv' /\ UNCHANGED cam
<1> USE DEF Inv
<1>1. CamType /\ PageType
  BY DEF TypeOK
<1>2. /\ down' = down \ {p} /\ OnPointerUp(p)
      /\ UNCHANGED <<suppressed, captured, value, drag, cube>>
  BY DEF Cancel
<1>3. Kept /\ UNCHANGED <<cam, limits>> /\ DOMAIN pointers' = DOMAIN pointers \ {p}
  BY <1>1, <1>2, UpKeeps
<1>4. TypeOK'
  BY <1>1, <1>2, <1>3 DEF TypeOK, CamType, PageType, Kept, LimitsOK
<1>5. Counted'
  BY <1>2, <1>3 DEF Counted, GestureOwned
<1>6. suppressed' => gesture' = "none"
  <2>1. gesture' \in {"none", gesture}
    BY <1>2 DEF OnPointerUp, EndMove
  <2> QED
    BY <1>2, <2>1 DEF GestureOwned
<1> QED
  BY <1>2, <1>3, <1>4, <1>5, <1>6, OwnedParts DEF Kept, Held, GestureOwned, Counted

\* The camera moves or turns, and neither the pointers nor the handle has anything to do with it.
LEMMA CameraOnly ==
    ASSUME Inv, cam' \in Camera, cam'.projection \in Projections, LimitsOK(limits)',
           UNCHANGED <<input, suppressed, down, captured, drag, cube>>, value' \in Int
    PROVE  Inv'
  BY DEF Inv, TypeOK, CamType, InputType, Pressed, PageType, Held, GestureOwned, input

LEMMA WheelKeeps ==
    ASSUME Inv, NEW x \in Pixels, NEW out \in BOOLEAN, Wheel(x, out)
    PROVE  Inv' /\ cam'.projection = cam.projection /\ World(cam', x) = World(cam, x)
<1> USE DEF Inv
<1>1. x \in Int /\ CamType /\ PageType
  BY ScreenAssumption DEF TypeOK
<1>2. Gated(ZoomAt(x, out)) /\ UNCHANGED page
  BY DEF Wheel
<1>3. CASE suppressed
  <2>1. UNCHANGED camVars
    BY <1>2, <1>3 DEF Gated
  <2> QED
    BY <1>1, <1>2, <2>1
    DEF camVars, page, TypeOK, CamType, InputType, Pressed, PageType, Held, GestureOwned, World,
        SizeOf
<1>4. CASE ~suppressed
  <2>1. /\ Kept /\ UNCHANGED <<limits, pointers, suppressed>>
        /\ World(cam', x) = World(cam, x)
    BY <1>1, <1>2, <1>4, ZoomKeeps DEF Gated
  <2>2. TypeOK'
    BY <1>1, <1>2, <2>1 DEF TypeOK, CamType, PageType, Kept, LimitsOK, page
  <2>3. Counted'
    BY <1>2, <2>1 DEF Counted, GestureOwned, page
  <2> QED
    BY <1>2, <1>4, <2>1, <2>2, <2>3, OwnedParts DEF Kept, Held, GestureOwned, Counted, page
<1> QED
  BY <1>3, <1>4

LEMMA DoubleClickKeeps ==
    ASSUME Inv, NEW x \in Pixels, DoubleClick(x)
    PROVE  Inv' /\ cam'.projection = cam.projection
<1> USE DEF Inv
<1>1. CamType /\ PageType
  BY DEF TypeOK
<1>2. Gated(FocusAt(x)) /\ UNCHANGED page
  BY DEF DoubleClick
<1>3. CASE suppressed
  <2>1. UNCHANGED camVars
    BY <1>2, <1>3 DEF Gated
  <2> QED
    BY <1>1, <1>2, <2>1
    DEF camVars, page, TypeOK, CamType, InputType, Pressed, PageType, Held, GestureOwned
<1>4. CASE ~suppressed
  <2>1. /\ Apply([cam EXCEPT !.target = World(cam, x)])
        /\ UNCHANGED <<limits, input, suppressed>>
    BY <1>2, <1>4 DEF Gated, FocusAt
  <2>2. cam' \in Camera /\ cam'.projection = cam.projection
    BY <1>1, <2>1, RetargetKeeps
  <2>3. value' \in Int /\ LimitsOK(limits)' /\ cam'.projection \in Projections
    BY <1>1, <1>2, <2>1, <2>2 DEF page, PageType, CamType, LimitsOK, Camera
  <2> QED
    BY <1>2, <2>1, <2>2, <2>3, CameraOnly DEF page
<1> QED
  BY <1>3, <1>4

-----------------------------------------------------------------------------
(* The view cube, the keys and the host.                                   *)

LEMMA FitKeeps ==
    ASSUME cam \in Camera, NEW center \in Int, NEW size \in Int
    PROVE  FitTo(center, size) \in Camera /\ FitTo(center, size).projection = cam.projection
<1>1. cam.projection \in Projections /\ cam.radius \in Int /\ cam.half \in Int
  BY DEF Camera
<1> DEFINE radius == IF cam.projection = "perspective" THEN 2 * size ELSE cam.radius
           half == IF cam.projection = "orthographic" THEN size ELSE cam.half
<1>2. radius \in Int /\ half \in Int
  BY <1>1
<1>3. FitTo(center, size) = [cam EXCEPT !.target = center, !.radius = radius, !.half = half]
  BY DEF FitTo
<1> HIDE DEF radius, half
<1> QED
  BY <1>2, <1>3 DEF Camera

LEMMA LookKeeps ==
    ASSUME CamType, NEW angle \in 0..(Angles - 1), LookDir(angle)
    PROVE  cam' \in Camera /\ cam'.projection = cam.projection
<1> DEFINE c == [cam EXCEPT !.angle = angle]
<1>1. cam \in Camera /\ LimitsOK(limits)
  BY DEF CamType
<1>2. c \in Camera /\ c.projection = cam.projection
  BY <1>1, ScreenAssumption DEF Camera
<1>3. Apply(c)
  BY DEF LookDir
<1> HIDE DEF c
<1> QED
  BY <1>1, <1>2, <1>3, ApplyKeeps

\* The length the new projection uses is the one the old one used, within the limits.
LEMMA ProjectionKeeps ==
    ASSUME CamType, SetProjection
    PROVE  /\ cam' \in Camera /\ cam'.projection # cam.projection
           /\ cam'.target = cam.target /\ SizeOf(cam') = Clamp(SizeOf(cam))
<1>1. cam \in Camera /\ LimitsOK(limits) /\ SizeOf(cam) \in Int
  BY SizeInt DEF CamType
<1>2. CASE cam.projection = "perspective"
  <2>1. PICK c : /\ c = [cam EXCEPT !.half = SizeOf(cam), !.projection = "orthographic"]
                 /\ Apply(c)
    BY <1>2 DEF SetProjection
  <2>2. /\ c \in Camera /\ c.projection = "orthographic" /\ c.target = cam.target
        /\ c.half = SizeOf(cam)
    BY <1>1, <2>1 DEF Camera, Projections
  <2>3. SizeOf(c) = SizeOf(cam)
    BY <2>2 DEF SizeOf
  <2> QED
    BY <1>1, <1>2, <2>1, <2>2, <2>3, ApplyKeeps
<1>3. CASE cam.projection # "perspective"
  <2>1. PICK c : /\ c = [cam EXCEPT !.radius = 2 * SizeOf(cam), !.projection = "perspective"]
                 /\ Apply(c)
    BY <1>3 DEF SetProjection
  <2>2. 2 * SizeOf(cam) \in Int /\ (2 * SizeOf(cam)) \div 2 = SizeOf(cam)
    BY <1>1
  <2>3. /\ c \in Camera /\ c.projection = "perspective" /\ c.target = cam.target
        /\ c.radius = 2 * SizeOf(cam)
    BY <1>1, <2>1, <2>2 DEF Camera, Projections
  <2>4. SizeOf(c) = SizeOf(cam)
    BY <2>2, <2>3 DEF SizeOf
  <2> QED
    BY <1>1, <1>3, <2>1, <2>3, <2>4, ApplyKeeps
<1> QED
  BY <1>2, <1>3

LEMMA ViewKeyKeeps ==
    ASSUME Inv, NEW focus \in Foci, ViewKey(focus)
    PROVE  Inv' /\ (cam'.projection = cam.projection \/ SetProjection)
<1> USE DEF Inv
<1>1. CamType /\ PageType
  BY DEF TypeOK
<1>2. UNCHANGED <<limits, input, suppressed, page>>
  BY DEF ViewKey
<1>5. cam' \in Camera /\ (cam'.projection = cam.projection \/ SetProjection)
  <2>1. CASE Fit
    <3>1. Apply(FitTo(0, limits[1]))
      BY <2>1 DEF Fit, FitSphere
    <3>2. limits[1] \in Int
      BY <1>1 DEF CamType, LimitsOK
    <3>3. FitTo(0, limits[1]) \in Camera /\ FitTo(0, limits[1]).projection = cam.projection
      BY <1>1, <3>2, FitKeeps DEF CamType
    <3> QED
      BY <1>1, <3>1, <3>3, ApplyKeeps DEF CamType
  <2>2. CASE SetProjection
    BY <1>1, <2>2, ProjectionKeeps
  <2>3. CASE \E angle \in 0..(Angles - 1) : LookDir(angle)
    BY <1>1, <2>3, LookKeeps
  <2> QED
    BY <2>1, <2>2, <2>3 DEF ViewKey
<1>6. value' \in Int /\ LimitsOK(limits)' /\ cam'.projection \in Projections
  BY <1>1, <1>2, <1>5 DEF page, PageType, CamType, LimitsOK, Camera
<1> QED
  BY <1>2, <1>5, <1>6, CameraOnly DEF page

LEMMA SetBodiesKeeps ==
    ASSUME Inv, NEW extent \in Extents, NEW fit \in BOOLEAN, SetBodies(extent, fit)
    PROVE  Inv' /\ cam'.projection = cam.projection
<1> USE DEF Inv
<1>1. CamType /\ PageType /\ cam \in Camera
  BY DEF TypeOK, CamType
<1>2. LimitsOK(limits)' /\ extent[1] \in Int
  BY LimitsAssumption DEF LimitsOK, SetBodies
<1>3. cam' \in Camera /\ cam'.projection = cam.projection
  BY <1>1, <1>2, FitKeeps DEF SetBodies
<1>4. value' \in Int /\ UNCHANGED <<input, suppressed, page>> /\ cam'.projection \in Projections
  BY <1>1, <1>3 DEF SetBodies, page, PageType, Camera
<1> QED
  BY <1>2, <1>3, <1>4, CameraOnly DEF page

LEMMA CubeMoveKeeps ==
    ASSUME Inv, NEW x \in Pixels, NEW far \in BOOLEAN, CubeMove(x, far)
    PROVE  Inv' /\ cam'.projection = cam.projection
<1> USE DEF Inv
<1>1. CamType /\ PageType /\ x \in Int
  BY ScreenAssumption DEF TypeOK
<1>2. /\ OrbitDelta(1) /\ MoveDrag(x)
      /\ cube' \in {cube, "moved"}
      /\ UNCHANGED <<limits, input, suppressed, down, captured>>
  BY DEF CubeMove
<1>3. cam' \in Camera /\ cam'.projection = cam.projection
  BY <1>1, <1>2, TurnKeeps
<1>4. drag' \in Drags \cup {NoDrag} /\ (drag' = NoDrag <=> drag = NoDrag) /\ value' \in Int
  BY <1>1, <1>2, MoveDragKeeps
<1> QED
  BY <1>1, <1>2, <1>3, <1>4
  DEF TypeOK, CamType, InputType, Pressed, PageType, Held, GestureOwned, input, LimitsOK

LEMMA CubeReleaseKeeps ==
    ASSUME Inv, NEW cancelled \in BOOLEAN, NEW onFace \in BOOLEAN,
           NEW angle \in 0..(Angles - 1), CubeRelease(cancelled, onFace, angle)
    PROVE  Inv' /\ cam'.projection = cam.projection
<1> USE DEF Inv
<1>1. CamType /\ PageType
  BY DEF TypeOK
<1>2. /\ cube' = "idle" /\ UNCHANGED <<limits, input, down, captured>>
      /\ LookDir(angle) \/ UNCHANGED cam
      /\ IF cancelled THEN UNCHANGED <<drag, value, suppressed>> ELSE EndDrag
  BY DEF CubeRelease
<1>3. cam' \in Camera /\ cam'.projection = cam.projection
  BY <1>1, <1>2, LookKeeps DEF CamType
<1>4. CASE cancelled
  BY <1>1, <1>2, <1>3, <1>4
  DEF TypeOK, CamType, InputType, Pressed, PageType, Held, GestureOwned, input, LimitsOK
<1>5. CASE ~cancelled
  <2>1. drag' = NoDrag /\ value' \in Int
    BY <1>1, <1>2, <1>5, EndDragKeeps
  <2>2. suppressed' = FALSE
    BY <1>1, <1>2, <1>5 DEF EndDrag, GestureOwned, CamType
  <2> QED
    BY <1>1, <1>2, <1>3, <2>1, <2>2
    DEF TypeOK, CamType, InputType, Pressed, PageType, Held, GestureOwned, input, LimitsOK
<1> QED
  BY <1>4, <1>5

LEMMA CubePressKeeps == Inv /\ CubePress => Inv' /\ UNCHANGED cam
  BY DEF CubePress, camVars, Inv, TypeOK, CamType, InputType, Pressed, PageType, Held,
         GestureOwned, LimitsOK

LEMMA StoreSetsKeeps ==
    ASSUME Inv, NEW v \in Values, StoreSets(v)
    PROVE  Inv' /\ UNCHANGED cam
<1>1. v \in Int
  BY ValuesAssumption
<1> QED
  BY <1>1 DEF StoreSets, camVars, Inv, TypeOK, CamType, InputType, Pressed, PageType, Held,
         GestureOwned, LimitsOK

-----------------------------------------------------------------------------
(* The theorems.                                                           *)

\* Each step keeps the invariant, and only the command that says so changes the projection.
LEMMA InvStep ==
    ASSUME Inv, [Next]_vars
    PROVE  /\ Inv'
           /\ cam'.projection = cam.projection \/ SetProjection
<1>1. CASE UNCHANGED vars
  BY <1>1 DEF vars, camVars, page, Inv, TypeOK, CamType, InputType, Pressed, PageType, Held,
              GestureOwned, LimitsOK
<1>2. CASE OnCanvas
  <2>1. ASSUME NEW p \in Pointers, NEW x \in Pixels, NEW kind, NEW onHandle \in BOOLEAN,
               Press(p, x, kind, onHandle)
        PROVE  Inv' /\ cam'.projection = cam.projection
    BY <2>1, PressKeeps
  <2>2. ASSUME NEW p \in Pointers, NEW x \in Pixels, Slide(p, x)
        PROVE  Inv' /\ cam'.projection = cam.projection
    BY <2>2, SlideKeeps
  <2>3. ASSUME NEW p \in Pointers, NEW inside \in BOOLEAN, Release(p, inside)
        PROVE  Inv' /\ cam'.projection = cam.projection
    BY <2>3, ReleaseKeeps
  <2>4. ASSUME NEW p \in Fingers, Cancel(p)
        PROVE  Inv' /\ cam'.projection = cam.projection
    BY <2>4, CancelKeeps
  <2>5. ASSUME NEW x \in Pixels, NEW out \in BOOLEAN, Wheel(x, out)
        PROVE  Inv' /\ cam'.projection = cam.projection
    BY <2>5, WheelKeeps
  <2>6. ASSUME NEW x \in Pixels, DoubleClick(x)
        PROVE  Inv' /\ cam'.projection = cam.projection
    BY <2>6, DoubleClickKeeps
  <2> QED
    BY <1>2, <2>1, <2>2, <2>3, <2>4, <2>5, <2>6 DEF OnCanvas
<1>3. CASE CubePress
  BY <1>3, CubePressKeeps
<1>4. ASSUME NEW x \in Pixels, NEW far \in BOOLEAN, CubeMove(x, far)
      PROVE  Inv' /\ cam'.projection = cam.projection
  BY <1>4, CubeMoveKeeps
<1>5. ASSUME NEW cancelled \in BOOLEAN, NEW onFace \in BOOLEAN,
             NEW angle \in 0..(Angles - 1), CubeRelease(cancelled, onFace, angle)
      PROVE  Inv' /\ cam'.projection = cam.projection
  BY <1>5, CubeReleaseKeeps
<1>6. ASSUME NEW focus \in Foci, ViewKey(focus)
      PROVE  Inv' /\ (cam'.projection = cam.projection \/ SetProjection)
  BY <1>6, ViewKeyKeeps
<1>7. ASSUME NEW extent \in Extents, NEW fit \in BOOLEAN, SetBodies(extent, fit)
      PROVE  Inv' /\ cam'.projection = cam.projection
  BY <1>7, SetBodiesKeeps
<1>8. ASSUME NEW v \in Values, StoreSets(v)
      PROVE  Inv' /\ cam'.projection = cam.projection
  BY <1>8, StoreSetsKeeps
<1> QED
  BY <1>1, <1>2, <1>3, <1>4, <1>5, <1>6, <1>7, <1>8 DEF Next

LEMMA InvInit == Init => Inv
<1> SUFFICES ASSUME Init PROVE Inv
  OBVIOUS
<1>1. cam = [target |-> 0, angle |-> 0, radius |-> 2, half |-> 1, projection |-> "perspective"]
  BY DEF Init, CamInit
<1>2. cam \in Camera
  BY <1>1 DEF Camera, Projections
<1>3. DOMAIN pointers = {} /\ Pressed(pointers)
  BY DEF Init, CamInit, Pressed
<1>4. CamType
  <2>1. LimitsOK(limits) /\ InputType
    BY <1>3, DefaultLimitsAssumption DEF Init, CamInit, InputType, LimitsOK
  <2>2. suppressed \in BOOLEAN
    BY Zenon DEF Init, CamInit
  <2> QED
    BY <1>2, <2>1, <2>2 DEF CamType
<1>5. PageType
  <2>1. value \in Int /\ drag \in Drags \cup {NoDrag} /\ cube \in {"idle", "pressed", "moved"}
    BY DEF Init
  <2>2. captured \in BOOLEAN
    BY Zenon DEF Init
  <2> QED
    BY <2>1, <2>2 DEF PageType
<1>6. Held /\ GestureOwned
  BY <1>3 DEF Init, CamInit, Held, GestureOwned
<1> QED
  BY <1>4, <1>5, <1>6 DEF Inv, TypeOK

LEMMA Invariant == Spec => []Inv
<1>1. Inv /\ [Next]_vars => Inv'
  BY InvStep
<1> QED
  BY <1>1, InvInit, PTL DEF Spec

\* The camera is held back exactly while a handle is held, and then it has no gesture; a gesture has a
\* pointer; every pointer the camera counts is pressed on its canvas, an uncaptured mouse aside: for
\* any fingers, sizes and values (pointer handlers of cad-viewport.js, editor-cam.js, gimbals.js).
THEOREM GestureIsOwned == Spec => []GestureOwned
<1>1. Inv => GestureOwned
  BY DEF Inv
<1> QED
  BY <1>1, Invariant, PTL

\* While a handle is held nothing done on the canvas moves the camera: each listener is gated, or
\* counts pointers only (the capturing listener of cad-viewport.js, setSuppressed of editor-cam.js).
THEOREM HandleHoldsCamera == Spec => DragOwnsPointer
<1>1. ASSUME Inv, suppressed, OnCanvas PROVE UNCHANGED cam
  <2>1. ASSUME NEW p \in Pointers, NEW x, NEW kind, NEW onHandle, Press(p, x, kind, onHandle)
        PROVE  UNCHANGED cam
    BY <1>1, <2>1 DEF Press, SetSuppressed, Gated, camVars
  <2>2. ASSUME NEW p \in Pointers, NEW x, Slide(p, x) PROVE UNCHANGED cam
    BY <1>1, <2>2 DEF Slide, Gated, camVars
  <2>3. ASSUME NEW p \in Pointers, NEW inside, Release(p, inside) PROVE UNCHANGED cam
    BY <2>3 DEF Release, OnPointerUp
  <2>4. ASSUME NEW p \in Fingers, Cancel(p) PROVE UNCHANGED cam
    BY <2>4 DEF Cancel, OnPointerUp
  <2>5. ASSUME NEW x, NEW out, Wheel(x, out) PROVE UNCHANGED cam
    BY <1>1, <2>5 DEF Wheel, Gated, camVars
  <2>6. ASSUME NEW x, DoubleClick(x) PROVE UNCHANGED cam
    BY <1>1, <2>6 DEF DoubleClick, Gated, camVars
  <2> QED
    BY <1>1, <2>1, <2>2, <2>3, <2>4, <2>5, <2>6 DEF OnCanvas
<1>2. Inv /\ [Next]_vars => [suppressed /\ cam' # cam => ~OnCanvas]_vars
  BY <1>1
<1> QED
  BY <1>2, Invariant, PTL DEF Spec, DragOwnsPointer

\* A change of projection keeps the size of what is seen, unless new bodies have just put it out of
\* their limits, and the wheel keeps the point under the cursor (apply and zoomAt of editor-cam.js).
THEOREM FramingIsKept == Spec => FramingKept
<1>1. ASSUME Inv, [Next]_vars, cam'.projection # cam.projection, Clamp(SizeOf(cam)) = SizeOf(cam)
      PROVE  SizeOf(cam') = SizeOf(cam) /\ cam'.target = cam.target
  <2>1. SetProjection
    BY <1>1, InvStep
  <2> QED
    BY <1>1, <2>1, ProjectionKeeps DEF Inv, TypeOK
<1>2. ASSUME Inv, NEW x \in Pixels, NEW out \in BOOLEAN, Wheel(x, out)
      PROVE  World(cam', x) = World(cam, x)
  BY <1>2, WheelKeeps
<1> DEFINE Framed ==
      cam' # cam =>
         /\ cam'.projection # cam.projection /\ Clamp(SizeOf(cam)) = SizeOf(cam)
              => SizeOf(cam') = SizeOf(cam) /\ cam'.target = cam.target
         /\ SizeOf(cam') # SizeOf(cam) /\ gesture' = "none" =>
              \A x \in Pixels, out \in BOOLEAN : Wheel(x, out) => World(cam', x) = World(cam, x)
<1>3. Inv /\ [Next]_vars => [Framed]_vars
  BY <1>1, <1>2
<1> QED
  BY <1>3, Invariant, PTL DEF Spec, FramingKept

=============================================================================
