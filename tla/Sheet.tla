------------------------------- MODULE Sheet -------------------------------
(***************************************************************************)
(* One row of the parameter sheet (src/agent-os/src/params/sheet.js and    *)
(* slider.js) over the parameter's value in the store (store.js,           *)
(* types.js): slider, number field and the timer that commits a scrub,     *)
(* against what changes the value from elsewhere.                          *)
(*                                                                         *)
(* Three parties hold the value, each with a rounding of its own: the      *)
(* slider rounds to the steps counted from min, the store to those and     *)
(* then to the multiples of step, the field not at all.  Steps are whole   *)
(* numbers, so that neither the decimals of a field nor those of a slider  *)
(* matter.  Switches and choices, which commit what was clicked, groups    *)
(* and layout are left out.                                                *)
(***************************************************************************)
EXTENDS Integers

CONSTANTS
    Low, High, Step,   \* min, max and step of the parameter
    Default,           \* its default, which need not be on a step
    Inputs,             \* numbers that are typed
    Bad,               \* a text that is no number
    NoTimer

ASSUME RangeAssumption ==
    /\ {Low, High, Default} \subseteq Int /\ Low < High /\ Step \in Nat \ {0}
    /\ Inputs \subseteq Int /\ Bad \notin Int /\ NoTimer \notin Int

VARIABLES
    value,      \* the store's
    slider,     \* what the slider is painted at
    num,        \* the text of the number field
    typed,      \* the text of the field is the user's
    timer,      \* value the commit timer will store
    dragging

rowVars == <<value, slider, num, typed, timer, dragging>>

-----------------------------------------------------------------------------
(* Roundings.                                                              *)

Within(v) == IF v < Low THEN Low ELSE IF v > High THEN High ELSE v

\* Math.round of a fraction
Round(a, b) == (2 * a + b) \div (2 * b)

Snap(v) == Low + Round(Within(v) - Low, Step) * Step

\* clampParam: rounded to a step from min, then to a multiple of step, then into the range.
ClampParam(v) == Within(Round(Snap(v), Step) * Step)

-----------------------------------------------------------------------------
(* store.set from the sheet: a change is announced to the row, which then  *)
(* shows the store's value; s and n are what the row has put there itself. *)

\* Mutant: the value is stored without being announced.
SetQuietly(v, s, n, force) ==
    value' = ClampParam(v) /\ slider' = s /\ num' = n /\ typed' = FALSE

Set(v, s, n, force) ==
    LET announced == ClampParam(v) # value \/ force IN
    /\ value' = ClampParam(v)
    /\ slider' = IF announced THEN Snap(ClampParam(v)) ELSE s
    /\ num' = IF announced THEN ClampParam(v) ELSE n
    /\ typed' = FALSE

ScheduleCommit(v, s) == Set(v, s, v, FALSE) /\ timer' = v

Commit(v) == Set(v, Snap(v), v, TRUE) /\ timer' = NoTimer

-----------------------------------------------------------------------------
(* The slider.                                                             *)

SliderDown(x) ==
    /\ ~dragging /\ dragging' = TRUE
    /\ ScheduleCommit(Snap(x), Snap(x))

SliderMove(x) ==
    /\ dragging
    /\ ScheduleCommit(Snap(x), Snap(x))
    /\ UNCHANGED dragging

\* Released or cancelled: where the slider is by now, not where the pointer is.
SliderUp ==
    /\ dragging /\ dragging' = FALSE
    /\ Commit(slider)

\* An arrow, a page or an end of the range.  The row may have moved the slider before it commits.
SliderKey(next) ==
    LET changed == ClampParam(Snap(next)) # value
        shown == IF changed THEN Snap(ClampParam(Snap(next))) ELSE Snap(next)
    IN  Commit(shown) /\ UNCHANGED dragging

\* The mark of the default is hidden while the slider is at the default.
DefaultMark == slider # Default /\ Commit(Default) /\ UNCHANGED dragging

-----------------------------------------------------------------------------
(* The number field.                                                       *)

\* What is typed is stored at once, clamped: when that changes the value, the row overwrites the field.
Type(t) ==
    /\ \/ t = Bad /\ num' = Bad /\ typed' = TRUE /\ UNCHANGED <<value, slider, timer>>
       \/ t # Bad /\ ClampParam(t) # value /\ ScheduleCommit(t, Snap(t))
       \/ /\ t # Bad /\ ClampParam(t) = value
          /\ slider' = Snap(t) /\ num' = t /\ typed' = TRUE /\ timer' = t
          /\ UNCHANGED value
    /\ UNCHANGED dragging

\* Enter, or the keyboard goes elsewhere; also when the row has overwritten what was typed.
Change ==
    /\ Commit(Within(IF num = Bad THEN Default ELSE num))
    /\ UNCHANGED dragging

-----------------------------------------------------------------------------
(* From elsewhere.                                                         *)

\* Mutant: the pending commit survives.
PatchKeepingTimer(v) ==
    /\ value' = v /\ slider' = Snap(v) /\ num' = v /\ typed' = FALSE
    /\ UNCHANGED <<timer, dragging>>

\* patchValues: the same rows with other values; what was pending is dropped.
Patch(v) ==
    /\ value' = v /\ slider' = Snap(v) /\ num' = v /\ typed' = FALSE
    /\ timer' = NoTimer
    /\ UNCHANGED dragging

\* render: other rows.  A slider that was being dragged is gone, its release goes nowhere.
Render(v) ==
    /\ value' = v /\ slider' = Within(v) /\ num' = v /\ typed' = FALSE
    /\ timer' = NoTimer /\ dragging' = FALSE

ResetRow == Patch(Default)

\* An undo, a restore or a harvest; the values it brings were the store's once, or are the default.
Replace(v, sameSchema) == IF sameSchema THEN Patch(v) ELSE Render(v)

\* A handle in the viewport: pressing it has released the slider and taken the keyboard.
Handle(v) ==
    /\ ~dragging /\ ~typed /\ timer = NoTimer
    /\ \E force \in BOOLEAN : Set(v, slider, num, force)
    /\ UNCHANGED <<timer, dragging>>

TimerFires ==
    /\ timer # NoTimer /\ timer' = NoTimer
    /\ Set(timer, slider, num, TRUE)
    /\ UNCHANGED dragging

-----------------------------------------------------------------------------

Positions == Low..High

RowInit ==
    /\ value = Default /\ slider = Within(Default) /\ num = Default
    /\ typed = FALSE /\ timer = NoTimer /\ dragging = FALSE

RowNext ==
    \/ \E x \in Positions : SliderDown(x) \/ SliderMove(x)
    \/ SliderUp \/ DefaultMark
    \/ \E next \in {Low, High, slider - Step, slider + Step} : SliderKey(next)
    \/ \E t \in Inputs \cup {Bad} : Type(t)
    \/ Change \/ ResetRow
    \/ \E v \in {Default} \cup {ClampParam(x) : x \in Positions}, same \in BOOLEAN : Replace(v, same)
    \/ \E v \in Inputs : Handle(v)
    \/ TimerFires

RowSpec == RowInit /\ [][RowNext]_rowVars

-----------------------------------------------------------------------------
(* Properties.                                                             *)

\* At rest the row shows what is stored: the field the value itself, the slider the value rounded, or as
\* it came with a new row; whoever set it, in whatever order, and whatever was pending.
ShowsStore ==
    ~typed /\ timer = NoTimer =>
       num = value /\ slider \in {Snap(value), Within(value)}

\* The timer only commits a scrub: the value it stores is the one the store has already.  A value that
\* came later, from a release, an undo or a harvest, is not taken back.
TimerConfirms == [][TimerFires => value' = value]_rowVars

=============================================================================
