----------------------------- MODULE ParamHost -----------------------------
(***************************************************************************)
(* The page between an edit and its mesh: the parameter store and its      *)
(* sheet, the rebuild scheduler of eval/scheduler.js, and the functions of *)
(* main.js that harvest the parameters of the text, analyze it, execute it *)
(* and paint the answer.  Everything runs on one event loop, and every     *)
(* await is a place where the user or another answer may come first.       *)
(*                                                                         *)
(* The program has one parameter of the rebuild tier.  A text is the       *)
(* literal its header declares for it, which is also what a harvest of the *)
(* text finds; a mesh is the value it was made with.  The worker answers   *)
(* in the order of the calls and may cancel what a later call supersedes   *)
(* (LatestWins).  Init is the page once it is warm and has asked for its   *)
(* first mesh.                                                             *)
(***************************************************************************)
EXTENDS Naturals, Sequences, Functions, FiniteSets

CONSTANTS Val, None,    \* values of the parameter, and the absence of one
          Declared,     \* the literal of the text the page opens with
          MaxInputs,    \* bound: how many things the user does
          MaxFaults     \* bound: how many calls time out and viewports fail

ASSUME ValAssumption == Declared \in Val /\ None \notin Val
ASSUME BoundAssumption == MaxInputs \in Nat /\ MaxFaults \in Nat

VARIABLES
    text, lastFp, resolveTimer,   \* the editor, the header last harvested, its debounce
    sheet,    \* the store: declared literal, value, generation; the sheet's commit timer
    loop,     \* the scheduler, the calls on their way, the status line and the viewport
    asked,    \* history variable: the header of the last harvest asked for
    wanted,   \* history variable: the generation of the last rebuild asked for
    failed,   \* history variable: the last execute to end did so with an error
    inputs, faults

editorVars == <<text, lastFp, resolveTimer>>
history == <<asked, wanted, failed>>
bounds == <<inputs, faults>>
vars == <<editorVars, sheet, loop, history, bounds>>

\* What the calls, the store and the page hold.
Execute == [kind : {"execute"}, by : {"boot", "flush", "run", "move"}, id : Nat,
            gen : Nat, val : Val, live : BOOLEAN]
Analyze == [kind : {"analyze"}, by : {"run", "editor"}, live : BOOLEAN]
Resolve == [kind : {"resolve"}, by : {"page", "move"}, header : Val,
            keep : BOOLEAN, force : BOOLEAN, live : BOOLEAN]
Call == Execute \cup Analyze \cup Resolve

Sheet == [declared : Val, val : Val, gen : Nat, commit : Val \cup {None}]

Loop == [pending : Nat, waiting : Seq([gen : Nat, on : Nat]),
         inflight : Nat, inflightGen : Nat, calls : Seq(Call),
         status : {"Ready", "Updating", "Running", "Analyzing", "Error"},
         isRunning : BOOLEAN, analyzeTimer : BOOLEAN,
         viewport : {"none", "loading", "made"}, shelf : Seq(Execute),
         shown : Val \cup {None}, move : Val \cup {None}]

-----------------------------------------------------------------------------
\* The scheduler and the runs it starts.  What runs between two awaits is a
\* function from the loop to the loop; g and v are the store's generation and value.

NoRun == 0

\* A number no run that has not ended goes by.
FreshId(l) ==
    LET used == {c.id : c \in {d \in Range(l.calls) \cup Range(l.shelf) : d.kind = "execute"}}
    IN  CHOOSE n \in 1 .. Cardinality(used) + 1 : n \notin used

Busy(l) == l.inflight # NoRun \/ l.pending # 0

\* Mutant: an edit made during a rebuild is left to the rebuild.
DispatchIdle(l, g) ==
    IF l.move = None /\ l.inflight = NoRun THEN [l EXCEPT !.pending = g] ELSE l

\* A parameter of the rebuild tier changed: the newest edit waits for the timer,
\* and nothing is scheduled while a history move is applied.
Dispatch(l, g) == IF l.move = None THEN [l EXCEPT !.pending = g] ELSE l
Wanted(g) == IF loop.move = None THEN g ELSE wanted

PostCall(l, c) == [l EXCEPT !.calls = Append(@, c)]

\* Mutant: the history move is not told.
EndRunForgetsMove(l, by, gen) ==
    [l EXCEPT !.isRunning = FALSE,
              !.inflight = IF by = "flush" /\ l.inflightGen = gen THEN NoRun ELSE @]

\* The end of runSource, and of the flush or the move that awaits it.
EndRun(l, by, gen) ==
    LET idle == [l EXCEPT !.isRunning = FALSE]
    IN  CASE by = "flush" -> IF l.inflightGen = gen THEN [idle EXCEPT !.inflight = NoRun] ELSE idle
          [] by = "move" -> [idle EXCEPT !.move = None, !.status = "Ready"]
          [] OTHER -> idle

\* runSource for a scrub, up to the worker.
RunScrub(l, by, id, gen, g, v) ==
    LET started == [l EXCEPT !.status = "Updating", !.isRunning = FALSE, !.analyzeTimer = FALSE]
    IN  IF gen < g
        THEN EndRun(started, by, gen)
        ELSE PostCall(started, [kind |-> "execute", by |-> by, id |-> id,
                                gen |-> gen, val |-> v, live |-> TRUE])

\* flush, past its wait for the rebuild in flight.
RunFlush(l, gen, g, v) ==
    LET id == FreshId(l)
    IN  RunScrub([l EXCEPT !.inflight = id, !.inflightGen = gen], "flush", id, gen, g, v)

\* Mutant: only the first flush is woken.
ResumeFirst(l, id, g, v) ==
    IF l.waiting # <<>> /\ Head(l.waiting).on = id
    THEN RunFlush([l EXCEPT !.waiting = Tail(@)], Head(l.waiting).gen, g, v)
    ELSE l

\* One flush, when the run id has ended: it goes on if it waits for that run and no
\* newer edit is waiting for its timer.
Turn(l, w, id, g, v) ==
    IF w.on # id THEN [l EXCEPT !.waiting = Append(@, w)]
    ELSE IF l.pending > w.gen THEN l
    ELSE RunFlush(l, w.gen, g, v)

\* A run has ended: the flushes take their turns in the order they came.
Resume(l, id, g, v) ==
    LET after[n \in 0 .. Len(l.waiting)] ==
            IF n = 0 THEN [l EXCEPT !.waiting = <<>>]
            ELSE Turn(after[n - 1], l.waiting[n], id, g, v)
    IN  after[Len(l.waiting)]

FinishRun(l, c, g, v) == Resume(EndRun(l, c.by, c.gen), c.id, g, v)

\* runSource, from the worker's answer to its end or to its wait for the viewport.
Scrub(c) == c.by # "run"

ClearStaleStatus(l, c, g) ==
    IF Scrub(c) /\ c.gen >= g /\ ~Busy(l) /\ l.status \in {"Updating", "Running"}
    THEN [l EXCEPT !.status = "Ready"]
    ELSE l

Answered(l, c, outcome, g, v) ==
    IF outcome = "error" THEN FinishRun([l EXCEPT !.status = "Error"], c, g, v)
    ELSE IF Scrub(c) /\ c.gen < g THEN FinishRun(l, c, g, v)
    ELSE IF outcome = "cancelled" THEN FinishRun(ClearStaleStatus(l, c, g), c, g, v)
    ELSE IF l.viewport = "made"
         THEN FinishRun([l EXCEPT !.status = "Ready", !.shown = c.val], c, g, v)
         ELSE [l EXCEPT !.status = "Ready", !.viewport = "loading", !.shelf = Append(@, c)]

\* A mesh that waited for the viewport is painted, or its run fails with it.
Served(l, c, g, v) ==
    FinishRun(IF l.viewport = "made" THEN [l EXCEPT !.shown = c.val]
                                     ELSE [l EXCEPT !.status = "Error"], c, g, v)

\* The viewport is there, or is not to be: the runs that wait for it go on in the
\* order they came.
Unshelve(l, viewport, g, v) ==
    LET after[n \in 0 .. Len(l.shelf)] ==
            IF n = 0 THEN [l EXCEPT !.viewport = viewport, !.shelf = <<>>]
            ELSE Served(after[n - 1], l.shelf[n], g, v)
    IN  after[Len(l.shelf)]

-----------------------------------------------------------------------------
\* The store and its harvests.

\* Mutant: the sheet's timers outlive the list they were set for.
ReplaceKeepsTimer(s, declared, val) ==
    [s EXCEPT !.declared = declared, !.val = val, !.gen = @ + 1]

Replace(s, declared, val) ==
    [declared |-> declared, val |-> val, gen |-> s.gen + 1, commit |-> None]

\* applyResolvedParams: a list of the same schema leaves the store alone.
ApplyResolved(s, header, keep, force) ==
    IF ~force /\ header = s.declared
    THEN s
    ELSE Replace(s, header, IF keep THEN s.val ELSE header)

\* A later harvest has taken the token.
Superseded(i) == \E j \in DOMAIN loop.calls : j > i /\ loop.calls[j].kind = loop.calls[i].kind

Harvest(by, header, keep, force) ==
    [kind |-> "resolve", by |-> by, header |-> header, keep |-> keep, force |-> force,
     live |-> TRUE]

-----------------------------------------------------------------------------
\* What the user does.

Input == inputs < MaxInputs /\ inputs' = inputs + 1 /\ UNCHANGED faults

\* Typing; the literal may stay the same.
Edit(l) ==
    /\ Input
    /\ text' = l
    /\ resolveTimer' = TRUE
    /\ loop' = [loop EXCEPT !.analyzeTimer = TRUE]
    /\ UNCHANGED <<lastFp, sheet, history>>

\* The slider or the number field moves: a change now, a commit when it rests.
Drag(v) ==
    /\ Input
    /\ sheet' = [sheet EXCEPT !.val = v, !.commit = v]
    /\ IF v = sheet.val
       THEN UNCHANGED <<loop, wanted>>
       ELSE loop' = Dispatch(loop, sheet.gen) /\ wanted' = Wanted(sheet.gen)
    /\ UNCHANGED <<editorVars, asked, failed>>

Committed(v) ==
    /\ sheet' = [sheet EXCEPT !.val = v, !.gen = @ + 1, !.commit = None]
    /\ loop' = Dispatch(loop, sheet.gen + 1)
    /\ wanted' = Wanted(sheet.gen + 1)
    /\ UNCHANGED <<editorVars, asked, failed>>

Commit(v) == Input /\ Committed(v)

Reset == Input /\ Committed(sheet.declared)

\* Ctrl+Enter: a forced harvest, then an analysis the execute waits for.
Run ==
    /\ Input
    /\ loop' = PostCall(
                 PostCall([loop EXCEPT !.status = "Running", !.isRunning = TRUE,
                                       !.analyzeTimer = FALSE],
                          Harvest("page", text, TRUE, TRUE)),
                 [kind |-> "analyze", by |-> "run", live |-> TRUE])
    /\ asked' = text
    /\ UNCHANGED <<editorVars, sheet, wanted, failed>>

\* onApply, once the text is right: the recorded value takes the sheet's place,
\* and the move runs its own rebuild.
Overlay(l, s, v) ==
    /\ sheet' = Replace(s, s.declared, v)
    /\ loop' = RunScrub(l, "move", FreshId(l), s.gen + 1, s.gen + 1, v)
    /\ wanted' = s.gen + 1

\* Undo, redo or restore: the text is rewritten to declare the recorded value.
Move(v) ==
    /\ Input
    /\ loop.move = None
    /\ text' = v
    /\ resolveTimer' = FALSE
    /\ LET l == [loop EXCEPT !.move = v, !.pending = 0]
       IN  IF text = v
           THEN Overlay(l, sheet, v) /\ UNCHANGED asked
           ELSE /\ loop' = PostCall(l, Harvest("move", v, FALSE, TRUE))
                /\ asked' = v
                /\ UNCHANGED <<sheet, wanted>>
    /\ UNCHANGED <<lastFp, failed>>

-----------------------------------------------------------------------------
\* Timers.

CommitTimer ==
    /\ sheet.commit # None
    /\ Committed(sheet.commit)
    /\ UNCHANGED bounds

\* A header that is the one last harvested is not harvested again.
ResolveTimer ==
    /\ resolveTimer
    /\ resolveTimer' = FALSE
    /\ IF text = lastFp
       THEN UNCHANGED <<loop, asked>>
       ELSE loop' = PostCall(loop, Harvest("page", text, TRUE, FALSE)) /\ asked' = text
    /\ UNCHANGED <<text, lastFp, sheet, wanted, failed, bounds>>

AnalyzeTimer ==
    /\ loop.analyzeTimer
    /\ LET l == [loop EXCEPT !.analyzeTimer = FALSE,
                             !.status = IF loop.isRunning \/ Busy(loop) THEN @ ELSE "Analyzing"]
       IN  loop' = PostCall(l, [kind |-> "analyze", by |-> "editor", live |-> TRUE])
    /\ UNCHANGED <<editorVars, sheet, history, bounds>>

FlushTimer ==
    /\ loop.pending # 0
    /\ LET l == [loop EXCEPT !.pending = 0]
           gen == loop.pending
       IN  loop' = IF loop.inflight = NoRun
                   THEN RunFlush(l, gen, sheet.gen, sheet.val)
                   ELSE [l EXCEPT !.waiting = Append(@, [gen |-> gen, on |-> loop.inflight])]
    /\ UNCHANGED <<editorVars, sheet, history, bounds>>

-----------------------------------------------------------------------------
\* Answers.  Each takes the loop l that no longer waits for the call c.

EndExecute(l, c, outcome) ==
    /\ loop' = Answered(l, c, outcome, sheet.gen, sheet.val)
    /\ failed' = (outcome = "error" \/ (outcome = "cancelled" /\ failed))
    /\ UNCHANGED <<editorVars, sheet, asked, wanted>>

\* runAnalyze paints its verdict if it is the newest and nothing else is at work;
\* an explicit run goes on to its execute whatever the verdict.
EndAnalyze(l, c, outcome, newest) ==
    LET verdict == IF newest /\ outcome # "cancelled" /\ ~l.isRunning /\ ~Busy(l)
                   THEN [l EXCEPT !.status = IF outcome = "ok" THEN "Ready" ELSE "Error"]
                   ELSE l
    IN  /\ loop' = IF c.by = "editor" THEN verdict
                   ELSE PostCall(verdict, [kind |-> "execute", by |-> "run", id |-> FreshId(l),
                                           gen |-> 0, val |-> sheet.val, live |-> TRUE])
        /\ UNCHANGED <<editorVars, sheet, history>>

\* Mutant: a failed harvest is not made up for.
EndResolveNoFallback(l, c, outcome, applies) ==
    LET s == IF applies /\ outcome = "ok"
             THEN ApplyResolved(sheet, c.header, c.keep, c.force)
             ELSE sheet
    IN  /\ lastFp' = IF applies /\ outcome = "ok" THEN c.header ELSE lastFp
        /\ IF c.by = "move"
           THEN Overlay(l, s, c.header)
           ELSE sheet' = s /\ UNCHANGED wanted /\ loop' = l
        /\ UNCHANGED <<text, resolveTimer, asked, failed>>

\* syncParamsFromSourceGuest.  A failed harvest is made up for by the host's own
\* reading of the text, which finds the same; a call that times out does so
\* without a look at the token.
EndResolve(l, c, outcome, applies) ==
    LET s == IF applies
             THEN ApplyResolved(sheet, c.header, c.keep, c.force)
             ELSE sheet
    IN  /\ lastFp' = IF applies /\ outcome = "ok" THEN c.header ELSE lastFp
        /\ IF c.by = "move"
           THEN Overlay(l, s, c.header)
           ELSE sheet' = s /\ UNCHANGED wanted /\ loop' = l
        /\ UNCHANGED <<text, resolveTimer, asked, failed>>

\* The worker may cancel what a later call supersedes, and an analysis for an execute.
MayCancel(i) ==
    \/ Superseded(i)
    \/ /\ loop.calls[i].kind = "analyze"
       /\ \E j \in DOMAIN loop.calls : j > i /\ loop.calls[j].kind = "execute"

\* The oldest call is answered.  A result is only ever the newest call's; what has
\* timed out is no longer listened for.
Reply(outcome) ==
    /\ loop.calls # <<>>
    /\ outcome = "ok" => ~Superseded(1)
    /\ outcome = "cancelled" => MayCancel(1)
    /\ LET c == Head(loop.calls)
           l == [loop EXCEPT !.calls = Tail(@)]
       IN  /\ c.live
           /\ CASE c.kind = "execute" -> EndExecute(l, c, outcome)
                [] c.kind = "analyze" -> EndAnalyze(l, c, outcome, ~Superseded(1))
                [] c.kind = "resolve" ->
                     EndResolve(l, c, outcome, outcome # "cancelled" /\ ~Superseded(1))
    /\ UNCHANGED bounds

LateReply ==
    /\ loop.calls # <<>>
    /\ ~Head(loop.calls).live
    /\ loop' = [loop EXCEPT !.calls = Tail(@)]
    /\ UNCHANGED <<editorVars, sheet, history, bounds>>

\* Calls with the same limit time out in the order they were made.
Fault == faults < MaxFaults /\ faults' = faults + 1 /\ UNCHANGED inputs

SameLimit(c, d) == (c.kind = "execute") <=> (d.kind = "execute")

TimeOut(i) ==
    /\ Fault
    /\ loop.calls[i].live
    /\ \A j \in 1 .. i - 1 : SameLimit(loop.calls[i], loop.calls[j]) => ~loop.calls[j].live
    /\ LET c == loop.calls[i]
           l == [loop EXCEPT !.calls[i].live = FALSE]
       IN  CASE c.kind = "execute" -> EndExecute(l, c, "error")
             [] c.kind = "analyze" -> EndAnalyze(l, c, "error", ~Superseded(i))
             [] c.kind = "resolve" -> EndResolve(l, c, "error", TRUE)

\* createViewport has loaded its library, or has failed to.
Load ==
    /\ loop.viewport = "loading"
    /\ loop' = Unshelve(loop, "made", sheet.gen, sheet.val)
    /\ UNCHANGED <<editorVars, sheet, history, bounds>>

LoadFails ==
    /\ Fault
    /\ loop.viewport = "loading"
    /\ loop' = Unshelve(loop, "none", sheet.gen, sheet.val)
    /\ failed' = TRUE
    /\ UNCHANGED <<editorVars, sheet, asked, wanted>>

-----------------------------------------------------------------------------
Init ==
    /\ text = Declared /\ lastFp = Declared /\ resolveTimer = FALSE
    /\ sheet = [declared |-> Declared, val |-> Declared, gen |-> 1, commit |-> None]
    /\ loop = [pending |-> 0, waiting |-> <<>>, inflight |-> NoRun, inflightGen |-> 0,
               calls |-> <<[kind |-> "execute", by |-> "boot", id |-> 1, gen |-> 1,
                            val |-> Declared, live |-> TRUE]>>,
               status |-> "Updating", isRunning |-> FALSE, analyzeTimer |-> FALSE,
               viewport |-> "none", shelf |-> <<>>, shown |-> None, move |-> None]
    /\ asked = Declared /\ wanted = 1 /\ failed = FALSE
    /\ inputs = 0 /\ faults = 0

User == \E v \in Val : Edit(v) \/ Drag(v) \/ Commit(v) \/ Move(v)

Timers == CommitTimer \/ ResolveTimer \/ AnalyzeTimer \/ FlushTimer

Answers == (\E outcome \in {"ok", "cancelled", "error"} : Reply(outcome)) \/ LateReply \/ Load

Faults == (\E i \in DOMAIN loop.calls : TimeOut(i)) \/ LoadFails

Next == User \/ Reset \/ Run \/ Timers \/ Answers \/ Faults

Spec == Init /\ [][Next]_vars

-----------------------------------------------------------------------------
\* Properties.

\* No timer is set, and nothing is on its way.
Still ==
    /\ sheet.commit = None /\ ~resolveTimer /\ ~loop.analyzeTimer
    /\ loop.pending = 0 /\ loop.calls = <<>> /\ loop.shelf = <<>>

\* The newest generation is that of a rebuild: nothing but edits and moves has
\* raised it since.
NewestWanted == wanted = sheet.gen

\* When the page comes to rest after an edit, and the last rebuild did not fail, the
\* mesh on show is that of the values in the sheet: debounces, dropped, cancelled and
\* overtaken rebuilds and a viewport that loads late cost no edit.
SettledMesh == Still /\ NewestWanted /\ ~failed => loop.shown = sheet.val

\* A flush that waits waits for a run that has not ended, which will wake it.
NoOrphanWait ==
    \A w \in Range(loop.waiting) :
        \E c \in Range(loop.calls) \cup Range(loop.shelf) :
            c.kind = "execute" /\ c.by = "flush" /\ c.id = w.on /\ c.live

\* When the page comes to rest, the sheet shows the parameters of the last text a
\* harvest was asked of, whatever was cancelled, failed, timed out or came late.
SheetOfLastHarvest == Still => sheet.declared = asked

\* The sheet's commit timer never holds another value than the sheet: what an undo, a
\* reset or a harvest puts there is not overwritten by the scrub of before.
CommitIsCurrent == sheet.commit # None => sheet.commit = sheet.val

\* Nobody waits for nobody: when no timer is set and no call is on its way, no flush
\* waits, no history move is unfinished and the scheduler and the run button are free.
NothingHangs ==
    Still => /\ loop.waiting = <<>> /\ loop.move = None
             /\ loop.inflight = NoRun /\ ~loop.isRunning

=============================================================================
