------------------------------ MODULE ParamText ------------------------------
(***************************************************************************)
(* Parameters in the program's text (src/agent-os/src/params).  Two        *)
(* scanners read the same lines: the guest's syntax walk                   *)
(* (batteries/params_resolve.luau) fills the sheet, the page's line walk   *)
(* (luau-locals.js) finds the literals that a run (inject.js) and an undo  *)
(* replace by the sheet's values, and stands in for the guest's when it    *)
(* fails.  A fingerprint of the header (header-fingerprint.js) says when   *)
(* the sheet need not be filled again.                                     *)
(*                                                                         *)
(* A text is a sequence of lines, each of a kind; only the right side of a *)
(* local is spelled out, because literals are found there by searching.    *)
(* Left out: ranges, units and other words of an annotation, block         *)
(* comments, indentation, names that are skipped for their spelling,       *)
(* strings, collisions of the 32-bit hash, clamping to ranges, two ways to *)
(* spell one number.                                                       *)
(***************************************************************************)
EXTENDS Integers, Sequences, FiniteSets, Functions

CONSTANTS
    Texts,       \* what the editor may come to hold
    Lits         \* literals, as sequences of digits

VARIABLES
    text,        \* the editor's buffer
    sheet,       \* paramStore: name -> [value, default]
    lastFp,      \* lastParamsHeaderFp
    due,         \* the editor's idle timer is running
    moved        \* history: nothing happened since the last undo, redo or restore

vars == <<text, sheet, lastFp, due, moved>>

-----------------------------------------------------------------------------
(* Lines.                                                                  *)

\* local <names> = <rhs> -- <note>.  A note is an annotation; it may contain a parenthesis.
Local(names, rhs, note) == [kind |-> "local", names |-> names, rhs |-> rhs, note |-> note]

\* -- @param <name> <rhs>
Explicit(name, rhs) == [kind |-> "explicit", names |-> <<name>>, rhs |-> rhs, note |-> "none"]

\* P.number("<name>", { default = <rhs> })
Registration(name, rhs) == [kind |-> "registration", names |-> <<name>>, rhs |-> rhs, note |-> "none"]

\* "hot" (--!strict), "group" (-- [Size]), "display" (-- Width), "blank", "require", "call" (build
\* the solid), "inject" (the two lines put before the program).
Line(kind) == [kind |-> kind, names |-> <<>>, rhs |-> <<>>, note |-> "none"]

Digits == {"0", "1", "2", "3", "4", "5", "6", "7", "8", "9"}

\* What a right side is made of: a name or an operator is one "other".
Chars == Digits \cup {"comma", "paren", "other"}

\* isBareLiteral
Bare(value) == value \in Seq(Digits) \ {<<>>}

Kinds == {"hot", "group", "display", "blank", "require", "call", "local", "explicit", "registration"}

\* What a user may write.
Lines == {line \in [kind : Kinds, names : Seq(STRING), rhs : Seq(Chars),
                    note : {"none", "plain", "paren"}] :
            line.kind \in {"explicit", "registration"} => Len(line.names) = 1 /\ Bare(line.rhs)}

ASSUME TextsAssumption ==
    /\ \A t \in Texts : t \in Seq(Lines)
    /\ \A lit \in Lits : Bare(lit)

\* splitTopLevelCommas
Values(rhs) ==
    LET cuts == {0, Len(rhs) + 1} \cup {k \in DOMAIN rhs : rhs[k] = "comma"}
        Cut(m) == CHOOSE k \in cuts : Cardinality({c \in cuts : c < k}) = m
    IN  [m \in 1..(Cardinality(cuts) - 1) |-> SubSeq(rhs, Cut(m - 1) + 1, Cut(m) - 1)]

\* <<i, j>>: the j-th name of line i.  Bound: two names of a line are looked at.
Places(t) == {p \in (DOMAIN t) \X (1..2) : t[p[1]].kind = "local" /\ p[2] \in DOMAIN t[p[1]].names}
NameAt(t, p) == t[p[1]].names[p[2]]
ValueAt(t, p) == Values(t[p[1]].rhs)[p[2]]

\* What may be a parameter: a local bound to a literal.
Candidates(t) ==
    {p \in Places(t) : Len(Values(t[p[1]].rhs)) = Len(t[p[1]].names) /\ Bare(ValueAt(t, p))}

-----------------------------------------------------------------------------
(* The guest's walk over the syntax tree.                                  *)

\* The header ends where the solid is built: a call that is no require.
GuestStops(line) == line.kind \in {"call", "registration"}

InHeader(i, stops) == \A k \in stops : i < k

\* A display comment waits for the next local; a group or a require takes it away.
GuestHint(t, i) ==
    \E k \in 1..(i - 1) :
        /\ t[k].kind = "display"
        /\ \A m \in (k + 1)..(i - 1) : t[m].kind \notin {"group", "require", "local"}

\* An annotation or a display comment makes the line's literals parameters.
GuestFree(t) ==
    {p \in Candidates(t) :
        /\ InHeader(p[1], {k \in DOMAIN t : GuestStops(t[k])})
        /\ t[p[1]].note # "none" \/ GuestHint(t, p[1])}

-----------------------------------------------------------------------------
(* The page's walk over lines.                                             *)

\* isNonRequireCallLine: any parenthesis counts, one in a comment too.
HostStops(line) == GuestStops(line) \/ line.note = "paren" \/ "paren" \in Range(line.rhs)

\* Every line but a display comment clears the hint.
HostHint(t, i) == i > 1 /\ t[i - 1].kind = "display"

\* Mutant: every local that is bound to a literal counts.
HostFreeBare(t) == {p \in Candidates(t) : InHeader(p[1], {k \in DOMAIN t : HostStops(t[k])})}

\* findHeaderLocalBindings: the display comment is for the first name of a line.
HostFree(t) ==
    {p \in Candidates(t) :
        /\ InHeader(p[1], {k \in DOMAIN t : HostStops(t[k])})
        /\ t[p[1]].note # "none" \/ (p[2] = 1 /\ HostHint(t, p[1]))}

\* litStart: the first place after the = where the literal's text is found.
LitStart(t, p) ==
    LET rhs == t[p[1]].rhs  raw == ValueAt(t, p)
        found == {k \in 1..(Len(rhs) - Len(raw) + 1) : SubSeq(rhs, k, k + Len(raw) - 1) = raw}
    IN  IF found = {} THEN 1 ELSE CHOOSE k \in found : \A m \in found : k <= m

Splice(rhs, at, length, lit) == SubSeq(rhs, 1, at - 1) \o lit \o SubSeq(rhs, at + length, Len(rhs))

\* Of the places of one line the one nearest to its end; of two at one place the first.
Last(t, places) ==
    CHOOSE p \in places : \A q \in places \ {p} :
        \/ LitStart(t, p) > LitStart(t, q)
        \/ LitStart(t, p) = LitStart(t, q) /\ p[2] < q[2]

\* rhs with the literal at p replaced.
Put(t, values, rhs, p) ==
    Splice(rhs, LitStart(t, p), Len(ValueAt(t, p)), values[NameAt(t, p)])

\* From the end, for the places were found before anything was replaced.
Replaced(t, values, rhs, places) ==
    LET last == Last(t, places)  first == Last(t, places \ {last})
    IN  IF places = {} THEN rhs
        ELSE IF places = {last} THEN Put(t, values, rhs, last)
        ELSE Put(t, values, Put(t, values, rhs, last), first)

\* applyParamValuesToSource, line by line.
Rewrite(t, values) ==
    LET places == {p \in HostFree(t) : NameAt(t, p) \in DOMAIN values}
    IN  [i \in DOMAIN t |->
            [t[i] EXCEPT !.rhs = Replaced(t, values, @, {p \in places : p[1] = i})]]

-----------------------------------------------------------------------------
(* What a run is given.                                                    *)

\* peelLeadingDirectives
HeadLines(t) == Cardinality({i \in DOMAIN t : \A k \in 1..i : t[k].kind = "hot"})
Body(t) == SubSeq(t, HeadLines(t) + 1, Len(t))

Injected == <<Line("inject"), Line("inject")>>

\* buildParamsInjectedSource
Program(t, values) == SubSeq(t, 1, HeadLines(t)) \o Injected \o Rewrite(Body(t), values)

\* Mutant: the peeled lines are taken for lines of the body.
MapLineNoHead(line, package, head) ==
    LET a == line - package IN IF a <= Len(Injected) THEN 0 ELSE a - Len(Injected)

\* mapAnalyzerLineToUser: 0 is a line that the user has not written.
MapLine(line, package, head) ==
    LET a == line - package
    IN  IF a < 1 THEN 0
        ELSE IF a <= head THEN a
        ELSE IF a <= head + Len(Injected) THEN 0 ELSE a - Len(Injected)

-----------------------------------------------------------------------------
(* Filling the sheet.                                                      *)

Before(p, q) == p[1] < q[1] \/ (p[1] = q[1] /\ p[2] <= q[2])

\* extractParams: @param lines, the last of a name, then registrations.
LegacyLine(t, n) ==
    LET Of(kind) == {i \in DOMAIN t : t[i].kind = kind /\ t[i].names = <<n>>}
        lines == IF Of("explicit") # {} THEN Of("explicit") ELSE Of("registration")
    IN  CHOOSE i \in lines : \A k \in lines : k <= i

LegacyNames(t) == UNION {Range(t[i].names) : i \in {i \in DOMAIN t : t[i].kind \in {"explicit", "registration"}}}

\* mergeParamLayers: locals win.  The guest keeps the first local of a name, the page the last.
Harvest(t, free, first) ==
    LET names == {NameAt(t, p) : p \in free}
        Chosen(n) == LET ps == {p \in free : NameAt(t, p) = n}
                     IN  CHOOSE p \in ps : \A q \in ps : IF first THEN Before(p, q) ELSE Before(q, p)
    IN  [n \in names \cup LegacyNames(t) |->
            IF n \in names THEN ValueAt(t, Chosen(n)) ELSE t[LegacyLine(t, n)].rhs]

GuestHarvest(t) == Harvest(t, GuestFree(t), TRUE)
HostHarvest(t) == Harvest(t, HostFree(t), FALSE)

\* mergeCurrentValues: a name that is in the sheet keeps its value.
Filled(found, preserve) ==
    [n \in DOMAIN found |->
        [value |-> IF preserve /\ n \in DOMAIN sheet THEN sheet[n].value ELSE found[n],
         default |-> found[n]]]

\* paramsHeaderFingerprint: only a local of one name is seen, and no display comment.
InFingerprint(line) ==
    \/ line.kind \in {"explicit", "group", "require"}
    \/ line.kind = "local" /\ Len(line.names) = 1 /\ (line.note # "none" \/ Bare(line.rhs))

Fingerprint(t) == SelectSeq(t, InFingerprint)

SheetValues(s) == [n \in DOMAIN s |-> s[n].value]

-----------------------------------------------------------------------------
(* Actions.                                                                *)

Edit(t) ==
    /\ t # text /\ text' = t
    /\ due' = TRUE /\ moved' = FALSE
    /\ UNCHANGED <<sheet, lastFp>>

\* syncParamsFromSourceGuest, when the timer has run out: skipped when the header is as before.
\* Applying the list that is there already changes nothing, so the short cut on its signature is
\* part of the same step.
ResolveGuest ==
    /\ due /\ due' = FALSE /\ moved' = FALSE
    /\ IF Fingerprint(text) = lastFp /\ DOMAIN sheet # {}
       THEN UNCHANGED <<sheet, lastFp>>
       ELSE /\ sheet' = Filled(GuestHarvest(text), TRUE)
            /\ lastFp' = Fingerprint(text)
    /\ UNCHANGED text

\* syncParamsFromSourceFallback: the machine is cold, or the guest failed.
ResolveHost ==
    /\ due /\ due' = FALSE /\ moved' = FALSE
    /\ sheet' = Filled(HostHarvest(text), TRUE)
    /\ UNCHANGED <<text, lastFp>>

SetValue(n, lit) ==
    /\ n \in DOMAIN sheet /\ sheet[n].value # lit
    /\ sheet' = [sheet EXCEPT ![n].value = lit] /\ moved' = FALSE
    /\ UNCHANGED <<text, lastFp, due>>

\* A value the checkpoint does not have is the default.
Overlay(s, values) ==
    [n \in DOMAIN s |-> [s[n] EXCEPT !.value = IF n \in DOMAIN values THEN values[n] ELSE s[n].default]]

\* Mutant: the checkpoint's text is shown as it was saved.
HistoryMoveAsSaved(t, values) ==
    /\ text' = t
    /\ sheet' = Overlay(IF t = text THEN sheet ELSE Filled(GuestHarvest(t), FALSE), values)
    /\ lastFp' = IF t = text THEN lastFp ELSE Fingerprint(t)
    /\ due' = FALSE /\ moved' = TRUE

\* onApply for an undo, redo or restore: the values are written into the text, the sheet is filled
\* from it if it differs from what is shown, and the checkpoint's values are laid over the sheet.
HistoryMove(t, values) ==
    LET buffer == Rewrite(t, values)
    IN  /\ text' = buffer /\ due' = FALSE /\ moved' = TRUE
        /\ \E warm \in BOOLEAN :
             LET found == Filled(IF warm THEN GuestHarvest(buffer) ELSE HostHarvest(buffer), FALSE)
                 shown == IF buffer = text THEN sheet ELSE found
             IN  /\ lastFp' = IF warm /\ buffer # text THEN Fingerprint(buffer) ELSE lastFp
                 /\ sheet' = IF values = <<>> THEN Filled(HostHarvest(buffer), FALSE)
                             ELSE Overlay(shown, values)

\* store.reset
Reset ==
    /\ sheet' = [n \in DOMAIN sheet |-> [sheet[n] EXCEPT !.value = sheet[n].default]] /\ moved' = FALSE
    /\ UNCHANGED <<text, lastFp, due>>

\* What a checkpoint of a text may hold: a value for each parameter, or none (an old one).
Checkpoints(t) == [DOMAIN GuestHarvest(t) -> Lits] \cup {<<>>}

Init ==
    /\ text \in Texts
    /\ sheet = [n \in DOMAIN HostHarvest(text) |->
                   [value |-> HostHarvest(text)[n], default |-> HostHarvest(text)[n]]]
    /\ lastFp = Fingerprint(text)
    /\ due = FALSE /\ moved = FALSE

Next ==
    \/ \E t \in Texts : Edit(t)
    \/ ResolveGuest
    \/ ResolveHost
    \/ \E n \in DOMAIN sheet, lit \in Lits : SetValue(n, lit)
    \/ Reset
    \/ \E t \in Texts : \E values \in Checkpoints(t) :
         HistoryMove(t, values)

Spec == Init /\ [][Next]_vars

-----------------------------------------------------------------------------
(* Properties.                                                             *)

\* The look in which the two scanners read the same.  In the header a line has no parenthesis, a line
\* with an annotation or under a display comment has one name, and a display comment stands right
\* above its local, or above another, a group, a require or the end of the header.
Authored(t) ==
    \A i \in DOMAIN t : InHeader(i, {k \in DOMAIN t : GuestStops(t[k])}) =>
        /\ ~HostStops(t[i])
        /\ t[i].kind = "local" /\ t[i].note # "none" => Len(t[i].names) = 1
        /\ t[i].kind = "display" /\ i + 1 \in DOMAIN t =>
               /\ t[i + 1].kind \notin {"blank", "explicit", "hot"}
               /\ t[i + 1].kind = "local" => Len(t[i + 1].names) = 1

\* No two parameters have one name.
NamedOnce(t) == \A p, q \in GuestFree(t) : NameAt(t, p) = NameAt(t, q) => p = q

\* A run is given the user's program with the sheet's value for every literal the guest took for a
\* parameter, and nothing else of it changed (inject.js:8-10): the two scanners agree, and no value
\* is written over another.
RunIsSheet ==
    LET body == Body(text)
        run == Rewrite(body, SheetValues(sheet))
        Expected(p) == IF p \in GuestFree(body) /\ NameAt(body, p) \in DOMAIN sheet
                       THEN sheet[NameAt(body, p)].value ELSE ValueAt(body, p)
    IN  /\ Len(run) = Len(body)
        /\ \A i \in DOMAIN body : [run[i] EXCEPT !.rhs = <<>>] = [body[i] EXCEPT !.rhs = <<>>]
        /\ \A i \in DOMAIN body :
             IF body[i].kind # "local" THEN run[i] = body[i]
             ELSE Values(run[i].rhs) = [j \in DOMAIN Values(body[i].rhs) |-> Expected(<<i, j>>)]

\* The line that an error in the program names is shown at the user's line it comes from, with the line
\* for package.path that execute puts first and without it, and every line of the user can be shown,
\* in the order of the lines (inject.js:121).
LinesMapBack ==
    \A package \in 0..1 :
        LET program == [i \in 1..package |-> Line("inject")] \o Program(text, SheetValues(sheet))
            shown == [i \in DOMAIN program |-> MapLine(i, package, HeadLines(text))]
        IN  /\ \A i \in DOMAIN program : (program[i].kind = "inject") <=> (shown[i] = 0)
            /\ Range(shown) \ {0} = DOMAIN text
            /\ \A i, k \in DOMAIN program : i < k /\ shown[i] # 0 /\ shown[k] # 0 => shown[i] < shown[k]
            /\ \A i \in DOMAIN program : shown[i] # 0 => program[i].names = text[shown[i]].names

\* After an undo, a redo or a restore the editor has the literals the sheet shows (main.js:161: "so
\* Monaco matches the store").
MoveShowsValues ==
    moved => \A p \in GuestFree(text) :
                NameAt(text, p) \in DOMAIN sheet => ValueAt(text, p) = sheet[NameAt(text, p)].value

=============================================================================
