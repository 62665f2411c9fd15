--------------------------- MODULE ProjectHistory ---------------------------
(***************************************************************************)
(* agent-os/src/history/project-controller.js with the parts of main.js    *)
(* that drive it: the working copy, its undo stack and its versions.       *)
(* Undo, redo, restore, label, automatic checkpoint, clear and open run    *)
(* one at a time on a promise chain and wait for the store in the middle,  *)
(* while typing, scrubbing and three timers go on changing the document.   *)
(*                                                                         *)
(* A document is a text and the parameter values its sheet shows; a text   *)
(* is a body and the literal its header gives the parameter.  The store is *)
(* the page's record of opfs-backend.js: it changes when it is called and  *)
(* replies later.                                                          *)
(***************************************************************************)
EXTENDS UndoStack, FiniteSets

CONSTANTS Bodies, NoBody,   \* program bodies, and that of the empty source
          Vals, NoVals,     \* values of the parameter, and that of an empty map
          SeedBody, SeedVal,  \* blockHoleSource(), which a first open starts from
          NoDoc,
          Typed,            \* bound: the texts the user types
          Earlier,          \* bound: <<working copy, last version>>, as an earlier page may have left them
          MaxInputs         \* bound: how many things the user does

ASSUME SeedAssumption ==
    /\ SeedBody \in Bodies /\ SeedVal \in Vals
    /\ NoBody \notin Bodies /\ NoVals \notin Vals
ASSUME InputsAssumption == MaxInputs \in Nat

Texts == [body : Bodies, lits : Vals]
EmptyText == [body |-> NoBody, lits |-> NoVals]
SeedText == [body |-> SeedBody, lits |-> SeedVal]

Docs == [text : Texts \cup {EmptyText}, vals : Vals \cup {NoVals}]
ASSUME NoDocAssumption == NoDoc \notin Docs /\ NoSnap \notin Docs
ASSUME TypedAssumption == Typed \subseteq Texts
ASSUME EarlierAssumption == Earlier \subseteq Docs \X Docs

\* The document in memory until a project is open.
Blank == [text |-> EmptyText, vals |-> NoVals]

VARIABLES
    doc, stack, tip, tipDoc, dirty, aligned,       \* the controller
    mounted, editor, store,                        \* the page: its editor and its sheet
    editorTimer, autoTimer, autosave, tails,       \* what it has scheduled
    worktree, versions, nextId, hydrated,          \* the durable record, as this page holds it
    chain, pc, held,                               \* history operations, the first one running
    unrecorded, inputs                             \* history variable; user events

project == <<doc, stack, tip, tipDoc, dirty, aligned>>
sheet   == <<mounted, editor, store>>
timers  == <<editorTimer, autoTimer, autosave, tails>>
disk    == <<worktree, versions, nextId, hydrated>>
line    == <<chain, pc, held>>
vars == <<project, sheet, timers, disk, line, unrecorded, inputs>>

NoVersion == 0
Version == [id : Nat, doc : Docs]
Ops == {"open", "undo", "redo", "label", "auto", "restore", "clear"}
Entry == [op : Ops, ref : Nat, seed : Docs \cup {NoDoc}]

\* Where the operation at the head of the chain waits.
Waits == {"idle", "load", "tips", "seed", "commit", "restore", "tip", "clear", "reseed",
          "harvest", "run"}

\* historyApplying: sheet events do not reach the project.
Applying == pc \in {"harvest", "run"}

----------------------------------------------------------------------------
(* Documents and the durable record.                                       *)

\* Mutant: the value is written into a text that has no literal for it.
RewriteBlank(text, vals) == IF vals = NoVals THEN text ELSE [text EXCEPT !.lits = vals]

\* applyParamValuesToSource: a header literal takes the value of the map, if it has one.
Rewrite(text, vals) ==
    IF vals = NoVals \/ text.lits = NoVals THEN text ELSE [text EXCEPT !.lits = vals]

\* What a document shows: its program with the values its sheet has.
Shown(d) == Rewrite(d.text, d.vals)

\* Mutant: a document is compared by its text alone.
DirtyText(d, t) == t = NoDoc \/ d.text # t.text

\* recomputeDirty
DirtyAt(d, t) == t = NoDoc \/ d # t

Blob(ref) ==
    IF \E i \in 1..Len(versions) : versions[i].id = ref
    THEN versions[CHOOSE i \in 1..Len(versions) : versions[i].id = ref].doc
    ELSE NoDoc

TipId == IF versions = <<>> THEN NoVersion ELSE versions[Len(versions)].id

\* A write before the record was read from IndexedDB starts an empty record.
Kept == IF hydrated THEN versions ELSE <<>>

\* While the record is being read, what the read returns may replace the write.
SaveWorktree(d) ==
    \/ /\ worktree' = d
       /\ versions' = Kept
       /\ hydrated' = TRUE
       /\ UNCHANGED nextId
    \/ pc = "load" /\ ~hydrated /\ UNCHANGED disk

Commit(d) ==
    /\ worktree' = d
    /\ versions' = Append(Kept, [id |-> nextId, doc |-> d])
    /\ nextId' = nextId + 1
    /\ hydrated' = TRUE

----------------------------------------------------------------------------
(* The controller's assignments to its document.                           *)

\* Mutant: an edit keeps the marker.
EditKeepsAligned(d) == doc' = d /\ dirty' = DirtyAt(d, tipDoc) /\ UNCHANGED aligned

\* setSource and setValues without keepAligned: an edit leaves the version it was aligned with.
Edit(d) ==
    /\ doc' = d
    /\ dirty' = DirtyAt(d, tipDoc)
    /\ aligned' = IF d = doc THEN aligned ELSE NoVersion

SetText(t) == IF t = doc.text THEN UNCHANGED <<doc, dirty, aligned>> ELSE Edit([doc EXCEPT !.text = t])

\* The history moves' own: the marker is theirs to set.
Replace(d, marker) ==
    /\ doc' = d
    /\ dirty' = DirtyAt(d, tipDoc')
    /\ aligned' = marker

\* Values that reach the document with neither an undo record nor an autosave.
Adopt(v) == unrecorded' = (unrecorded \/ v # doc.vals)

WithText(d, t) == [d EXCEPT !.text = t]
WithVals(d, v) == [d EXCEPT !.vals = v]

\* runHistoryOp
Enqueue(op, ref, seed) == chain' = Append(chain, [op |-> op, ref |-> ref, seed |-> seed])
Head1(op) == chain # <<>> /\ pc = "idle" /\ Head(chain).op = op
Finish == chain' = Tail(chain) /\ pc' = "idle" /\ held' = NoDoc
Await(wait, d) == pc' = wait /\ held' = d /\ UNCHANGED chain
----------------------------------------------------------------------------
(* Putting a document on screen: onApply of main.js.                       *)

\* The sheet after a move: the move's values, or the text's where it has none to give.
Overlay(live, arg) ==
    CASE arg.vals = NoVals -> arg.text.lits
      [] arg.vals # NoVals /\ live = NoVals -> NoVals
      [] OTHER -> arg.vals

\* The move's values go into the editor's text; a text that changes is harvested
\* before the sheet is filled.
Apply(d, marker) ==
    LET buf == Rewrite(d.text, d.vals)
        arg == WithText(d, buf)
    IN  /\ autoTimer' = FALSE
        /\ editor' = IF mounted THEN buf ELSE editor
        /\ IF buf # editor
           THEN /\ Replace(arg, marker) /\ Await("harvest", arg)
                /\ UNCHANGED store
           ELSE /\ store' = Overlay(store, arg)
                /\ Replace(WithVals(d, store'), marker) /\ Await("run", NoDoc)
        /\ UNCHANGED <<mounted, editorTimer, autosave, tails>>

\* The harvest of the new text answers, or is superseded and leaves the sheet's list alone.
Harvested ==
    /\ pc = "harvest"
    /\ \E live \in {held.text.lits, store} : store' = Overlay(live, held)
    /\ UNCHANGED <<stack, tip, tipDoc>>
    /\ Replace(WithVals(doc, store'), aligned)
    /\ Await("run", NoDoc)
    /\ UNCHANGED <<mounted, editor, timers, disk, unrecorded, inputs>>

\* Mutant: a move is not saved.
MoveUnsaved ==
    pc = "run" /\ Finish /\ UNCHANGED <<project, sheet, timers, disk, unrecorded, inputs>>

\* runSource has answered: the operation ends and the working copy is saved later.
MoveDone ==
    /\ pc = "run"
    /\ Finish
    /\ autosave' = TRUE
    /\ UNCHANGED <<project, sheet, editorTimer, autoTimer, tails, disk, unrecorded, inputs>>

----------------------------------------------------------------------------
(* Opening a project.                                                      *)

\* The editor is ready; the seed carries the values the sheet has by then.
Mount ==
    /\ ~mounted
    /\ mounted' = TRUE
    /\ Enqueue("open", 0, [text |-> SeedText, vals |-> store])
    /\ UNCHANGED <<project, editor, store, timers, disk, pc, held, unrecorded, inputs>>

OpenStart ==
    /\ Head1("open")
    /\ Await("load", NoDoc)
    /\ UNCHANGED <<project, sheet, timers, disk, unrecorded, inputs>>

OpenLoad ==
    /\ pc = "load"
    /\ hydrated' = TRUE
    /\ doc' = IF worktree # NoDoc THEN worktree ELSE Head(chain).seed
    /\ stack' = ResetStack(doc')
    /\ unrecorded' = FALSE
    /\ Await("tips", worktree)
    /\ UNCHANGED <<tip, tipDoc, dirty, aligned, sheet, timers, worktree, versions, nextId, inputs>>

\* The tip and its blob arrive, the document is shown as it is, and a project with
\* no version gets its first.
OpenTips ==
    LET blob == Blob(TipId)
        clean == IF blob # NoDoc THEN doc = blob ELSE held # NoDoc
    IN  /\ pc = "tips"
        /\ tip' = TipId /\ tipDoc' = blob
        /\ dirty' = ~clean
        /\ aligned' = IF blob # NoDoc /\ clean THEN TipId ELSE NoVersion
        /\ editor' = doc.text
        /\ store' = IF doc.vals # NoVals /\ store # NoVals THEN doc.vals ELSE store
        /\ autoTimer' = FALSE
        /\ IF versions = <<>> /\ doc # Blank
           THEN Commit(doc) /\ unrecorded' = FALSE /\ Await("seed", NoDoc)
           ELSE Finish /\ unrecorded' = (unrecorded \/ autoTimer) /\ UNCHANGED disk
        /\ UNCHANGED <<doc, stack, mounted, editorTimer, autosave, tails, inputs>>

\* What every commit does with its reply.
Checkpointed == tip' = TipId /\ tipDoc' = doc /\ dirty' = FALSE /\ aligned' = TipId

OpenSeeded ==
    /\ pc = "seed"
    /\ Checkpointed
    /\ Finish
    /\ UNCHANGED <<doc, stack, sheet, timers, disk, unrecorded, inputs>>

----------------------------------------------------------------------------
(* Undo, redo and checkpoints.                                             *)

\* The snapshot a step lands on; the marker follows when it is the tip's document.
Step(op, possible, h) ==
    /\ Head1(op)
    /\ UNCHANGED <<tip, tipDoc, disk, unrecorded, inputs>>
    /\ IF possible
       THEN /\ stack' = h
            /\ Apply(h.present, IF h.present = tipDoc THEN tip ELSE NoVersion)
       ELSE Finish /\ UNCHANGED <<stack, doc, dirty, aligned, sheet, timers>>

UndoStep == Step("undo", stack.past # <<>>, Undo(stack))
RedoStep == Step("redo", stack.future # <<>>, Redo(stack))

\* The working copy as it is when the store is called is the version's blob.
RecordCheckpoint ==
    /\ stack' = Push(stack, doc)
    /\ Commit(doc)
    /\ unrecorded' = FALSE
    /\ Await("commit", NoDoc)
    /\ UNCHANGED <<doc, tip, tipDoc, aligned, sheet, timers, inputs>>

LabelStart == Head1("label") /\ RecordCheckpoint /\ UNCHANGED dirty

\* autoCommit writes nothing when the document is the tip's.
AutoStart ==
    /\ Head1("auto")
    /\ IF doc = tipDoc
       THEN /\ Finish
            /\ dirty' = FALSE
            /\ aligned' = IF tip # NoVersion THEN tip ELSE aligned
            /\ UNCHANGED <<doc, stack, tip, tipDoc, sheet, timers, disk, unrecorded, inputs>>
       ELSE RecordCheckpoint /\ dirty' = TRUE

CommitDone ==
    /\ pc = "commit"
    /\ Checkpointed
    /\ Finish
    /\ UNCHANGED <<doc, stack, sheet, timers, disk, unrecorded, inputs>>

----------------------------------------------------------------------------
(* Restoring a version and clearing the project.                           *)

\* Mutant: the operation that throws stays at the head of the chain.
RestoreStuck ==
    /\ Head1("restore")
    /\ Blob(Head(chain).ref) # NoDoc
    /\ worktree' = Blob(Head(chain).ref)
    /\ Await("restore", doc)
    /\ UNCHANGED <<project, sheet, timers, versions, nextId, hydrated, unrecorded, inputs>>

\* backend.restore moves the working tree, or throws for a version that is gone.
RestoreStart ==
    LET blob == Blob(Head(chain).ref)
    IN  /\ Head1("restore")
        /\ IF blob # NoDoc
           THEN worktree' = blob /\ Await("restore", doc)
           ELSE UNCHANGED worktree /\ Finish
        /\ UNCHANGED <<project, sheet, timers, versions, nextId, hydrated, unrecorded, inputs>>

\* The document of before and the restored one go on the undo stack.
RestoreDone ==
    LET blob == Blob(Head(chain).ref)
    IN  /\ pc = "restore"
        /\ stack' = Push(Push(stack, held), blob)
        /\ doc' = blob
        /\ aligned' = Head(chain).ref
        /\ Await("tip", NoDoc)
        /\ UNCHANGED <<tip, tipDoc, dirty, sheet, timers, disk, unrecorded, inputs>>

RestoreTip ==
    /\ pc = "tip"
    /\ tip' = TipId /\ tipDoc' = Blob(TipId)
    /\ Apply(doc, aligned)
    /\ UNCHANGED <<stack, disk, unrecorded, inputs>>

\* backend.clear deletes the record, and the record this page holds.
ClearStart ==
    /\ Head1("clear")
    /\ autosave' = FALSE
    /\ worktree' = NoDoc /\ versions' = <<>> /\ hydrated' = FALSE
    /\ Await("clear", NoDoc)
    /\ UNCHANGED <<project, sheet, editorTimer, autoTimer, tails, nextId, unrecorded, inputs>>

\* A fresh project starts from the seed, whose values are not known yet, and is checkpointed.
ClearReset ==
    /\ pc = "clear"
    /\ doc' = [text |-> SeedText, vals |-> NoVals]
    /\ stack' = ResetStack(doc')
    /\ tip' = NoVersion /\ tipDoc' = NoDoc /\ dirty' = TRUE /\ aligned' = NoVersion
    /\ Commit(doc')
    /\ unrecorded' = FALSE
    /\ Await("reseed", NoDoc)
    /\ UNCHANGED <<sheet, timers, inputs>>

\* The reply, then onApply: it neither waits for a harvest nor runs anything.
ClearDone ==
    LET arg == WithText(doc, Rewrite(doc.text, doc.vals))
    IN  /\ pc = "reseed"
        /\ tip' = TipId /\ tipDoc' = doc
        /\ editor' = IF mounted THEN arg.text ELSE editor
        /\ store' = Overlay(store, arg)
        /\ Replace(WithVals(IF arg.text # editor THEN arg ELSE doc, store'), TipId)
        /\ autoTimer' = FALSE
        /\ tails' = tails + 1
        /\ Finish
        /\ UNCHANGED <<stack, mounted, editorTimer, autosave, disk, unrecorded, inputs>>

\* handleClearDocument after the chain: the seed is harvested again, unless a later
\* harvest supersedes it, and what the sheet then holds becomes the project's values.
ClearTail ==
    /\ tails > 0
    /\ tails' = tails - 1
    /\ store' \in {store, SeedVal}
    /\ Edit(WithVals(doc, store'))
    /\ Adopt(store')
    /\ UNCHANGED <<stack, tip, tipDoc, mounted, editor, editorTimer, autoTimer, autosave>>
    /\ UNCHANGED <<disk, line, inputs>>

----------------------------------------------------------------------------
(* Timers.                                                                 *)

\* scheduleEditorCheckpoint: the text typed 600 ms ago becomes an undo step.
EditorTimer ==
    /\ editorTimer # EmptyText
    /\ SetText(editorTimer)
    /\ stack' = Push(stack, doc')
    /\ autosave' = (autosave \/ doc' # doc)
    /\ autoTimer' = TRUE
    /\ editorTimer' = EmptyText
    /\ UNCHANGED <<tip, tipDoc, sheet, tails, disk, line, unrecorded, inputs>>

\* The page's own document: what the editor and the sheet show now.
Sync == Edit([text |-> editor, vals |-> store]) /\ Adopt(store)

\* flushAutoVersion
AutoTimer ==
    /\ autoTimer
    /\ autoTimer' = FALSE
    /\ Sync
    /\ Enqueue("auto", 0, NoDoc)
    /\ UNCHANGED <<stack, tip, tipDoc, sheet, editorTimer, autosave, tails>>
    /\ UNCHANGED <<disk, pc, held, inputs>>

\* flushAutosave
Autosave ==
    /\ autosave
    /\ autosave' = FALSE
    /\ SaveWorktree(doc)
    /\ unrecorded' = FALSE
    /\ UNCHANGED <<project, sheet, editorTimer, autoTimer, tails, line, inputs>>

\* A harvest of the text fills a sheet that had no parameter, or empties it, and the
\* sheet's values become the project's.
Harvest ==
    /\ mounted
    /\ store' = IF editor.lits = NoVals \/ store = NoVals THEN editor.lits ELSE store
    /\ IF Applying THEN UNCHANGED <<project, unrecorded>>
       ELSE Edit(WithVals(doc, store')) /\ Adopt(store') /\ UNCHANGED <<stack, tip, tipDoc>>
    /\ UNCHANGED <<mounted, editor, timers, disk, line, inputs>>

----------------------------------------------------------------------------
(* What the user does.                                                     *)

Input == inputs < MaxInputs /\ inputs' = inputs + 1

\* onChange of the editor: the project follows every keystroke.
Type ==
    /\ Input /\ mounted
    /\ \E t \in Typed \ {editor} :
        /\ editor' = t /\ editorTimer' = t
        /\ SetText(t)
    /\ UNCHANGED <<stack, tip, tipDoc, mounted, store, autoTimer, autosave, tails>>
    /\ UNCHANGED <<disk, line, unrecorded>>

\* A slider on its way: the values are tracked and not recorded.
Drag ==
    /\ Input
    /\ store # NoVals
    /\ \E v \in Vals \ {store} : store' = v
    /\ IF Applying THEN UNCHANGED <<project, unrecorded>>
       ELSE Edit(WithVals(doc, store')) /\ Adopt(store') /\ UNCHANGED <<stack, tip, tipDoc>>
    /\ UNCHANGED <<mounted, editor, timers, disk, line>>

\* The end of a scrub, or a reset: an undo step, an autosave and a checkpoint.
Scrub ==
    /\ Input
    /\ store # NoVals
    /\ store' \in Vals
    /\ IF Applying THEN UNCHANGED <<project, timers, unrecorded>>
       ELSE /\ Edit(WithVals(doc, store'))
            /\ stack' = Push(stack, doc')
            /\ autosave' = TRUE /\ autoTimer' = TRUE
            /\ unrecorded' = FALSE
            /\ UNCHANGED <<tip, tipDoc, editorTimer, tails>>
    /\ UNCHANGED <<mounted, editor, disk, line>>

\* Ctrl+Enter in the editor: the text is an undo step, then the values follow.
Run ==
    /\ Input /\ mounted
    /\ stack' = Push(stack, WithText(doc, editor))
    /\ autosave' = (autosave \/ editor # doc.text)
    /\ Sync
    /\ UNCHANGED <<tip, tipDoc, sheet, editorTimer, autoTimer, tails, disk, line>>

AskUndo == Input /\ Enqueue("undo", 0, NoDoc) /\ UNCHANGED <<project, sheet, timers, disk, pc, held, unrecorded>>
AskRedo == Input /\ Enqueue("redo", 0, NoDoc) /\ UNCHANGED <<project, sheet, timers, disk, pc, held, unrecorded>>
AskClear == Input /\ Enqueue("clear", 0, NoDoc) /\ UNCHANGED <<project, sheet, timers, disk, pc, held, unrecorded>>

\* handleLabelVersion syncs the document before it asks.
AskLabel ==
    /\ Input
    /\ Sync
    /\ Enqueue("label", 0, NoDoc)
    /\ UNCHANGED <<stack, tip, tipDoc, sheet, timers, disk, pc, held>>

\* The drawer that offers a version has read the record.
AskRestore ==
    /\ Input
    /\ \E i \in 1..Len(versions) : Enqueue("restore", versions[i].id, NoDoc)
    /\ hydrated' = TRUE
    /\ UNCHANGED <<project, sheet, timers, worktree, versions, nextId, pc, held, unrecorded>>

\* pagehide, or the tab goes to the background.
Flush ==
    /\ Input
    /\ autosave' = FALSE
    /\ SaveWorktree(doc)
    /\ unrecorded' = FALSE
    /\ UNCHANGED <<project, sheet, editorTimer, autoTimer, tails, line>>

----------------------------------------------------------------------------
Init ==
    /\ doc = Blank /\ stack = EmptyStack
    /\ tip = NoVersion /\ tipDoc = NoDoc /\ dirty = FALSE /\ aligned = NoVersion
    /\ mounted = FALSE /\ editor = SeedText /\ store = SeedVal
    /\ editorTimer = EmptyText /\ autoTimer = FALSE /\ autosave = FALSE /\ tails = 0
    /\ \/ worktree = NoDoc /\ versions = <<>> /\ nextId = 1
       \/ \E left \in Earlier :
            /\ worktree = left[1]
            /\ versions = <<[id |-> 1, doc |-> left[2]]>> /\ nextId = 2
    /\ hydrated = FALSE
    /\ chain = <<>> /\ pc = "idle" /\ held = NoDoc
    /\ unrecorded = FALSE /\ inputs = 0

Moves == UndoStep \/ RedoStep \/ Harvested \/ MoveDone
Opening == Mount \/ OpenStart \/ OpenLoad \/ OpenTips \/ OpenSeeded
Checkpoints == LabelStart \/ AutoStart \/ CommitDone
Restoring == RestoreStart \/ RestoreDone \/ RestoreTip
Clearing == ClearStart \/ ClearReset \/ ClearDone \/ ClearTail
Timers == EditorTimer \/ AutoTimer \/ Autosave

System == Moves \/ Opening \/ Checkpoints \/ Restoring \/ Clearing \/ Timers

User ==
    \/ Type \/ Drag \/ Scrub \/ Run \/ Flush
    \/ AskUndo \/ AskRedo \/ AskLabel \/ AskRestore \/ AskClear

Next == System \/ Harvest \/ User

Spec == Init /\ [][Next]_vars

\* IndexedDB and the worker answer, and timers fire; nothing makes the user act.
FairSpec == Spec /\ WF_vars(System)

----------------------------------------------------------------------------
(* Properties.                                                             *)

ProjectType ==
    /\ doc \in Docs /\ stack \in StackOf(Docs)
    /\ tip \in Nat /\ aligned \in Nat
    /\ tipDoc \in Docs \cup {NoDoc} /\ dirty \in BOOLEAN

PageType ==
    /\ mounted \in BOOLEAN /\ unrecorded \in BOOLEAN /\ inputs \in 0..MaxInputs
    /\ editor \in Texts \cup {EmptyText} /\ store \in Vals \cup {NoVals}
    /\ editorTimer \in Texts \cup {EmptyText}
    /\ autoTimer \in BOOLEAN /\ autosave \in BOOLEAN /\ tails \in Nat

DiskType ==
    /\ worktree \in Docs \cup {NoDoc} /\ versions \in Seq(Version)
    /\ nextId \in Nat /\ hydrated \in BOOLEAN

ChainType ==
    /\ chain \in Seq(Entry) /\ pc \in Waits /\ held \in Docs \cup {NoDoc}
    /\ pc # "idle" => chain # <<>>

\* The shape of every variable; an operation that waits is at the head of the chain.
TypeOK == ProjectType /\ PageType /\ DiskType /\ ChainType

\* The chip that says "Edited" never lies about the tip's document as the controller
\* knows it, whichever callback changed the working copy last (project-controller.js:149).
DirtyExact ==
    tipDoc # NoDoc /\ pc \notin {"tip", "tips"} => dirty = (doc # tipDoc)

\* Undo and redo always change the document, and the past stays within its limit,
\* whatever the operations, timers and edits have pushed (undo-stack.js:85-122).
UndoLine == Distinct(stack) /\ Bounded(stack)

\* What the controller compares with is the tip's blob: "Tip blob content for dirty
\* comparison (source+values)" (project-controller.js:76).
TipDocIsTip == pc # "clear" /\ tip # NoVersion => tipDoc = Blob(tip)

\* With nothing running, the tip is the newest version, and the version marked current
\* exists and shows what the working copy shows (project-controller.js:79-84), once it has
\* values; an edit that overtook a checkpoint is TipDocIsTip's.
MarkersSound ==
    mounted /\ chain = <<>> /\ TipDocIsTip =>
        /\ tip = TipId
        /\ aligned # NoVersion => Blob(aligned) # NoDoc
        /\ aligned # NoVersion /\ doc.vals # NoVals => Shown(doc) = Shown(Blob(aligned))

Settled ==
    mounted /\ chain = <<>> /\ editorTimer = EmptyText /\ ~autoTimer /\ ~autosave /\ tails = 0

\* Once nothing is scheduled, what the user sees is in the record, as the working tree or as
\* the tip (main.js:911-947), except for values that only a harvest or a drag put there and
\* for an edit whose checkpoint the open itself cancelled.
SettledIsDurable ==
    Settled /\ TipDocIsTip /\ ~unrecorded =>
        \E d \in {worktree, Blob(tip)} : d # NoDoc /\ Shown(d) = Shown(doc)

\* Whatever overlaps, every operation ends and every timer runs out: no restore of a
\* missing version or null undo leaves the chain waiting (project-controller.js:100-115).
Settles == <>[]Settled
============================================================================
