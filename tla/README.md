# Specifications of the OCCT CAD workbench

The repository builds OpenCASCADE for WebAssembly behind a C API (`api/`) and puts a CAD
workbench on top of it (`agent-os/src/`): a page with a Luau editor, a parameter sheet, a
viewport and a version history, and a worker that runs Luau programs in a guest VM and lets
them call the kernel. This directory models the parts of it where the order of events
decides whether the result is right, checks them with TLC on small instances and proves the
most important results with TLAPS for every instance.

## The system

| Part | State it keeps | Operations | Talks to |
|---|---|---|---|
| Host page (`main.js`) | editor text, worker calls by id, timers, generation counters, `historyApplying`, status line | editor, sheet and history handlers; `runSource`, harvest of parameters, `runAnalyze`, `callWorker`, `onApply` | all parts below: calls and callbacks, messages to the worker |
| Parameter store, scheduler, sheet (`params/store.js`, `eval/scheduler.js`, `params/sheet.js`) | parameter list, `generation`, `goodGeneration`; pending and in-flight rebuild; commit timers | `set`, `replace`, `reset`, `markGood`; `dispatch`, `flush`, `cancel` | subscribers on the page; `onRebuild` |
| Parameter schema (`params/*.js`, `batteries/params*.luau`) | none | header scan, merge, clamp, rewrite of literals | page, worker |
| Project controller and undo stack (`history/project-controller.js`, `history/undo-stack.js`) | document, tip and its blob, dirty flag, aligned version, undo line, chain of operations | `open`, `setSource`, `setValues`, `undo`, `redo`, `commitVersion`, `autoCommit`, `restoreVersion`, `flush`, `clearDocument` | page (`onApply`), backend (await) |
| Backends (`history/opfs-backend.js`, `history/git-backend.js`) | one IndexedDB record per project and its copy in the page; a git repository behind a serial queue | hydrate, worktree, commit, read, restore, list, clear, remotes | IndexedDB, git engine |
| Runtime worker (`runtime-worker.js`) | stamps per kind, one promise chain, VM and staging flags, mesh cache | config, warm, analyze, params_resolve, execute | page (messages), guest VM, bridge |
| Bridge and shape memo (`occ-bridge.js`, `memo-cache.js`) | handle table with generations, memo by fingerprint | `call`, `freeAll`, `free`, memo get, put, sweep | guest, kernel |
| IR in the guest (`batteries/ir/*.luau`) | tape being recorded, bindings of an evaluation | record, finish, load, validate, bind, resolve, evaluate | bridge |
| C session (`api/src/occ_c_session.cc`) | entities, names, frames, operation stack, world planes, next id | register, release, name, frame, plane, query | callers of the C API |
| C API over the kernel (`api/src/occ_c*.cc`) | none of its own | geometry | kernel |
| Viewport and camera (`view/cad-viewport.js`, `editor-cam.js`, `gimbals.js`, `view-cube.js`, `command-router.js`) | camera, pressed pointers, the gesture, the handle that is dragged | orbit, pan, pinch, wheel, focus, fit, projection, drag of a handle | page (bodies, parameter store) |
| Editor, drawer, packaging | DOM, caches | rendering, distribution | page |

What makes it hard:

* **Interleaving on one thread.** The page and the worker are event loops. A handler runs to
  its next `await`; timers, messages and other handlers run before it goes on. State read
  before an `await` and used after it is the commonest risk.
* **Superseding.** Executes, harvests and analyses are numbered when they arrive and served
  later; newer ones make older ones cancel, in the queue or in the middle of a host call.
* **Caches that outlive a request.** Shapes survive from one scrub to the next through the
  memo, a whole mesh through a one-slot cache, staged files until the asset base changes.
* **Failure in the middle.** Fetches, host calls, guest programs and stores fail after part
  of the work is done.
* **Leaving.** A page that is hidden or closed saves what it can; the next one opens the
  record.
* **Two stores of one timeline.** IndexedDB is written through, git loads in the background,
  mirrors and is mirrored, and either may fail or be cut off by the page's leaving.
* **Two readers of one text.** The guest's syntax walk and the page's line walk must find the
  same literals, or a run is not what the sheet says.
* **Pointers without an order.** A mouse and fingers go down, up and away over a canvas, its
  handles and the view cube, which share one camera.
* **Long sequences of legal calls** on the C session: names given, stolen and released,
  planes made, released and made again.

What has to be right, part by part:

* worker: one reply per message and in order, a result only for the newest request, the mesh
  of that request's program and parameters, no use of a freed shape, no leak over scrubs;
* project: the dirty flag, the undo line and the version markers tell the truth; whatever is
  on screen ends up in the record; an operation that fails does not stop the next;
* page: once everything is quiet, the sheet fits the text and the mesh fits the sheet;
* sheet and text: a row shows what is stored; a run gets what the sheet shows and nothing else
  of the program is changed; an error is shown at the line it is in;
* bridge: an id names one shape for as long as it is known, and scratch memory comes back
  whatever a call ends in;
* viewport: the camera keeps still under a handle, no gesture outlives its pointers, and zoom
  and projection keep what is seen;
* stores: a checkpoint that was answered can be read back; two stores do not contradict
  each other after a crash;
* session: lookups by name, creator and kind stay right over any sequence of calls;
* IR: a document that is accepted evaluates without a missing reference, equal documents have
  equal fingerprints, and dead operations do not change the result.

## Modules

| Module | Models | Checked by |
|---|---|---|
| `LatestWins` | what the worker promises the page, with nothing of how | refined by `RuntimeWorker` |
| `RuntimeWorker` | `runtime-worker.js` with the handle table, the memo and the guest's evaluation | `worker` |
| `RuntimeWorkerProofs` | theorems about `RuntimeWorker` | TLAPS |
| `OccBridge` | `occ-bridge.js` and `memo-cache.js`, step by step inside a call | `bridge` |
| `OccBridgeProofs` | theorems about `OccBridge` | TLAPS |
| `UndoStack` | `undo-stack.js`: operators from a stack to a stack | through `ProjectHistory` |
| `ProjectHistory` | `project-controller.js`, the IndexedDB record of one page, the page's handlers and timers that drive them | `history`, `history_tip` |
| `ProjectHistoryProofs` | theorems about `UndoStack` and `ProjectHistory` | TLAPS |
| `HistoryStore` | `opfs-backend.js` and `git-backend.js` over several loads of the page | `store`, `store_clear` |
| `HistoryStoreProofs` | theorems about `HistoryStore` | TLAPS |
| `ParamHost` | `store.js`, `scheduler.js`, the commit timers of `sheet.js`, and harvest, analysis, `runSource` and `onApply` of `main.js` | `params` |
| `ParamHostProofs` | theorems about `ParamHost` | TLAPS |
| `ParamText` | `luau-locals.js`, `params_resolve.luau`, `extract.js`, `resolve.js`, `inject.js`, `header-fingerprint.js` and what `main.js` does with them | `text`, `text_two` |
| `ParamTextProofs` | theorems about `ParamText` and `Sheet` | TLAPS |
| `Sheet` | one row of `sheet.js` and `slider.js` over `store.js` and the clamping of `types.js` | `sheet` |
| `EditorCam` | `editor-cam.js` | through `Viewport` |
| `Viewport` | `cad-viewport.js`, `gimbals.js`, `view-cube.js`, `command-router.js`, `bindings.js` over `EditorCam` | `viewport` |
| `ViewportProofs` | theorems about `Viewport` | TLAPS |
| `OccSession` | `occ_c_session.cc` | `occ_session` |
| `OccSessionProofs` | theorems about `OccSession` | TLAPS |

An `MC` module of the same name gives each its constants. Modules compose where the code's
parts share state: `ProjectHistory` extends `UndoStack`, `Viewport` extends `EditorCam`,
`RuntimeWorker` is shown to implement `LatestWins`, which is all that `ParamHost` assumes of it.

### RuntimeWorker

A message is stamped when it arrives (`Post`); the promise chain serves messages one at a
time. `pc` says where the one being served waits: nothing else runs between two waits, so an
action is what the code does from one `await` or host call to the next, `Post` being enabled
at each of them. `jobs`, `stamps` and `sent` are the messages, the stamps they got and the
replies; `latest`, `active`, `abortRequested` and `lastFinished` are the counters of the
same meaning; `base`, `staged`, `files`, `vm`, `occ` what is loaded; `shapes`, `nextId`,
`memo`, `memoGen`, `sessionMemo` the bridge; `meshCache` the one slot; `env` what the guest's
evaluation has bound.

Left out: collisions of the 32-bit fingerprints (a key stands for what it is the hash of);
the text of a user error, even one that reads like an abort; the error for an empty source;
stdout and diagnostics; unknown kinds; evaluations in the middle of a recording; frees of
temporaries by the guest. An operation makes one kernel call. The ninety `cad.call`
operations are one that makes a shape of a fingerprint. The mesh cache clones what it gives
and takes, so a transferred buffer cannot detach it. A program is a sequence of fingerprints
and its mesh is that of the last.

### ProjectHistory

Documents are a text (a body and the literal its header gives the one parameter) and the
value in the sheet. `chain` is the promise chain of history operations, `pc` where its head
waits (the store, a harvest or an execute), `held` what that operation took before it waited.
Calls of the store take effect when they are made and are answered later, as the IndexedDB
backend sets its record before it awaits the write. Typing, dragging and scrubbing go on
meanwhile, and so do the editor's idle timer, the automatic checkpoint, the autosave and the
tail of a clear. `unrecorded` is a history variable: the last change of the document was one
that no timer and no operation is told about (a harvest, a drag).

Left out: a failing IndexedDB and git (they are in `HistoryStore`), the project's metadata fields;
harvests that overtake each other (they belong to the page's loop); `applyEdit`, `checkpoint`,
`dispose` and `replacePresent`, which the page never calls. Two reads in a row of the store
are one wait. The default backend's commit never fails.

### ParamHost

The page between an edit and its mesh, over a worker of which only `LatestWins` is known: it
answers calls in their order, gives a result to the newest of a kind only, and may fail or
cancel what it is allowed to. `sheet` is the store with the sheet's commit timer; `loop` the
scheduler (`pending`, the edit that waits for the debounce; `waiting`, the flushes that wait for
a rebuild; `inflight`), the calls on their way with the continuation each has in the page, the
status line, the viewport and what it shows; `text`, `lastFp` and `resolveTimer` the editor's
side. What the page does between two awaits is one step, written as an operator from a loop to a
loop, because one answer can wake several flushes of which each starts a run: `Resume` gives the
flushes that wait their turns (`Turn`) one by one, and `Unshelve` serves (`Served`) the meshes
that waited for the viewport. `FreshId` reuses the numbers of ended runs, where the page counts:
nothing compares ids but for equality. A time-out may come at any moment, among calls of the
same limit in their order. A history move is what `onApply` does to this loop; what it does to
the project is in `ProjectHistory`. `asked`, `wanted` and `failed` are history variables: the
header of the last harvest asked for, the generation of the last rebuild asked for, the last
execute failed.

Left out: the view and xform tiers, several parameters and a schema without any, clamping, mesh
deflection, the stale overlay and the markers of the editor, `markGood` (nothing reads the good
generation), the reason "clear". The fallback that reads parameters in the page finds what the
guest finds (where it does not is in `ParamText`). Two meshes that wait for the viewport are
painted in order on the one that is kept.

### OccBridge

A call is synchronous, so what goes wrong goes wrong inside one. `Steps` gives each wrapper as
the list of what it does to the kernel's heap: allocate a block, throw when one is null, enter
the `try` whose `finally` frees some, look the operands up and call the kernel. `run` is the
call being served: where it is, the blocks it holds, those that answered null, those the
`finally` will free. `shapes`, `nextId`, `live`, `generation`, `memo` and `memoOn` are the
tables; `freed` and `leaked` are history variables, and so is `last`, which says how the last
call ended. Wrappers that take the same steps are one row; what the kernel computes is left
out. Observation outside the properties: `flatNodes` (occ-bridge.js:1326-1330) falls back
to `n[0], n[1], n[2]` per missing name, so that a table that counts from 1 is read as (x, x, y).

### HistoryStore

IndexedDB serves requests in the order they were made (`tx`), the git engine runs its
operations on one promise chain (`jobs`): each has its effect when it is served, and its
caller goes on then. There are three callers, of which each waits in one place (`at`): the
controller's chain of operations, the autosave, the drawer's list. A page that leaves drops
both queues where they are (`Reload`), and what is durable is `disk` and `blob`. Any of opening
the database, reading, writing, loading git and its snapshot may fail (`Faults`). A document is the
number of the edit that made it, and a version is known by that number in the record and by
its negative in git, as neither store knows the other's ids.

`Overlap` says whether a save or a list may come while the page still opens or while a clear is
under way. The passing run has it FALSE: with TRUE, `TimelineGrows` is false of the code,
because `saveWorktree` does not read the record first (a page that is hidden before it has
read its record writes an empty one over it). Also seen: a failed read costs the stored
timeline the same way, which the property excepts by name; `ResetTo`, the hard reset of
the branch by git's `restore`, cannot be reached through the facade, which
restores from git only what the record does not have.

### ParamText

A text is a sequence of lines, each of a kind; only the right side of a local is spelled out,
since literals are located there by searching: digits, and a comma, a parenthesis or something
else under these names. `Rewrite` goes line by line, the places of one line from its end, as the
code goes through the whole text from its end; two names of a line are looked at (a bound).
`GuestFree` and `HostFree` are the two scanners' ideas of which literals are parameters;
`Rewrite` and `Program` what a run is given; `MapLine` the way back of a line number; `Harvest` the merge of locals, `@param` lines and registrations;
`Fingerprint` what is remembered of a header. The actions are an edit, the harvest by either
scanner when the idle timer has run out, a change in the sheet, a reset and a move of the
history to any text with any values for its parameters, or none.

The texts of the passing run are in the authoring look of the repository's demos, which
`Authored` defines: in the header no parenthesis, one name in a line that has an annotation or a
display comment, and the display comment right above its local. `MCParamText` states that its
texts are `Authored` and name each parameter once (`NamedOnce`), which is what the theorems ask of
a text. Outside the look the two scanners part, each seen in the model and promised nowhere: a
parenthesis in an annotation or an expression ends the header for the page only; of two locals of one name the guest keeps
the first and the page the last, and the page writes the value into both; a blank or `@param`
line between a display comment and its local takes it away from the page only; a display
comment counts for every name of a line in the guest and for the first in the page. A checkpoint
that has values for some of its parameters only is excluded, because the page never
writes one. A literal edited in the text does not change the value in the sheet
(`mergeCurrentValues`): the next run overwrites what was typed, which is what the code means to do.
The fingerprint does not see display comments, locals of several names, registrations or a call
put above the parameters, so that the sheet stays as it was after such an edit.

### Sheet

The specification is `RowSpec`. One number, held by three parties with a rounding each: the slider's steps from the minimum
(`Snap`), the store's, which rounds the result again to multiples of the step (`ClampParam`),
the field's none. `timer` is the pending commit of a scrub, `typed` says the field holds the
user's text, `dragging` that the slider is held. Undo, reset, harvest and a handle of the
viewport come from elsewhere at any time; a handle that is pressed is taken to have blurred the
field and let the slider go, as the browser does. Seen in passing: a slider can be one step
beyond the maximum before it is clamped, the store's second rounding leaves the grid that
starts at the minimum (types.js:82), and what is typed out of range is replaced by the clamped
value.

### EditorCam and Viewport

Screen and world have one dimension: the point under pixel x is `target + x * Size`. Directions
are a cycle of two. Pointers are a mouse and a finger; `pointers` is what the camera knows of,
`down` and `captured` what the browser does, because the two differ: a mouse let go of outside
the canvas is not reported to it unless captured. `drag` is the handle that is held, `cube`
the view cube's own pointer, `limits` what the bodies on show bring with them. Left out: what is
drawn, rotation as more than a direction, momentum (off), matrices, the focus that Escape moves.

Seen in the model, and no property of the run: a pan looks the point under the cursor up again
before the camera has moved (editor-cam.js:331), so that of two equal moves of the mouse only
one moves the scene, although the file's header promises a pan that is pixel-perfect; a drag
has no listener for `pointercancel`, so a cancelled finger leaves the handle held until another
pointer is released; a second finger on a handle starts the drag again without a commit; a pan
goes on from the midpoint when one of two fingers is lifted; a wheel during a drag of the
camera ends the gesture; slow moves over the cube count as a click, and so does a cancelled
one; a change of projection during a pinch mixes the units of the two lengths; a handle that is
let go of without a move commits the value it had.

### OccSession

One thread calls the session and a call is atomic, so the state space is that of sequences of
calls. The helpers of the source are operators from a session to a session, each call is an
action that composes them. A refused call is an action that leaves the session alone. Ids of
operations are sequences, so that `box1` is a prefix of `box10` as it is for `strncmp`.
`issued` is a history variable: every id that ever was an entity's.

Left out: reads of one field, the algebra on lists of ids and the capped output arrays, the
numbers in frames and shapes. The planes of the world are made from constants, so the
kernel's refusal to make one is not a behaviour.

## Runs

| Run | Question | Bounds and why they are enough | Deadlock |
|---|---|---|---|
| `worker` | types, shapes live while used, busy exactly while an execute is pending, only the current base's files run, the sweep leaves exactly what it should, the worker implements `LatestWins`, every message is answered | 3 messages of any kind, 2 programs that share an operation, 2 bases: a first scrub fills the memo, a second reuses and drops, a third finds what is left; a config can come before, between and after | off: the page may stop posting |
| `history` | dirty flag, undo line, markers, durability; everything settles | 3 user actions, undo limit 2 (80 in the code: the limit is met with 3), 2 bodies, 2 values, 2 earlier records: a working copy that is the last version, and one that is not | off: all may be settled |
| `history_tip` | a comment of `project-controller.js`, refuted | as `history` | off |
| `store` | order of every timeline, record and database at rest, what the drawer shows can be restored, timelines grow, database before git | 3 documents, 2 loads of the page, 2 git engines, 3 lists, restores or clears, every fault: a version before and after a reload, and one that is in one store only | on |
| `store_clear` | a comment of `project-controller.js`, refuted | 4 documents, no faults | on |
| `params` | the mesh at rest is the sheet's, no flush waits for a run that has ended, nothing hangs, the sheet at rest shows the last harvest, no timer or harvest undoes an edit | 3 user actions, 1 fault, 2 values: a rebuild in flight, a flush that waits for it and a third edit or a move that overtakes both; a fourth action was tried without faults and found nothing more | off: the page may be at rest |
| `bridge` | ids and shapes stay in step, scratch comes back, nothing is answered that was not written | 3 shapes, 2 generations of the memo, 1 fingerprint; every wrapper with every allocation null or not and every kernel call refused or not | on |
| `viewport` | a handle that is held keeps the camera still, no gesture outlives its pointers, zoom and projection keep what is seen | a mouse and a finger, pixels -1 and 1, sizes 1 and 2, targets -1 to 1, 2 directions, 2 values: every pair of pointers on every pair of places, and each limit is met from both sides | off |
| `sheet` | a row at rest shows what is stored, the commit timer takes nothing back | 1 to 31 by 4 with default 6, typed -1, 3, 8, 17, 24, 50 or no number: the roundings differ, and both ends are passed | off |
| `text` | a run gets the sheet's values and nothing else, errors come back to their lines, an undo puts the sheet's literals into the text | 5 texts, the empty one and programs with directives, groups, display comments, annotated, bare and computed locals, requires, `@param` lines, registrations, a local after the call that ends the header; literals 1 and 12, so that a rewrite changes the length | off |
| `text_two` | the header comment of `inject.js`, refuted | one text with two names on a line | off |
| `occ_session` | names, placements, tags, refusals, reselection | 4 ids, 1 open operation besides the one a plane pushes, 2 names one of which is a plane's | on |

Every property of a passing run is broken by a mutant of one definition, a plausible bug in
the code that the definition models; the mutants stand before the definitions they change.

Fairness: `worker` assumes weak fairness of the work of the chain as a whole. A wait of the
chain is for the VM to load, a fetch or the guest, each of which ends or throws; the page is
under no obligation to post. `history` assumes weak fairness of the system's steps: IndexedDB
and the worker answer, timers fire; nothing makes the user act, and the user acts only finitely
often (the bound), so that the timers can run out. The other runs state no fairness. `params`
has no liveness property: `NothingHangs` says that a page without timers and calls has
finished, and each of the two goes away by itself. `store` checks deadlock instead: as long as
the bounds allow, no caller waits for an answer that never comes while nothing else can happen.

### What the refuted claims show

* `TipDocIsTip`: an edit made while a checkpoint is being written is remembered as part of it;
  the dirty flag is off and the automatic checkpoint finds nothing to do.
* `WipeIsFinal`: a clear that finds the git engine still loading leaves the snapshot of the
  repository alone, and the versions in it come back with the next load.
* `RunIsSheet` of two names on a line: both literals are located at the same place.

Met while modelling, each with the line where it bites:

* a battery that could not be fetched is skipped and the set still counts as staged
  (`runtime-worker.js:299`): `params_resolve.luau` is then never written, and every harvest
  fails until the base changes;
* an edit waits for its rebuild when a harvest of another header replaces the parameter
  list; that raises the generation, the rebuild is stale when it starts, and nobody asks for
  another: the status line says "Updating…" until the next edit (`main.js:710`);
* a header is edited and edited back before the harvest is answered: the second harvest is
  skipped, and the answer for the header that is gone is applied (`main.js:418`);
* `ensure_world_planes` gives a plane a name without taking it from an entity that has it
  (`occ_c_session.cc:725`), which is why `NamesSound` excepts the planes' names.

## Proofs

`RuntimeWorkerProofs` (any programs, bases and number of messages). The inductive invariant is
`IInv`, the conjunction of `QueueInv` (the stamps of the messages of a kind rise in the order
they arrived and end at `latest`, and the finished stamp is that of the last execute served),
`LoadInv` (staged means the required files are the base's), `HostInv` (a memo entry whose shape
is live has the shape of its fingerprint, and the cached mesh is its key's) and `RunInv` (what
each position of `pc` says of the job served, the staging and the bound shapes). The order of
the stamps carries the argument: superseded by stamp is superseded by position, which is what
`LatestWins` speaks of; and a shape that is live under a memo entry is the right one, which is
why reuse does not change the mesh. From it: `TypeCorrect`, `ShapesLive`, `RunsCurrentBase`,
`BusyExact` and `WorkerImplementsLatestWins`, the last by step simulation. The sweep needs more,
because `IInv` says nothing of generations: `SweepInv` adds that no entry is of a generation to
come, that an execute not aborted keeps the mode of its message from the session to the guest,
and that under memo the entries of the running generation are the operations done so far, each
with the shape the program holds (`Filed`). A lookup that misses removes an entry whose shape is
gone; no operation done so far has such a one, since those are live (`GuestShapesLive`), so the
ledger survives. What `memoEnd` keeps is then the program, and its ids are those of `env`:
`SweepIsExact`. A program may repeat an operation: the second one hits the entry of the first.

`OccSessionProofs` (any operations, names, shapes and bounds). `Sound` is types, names and
placements of a session; `Inv` adds that ids ever issued are below the next. Each helper has
a lemma that says field by field what it makes of a session, each call a lemma that it keeps
`Sound`, only adds entities with fresh ids (`Grows`) and tags them rightly (`Tagged`). `Calls`
collects them: a call is refused and changes nothing, or leads to such a session. All six
properties of the run follow, the three about steps from `Calls`.

`ParamTextProofs` has two parts. The first is about `ParamText` (any texts, literals and order of
edits, harvests, settings and moves of the history). The invariant `TypeOK`, that the text can be
written and the sheet holds literals, is all that is inductive; what makes the properties hold is
what the operators do with such a state. `NoComma` and `LiteralValue`: a right side that is read as
one value is that value, and a literal is read as one (by counting the cuts). `RewriteLine`: a
rewrite touches nothing but right sides of locals. `HeadIsHot`, `ExecutedLines`, `MapsBack`:
where each line of what is executed comes from, hence `LinesAreShown`, for every text.
`ScannersAgree` is the theorem that the two scanners take the same literals for parameters; it holds
in the authoring look only (`Authored`), since outside it the scanners really part, which is also
why `RunHasTheSheet` and `MoveShowsTheValues` have that hypothesis. In that look a parameter is
alone on its line (`FreeIsSingle`), so a rewritten line is the value and nothing else
(`AuthoredLine`). A move of the history needs the way back as well: the property speaks of the look
of the text the move leaves, the checkpoint's values are for the parameters of the text before it, so
a text that is `Authored` after a rewrite was so before (`AuthoredBefore`) with the same parameters
(`FreeBefore`). `NamedOnce` is needed for a checkpoint without values: of two locals of a name the
page then shows one.

The second part is about `Sheet` (any range, step, default and typed numbers). `RowInv` is `TimerIsStored`, that a value
which waits for its timer is in the store already, clamped, together with `ShowsStore`, which is
not inductive alone: when the timer fires, the row is at rest again, and shows what is stored only
because the timer changes nothing. `ClampParam` and `Snap` are never expanded but to see that
they give integers, so the result does not rest on the two roundings agreeing.

`ProjectHistoryProofs` (any documents, records, undo limit and number of inputs). `Inv` is types
and lines: `Flags`, `DocInv`, `PageInv`, what the record holds, and `Line`, that neighbours on the
undo line differ; on top of lemmas for each operator of `UndoStack` it gives `TypeOK` and
`UndoLine`. `DirtyExact` is inductive by itself: each step that changes the document, the tip or the
flag changes them together. `MarkersSound` needs `MarkedInv`: version ids are below the next one
(`Ids`), whoever has a tip or a marker has read the record (`Read`), each wait belongs to the
operation at the head of the chain (`Heads`), the tip is the newest version but while one is on
its way or was cleared (`TipKnown`), and a marked version is there and shows what the working copy
shows, more while a move waits for the store or a harvest (`MarkShown`, `Untouched`).
`SettledIsDurable` needs `SavedInv`: besides, what is not in the record has a timer or an operation
that will save it, or is a change nobody is told of (`Scheduled`, `Awaited`, `Covered`), what an
open has loaded is the working tree or a seed it will save (`Loaded`), and a cleared project's new
document has the sheet's values or none (`Reseeded`).

`HistoryStoreProofs` (any documents, page loads, engines, calls and faults, for `~Overlap` as in the
run). `Calls` says who waits where and for what: the requests and the jobs that are on their way
belong to the caller that waits for them, a read or a delete is alone, a page that works has a
record. It is inductive by itself, and it makes each action one of six cases (`Stores`): the record
stays, goes, is written through, or a request is served. Over it stand one invariant per property:
`LastWrite` (the last put carries the record) for `AtRest`; `Grown` (stored, on their way and the
record begin one another, in that order) for `TimelineGrows`; `Order` for `TimelineOrdered`, which
needs to know that a commit on its way to git is newer than all that git has (`Fresh`) and that a
mirror's rest comes behind what it has mirrored (`Mirrors`); `Shown` for `ShownIsRestorable`;
`Ahead` (whatever follows a commit's put has the commit's timeline) for `PrimaryFirst`.

`ParamHostProofs` (any values, inputs and faults). No property of the run but `CommitIsCurrent`
is inductive: they say what holds at rest, and `IInv` says what it comes from while calls are
under way. `Alive`: the scheduler's slot, each flush that waits, the run button and the history
move each stand for a call that is still listened for, or for a mesh on the shelf, which the end
of that call gives back; `NoOrphanWait` is part of it and `NothingHangs` what is left of it when
nothing is on its way. `InOrder`, that calls of the same limit time out in their order, and
`HarvestKnown`, that the newest harvest is of the header last asked for, or, once timed out,
that the sheet declares that header, give `SheetOfLastHarvest`. `MeshComes`: unless a rebuild of
the newest generation is `Due` (its timer, its flush or the harvest of its move is still to
come), the newest execute carries the values in the sheet, and when none is left the mesh on the
shelf or on show does, or the last execute failed; at rest that is `SettledMesh`. One answer can
set off a cascade: `Resume` and `Unshelve` are recursive functions over what waits, of which
`ResumeSteps` and `UnshelveSteps` show that they are defined and go step by step. The library's
induction theorem takes an operator, so the steps up to a number N come from `LeastNumber`,
`UpTo` and `Recursion`, which are proved from the order of the numbers. `ResumeEffect` and
`UnshelveEffect` say what a cascade leaves behind, `Released` what an answer or a time-out takes
away, and each action's lemma puts the two together.

`OccBridgeProofs` (any shapes, fingerprints, generations and calls). `TableInv`: the ids in the
table and those that were freed are below the next one, and handles and live shapes correspond one to
one; it gives `IdsNameOneShape`. `RunInv` is an outline of a call: at every step, what is held was
allocated by an earlier step, what was asked for is held or null, a null was not looked at yet, and
what the `finally` frees is what a `try` passed has named. Each wrapper's list of steps has a
lemma that it is disciplined: whatever may throw comes when the blocks that are held are covered, but
for those the wrapper is excused for; and, `distance` apart, every block is looked at before the end.
That gives `ScratchReturned` and `AnswersAreWritten` for every combination of null allocations and
throws, with the exceptions the two properties name.

`ViewportProofs` (any pixels, sizes, limits and values). The invariant is types, `Held` (a gesture
has a pointer) and `GestureOwned` itself. From it `GestureOwned`, `DragOwnsPointer` and
`FramingKept`. Its assumptions say what the code's numbers are: pixels are integers and a range of
radii, the default ones included, is a pair in order.

Assumptions are those the modules state (`ASSUME`), which TLC evaluates in the runs.

Only model-checked: liveness (`EveryRequestAnswered`, `Settles`), which needs fairness and
`ENABLED` and is out of the prover's reach. Every other property of the passing runs is a theorem,
some with a hypothesis: `RunIsSheet` and `MoveShowsValues` for texts in the authoring
look, and those of `HistoryStore` for `~Overlap`, as its run has it.

## Not modelled

* The C API over the kernel and the kernel itself: geometry on reals.
* What the viewport draws: grid, triad, materials, loader; wrappers of the Monaco editor, its
  completion tables and `cad-api-catalog.js`, a table of texts; the drawer's DOM; packaging and
  the service worker's cache policy.
* `cad-engine.js`, the worker's warm-up and execute path for one caller without a queue.
* Remotes of the git backend (push, pull, clone), which the page passes through and never calls.
* Operations of modelled parts that nothing calls: `applyEdit`, `checkpoint`, `dispose`,
  `replacePresent`, `requestRebuild`.
* IR documents and the recording of tapes, which are planned.

`PROJECT.json` lists each with its reason.

## Plan

Done, in the order of importance: worker, project, page, session, stores, bridge, sheet,
viewport, text. Next:

1. `IdLists`: the query algebra and the capped arrays of the C session against set operators.
2. `IrTape`, `IrDocument`: recording and dead-operation elimination, validation, binding,
   canonical order and evaluation, as recursive functions checked against reference
   definitions over small documents.
3. The remotes of the git backend.
