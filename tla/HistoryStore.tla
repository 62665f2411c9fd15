---------------------------- MODULE HistoryStore ----------------------------
(***************************************************************************)
(* agent-os/src/history/opfs-backend.js and git-backend.js: where versions *)
(* and the working copy are kept.  The page's record of a project is the   *)
(* timeline the user sees, written through to IndexedDB; a git engine that *)
(* loads in the background gets every write a second time and stands in    *)
(* for the record when it is empty.                                        *)
(*                                                                         *)
(* IndexedDB runs requests in the order they were made, and the git engine *)
(* runs its operations on one promise chain: both are queues of requests,  *)
(* each of which has its effect when it is served, at which point its      *)
(* caller goes on.  A page that leaves drops both queues where they are.   *)
(*                                                                         *)
(* A document is the number of the edit that made it, so a later one is    *)
(* newer.  The memory backend under the IndexedDB one holds the record's   *)
(* working copy and no versions: it is the record when there is no         *)
(* database.                                                               *)
(***************************************************************************)
EXTENDS Integers, Sequences, FiniteSets, SequencesExt

CONSTANTS MaxDocs,   \* bound: documents the user makes
          MaxPages,  \* bound: how often the page is loaded
          MaxRepos,  \* bound: git backends that load
          MaxActs,   \* bound: lists the drawer asks for, restores and clears
          Faults,    \* what may go wrong, of "open", "get", "put", "git" and "save"
          Overlap,   \* whether a page's save or list may come while it opens or clears
          NoStore    \* no record in IndexedDB or on the page; an engine that is closed

ASSUME BoundsAssumption ==
    MaxDocs \in Nat /\ MaxPages \in Nat /\ MaxRepos \in Nat /\ MaxActs \in Nat
ASSUME FaultsAssumption == Faults \subseteq {"open", "get", "put", "git", "save"}
ASSUME OverlapAssumption == Overlap \in BOOLEAN

NoDoc == 0
Docs == 1..MaxDocs

\* A version is known by a number its store gives it: that of its document in the record,
\* and the negative one in git, so that neither store knows the other's.
Ids == -MaxDocs..MaxDocs
DocOf(id) == IF id < 0 THEN -id ELSE id
GitId(d) == -d

\* A record of IndexedDB, or a repository: working copy and versions, oldest first.
Store == [wt : Docs \cup {NoDoc}, log : Seq(Ids)]
Empty == [wt |-> NoDoc, log |-> <<>>]
ASSUME NoStoreAssumption == NoStore \notin Store

\* The controller's chain, its autosave, and the history drawer.
Callers == {"op", "save", "list"}
Nobody == "nobody"

VARIABLES
    disk, blob,            \* durable: the IndexedDB record and the OPFS snapshot of the repository
    rec, idb, tx,          \* the page's record, its database and the requests made of it
    git, repos, loads, jobs,  \* the facade's git backend, all there were, loads on their way, the chain
    at, ans, todo,         \* where each caller waits, git's answer, the versions left to mirror
    listed,                \* the versions the drawer shows
    edits, pages, acts,
    wiped, failed          \* history variables: the last edit a clear wiped; what has failed

durable == <<disk, blob>>
local   == <<rec, idb, tx>>
engine  == <<git, repos, loads, jobs>>
calls   == <<at, ans, todo, listed>>
counts  == <<edits, pages, acts>>
vars == <<durable, local, engine, calls, counts, wiped, failed>>

----------------------------------------------------------------------------
(* Stores.                                                                 *)

Has(s, id) == Contains(s.log, id)
WithWorktree(s, d) == [s EXCEPT !.wt = d]
WithVersion(s, id) == [wt |-> DocOf(id), log |-> Append(s.log, id)]

\* What is left of a repository when a hard reset has moved its branch to a version.
ResetTo(s, id) ==
    [wt |-> DocOf(id), log |-> SubSeq(s.log, 1, CHOOSE i \in 1..Len(s.log) : s.log[i] = id)]

\* A worktree taken back to the head: what was only saved is gone.
AtHead(s) == IF s.log = <<>> THEN s ELSE WithWorktree(s, DocOf(Last(s.log)))

----------------------------------------------------------------------------
(* The page's record and IndexedDB.                                        *)

\* getRec: a write without a record starts an empty one.
Record == IF rec = NoStore THEN Empty ELSE rec

Listing == IF rec = NoStore THEN <<>> ELSE rec.log

Request(who, kind, s) == [who |-> who, kind |-> kind, rec |-> s]

Submit(r) == tx' = IF idb = "failed" THEN tx ELSE Append(tx, r)

\* hydrate: only a page without the record reads it.
Hydrate(p) == IF rec = NoStore THEN Submit(Request(p, "get", NoStore)) ELSE UNCHANGED tx

\* persist: the write carries the record as it is when the database is there to take it.
Persist(p) == Submit(Request(p, "put", rec'))

\* A caller goes on when nothing it waits for is on its way.
Answered(p) ==
    /\ \A i \in 1..Len(tx) : tx[i].who # p
    /\ \A i \in 1..Len(jobs) : jobs[i].who # p

\* It has taken the answer when it moves on.
Goto(p, wait) == at' = [at EXCEPT ![p] = wait] /\ ans' = [ans EXCEPT ![p] = <<>>]

\* openDb: a database that opens takes the requests that waited for it.
DbOpens ==
    /\ idb = "opening"
    /\ idb' = "open"
    /\ tx' = [i \in 1..Len(tx) |->
                IF tx[i].kind = "put" /\ rec # NoStore THEN [tx[i] EXCEPT !.rec = rec] ELSE tx[i]]
    /\ UNCHANGED <<durable, rec, engine, calls, counts, wiped, failed>>

DbFails ==
    /\ "open" \in Faults
    /\ idb = "opening"
    /\ idb' = "failed"
    /\ tx' = <<>>
    /\ UNCHANGED <<durable, rec, engine, calls, counts, wiped, failed>>

\* Mutant: hydration takes the working copy alone.
GetWorktree ==
    /\ idb = "open" /\ tx # <<>>
    /\ Head(tx).kind = "get"
    /\ tx' = Tail(tx)
    /\ rec' = IF disk = NoStore THEN rec ELSE WithWorktree(Empty, disk.wt)
    /\ UNCHANGED <<durable, idb, engine, calls, counts, wiped, failed>>

\* The read of a hydrate: what it finds becomes the page's record, whatever that is by now.
ServeGet ==
    /\ idb = "open" /\ tx # <<>>
    /\ Head(tx).kind = "get"
    /\ tx' = Tail(tx)
    /\ \/ rec' = (IF disk = NoStore THEN rec ELSE disk) /\ UNCHANGED failed
       \/ "get" \in Faults /\ failed' = failed \cup {"get"} /\ UNCHANGED rec
    /\ UNCHANGED <<durable, idb, engine, calls, counts, wiped>>

ServePut ==
    /\ idb = "open" /\ tx # <<>>
    /\ Head(tx).kind = "put"
    /\ tx' = Tail(tx)
    /\ \/ disk' = Head(tx).rec /\ failed' = failed \ {"put"}
       \/ "put" \in Faults /\ failed' = failed \cup {"put"} /\ UNCHANGED disk
    /\ UNCHANGED <<blob, rec, idb, engine, calls, counts, wiped>>

ServeDelete ==
    /\ idb = "open" /\ tx # <<>>
    /\ Head(tx).kind = "delete"
    /\ tx' = Tail(tx)
    /\ disk' = NoStore
    /\ UNCHANGED <<blob, rec, idb, engine, calls, counts, wiped, failed>>

----------------------------------------------------------------------------
(* The git engine: one operation at a time.                                *)

Ask(p, kind, v) ==
    jobs' = Append(jobs, [who |-> p, repo |-> git, kind |-> kind, of |-> v])

Job(kind) == jobs # <<>> /\ Head(jobs).kind = kind
Repo == repos[Head(jobs).repo]
SetRepo(s) == repos' = [repos EXCEPT ![Head(jobs).repo] = s]
Reply(a) == jobs' = Tail(jobs) /\ ans' = [ans EXCEPT ![Head(jobs).who] = a]
Closed == Repo = NoStore

\* maybeCheckpoint: a snapshot that cannot be written is not an error.
Checkpoint ==
    \/ blob' = repos'[Head(jobs).repo]
    \/ "save" \in Faults /\ UNCHANGED blob

InGit == UNCHANGED <<disk, local, git, loads, at, todo, listed, edits, pages, acts, wiped, failed>>

\* readDocFromWorktree
GitOpen ==
    /\ Job("open")
    /\ Reply(IF Closed \/ Repo.wt = NoDoc THEN <<>> ELSE <<Repo.wt>>)
    /\ InGit /\ UNCHANGED <<blob, repos>>

GitTip ==
    /\ Job("tip")
    /\ Reply(IF Closed \/ Repo.log = <<>> THEN <<>> ELSE <<Last(Repo.log)>>)
    /\ InGit /\ UNCHANGED <<blob, repos>>

GitList ==
    /\ Job("list")
    /\ Reply(IF Closed THEN <<>> ELSE Repo.log)
    /\ InGit /\ UNCHANGED <<blob, repos>>

\* writeDocFiles
GitSave ==
    /\ Job("save") /\ ~Closed
    /\ Reply(<<>>)
    /\ SetRepo(WithWorktree(Repo, Head(jobs).of))
    /\ Checkpoint
    /\ InGit

GitCommit ==
    /\ Job("commit") /\ ~Closed
    /\ Reply(<<>>)
    /\ SetRepo(WithVersion(Repo, GitId(Head(jobs).of)))
    /\ Checkpoint
    /\ InGit

\* The write of a save or a commit is refused: the facade carries on without it.
GitWriteFails ==
    /\ Job("save") \/ Job("commit")
    /\ Closed \/ "git" \in Faults
    /\ Reply(<<>>)
    /\ IF Closed THEN UNCHANGED repos ELSE SetRepo(WithWorktree(Repo, Head(jobs).of))
    /\ InGit /\ UNCHANGED blob

\* Reset to the version, read the files, reset to the head again.
GitReadVersion ==
    /\ Job("read")
    /\ IF Closed \/ ~Has(Repo, Head(jobs).of)
       THEN Reply(<<>>) /\ UNCHANGED repos
       ELSE Reply(<<DocOf(Head(jobs).of)>>) /\ SetRepo(AtHead(Repo))
    /\ InGit /\ UNCHANGED blob

GitRestore ==
    /\ Job("restore")
    /\ IF Closed \/ ~Has(Repo, Head(jobs).of)
       THEN Reply(<<>>) /\ UNCHANGED <<repos, blob>>
       ELSE /\ Reply(<<DocOf(Head(jobs).of)>>)
            /\ SetRepo(ResetTo(Repo, Head(jobs).of))
            /\ Checkpoint
    /\ InGit

\* The snapshot goes and a fresh engine takes the place of the old one, or fails to load.
GitClear ==
    /\ Job("clear")
    /\ Reply(<<>>)
    /\ blob' = Empty
    /\ \/ SetRepo(Empty)
       \/ "git" \in Faults /\ SetRepo(NoStore)
    /\ InGit

GitClose ==
    /\ Job("close")
    /\ Reply(<<>>)
    /\ SetRepo(NoStore)
    /\ InGit /\ UNCHANGED blob

\* warmGit: whichever load ends sets the facade's backend, whoever started it.
GitLoads ==
    /\ loads > 0
    /\ loads' = loads - 1
    /\ \/ /\ Len(repos) < MaxRepos
          /\ repos' = Append(repos, blob)
          /\ git' = Len(repos')
       \/ "git" \in Faults /\ git' = 0 /\ UNCHANGED repos
    /\ UNCHANGED <<durable, local, jobs, calls, counts, wiped, failed>>

----------------------------------------------------------------------------
(* The facade's calls.  Each step runs up to the next answer it waits for. *)

Act == acts < MaxActs /\ acts' = acts + 1
Local == UNCHANGED <<durable, idb, git, repos, loads, pages, wiped, failed>>

OpenCall ==
    /\ at["op"] = "boot"
    /\ Hydrate("op") /\ Goto("op", "opening")
    /\ Local /\ UNCHANGED <<rec, jobs, todo, listed, edits, acts>>

\* A page without a working copy asks git for one.
OpenGit ==
    /\ at["op"] = "opening" /\ Answered("op")
    /\ IF Record.wt = NoDoc /\ git # 0
       THEN Ask("op", "open", NoDoc) /\ Goto("op", "openedGit")
       ELSE Goto("op", "tip") /\ UNCHANGED jobs
    /\ Local /\ UNCHANGED <<rec, tx, todo, listed, edits, acts>>

OpenEnd ==
    /\ at["op"] = "openedGit" /\ Answered("op")
    /\ IF ans["op"] = <<>> THEN UNCHANGED <<rec, tx>>
       ELSE rec' = WithWorktree(Record, ans["op"][1]) /\ Persist(Nobody)
    /\ Goto("op", "tip")
    /\ Local /\ UNCHANGED <<jobs, todo, listed, edits, acts>>

\* The controller then asks for the tip and its text, and for the list.
Tip ==
    /\ at["op"] = "tip"
    /\ IF Listing = <<>> /\ git # 0
       THEN Ask("op", "tip", NoDoc) /\ Goto("op", "tipGit")
       ELSE Goto("op", "list") /\ UNCHANGED jobs
    /\ Local /\ UNCHANGED <<rec, tx, todo, listed, edits, acts>>

ReadTip ==
    /\ at["op"] = "tipGit" /\ Answered("op")
    /\ IF ans["op"] # <<>> /\ git # 0
       THEN Ask("op", "read", ans["op"][1]) /\ Goto("op", "tipRead")
       ELSE Goto("op", "list") /\ UNCHANGED jobs
    /\ Local /\ UNCHANGED <<rec, tx, todo, listed, edits, acts>>

TipRead ==
    /\ at["op"] = "tipRead" /\ Answered("op")
    /\ Goto("op", "list")
    /\ Local /\ UNCHANGED <<rec, tx, jobs, todo, listed, edits, acts>>

Busy == at["op"] \in {"boot", "opening", "openedGit", "tip", "tipGit", "tipRead", "list", "listed",
                      "listGit", "mirror", "mirrored", "clearing", "cleared", "cleanGit", "closedGit", "reseed"}

\* The drawer shows what it gets; a project opened without versions gets its first one.
ListEnd(p, versions) ==
    IF p = "op" THEN Goto(p, IF versions = <<>> THEN "reseed" ELSE "idle") /\ UNCHANGED listed
    ELSE Goto(p, "idle") /\ listed' = versions

\* A timeline that is empty is filled from git.
GitIfEmpty(p) ==
    IF Listing = <<>> /\ git # 0
    THEN Ask(p, "list", NoDoc) /\ Goto(p, "listGit") /\ UNCHANGED listed
    ELSE ListEnd(p, Listing) /\ UNCHANGED jobs

ListCall(p) ==
    /\ IF p = "op" THEN at[p] = "list" /\ UNCHANGED acts
       ELSE at[p] = "idle" /\ Act /\ (Overlap \/ ~Busy)
    /\ Hydrate(p)
    /\ IF tx' # tx THEN Goto(p, "listed") /\ UNCHANGED <<jobs, listed>> ELSE GitIfEmpty(p)
    /\ Local /\ UNCHANGED <<rec, todo, edits>>

ListRead(p) ==
    /\ at[p] = "listed" /\ Answered(p)
    /\ GitIfEmpty(p)
    /\ Local /\ UNCHANGED <<rec, tx, todo, edits, acts>>

\* Mutant: the drawer is given git's list while the record has none.
ShowGitList(p) ==
    /\ at[p] = "listGit" /\ Answered(p)
    /\ ListEnd(p, ans[p])
    /\ Local /\ UNCHANGED <<rec, tx, jobs, todo, edits, acts>>

MirrorBegin(p) ==
    /\ at[p] = "listGit" /\ Answered(p)
    /\ todo' = [todo EXCEPT ![p] = ans[p]]
    /\ IF ans[p] = <<>> THEN ListEnd(p, <<>>) ELSE Goto(p, "mirror") /\ UNCHANGED listed
    /\ Local /\ UNCHANGED <<rec, tx, jobs, edits, acts>>

\* Mutant: the newest version of the repository is mirrored first.
MirrorNewestFirst(p) ==
    /\ at[p] = "mirror" /\ Answered(p) /\ todo[p] # <<>>
    /\ IF git = 0 THEN UNCHANGED <<jobs, at, ans>>
       ELSE Ask(p, "read", Last(todo[p])) /\ Goto(p, "mirrored")
    /\ todo' = [todo EXCEPT ![p] = Front(@)]
    /\ Local /\ UNCHANGED <<rec, tx, listed, edits, acts>>

\* Oldest first; a version that cannot be read is skipped.
Mirror(p) ==
    /\ at[p] = "mirror" /\ Answered(p) /\ todo[p] # <<>>
    /\ IF git = 0 THEN UNCHANGED <<jobs, at, ans>>
       ELSE Ask(p, "read", Head(todo[p])) /\ Goto(p, "mirrored")
    /\ todo' = [todo EXCEPT ![p] = Tail(@)]
    /\ Local /\ UNCHANGED <<rec, tx, listed, edits, acts>>

MirrorOne(p) ==
    /\ at[p] = "mirrored" /\ Answered(p)
    /\ IF ans[p] = <<>> THEN UNCHANGED <<rec, tx>>
       ELSE /\ rec' = WithVersion(Record, ans[p][1])
                    /\ Persist(p)
    /\ Goto(p, "mirror")
    /\ Local /\ UNCHANGED <<jobs, todo, listed, edits, acts>>

MirrorEnd(p) ==
    /\ at[p] = "mirror" /\ Answered(p) /\ todo[p] = <<>>
    /\ ListEnd(p, Listing)
    /\ Local /\ UNCHANGED <<rec, tx, jobs, todo, edits, acts>>

\* Mutant: only what is committed is written to IndexedDB.
SaveOnPage ==
    /\ at["save"] = "idle" /\ edits < MaxDocs
    /\ Overlap \/ ~Busy
    /\ edits' = edits + 1
    /\ rec' = WithWorktree(Record, edits')
    /\ IF git = 0 THEN UNCHANGED <<jobs, at, ans>>
       ELSE Ask("save", "save", edits') /\ Goto("save", "saved")
    /\ Local /\ UNCHANGED <<tx, todo, listed, acts>>

\* saveWorktree: the record at once, IndexedDB unawaited, then git.
SaveCall ==
    /\ at["save"] = "idle" /\ edits < MaxDocs
    /\ Overlap \/ ~Busy
    /\ edits' = edits + 1
    /\ rec' = WithWorktree(Record, edits')
    /\ Persist(Nobody)
    /\ IF git = 0 THEN UNCHANGED <<jobs, at, ans>>
       ELSE Ask("save", "save", edits') /\ Goto("save", "saved")
    /\ Local /\ UNCHANGED <<todo, listed, acts>>

SaveEnd ==
    /\ at["save"] = "saved" /\ Answered("save")
    /\ Goto("save", "idle")
    /\ Local /\ UNCHANGED <<rec, tx, jobs, todo, listed, edits, acts>>

\* Mutant: git is asked without waiting for IndexedDB.
CommitBoth ==
    /\ at["op"] \in {"idle", "reseed"} /\ edits < MaxDocs
    /\ edits' = edits + 1
    /\ rec' = WithVersion(Record, edits')
    /\ Persist("op")
    /\ IF git = 0 THEN UNCHANGED jobs ELSE Ask("op", "commit", edits')
    /\ Goto("op", "committed")
    /\ Local /\ UNCHANGED <<todo, listed, acts>>

\* commit: the record, IndexedDB awaited, then git.
CommitCall ==
    /\ at["op"] \in {"idle", "reseed"} /\ edits < MaxDocs
    /\ edits' = edits + 1
    /\ rec' = WithVersion(Record, edits')
    /\ Persist("op")
    /\ Goto("op", "written")
    /\ Local /\ UNCHANGED <<jobs, todo, listed, acts>>

CommitGit ==
    /\ at["op"] = "written" /\ Answered("op")
    /\ IF git = 0 THEN UNCHANGED jobs ELSE Ask("op", "commit", Last(rec.log))
    /\ Goto("op", "committed")
    /\ Local /\ UNCHANGED <<rec, tx, todo, listed, edits, acts>>

CommitEnd ==
    /\ at["op"] = "committed" /\ Answered("op")
    /\ Goto("op", "idle")
    /\ Local /\ UNCHANGED <<rec, tx, jobs, todo, listed, edits, acts>>

\* restore: a version the page's record lacks is looked for in git.
RestoreCall ==
    /\ at["op"] = "idle" /\ Act
    /\ \E id \in ToSet(listed) :
         IF Has(Record, id)
         THEN /\ rec' = WithWorktree(Record, DocOf(id))
              /\ rec' # rec
              /\ Persist(Nobody)
              /\ UNCHANGED <<jobs, at, ans>>
         ELSE /\ git # 0
              /\ Ask("op", "restore", id)
              /\ Goto("op", "restoreGit")
              /\ UNCHANGED <<rec, tx>>
    /\ Local /\ UNCHANGED <<todo, listed, edits>>

RestoreEnd ==
    /\ at["op"] = "restoreGit" /\ Answered("op")
    /\ IF ans["op"] = <<>> THEN UNCHANGED <<rec, tx>>
       ELSE rec' = WithWorktree(Record, ans["op"][1]) /\ Persist(Nobody)
    /\ Goto("op", "idle")
    /\ Local /\ UNCHANGED <<jobs, todo, listed, edits, acts>>

\* clear: the record goes at once; the database is opened again to delete the stored one.
ClearCall ==
    /\ at["op"] = "idle" /\ Act
    /\ Overlap \/ at["list"] = "idle"
    /\ rec' = NoStore
    /\ Goto("op", "clearing")
    /\ Local /\ UNCHANGED <<tx, jobs, todo, listed, edits>>

ClearDelete ==
    /\ at["op"] = "clearing"
    /\ idb # "opening"
    /\ Submit(Request("op", "delete", NoStore))
    /\ Goto("op", "cleared")
    /\ Local /\ UNCHANGED <<rec, jobs, todo, listed, edits, acts>>

ClearGit ==
    /\ at["op"] = "cleared" /\ Answered("op")
    /\ IF git = 0 THEN UNCHANGED jobs ELSE Ask("op", "clear", NoDoc)
    /\ Goto("op", "cleanGit")
    /\ Local /\ UNCHANGED <<rec, tx, todo, listed, edits, acts>>

ClearClose ==
    /\ at["op"] = "cleanGit" /\ Answered("op")
    /\ IF git = 0 THEN UNCHANGED jobs ELSE Ask("op", "close", NoDoc)
    /\ Goto("op", "closedGit")
    /\ Local /\ UNCHANGED <<rec, tx, todo, listed, edits, acts>>

\* The git backend is dropped and another one loaded; the controller commits the seed.
ClearEnd ==
    /\ at["op"] = "closedGit" /\ Answered("op")
    /\ git' = 0
    /\ loads' = loads + 1
    /\ wiped' = edits
    /\ Goto("op", "reseed")
    /\ UNCHANGED <<durable, local, repos, jobs, todo, listed, counts, failed>>

----------------------------------------------------------------------------

FreshPage ==
    /\ rec' = NoStore /\ idb' = "opening" /\ tx' = <<>>
    /\ git' = 0 /\ repos' = <<>> /\ loads' = 1 /\ jobs' = <<>>
    /\ at' = [p \in Callers |-> IF p = "op" THEN "boot" ELSE "idle"]
    /\ ans' = [p \in Callers |-> <<>>] /\ todo' = [p \in Callers |-> <<>>]
    /\ listed' = <<>>

\* The page leaves, at any moment, and is opened again.
Reload ==
    /\ pages < MaxPages
    /\ pages' = pages + 1
    /\ FreshPage
    /\ failed' = {}
    /\ UNCHANGED <<durable, edits, acts, wiped>>

Init ==
    /\ disk = NoStore /\ blob = Empty
    /\ rec = NoStore /\ idb = "opening" /\ tx = <<>>
    /\ git = 0 /\ repos = <<>> /\ loads = 1 /\ jobs = <<>>
    /\ at = [p \in Callers |-> IF p = "op" THEN "boot" ELSE "idle"]
    /\ ans = [p \in Callers |-> <<>>] /\ todo = [p \in Callers |-> <<>>]
    /\ listed = <<>>
    /\ edits = 0 /\ pages = 1 /\ acts = 0
    /\ wiped = 0 /\ failed = {}

Serve == DbOpens \/ DbFails \/ ServeGet \/ ServePut \/ ServeDelete
RunGit ==
    \/ GitOpen \/ GitTip \/ GitList \/ GitSave \/ GitCommit \/ GitWriteFails
    \/ GitReadVersion \/ GitRestore \/ GitClear \/ GitClose \/ GitLoads
Facade ==
    \/ OpenCall \/ OpenGit \/ OpenEnd \/ Tip \/ ReadTip \/ TipRead
    \/ \E p \in {"op", "list"} :
         ListCall(p) \/ ListRead(p) \/ MirrorBegin(p) \/ Mirror(p) \/ MirrorOne(p) \/ MirrorEnd(p)
    \/ SaveCall \/ SaveEnd \/ CommitCall \/ CommitGit \/ CommitEnd \/ RestoreCall \/ RestoreEnd
    \/ ClearCall \/ ClearDelete \/ ClearGit \/ ClearClose \/ ClearEnd

\* Nothing is left to answer: the page rests.
Rests ==
    /\ \A p \in Callers : at[p] \in {"idle", "reseed"}
    /\ tx = <<>> /\ jobs = <<>>
    /\ UNCHANGED vars

Next == Serve \/ RunGit \/ Facade \/ Reload \/ Rests

Spec == Init /\ [][Next]_vars

----------------------------------------------------------------------------
(* Properties.                                                             *)

Increasing(s) == \A i \in 1..Len(s) - 1 : DocOf(s[i]) < DocOf(s[i + 1])

\* Every timeline, durable or not, IndexedDB's or git's, is oldest first and has no version
\* twice, through mirroring, restores that cut a branch, reloads and clears.
TimelineOrdered ==
    \A s \in ({disk, rec, blob} \cup ToSet(repos)) \ {NoStore} : Increasing(s.log)

\* Once IndexedDB has answered everything and unless its last write failed, it has exactly what
\* the page shows: writes nobody waits for, hydration and mirroring end in the same record.
AtRest == (idb = "open" /\ tx = <<>> /\ rec # NoStore /\ "put" \notin failed) => disk = rec

\* Until a clear, every version the drawer shows is one the record can restore; the number of a
\* git commit, which the record does not know, is never shown.
ShownIsRestorable == (wiped = 0 /\ ~Busy) => \A i \in 1..Len(listed) : Has(Record, listed[i])

\* No step but a clear's delete takes a version out of IndexedDB, unless the page could not
\* read the record it writes over.
TimelineGrows ==
    [][disk = NoStore \/ "get" \in failed \/ (disk' = NoStore /\ at["op"] = "cleared")
       \/ (disk' # NoStore /\ IsPrefix(disk.log, disk'.log))]_vars

\* A version reaches git only when IndexedDB has it, unless this page cannot write there: a page
\* that leaves between the two writes has the version where the timeline is read from.
PrimaryFirst ==
    [][(GitCommit /\ idb = "open" /\ "put" \notin failed) =>
         /\ disk # NoStore
         /\ Has(disk, Head(jobs).of)]_vars

\* project-controller.js:571 "Clear all durable history": once a clear is over, no version from
\* before it is left in IndexedDB or in the snapshot of the repository.
WipeIsFinal ==
    \A s \in {disk, blob} \ {NoStore} : \A i \in 1..Len(s.log) : DocOf(s.log[i]) > wiped
=============================================================================
