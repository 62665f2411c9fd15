--------------------------- MODULE RuntimeWorker ---------------------------
(***************************************************************************)
(* agent-os/src/runtime-worker.js with the part of OccBridge and of the    *)
(* guest's IR evaluation it drives: one serial queue over a shared guest   *)
(* VM and a table of host shapes.  A message is stamped when it arrives; a *)
(* newer execute makes the running one stop at its next host call.         *)
(* The table of shapes survives from one parameter scrub to the next       *)
(* through a memo of operation fingerprints, and a whole mesh through a    *)
(* one-slot cache.                                                         *)
(***************************************************************************)
EXTENDS Naturals, Sequences, FiniteSets

CONSTANTS Keys,     \* execute cache keys: one per (source, parameters, deflection)
          Prints,   \* operation fingerprints, each standing for one geometry
          Prog,     \* Prog[key]: the fingerprints the program of that key evaluates
          Bases,    \* asset base URLs
          DefaultBase,  \* the one derived from the worker's own URL
          NoBase, NoKey, NoMesh,
          MaxJobs   \* bound: how many messages the page posts

ASSUME ProgAssumption ==
    /\ Prog \in [Keys -> Seq(Prints)]
    /\ \A k \in Keys : Prog[k] # <<>>
ASSUME FreshAssumption ==
    DefaultBase \in Bases /\ NoBase \notin Bases /\ NoKey \notin Keys /\ NoMesh \notin Prints
ASSUME BoundAssumption == MaxJobs \in Nat

VARIABLES
    jobs, stamps, sent,                     \* messages, their stamps, the replies posted
    latest, active, abortRequested, lastFinished,
    pc, env, guestMemo,                     \* the job at the head of the queue
    base, staged, files, vm, occ,           \* what is loaded and staged in the VM
    shapes, nextId, memo, memoGen, sessionMemo, meshCache

queueVars == <<jobs, stamps, sent>>
stampVars == <<latest, active, abortRequested, lastFinished>>
guestVars == <<pc, env, guestMemo>>
loadVars  == <<base, staged, files, vm, occ>>
hostVars  == <<shapes, nextId, memo, memoGen, sessionMemo>>
vars == <<queueVars, stampVars, guestVars, loadVars, hostVars, meshCache>>

Coalescible == {"execute", "params_resolve", "analyze"}

Message == [kind : {"config"}, base : Bases]
             \cup [kind : {"warm", "analyze", "params_resolve"}]
             \cup [kind : {"execute"}, key : Keys, memo : BOOLEAN]

\* The geometry an execute of a key asks for: its program's last operation.
Want == [k \in Keys |-> Prog[k][Len(Prog[k])]]

\* The staged files told apart: solid.luau and ir/init.luau are required, another one is not.
Battery == {"solid", "ir", "resolve"}

NoCache == [key |-> NoKey, mesh |-> NoMesh]
Nothing == [x \in {} |-> x]
Max2(a, b) == IF a >= b THEN a ELSE b

Init ==
    /\ jobs = <<>> /\ stamps = <<>> /\ sent = <<>>
    /\ latest = [k \in Coalescible |-> 0]
    /\ active = 0 /\ abortRequested = FALSE /\ lastFinished = 0
    /\ pc = "idle" /\ env = <<>> /\ guestMemo = FALSE
    /\ base = DefaultBase /\ vm = FALSE /\ occ = FALSE
    /\ staged = [full |-> FALSE, resolve |-> FALSE, base |-> NoBase]
    /\ files = [f \in Battery |-> NoBase]
    /\ shapes = Nothing /\ nextId = 1
    /\ memo = Nothing /\ memoGen = 0 /\ sessionMemo = FALSE
    /\ meshCache = NoCache

----------------------------------------------------------------------------
(* The message handler: runs whenever the worker's event loop is free,     *)
(* also while a job waits for the VM, a fetch or a host call.              *)

\* The stamp a message of this kind gets on arrival (none: not coalescible).
NextStamp(kind) == IF kind \in Coalescible THEN latest[kind] + 1 ELSE 0

StagedHere == staged.full /\ staged.base = base

\* What is loaded and staged already makes the job go on without leaving the event loop.
EventLoopFree == ~(pc = "warm" /\ vm /\ occ) /\ ~(pc = "stage" /\ StagedHere)

Post(m) ==
    /\ Len(jobs) < MaxJobs /\ EventLoopFree
    /\ jobs' = Append(jobs, m)
    /\ stamps' = Append(stamps, NextStamp(m.kind))
    /\ latest' = [k \in Coalescible |-> IF k = m.kind THEN NextStamp(k) ELSE latest[k]]
    /\ abortRequested' =
         (abortRequested \/ (m.kind = "execute" /\ active > 0 /\ NextStamp(m.kind) > active))
    /\ UNCHANGED <<sent, active, lastFinished, guestVars, loadVars, hostVars, meshCache>>

----------------------------------------------------------------------------
(* The serial chain: the job at the head, and how it is answered.          *)

head == Len(sent) + 1
job == jobs[head]
stamp == stamps[head]

Waiting(kind) == pc = "idle" /\ head <= Len(jobs) /\ job.kind = kind

IsAborted == active > 0 /\ (abortRequested \/ active < latest["execute"])

Reply(outcome, mesh) == sent' = Append(sent, [outcome |-> outcome, mesh |-> mesh])

\* Mutant: a rejected job breaks the promise chain.
FinishStopsChain(outcome) ==
    /\ Reply(outcome, NoMesh)
    /\ pc' = IF outcome = "error" THEN "rejected" ELSE "idle"
    /\ UNCHANGED <<jobs, stamps, stampVars, env, guestMemo>>

\* Answer a job that is not an execute and leave the chain to the next one.
Finish(outcome) ==
    /\ Reply(outcome, NoMesh)
    /\ pc' = "idle"
    /\ UNCHANGED <<jobs, stamps, stampVars, env, guestMemo>>

\* Mutant: the staging flags follow the new base instead of being reset.
ConfigMovesStaging ==
    /\ Waiting("config")
    /\ base' = job.base
    /\ staged' = [staged EXCEPT !.base = job.base]
    /\ Finish("ok")
    /\ UNCHANGED <<files, vm, occ, hostVars, meshCache>>

Config ==
    /\ Waiting("config")
    /\ base' = job.base
    /\ staged' = IF job.base = base THEN staged
                 ELSE [full |-> FALSE, resolve |-> FALSE, base |-> NoBase]
    /\ Finish("ok")
    /\ UNCHANGED <<files, vm, occ, hostVars, meshCache>>

\* ensureWarm: the VM first, then OCCT; either load may fail, what succeeded stays.
Warmed == vm' = TRUE /\ occ' = TRUE
WarmFails == ~(vm /\ occ) /\ vm' \in {vm, TRUE} /\ UNCHANGED occ

Warm ==
    /\ Waiting("warm")
    /\ \/ Warmed /\ Finish("ok")
       \/ WarmFails /\ Finish("error")
    /\ UNCHANGED <<base, staged, files, hostVars, meshCache>>

\* Mutant: the newest request is dropped as well.
DropNewest(kind) ==
    /\ Waiting(kind)
    /\ stamp <= latest[kind]
    /\ Reply("cancelled", NoMesh)
    /\ lastFinished' = IF kind = "execute" THEN Max2(lastFinished, stamp) ELSE lastFinished
    /\ UNCHANGED <<jobs, stamps, latest, active, abortRequested, guestVars, loadVars,
                   hostVars, meshCache>>

\* A job that was superseded while it waited is answered without being run.
DropSuperseded(kind) ==
    /\ Waiting(kind)
    /\ stamp < latest[kind]
    /\ Reply("cancelled", NoMesh)
    /\ lastFinished' = IF kind = "execute" THEN Max2(lastFinished, stamp) ELSE lastFinished
    /\ UNCHANGED <<jobs, stamps, latest, active, abortRequested, guestVars, loadVars,
                   hostVars, meshCache>>

BusyExecute == latest["execute"] > lastFinished

AnalyzeSkip ==
    /\ Waiting("analyze")
    /\ stamp >= latest["analyze"]
    /\ BusyExecute
    /\ Finish("cancelled")
    /\ UNCHANGED <<loadVars, hostVars, meshCache>>

AnalyzeBegin ==
    /\ Waiting("analyze")
    /\ stamp >= latest["analyze"]
    /\ ~BusyExecute
    /\ pc' = "analyze"
    /\ UNCHANGED <<queueVars, stampVars, env, guestMemo, loadVars, hostVars, meshCache>>

\* The VM is loaded, the workspace staged and luau-analyze run, or one of them throws.
AnalyzeEnd ==
    /\ pc = "analyze"
    /\ \/ vm' = TRUE /\ Finish(IF stamp < latest["analyze"] THEN "cancelled" ELSE "ok")
       \/ vm' \in {vm, TRUE} /\ Finish("error")
    /\ UNCHANGED <<base, staged, files, occ, hostVars, meshCache>>

ResolveBegin ==
    /\ Waiting("params_resolve")
    /\ stamp >= latest["params_resolve"]
    /\ pc' = "resolve"
    /\ UNCHANGED <<queueVars, stampVars, env, guestMemo, loadVars, hostVars, meshCache>>

\* stageParamsResolveBattery: one file, skipped when the flags say it is there.
StageResolve ==
    IF staged.resolve /\ staged.base = base THEN UNCHANGED <<staged, files>>
    ELSE IF StagedHere THEN staged' = [staged EXCEPT !.resolve = TRUE] /\ UNCHANGED files
    ELSE /\ files' = [files EXCEPT !["resolve"] = base]
         /\ staged' = [staged EXCEPT !.resolve = TRUE,
                                     !.base = IF @ = NoBase THEN base ELSE @]

\* The guest harvest answers with parameters or a code; without its file it cannot run.
ResolveEnd ==
    /\ pc = "resolve"
    /\ \/ /\ vm' = TRUE
          /\ StageResolve
          /\ \E outcome \in IF files'["resolve"] = NoBase THEN {"error"} ELSE {"ok", "error"} :
                Finish(IF stamp < latest["params_resolve"] THEN "cancelled" ELSE outcome)
       \/ vm' \in {vm, TRUE} /\ UNCHANGED <<staged, files>> /\ Finish("error")
    /\ UNCHANGED <<base, occ, hostVars, meshCache>>

----------------------------------------------------------------------------
(* Execute.                                                                *)

ExecuteBegin ==
    /\ Waiting("execute")
    /\ stamp >= latest["execute"]
    /\ active' = stamp
    /\ abortRequested' = (stamp < latest["execute"])
    /\ pc' = "warm"
    /\ UNCHANGED <<queueVars, latest, lastFinished, env, guestMemo, loadVars, hostVars,
                   meshCache>>

\* OccBridge.freeAll
FreeAll ==
    /\ shapes' = Nothing /\ memo' = Nothing /\ sessionMemo' = FALSE
    /\ UNCHANGED <<nextId, memoGen>>

\* Mutant: the finish of an execute is only recorded when it succeeds.
EndExecuteOnSuccess(outcome, mesh) ==
    /\ Reply(outcome, mesh)
    /\ active' = 0
    /\ abortRequested' = (abortRequested /\ stamp < latest["execute"])
    /\ lastFinished' = IF outcome = "ok" THEN Max2(lastFinished, stamp) ELSE lastFinished
    /\ pc' = "idle" /\ env' = <<>> /\ guestMemo' = FALSE
    /\ UNCHANGED <<jobs, stamps, latest>>

\* Post the reply; the finally block then clears the active stamp.
EndExecute(outcome, mesh) ==
    /\ Reply(outcome, mesh)
    /\ active' = 0
    /\ abortRequested' = (abortRequested /\ stamp < latest["execute"])
    /\ lastFinished' = Max2(lastFinished, stamp)
    /\ pc' = "idle" /\ env' = <<>> /\ guestMemo' = FALSE
    /\ UNCHANGED <<jobs, stamps, latest>>

CancelExecute == EndExecute("cancelled", NoMesh) /\ FreeAll

\* An exception leaves the shapes as they are; the reply is not checked for staleness.
Throw == EndExecute("error", NoMesh) /\ UNCHANGED <<hostVars, meshCache>>

\* Once warm: answer from the mesh cache, or open the session for a cold or a memo run.
Open ==
    IF job.memo /\ meshCache.key = job.key
      THEN /\ IF IsAborted THEN CancelExecute
              ELSE EndExecute("ok", meshCache.mesh) /\ UNCHANGED hostVars
           /\ UNCHANGED meshCache
    ELSE IF IsAborted THEN CancelExecute /\ meshCache' = NoCache
    ELSE /\ IF job.memo
              THEN sessionMemo' = TRUE /\ UNCHANGED <<shapes, nextId, memo, memoGen, meshCache>>
              ELSE FreeAll /\ meshCache' = NoCache
         /\ pc' = "stage"
         /\ UNCHANGED <<queueVars, stampVars, env, guestMemo>>

ExecuteWarm ==
    /\ pc = "warm"
    /\ \/ Warmed /\ Open
       \/ WarmFails /\ Throw
    /\ UNCHANGED <<base, staged, files>>

\* stageBatteries: files are fetched and written one by one; one that fails is skipped,
\* and the ir package is only reached with solid.
Required == {"solid", "ir"}
StageBatteries(got) ==
    /\ "ir" \in got => "solid" \in got
    /\ files' = [f \in Battery |-> IF f \in got THEN base ELSE files[f]]
    /\ staged' = [full |-> staged.full \/ Required \subseteq got,
                  resolve |-> staged.resolve \/ "resolve" \in got,
                  base |-> IF Required \subseteq got THEN base ELSE staged.base]

ExecuteStage ==
    /\ pc = "stage"
    /\ \/ /\ IF StagedHere THEN UNCHANGED <<files, staged>>
             ELSE \E got \in SUBSET Battery : Required \subseteq got /\ StageBatteries(got)
          /\ IF IsAborted THEN CancelExecute /\ meshCache' = NoCache
             ELSE /\ pc' = "session"
                  /\ UNCHANGED <<queueVars, stampVars, env, guestMemo, hostVars, meshCache>>
       \/ /\ ~StagedHere
          /\ \E got \in SUBSET Battery : ~(Required \subseteq got) /\ StageBatteries(got)
          /\ Throw
    /\ UNCHANGED <<base, vm, occ>>

----------------------------------------------------------------------------
(* The guest: each step is one cad.call, made after the event loop ran.    *)

Program == Prog[job.key]
NextOp == Program[Len(env) + 1]

\* Where evaluation goes once the operations in e are done.
After(e) == IF Len(e) = Len(Program) THEN "finish" ELSE IF guestMemo THEN "lookup" ELSE "make"

Guest(at) == pc = at /\ UNCHANGED <<queueVars, stampVars, loadVars, meshCache>>

\* want_memo: session_opts; an abort here reads as no memo.
GuestSession ==
    /\ Guest("session")
    /\ IF IsAborted THEN FreeAll /\ guestMemo' = FALSE
       ELSE guestMemo' = sessionMemo /\ UNCHANGED hostVars
    /\ pc' = "free" /\ UNCHANGED env

\* The program itself is wrong: it ends before it evaluates anything.
GuestError ==
    /\ Guest("session")
    /\ pc' = "failed"
    /\ UNCHANGED <<env, guestMemo, hostVars>>

\* Mutant: free_all under memo does not open a new generation.
GuestFreeSameGeneration ==
    /\ Guest("free")
    /\ IF sessionMemo THEN UNCHANGED hostVars ELSE FreeAll
    /\ pc' = After(env) /\ UNCHANGED <<env, guestMemo>>

\* free_all runs even when aborted; under memo it only opens a new generation.
GuestFree ==
    /\ Guest("free")
    /\ IF sessionMemo
         THEN memoGen' = memoGen + 1 /\ UNCHANGED <<shapes, nextId, memo, sessionMemo>>
         ELSE FreeAll
    /\ pc' = After(env) /\ UNCHANGED <<env, guestMemo>>

Hit == NextOp \in DOMAIN memo /\ memo[NextOp].id \in DOMAIN shapes

\* cache_get: a failed call is a miss, an entry whose shape is gone is dropped.
OpLookup ==
    /\ Guest("lookup")
    /\ \/ /\ IsAborted
          /\ FreeAll /\ pc' = "make" /\ UNCHANGED env
       \/ /\ ~IsAborted /\ Hit
          /\ memo' = [memo EXCEPT ![NextOp].gen = memoGen]
          /\ env' = Append(env, memo[NextOp].id)
          /\ pc' = After(env')
          /\ UNCHANGED <<shapes, nextId, memoGen, sessionMemo>>
       \/ /\ ~IsAborted /\ ~Hit
          /\ memo' = [p \in DOMAIN memo \ {NextOp} |-> memo[p]]
          /\ pc' = "make"
          /\ UNCHANGED <<env, shapes, nextId, memoGen, sessionMemo>>
    /\ UNCHANGED guestMemo

\* The operation consumes the shapes made so far: one that is gone is an unknown shape id.
RefsLive == \A i \in DOMAIN env : env[i] \in DOMAIN shapes

\* Mutant: the next id is the size of the table.
AdoptBySize(geometry) ==
    LET id == Cardinality(DOMAIN shapes)
    IN  /\ shapes' = [i \in DOMAIN shapes \cup {id} |-> IF i = id THEN geometry ELSE shapes[i]]
        /\ env' = Append(env, id)
        /\ nextId' = nextId

\* OccBridge.#adopt: the shape gets an id that was never used before.
Adopt(geometry) ==
    /\ shapes' = [i \in DOMAIN shapes \cup {nextId} |-> IF i = nextId THEN geometry ELSE shapes[i]]
    /\ env' = Append(env, nextId)
    /\ nextId' = nextId + 1

OpMake ==
    /\ Guest("make")
    /\ \/ IsAborted /\ FreeAll /\ pc' = "aborted" /\ UNCHANGED env
       \/ ~IsAborted /\ pc' = "failed" /\ UNCHANGED <<env, hostVars>>
       \/ /\ ~IsAborted /\ RefsLive
          /\ Adopt(NextOp)
          /\ pc' = IF guestMemo THEN "put" ELSE After(env')
          /\ UNCHANGED <<memo, memoGen, sessionMemo>>
    /\ UNCHANGED guestMemo

\* Mutant: cache_put files the shape of the program's first operation.
PutFirst(p) == [q \in DOMAIN memo \cup {p} |->
                  IF q = p THEN [id |-> env[1], gen |-> memoGen] ELSE memo[q]]

\* ShapeMemoTable.put
Put(p) == [q \in DOMAIN memo \cup {p} |->
             IF q = p THEN [id |-> env[Len(env)], gen |-> memoGen] ELSE memo[q]]

\* cache_put: a failed call is ignored and evaluation goes on.
OpPut ==
    /\ Guest("put")
    /\ IF IsAborted THEN FreeAll
       ELSE memo' = Put(Program[Len(env)]) /\ UNCHANGED <<shapes, nextId, memoGen, sessionMemo>>
    /\ pc' = After(env) /\ UNCHANGED <<env, guestMemo>>

----------------------------------------------------------------------------
(* The guest has exited: the rest of execute() runs without a break.       *)

Root == env[Len(env)]

\* memoEnd: forget what this generation did not use and free what nothing refers to.
MemoEnd ==
    LET kept == {p \in DOMAIN memo : memo[p].gen = memoGen}
    IN  /\ memo' = [p \in kept |-> memo[p]]
        /\ shapes' = [i \in DOMAIN shapes \cap ({Root} \cup {memo[p].id : p \in kept}) |->
                        shapes[i]]
        /\ UNCHANGED <<nextId, memoGen, sessionMemo>>

KeepRoot ==
    /\ shapes' = [i \in DOMAIN shapes \cap {Root} |-> shapes[i]]
    /\ UNCHANGED <<nextId, memo, memoGen, sessionMemo>>

ExecuteMesh ==
    /\ Root \in DOMAIN shapes
    /\ IF job.memo THEN MemoEnd ELSE KeepRoot
    /\ meshCache' = IF job.memo THEN [key |-> job.key, mesh |-> shapes[Root]] ELSE meshCache
    /\ EndExecute("ok", shapes[Root])

ExecuteEnd ==
    /\ pc \in {"finish", "failed", "aborted"}
    /\ \/ /\ IsAborted \/ pc = "aborted"
          /\ CancelExecute /\ meshCache' = NoCache
       \/ ~IsAborted /\ pc = "finish" /\ ExecuteMesh
       \/ ~IsAborted /\ pc \in {"finish", "failed"} /\ Throw
    /\ UNCHANGED loadVars

----------------------------------------------------------------------------
Execute ==
    \/ ExecuteBegin \/ ExecuteWarm \/ ExecuteStage
    \/ GuestSession \/ GuestError \/ GuestFree \/ OpLookup \/ OpMake \/ OpPut
    \/ ExecuteEnd

Work ==
    \/ Config \/ Warm
    \/ \E kind \in Coalescible : DropSuperseded(kind)
    \/ AnalyzeSkip \/ AnalyzeBegin \/ AnalyzeEnd
    \/ ResolveBegin \/ ResolveEnd
    \/ Execute

Next == (\E m \in Message : Post(m)) \/ Work

Spec == Init /\ [][Next]_vars

\* The promise chain keeps running; guest programs and fetches come to an end.
FairSpec == Spec /\ WF_vars(Work)

----------------------------------------------------------------------------
(* Properties.                                                             *)

Answer == [outcome : {"ok", "cancelled", "error"}, mesh : Prints \cup {NoMesh}]

QueueType ==
    /\ jobs \in Seq(Message) /\ stamps \in Seq(Nat) /\ sent \in Seq(Answer)
    /\ Len(stamps) = Len(jobs) /\ Len(sent) <= Len(jobs)
    /\ latest \in [Coalescible -> Nat]
    /\ active \in Nat /\ abortRequested \in BOOLEAN /\ lastFinished \in Nat

GuestType ==
    /\ pc \in {"idle", "analyze", "resolve", "warm", "stage", "session", "free", "lookup",
               "make", "put", "finish", "failed", "aborted"}
    /\ env \in Seq(Nat) /\ guestMemo \in BOOLEAN

LoadType ==
    /\ base \in Bases /\ vm \in BOOLEAN /\ occ \in BOOLEAN
    /\ staged \in [full : BOOLEAN, resolve : BOOLEAN, base : Bases \cup {NoBase}]
    /\ files \in [Battery -> Bases \cup {NoBase}]

HostType ==
    /\ shapes \in [DOMAIN shapes -> Prints] /\ nextId \in Nat
    /\ \A i \in DOMAIN shapes : i \in Nat /\ i < nextId
    /\ memo \in [DOMAIN memo -> [id : Nat, gen : Nat]] /\ DOMAIN memo \subseteq Prints
    /\ memoGen \in Nat /\ sessionMemo \in BOOLEAN
    /\ meshCache \in [key : Keys \cup {NoKey}, mesh : Prints \cup {NoMesh}]

\* The shape of every variable.  Replies never outnumber messages, and host ids are never
\* reused: all live ones are below nextId.
TypeOK == QueueType /\ GuestType /\ LoadType /\ HostType

Evaluating == pc \in {"session", "free", "lookup", "make", "put", "finish"}

\* While an execute has not been preempted every shape its program has made or reused is
\* live and is the geometry of that operation: no interleaving of messages, aborts and
\* memo reuse makes the guest meet an unknown shape id (the races of the comment above
\* workTail) or a shape of another program.
GuestShapesLive ==
    Evaluating /\ ~IsAborted =>
        \A i \in DOMAIN env : env[i] \in DOMAIN shapes /\ shapes[env[i]] = Program[i]

\* The worker believes an execute is queued or running exactly while one is: an analysis is
\* never skipped for an execute that is already answered, nor run ahead of one that waits
\* (lastFinishedExecuteStamp is kept up on every path out of an execute).
BusyMeansPending ==
    BusyExecute <=> \E i \in head..Len(jobs) : jobs[i].kind = "execute"

\* A guest program runs over required batteries of the asset base last configured, whatever
\* staging succeeded, failed halfway or was skipped before the base changed.
GuestRunsCurrentBase == Evaluating => \A f \in Required : files[f] = base

\* A mesh that was computed leaves exactly the shapes of its own program behind: under memo
\* all of them, to be reused by the next scrub, and else only the root; nothing of an older
\* generation stays.
SweepExact ==
    [][ pc = "finish" /\ Len(sent') = head /\ sent'[head].outcome = "ok"
          => /\ DOMAIN shapes' = IF job.memo THEN {env[i] : i \in DOMAIN env} ELSE {Root}
             /\ job.memo => DOMAIN memo' = {Program[i] : i \in DOMAIN Program} ]_sent

\* The worker implements its promise: answers once each and in order, meshes only for the
\* newest execute and of the geometry it asked for, cancellations only for a newer request.
Promise == INSTANCE LatestWins WITH Requests <- Message
ImplementsLatestWins == Promise!Spec

\* Every message is answered in the end.
EveryRequestAnswered ==
    \A i \in 1..MaxJobs : Len(jobs) >= i ~> Len(sent) >= i
============================================================================
