------------------------ MODULE RuntimeWorkerProofs ------------------------
(***************************************************************************)
(* RuntimeWorker keeps its type, believes an execute pending exactly when  *)
(* one is, never meets a dead or a wrong shape, runs over the batteries of *)
(* the configured base, sweeps all but the shapes of the mesh it computed, *)
(* and implements LatestWins, whatever the programs, the number of         *)
(* messages and the asset bases.                                           *)
(***************************************************************************)
EXTENDS RuntimeWorker, SequenceTheorems, TLAPS

ExecutePcs == {"warm", "stage", "session", "free", "lookup", "make", "put", "finish",
               "failed", "aborted"}

----------------------------------------------------------------------------
(* The inductive invariant, in named parts.                                *)

\* Which job the program counter is about and how far its program has come.
Position ==
    /\ pc # "idle" => head <= Len(jobs)
    /\ pc = "analyze" => job.kind = "analyze"
    /\ pc = "resolve" => job.kind = "params_resolve"
    /\ pc \in ExecutePcs => job.kind = "execute" /\ active = stamp
    /\ pc \notin ExecutePcs => active = 0
    /\ pc \notin {"lookup", "make", "put", "finish", "failed", "aborted"} => env = <<>>
    /\ pc \in {"lookup", "make"} => Len(env) < Len(Program)
    /\ pc = "put" => Len(env) > 0 /\ Len(env) <= Len(Program)
    /\ pc = "finish" => Len(env) = Len(Program)
    /\ pc = "aborted" => IsAborted

\* Stamps of a kind grow along the queue up to the latest one, which some message bears.
StampOrder ==
    /\ \A i \in 1..Len(jobs) : jobs[i].kind \in Coalescible =>
          stamps[i] > 0 /\ stamps[i] <= latest[jobs[i].kind]
    /\ \A i, j \in 1..Len(jobs) :
          i < j /\ jobs[i].kind \in Coalescible /\ jobs[j].kind = jobs[i].kind =>
             stamps[i] < stamps[j]
    /\ \A kind \in Coalescible : latest[kind] > 0 =>
          \E i \in 1..Len(jobs) : jobs[i].kind = kind /\ stamps[i] = latest[kind]
    /\ abortRequested => active < latest["execute"]

\* lastFinished separates the executes that were answered from those that were not.
FinishedLine ==
    /\ lastFinished <= latest["execute"]
    /\ \A i \in 1..Len(jobs) : jobs[i].kind = "execute" =>
          (i < head <=> stamps[i] <= lastFinished)

\* A memo entry whose shape is live names the right geometry, and so does the mesh cache.
CachesSound ==
    /\ \A p \in DOMAIN memo : memo[p].id < nextId
    /\ \A p \in DOMAIN memo : memo[p].id \in DOMAIN shapes => shapes[memo[p].id] = p
    /\ meshCache.key # NoKey => meshCache.mesh = Want[meshCache.key]

\* What the staging flags say of the required files, and what the guest relies on.
FlagsSound == staged.full => staged.base = base /\ \A f \in Required : files[f] = base
GuestStaged == Evaluating => StagedHere

QueueInv == QueueType /\ StampOrder /\ FinishedLine
LoadInv == LoadType /\ FlagsSound
HostInv == HostType /\ CachesSound
RunInv == GuestType /\ Position /\ GuestStaged /\ GuestShapesLive

IInv == QueueInv /\ LoadInv /\ HostInv /\ RunInv

----------------------------------------------------------------------------
(* Facts about the data.                                                   *)

LEMMA ProgramFacts ==
    ASSUME NEW k \in Keys
    PROVE  /\ Prog[k] \in Seq(Prints) /\ Len(Prog[k]) \in Nat \ {0}
           /\ \A i \in 1..Len(Prog[k]) : Prog[k][i] \in Prints
           /\ Want[k] = Prog[k][Len(Prog[k])] /\ Want[k] \in Prints
<1>1. Prog[k] \in Seq(Prints) /\ Prog[k] # <<>>
  BY ProgAssumption
<1>2. Len(Prog[k]) \in Nat \ {0}
  BY <1>1
<1>3. \A i \in 1..Len(Prog[k]) : Prog[k][i] \in Prints
  BY <1>1
<1> QED BY <1>1, <1>2, <1>3 DEF Want

LEMMA JobFacts ==
    ASSUME TypeOK, NEW i \in 1..Len(jobs)
    PROVE  /\ jobs[i] \in Message /\ stamps[i] \in Nat
           /\ jobs[i].kind = "config" => jobs[i].base \in Bases
           /\ jobs[i].kind = "execute" => jobs[i].key \in Keys /\ jobs[i].memo \in BOOLEAN
<1>1. jobs[i] \in Message /\ stamps[i] \in Nat
  BY DEF TypeOK, QueueType
<1> QED BY <1>1 DEF Message

LEMMA HeadFacts ==
    ASSUME TypeOK
    PROVE  head \in Nat /\ head > 0 /\ head <= Len(jobs) + 1 /\ Len(jobs) \in Nat
           /\ (head <= Len(jobs) => head \in 1..Len(jobs))
BY DEF TypeOK, QueueType, head

LEMMA InitIInv == Init => IInv
<1> SUFFICES ASSUME Init PROVE IInv
  OBVIOUS
<1> USE DEF Init, Nothing, NoCache, Coalescible
<1>1. TypeOK
  <2>1. QueueType
    <3>1. jobs \in Seq(Message) /\ stamps \in Seq(Nat) /\ sent \in Seq(Answer)
      BY EmptySeq
    <3>2. Len(stamps) = 0 /\ Len(jobs) = 0 /\ Len(sent) = 0
      OBVIOUS
    <3>3. latest \in [Coalescible -> Nat]
      OBVIOUS
    <3>4. active \in Nat /\ abortRequested \in BOOLEAN /\ lastFinished \in Nat
      OBVIOUS
    <3> HIDE DEF Init, Coalescible
    <3> QED BY <3>1, <3>2, <3>3, <3>4 DEF QueueType
  <2>2. GuestType
    BY EmptySeq DEF GuestType
  <2>3. LoadType
    <3>1. staged \in [full : BOOLEAN, resolve : BOOLEAN, base : Bases \cup {NoBase}]
      OBVIOUS
    <3>2. files \in [Battery -> Bases \cup {NoBase}]
      OBVIOUS
    <3>3. base \in Bases /\ vm \in BOOLEAN /\ occ \in BOOLEAN
      BY FreshAssumption
    <3> QED BY <3>1, <3>2, <3>3 DEF LoadType
  <2>4. HostType
    <3>1. shapes \in [DOMAIN shapes -> Prints] /\ DOMAIN shapes = {}
      OBVIOUS
    <3>2. memo \in [DOMAIN memo -> [id : Nat, gen : Nat]] /\ DOMAIN memo = {}
      OBVIOUS
    <3>3. meshCache \in [key : Keys \cup {NoKey}, mesh : Prints \cup {NoMesh}]
      OBVIOUS
    <3> QED BY <3>1, <3>2, <3>3 DEF HostType
  <2> QED BY <2>1, <2>2, <2>3, <2>4 DEF TypeOK
<1>2. Position
  BY DEF Position, ExecutePcs
<1>3. StampOrder
  BY DEF StampOrder
<1>4. FinishedLine
  BY DEF FinishedLine
<1>5. CachesSound
  BY DEF CachesSound
<1>6. FlagsSound /\ GuestStaged /\ GuestShapesLive
  BY DEF FlagsSound, GuestStaged, GuestShapesLive, Evaluating
<1> QED BY <1>1, <1>2, <1>3, <1>4, <1>5, <1>6 DEF TypeOK, IInv, QueueInv, LoadInv, HostInv, RunInv

----------------------------------------------------------------------------
(* The queue: arrivals, answers and stamps.                                *)

\* A message arrives with the next stamp of its kind.
LEMMA PostQueue ==
    ASSUME IInv, NEW m \in Message, Post(m)
    PROVE  QueueInv'
<1> DEFINE n == Len(jobs)
<1>1. n \in Nat /\ Len(stamps) = n /\ Len(sent) \in Nat /\ Len(sent) <= n
      /\ latest \in [Coalescible -> Nat]
      /\ jobs \in Seq(Message) /\ stamps \in Seq(Nat) /\ sent \in Seq(Answer)
      /\ active \in Nat /\ lastFinished \in Nat /\ abortRequested \in BOOLEAN
  BY DEF IInv, QueueInv, QueueType
<1> HIDE DEF n
<1>2. /\ jobs' = Append(jobs, m) /\ stamps' = Append(stamps, NextStamp(m.kind))
      /\ latest' = [k \in Coalescible |-> IF k = m.kind THEN NextStamp(k) ELSE latest[k]]
      /\ abortRequested' = (abortRequested
                              \/ (m.kind = "execute" /\ active > 0 /\ NextStamp(m.kind) > active))
      /\ UNCHANGED <<sent, active, lastFinished>>
  BY DEF Post
<1>3. \A k \in Coalescible : NextStamp(k) = latest[k] + 1
  BY DEF NextStamp
<1>4. NextStamp(m.kind) \in Nat
  BY <1>1 DEF NextStamp
<1>5. /\ Len(jobs') = n + 1 /\ Len(stamps') = n + 1
      /\ jobs' \in Seq(Message) /\ stamps' \in Seq(Nat)
      /\ \A i \in 1..n : jobs'[i] = jobs[i] /\ stamps'[i] = stamps[i]
      /\ jobs'[n + 1] = m /\ stamps'[n + 1] = NextStamp(m.kind)
  BY <1>1, <1>2, <1>4 DEF n
<1>6. latest' \in [Coalescible -> Nat]
  BY <1>1, <1>2, <1>3
<1>7. "execute" \in Coalescible
  BY DEF Coalescible
<1>8. \A k \in Coalescible : latest[k] <= latest'[k] /\ (k = m.kind => latest'[k] = latest[k] + 1)
                              /\ (k # m.kind => latest'[k] = latest[k])
  BY <1>1, <1>2, <1>3
<1>9. QueueType'
  BY <1>1, <1>2, <1>5, <1>6 DEF QueueType
<1>10. StampOrder'
  <2>1. \A i \in 1..Len(jobs') : jobs'[i].kind \in Coalescible =>
           stamps'[i] > 0 /\ stamps'[i] <= latest'[jobs'[i].kind]
    <3>1. \A i \in 1..n : jobs[i].kind \in Coalescible =>
             stamps[i] \in Nat /\ stamps[i] > 0 /\ stamps[i] <= latest[jobs[i].kind]
      BY <1>1 DEF IInv, QueueInv, StampOrder, n
    <3> SUFFICES ASSUME NEW i \in 1..Len(jobs'), jobs'[i].kind \in Coalescible
                 PROVE  stamps'[i] > 0 /\ stamps'[i] <= latest'[jobs'[i].kind]
      OBVIOUS
    <3>2. CASE i \in 1..n
      <4> DEFINE k == jobs[i].kind
      <4>1. jobs'[i] = jobs[i] /\ stamps'[i] = stamps[i] /\ k \in Coalescible
        BY <3>2, <1>5
      <4>2. stamps[i] \in Nat /\ stamps[i] > 0 /\ stamps[i] <= latest[k]
        BY <3>1, <3>2, <4>1
      <4>3. latest[k] \in Nat /\ latest'[k] \in Nat /\ latest[k] <= latest'[k]
        BY <4>1, <1>1, <1>6, <1>8
      <4> QED BY <4>1, <4>2, <4>3
    <3>3. CASE i = n + 1
      <4>1. m.kind \in Coalescible /\ jobs'[i].kind = m.kind /\ stamps'[i] = latest[m.kind] + 1
        BY <3>3, <1>3, <1>5
      <4>2. latest[m.kind] \in Nat /\ latest'[m.kind] = latest[m.kind] + 1
        BY <4>1, <1>1, <1>8
      <4> QED BY <4>1, <4>2
    <3> QED BY <3>2, <3>3, <1>1, <1>5
  <2>2. \A i, j \in 1..Len(jobs') :
          i < j /\ jobs'[i].kind \in Coalescible /\ jobs'[j].kind = jobs'[i].kind =>
             stamps'[i] < stamps'[j]
    <3> SUFFICES ASSUME NEW i \in 1..Len(jobs'), NEW j \in 1..Len(jobs'), i < j,
                        jobs'[i].kind \in Coalescible, jobs'[j].kind = jobs'[i].kind
                 PROVE  stamps'[i] < stamps'[j]
      OBVIOUS
    <3>1. i \in 1..n /\ stamps[i] \in Nat
      BY <1>1, <1>5
    <3>2. CASE j \in 1..n
      BY <3>1, <3>2, <1>5 DEF IInv, QueueInv, StampOrder, n
    <3>3. CASE j = n + 1
      <4>1. stamps[i] <= latest[m.kind] /\ m.kind \in Coalescible
        BY <3>1, <3>3, <1>5 DEF IInv, QueueInv, StampOrder, n
      <4>2. latest[m.kind] \in Nat /\ stamps'[j] = latest[m.kind] + 1
        BY <4>1, <3>3, <1>1, <1>3, <1>5
      <4>3. stamps'[i] = stamps[i]
        BY <3>1, <1>5
      <4> QED BY <4>1, <4>2, <4>3, <3>1
    <3> QED BY <3>2, <3>3, <1>1, <1>5
  <2>3. \A kind \in Coalescible : latest'[kind] > 0 =>
          \E i \in 1..Len(jobs') : jobs'[i].kind = kind /\ stamps'[i] = latest'[kind]
    <3> SUFFICES ASSUME NEW kind \in Coalescible, latest'[kind] > 0
                 PROVE  \E i \in 1..Len(jobs') : jobs'[i].kind = kind /\ stamps'[i] = latest'[kind]
      OBVIOUS
    <3>1. CASE kind = m.kind
      <4>1. n + 1 \in 1..Len(jobs')
        BY <1>1, <1>5
      <4>2. jobs'[n + 1].kind = kind /\ stamps'[n + 1] = latest'[kind]
        BY <3>1, <1>3, <1>5, <1>8
      <4> QED BY <4>1, <4>2
    <3>2. CASE kind # m.kind
      <4>1. PICK i \in 1..n : jobs[i].kind = kind /\ stamps[i] = latest[kind]
        BY <3>2, <1>8 DEF IInv, QueueInv, StampOrder, n
      <4>2. i \in 1..Len(jobs')
        BY <1>1, <1>5
      <4>3. jobs'[i] = jobs[i] /\ stamps'[i] = stamps[i]
        BY <1>5
      <4>4. latest'[kind] = latest[kind]
        BY <3>2, <1>8
      <4> QED BY <4>1, <4>2, <4>3, <4>4
    <3> QED BY <3>1, <3>2
  <2>4. abortRequested' => active' < latest'["execute"]
    <3>1. CASE abortRequested
      BY <3>1, <1>1, <1>2, <1>6, <1>7, <1>8 DEF IInv, QueueInv, StampOrder
    <3>2. CASE m.kind = "execute" /\ NextStamp(m.kind) > active
      BY <3>2, <1>1, <1>2, <1>3, <1>7, <1>8
    <3> QED BY <3>1, <3>2, <1>2
  <2> QED BY <2>1, <2>2, <2>3, <2>4 DEF StampOrder
<1>11. FinishedLine'
  <2>1. lastFinished' <= latest'["execute"]
    BY <1>1, <1>2, <1>6, <1>7, <1>8 DEF IInv, QueueInv, FinishedLine
  <2>2. head' = head /\ head \in Nat /\ head <= n + 1
    BY <1>1, <1>2 DEF head
  <2>3. ASSUME NEW i \in 1..Len(jobs'), jobs'[i].kind = "execute"
        PROVE  i < head' <=> stamps'[i] <= lastFinished'
    <3>1. CASE i \in 1..n
      BY <3>1, <2>2, <2>3, <1>2, <1>5 DEF IInv, QueueInv, FinishedLine, n
    <3>2. CASE i = n + 1
      <4>1. stamps'[i] = latest["execute"] + 1
        BY <3>2, <2>3, <1>3, <1>5, <1>7
      <4>2. lastFinished <= latest["execute"] /\ latest["execute"] \in Nat
        BY <1>1, <1>7 DEF IInv, QueueInv, FinishedLine
      <4> QED BY <4>1, <4>2, <3>2, <2>2, <1>1, <1>2
    <3> QED BY <3>1, <3>2, <1>1, <1>5
  <2> QED BY <2>1, <2>3 DEF FinishedLine
<1> QED BY <1>9, <1>10, <1>11 DEF QueueInv

\* An answer to the head, which is not an execute.
LEMMA AnswerQueue ==
    ASSUME IInv, head <= Len(jobs), job.kind # "execute", NEW a \in Answer,
           sent' = Append(sent, a), UNCHANGED <<jobs, stamps, stampVars>>
    PROVE  QueueInv'
<1>1. /\ QueueType /\ Len(sent) \in Nat /\ Len(jobs) \in Nat
      /\ Len(sent') = Len(sent) + 1 /\ sent' \in Seq(Answer)
      /\ Len(sent) + 1 <= Len(jobs)
  BY DEF IInv, QueueInv, QueueType, head
<1>2. QueueType'
  BY <1>1 DEF QueueType, stampVars
<1>3. StampOrder'
  BY DEF IInv, QueueInv, StampOrder, stampVars
<1>4. FinishedLine'
  <2>1. head \in Nat /\ head' = head + 1
    BY <1>1 DEF head
  <2>2. ASSUME NEW i \in 1..Len(jobs), jobs[i].kind = "execute"
        PROVE  i < head + 1 <=> stamps[i] <= lastFinished
    <3>1. i # head
      BY <2>2 DEF job
    <3> QED BY <3>1, <2>1, <2>2, <1>1 DEF IInv, QueueInv, FinishedLine
  <2>3. lastFinished <= latest["execute"]
    BY DEF IInv, QueueInv, FinishedLine
  <2> QED BY <2>1, <2>2, <2>3 DEF FinishedLine, stampVars
<1> QED BY <1>2, <1>3, <1>4 DEF QueueInv

\* An answer to the head, which is an execute: lastFinished moves up to its stamp.
LEMMA AnswerExecuteQueue ==
    ASSUME IInv, head <= Len(jobs), job.kind = "execute", NEW a \in Answer,
           sent' = Append(sent, a), UNCHANGED <<jobs, stamps, latest>>,
           lastFinished' = Max2(lastFinished, stamp), active' \in Nat,
           abortRequested' \in BOOLEAN,
           abortRequested' => active' < latest["execute"]
    PROVE  QueueInv'
<1>1. /\ QueueType /\ Len(sent) \in Nat /\ Len(jobs) \in Nat
      /\ Len(sent') = Len(sent) + 1 /\ sent' \in Seq(Answer)
      /\ Len(sent) + 1 <= Len(jobs)
  BY DEF IInv, QueueInv, QueueType, head
<1>2. head \in 1..Len(jobs) /\ head' = head + 1
  BY <1>1 DEF head
<1>3. /\ stamp \in Nat /\ lastFinished \in Nat /\ latest["execute"] \in Nat
      /\ stamp <= latest["execute"] /\ lastFinished <= latest["execute"]
  <2>1. "execute" \in Coalescible
    BY DEF Coalescible
  <2>2. stamp \in Nat /\ lastFinished \in Nat /\ latest["execute"] \in Nat
    BY <1>1, <1>2, <2>1 DEF stamp, QueueType
  <2>3. stamp <= latest["execute"]
    BY <1>2, <2>1 DEF stamp, job, IInv, QueueInv, StampOrder
  <2> QED BY <2>2, <2>3 DEF IInv, QueueInv, FinishedLine
<1>4. lastFinished < stamp
  BY <1>2, <1>3, <1>1 DEF IInv, QueueInv, FinishedLine, job, stamp
<1>5. lastFinished' = stamp
  BY <1>3, <1>4 DEF Max2
<1>6. QueueType'
  BY <1>1, <1>3, <1>5 DEF QueueType
<1>7. StampOrder'
  BY DEF IInv, QueueInv, StampOrder
<1>8. FinishedLine'
  <2>1. ASSUME NEW i \in 1..Len(jobs), jobs[i].kind = "execute"
        PROVE  i < head + 1 <=> stamps[i] <= stamp
    <3>1. stamps[i] \in Nat
      BY <1>1 DEF QueueType
    <3>2. CASE i < head
      BY <3>1, <3>2, <2>1, <1>1, <1>2, <1>3, <1>4 DEF IInv, QueueInv, FinishedLine
    <3>3. CASE i = head
      BY <3>3, <3>1, <1>2 DEF stamp
    <3>4. CASE i > head
      <4>1. stamp < stamps[i]
        BY <3>4, <2>1, <1>2 DEF IInv, QueueInv, StampOrder, job, stamp, Coalescible
      <4> QED BY <4>1, <3>1, <3>4, <1>2, <1>3
    <3> QED BY <3>2, <3>3, <3>4, <1>2
  <2> QED BY <2>1, <1>2, <1>3, <1>5 DEF FinishedLine
<1> QED BY <1>6, <1>7, <1>8 DEF QueueInv

LEMMA QuietQueue ==
    ASSUME IInv, UNCHANGED <<queueVars, stampVars>>
    PROVE  QueueInv'
BY DEF IInv, QueueInv, QueueType, StampOrder, FinishedLine, queueVars, stampVars, head

----------------------------------------------------------------------------
(* The run of the head.                                                    *)

\* What is known of the head while a job runs.
LEMMA HeadJob ==
    ASSUME IInv, head <= Len(jobs)
    PROVE  /\ head \in 1..Len(jobs) /\ Len(jobs) \in Nat
           /\ job \in Message /\ stamp \in Nat
           /\ job.kind = "config" => job.base \in Bases
           /\ job.kind = "execute" => job.key \in Keys /\ job.memo \in BOOLEAN
           /\ job.kind \in Coalescible => stamp > 0 /\ stamp <= latest[job.kind]
           /\ "execute" \in Coalescible /\ latest["execute"] \in Nat
<1>1. /\ QueueType /\ Len(sent) \in Nat /\ Len(jobs) \in Nat /\ "execute" \in Coalescible
  BY DEF IInv, QueueInv, QueueType, Coalescible
<1>2. head \in 1..Len(jobs)
  BY <1>1 DEF head
<1>3. job \in Message /\ stamp \in Nat
  BY <1>1, <1>2 DEF QueueType, job, stamp
<1>4. /\ job.kind = "config" => job.base \in Bases
      /\ job.kind = "execute" => job.key \in Keys /\ job.memo \in BOOLEAN
  BY <1>3 DEF Message
<1>5. job.kind \in Coalescible => stamp > 0 /\ stamp <= latest[job.kind]
  BY <1>2 DEF IInv, QueueInv, StampOrder, job, stamp
<1>6. latest["execute"] \in Nat
  BY <1>1 DEF QueueType
<1> QED BY <1>1, <1>2, <1>3, <1>4, <1>5, <1>6

\* While an execute runs its program is a non-empty sequence of fingerprints, and it is
\* aborted exactly when a newer execute has come.
LEMMA RunningExecute ==
    ASSUME IInv, pc \in ExecutePcs
    PROVE  /\ head <= Len(jobs) /\ job.kind = "execute" /\ active = stamp /\ stamp > 0
           /\ job.key \in Keys /\ job.memo \in BOOLEAN
           /\ Program \in Seq(Prints) /\ Len(Program) \in Nat \ {0}
           /\ \A i \in 1..Len(Program) : Program[i] \in Prints
           /\ Want[job.key] = Program[Len(Program)] /\ Want[job.key] \in Prints
           /\ IsAborted <=> stamp < latest["execute"]
<1>1. head <= Len(jobs) /\ job.kind = "execute" /\ active = stamp
  BY DEF IInv, RunInv, Position, ExecutePcs
<1>2. job.key \in Keys /\ job.memo \in BOOLEAN /\ stamp \in Nat /\ stamp > 0
  BY <1>1, HeadJob
<1>3. /\ Program \in Seq(Prints) /\ Len(Program) \in Nat \ {0}
      /\ \A i \in 1..Len(Program) : Program[i] \in Prints
      /\ Want[job.key] = Program[Len(Program)] /\ Want[job.key] \in Prints
  BY <1>2, ProgramFacts DEF Program
<1>4. IsAborted <=> stamp < latest["execute"]
  BY <1>1, <1>2 DEF IsAborted, IInv, QueueInv, StampOrder
<1> QED BY <1>1, <1>2, <1>3, <1>4

\* A job that ends leaves the guest's part in order.
LEMMA IdleRun ==
    ASSUME pc' = "idle", active' = 0, env' = <<>>, guestMemo' \in BOOLEAN
    PROVE  RunInv'
<1>1. GuestType'
  BY EmptySeq DEF GuestType
<1>2. Position'
  BY DEF Position, ExecutePcs
<1>3. GuestStaged' /\ GuestShapesLive'
  BY DEF GuestStaged, GuestShapesLive, Evaluating
<1> QED BY <1>1, <1>2, <1>3 DEF RunInv

LEMMA IdleNow ==
    ASSUME IInv, pc \notin ExecutePcs
    PROVE  active = 0 /\ env = <<>> /\ guestMemo \in BOOLEAN
BY DEF IInv, RunInv, Position, GuestType, ExecutePcs

LEMMA FinishRun ==
    ASSUME IInv, pc \notin ExecutePcs, NEW outcome, Finish(outcome)
    PROVE  RunInv'
<1>1. active = 0 /\ env = <<>> /\ guestMemo \in BOOLEAN
  BY IdleNow
<1>2. pc' = "idle" /\ active' = 0 /\ env' = <<>> /\ guestMemo' \in BOOLEAN
  BY <1>1 DEF Finish, stampVars
<1> QED BY <1>2, IdleRun

LEMMA FinishQueue ==
    ASSUME IInv, head <= Len(jobs), job.kind # "execute",
           NEW outcome \in {"ok", "cancelled", "error"}, Finish(outcome)
    PROVE  QueueInv'
<1> DEFINE a == [outcome |-> outcome, mesh |-> NoMesh]
<1>1. a \in Answer
  BY DEF Answer
<1>2. sent' = Append(sent, a) /\ UNCHANGED <<jobs, stamps, stampVars>>
  BY DEF Finish, Reply
<1> QED BY <1>1, <1>2, AnswerQueue

LEMMA EndExecuteStep ==
    ASSUME IInv, pc \in ExecutePcs, NEW outcome \in {"ok", "cancelled", "error"},
           NEW mesh \in Prints \cup {NoMesh}, EndExecute(outcome, mesh)
    PROVE  QueueInv' /\ RunInv'
<1> DEFINE a == [outcome |-> outcome, mesh |-> mesh]
<1>1. a \in Answer
  BY DEF Answer
<1>2. /\ sent' = Append(sent, a) /\ UNCHANGED <<jobs, stamps, latest>>
      /\ lastFinished' = Max2(lastFinished, stamp) /\ active' = 0
      /\ abortRequested' = (abortRequested /\ stamp < latest["execute"])
      /\ pc' = "idle" /\ env' = <<>> /\ guestMemo' = FALSE
  BY DEF EndExecute, Reply
<1>3. stamp > 0 /\ stamp \in Nat /\ latest["execute"] \in Nat /\ head <= Len(jobs)
      /\ job.kind = "execute"
  BY RunningExecute, HeadJob
<1>4. QueueInv'
  <2>1. abortRequested' \in BOOLEAN /\ active' \in Nat
    BY <1>2
  <2>2. abortRequested' => active' < latest["execute"]
    <3>1. abortRequested' => stamp < latest["execute"]
      BY <1>2
    <3> QED BY <3>1, <1>2, <1>3
  <2> HIDE DEF a
  <2> QED BY <2>1, <2>2, <1>1, <1>2, <1>3, AnswerExecuteQueue
<1>5. RunInv'
  BY <1>2, IdleRun
<1> QED BY <1>4, <1>5

----------------------------------------------------------------------------
(* The host's tables.                                                      *)

LEMMA QuietHost ==
    ASSUME IInv, UNCHANGED hostVars, meshCache' \in {meshCache, NoCache}
    PROVE  HostInv'
<1>1. CASE UNCHANGED meshCache
  BY <1>1 DEF IInv, HostInv, HostType, CachesSound, hostVars
<1>2. CASE meshCache' = NoCache
  BY <1>2 DEF IInv, HostInv, HostType, CachesSound, hostVars, NoCache
<1> QED BY <1>1, <1>2

LEMMA FreeAllHost ==
    ASSUME IInv, FreeAll, meshCache' \in {meshCache, NoCache}
    PROVE  HostInv'
<1>1. /\ shapes' = Nothing /\ memo' = Nothing /\ DOMAIN shapes' = {} /\ DOMAIN memo' = {}
      /\ sessionMemo' = FALSE /\ UNCHANGED <<nextId, memoGen>>
  BY DEF FreeAll, Nothing
<1>2. shapes' \in [DOMAIN shapes' -> Prints] /\ memo' \in [DOMAIN memo' -> [id : Nat, gen : Nat]]
  BY <1>1 DEF Nothing
<1>3. /\ meshCache' \in [key : Keys \cup {NoKey}, mesh : Prints \cup {NoMesh}]
      /\ meshCache'.key # NoKey => meshCache'.mesh = Want[meshCache'.key]
  <2>1. CASE meshCache' = NoCache
    BY <2>1 DEF NoCache
  <2>2. CASE meshCache' = meshCache
    BY <2>2 DEF IInv, HostInv, HostType, CachesSound
  <2> QED BY <2>1, <2>2
<1>4. nextId \in Nat /\ memoGen \in Nat
  BY DEF IInv, HostInv, HostType
<1> QED BY <1>1, <1>2, <1>3, <1>4 DEF HostInv, HostType, CachesSound

LEMMA QuietLoad == ASSUME IInv, UNCHANGED loadVars PROVE LoadInv'
BY DEF IInv, LoadInv, LoadType, FlagsSound, loadVars

LEMMA CancelStep ==
    ASSUME IInv, pc \in ExecutePcs, CancelExecute, meshCache' \in {meshCache, NoCache}
    PROVE  QueueInv' /\ RunInv' /\ HostInv'
<1>1. EndExecute("cancelled", NoMesh) /\ FreeAll
  BY DEF CancelExecute
<1> QED BY <1>1, EndExecuteStep, FreeAllHost

LEMMA ThrowStep ==
    ASSUME IInv, pc \in ExecutePcs, Throw
    PROVE  QueueInv' /\ RunInv' /\ HostInv'
<1>1. EndExecute("error", NoMesh) /\ UNCHANGED <<hostVars, meshCache>>
  BY DEF Throw
<1> QED BY <1>1, EndExecuteStep, QuietHost

\* A step of the guest is about the same job, and changes nothing of its being aborted.
LEMMA SameHead ==
    ASSUME UNCHANGED <<queueVars, stampVars>>
    PROVE  /\ head' = head /\ job' = job /\ stamp' = stamp /\ Program' = Program
           /\ IsAborted' <=> IsAborted
BY DEF queueVars, stampVars, head, job, stamp, Program, IsAborted

----------------------------------------------------------------------------
(* One lemma per action.                                                   *)

LEMMA PostStep ==
    ASSUME IInv, NEW m \in Message, Post(m)
    PROVE  IInv'
<1>1. QueueInv'
  BY PostQueue
<1>2. /\ UNCHANGED <<sent, active, pc, env, guestMemo, loadVars, hostVars, meshCache>>
      /\ jobs' = Append(jobs, m) /\ stamps' = Append(stamps, NextStamp(m.kind))
      /\ NextStamp(m.kind) \in Nat
      /\ abortRequested => abortRequested'
  <2>1. NextStamp(m.kind) \in Nat
    BY DEF NextStamp, IInv, QueueInv, QueueType
  <2> QED BY <2>1 DEF Post, guestVars
<1>3. LoadInv' /\ HostInv'
  BY <1>2, QuietLoad, QuietHost
<1>4. ASSUME head <= Len(jobs)
      PROVE  head' = head /\ head' <= Len(jobs') /\ job' = job /\ stamp' = stamp /\ Program' = Program
  <2>1. head \in 1..Len(jobs) /\ Len(jobs) \in Nat /\ Len(stamps) = Len(jobs)
        /\ jobs \in Seq(Message) /\ stamps \in Seq(Nat)
    BY <1>4, HeadJob DEF IInv, QueueInv, QueueType
  <2>2. Len(jobs') = Len(jobs) + 1 /\ jobs'[head] = jobs[head] /\ stamps'[head] = stamps[head]
    BY <2>1, <1>2
  <2> QED BY <2>1, <2>2, <1>2 DEF head, job, stamp, Program
<1>5. IsAborted => IsAborted'
  <2>1. latest["execute"] \in Nat /\ latest'["execute"] \in Nat /\ active \in Nat
        /\ latest["execute"] <= latest'["execute"]
    BY DEF IInv, QueueInv, QueueType, Coalescible, Post, NextStamp
  <2> QED BY <2>1, <1>2 DEF IsAborted
<1>6. GuestType'
  BY <1>2 DEF GuestType, IInv, RunInv
<1>7. Position'
  BY <1>2, <1>4, <1>5 DEF Position, ExecutePcs, IInv, RunInv
<1>8. GuestStaged'
  BY <1>2 DEF GuestStaged, Evaluating, StagedHere, loadVars, IInv, RunInv
<1>9. GuestShapesLive'
  <2>1. Evaluating => head <= Len(jobs)
    BY DEF Evaluating, IInv, RunInv, Position
  <2> QED BY <2>1, <1>2, <1>4, <1>5 DEF GuestShapesLive, Evaluating, hostVars, IInv, RunInv
<1> QED BY <1>1, <1>3, <1>6, <1>7, <1>8, <1>9 DEF IInv, RunInv

\* Finishing a job that touches neither the host's tables nor the mesh cache.
LEMMA FinishStep ==
    ASSUME IInv, pc \notin ExecutePcs, head <= Len(jobs), job.kind # "execute",
           NEW outcome \in {"ok", "cancelled", "error"}, Finish(outcome),
           UNCHANGED <<hostVars, meshCache>>, LoadInv'
    PROVE  IInv'
BY FinishQueue, FinishRun, QuietHost DEF IInv

LEMMA WaitingFacts ==
    ASSUME NEW kind, Waiting(kind)
    PROVE  pc = "idle" /\ pc \notin ExecutePcs /\ head <= Len(jobs) /\ job.kind = kind
BY DEF Waiting, ExecutePcs

LEMMA ConfigStep == ASSUME IInv, Config PROVE IInv'
<1>1. /\ pc \notin ExecutePcs /\ head <= Len(jobs) /\ job.kind = "config"
      /\ Finish("ok") /\ UNCHANGED <<files, vm, occ, hostVars, meshCache>>
      /\ base' = job.base
      /\ staged' = IF job.base = base THEN staged
                   ELSE [full |-> FALSE, resolve |-> FALSE, base |-> NoBase]
  BY WaitingFacts DEF Config
<1>2. job.base \in Bases
  BY <1>1, HeadJob
<1>3. LoadInv'
  <2>1. LoadType /\ FlagsSound
    BY DEF IInv, LoadInv
  <2>2. staged' \in [full : BOOLEAN, resolve : BOOLEAN, base : Bases \cup {NoBase}]
    BY <1>1, <2>1 DEF LoadType
  <2>3. FlagsSound'
    BY <1>1, <2>1 DEF FlagsSound
  <2> QED BY <1>1, <1>2, <2>1, <2>2, <2>3 DEF LoadInv, LoadType
<1> QED BY <1>1, <1>3, FinishStep

LEMMA LoadTypeStep ==
    ASSUME IInv, vm' \in {vm, TRUE}, occ' \in BOOLEAN, UNCHANGED <<base, staged, files>>
    PROVE  LoadInv'
BY DEF IInv, LoadInv, LoadType, FlagsSound

LEMMA WarmStep == ASSUME IInv, Warm PROVE IInv'
<1>1. /\ pc \notin ExecutePcs /\ head <= Len(jobs) /\ job.kind = "warm"
      /\ UNCHANGED <<base, staged, files, hostVars, meshCache>>
      /\ Finish("ok") \/ Finish("error")
  BY WaitingFacts DEF Warm
<1>2. vm' \in {vm, TRUE} /\ occ' \in BOOLEAN
  BY DEF Warm, Warmed, WarmFails, IInv, LoadInv, LoadType
<1>3. LoadInv'
  BY <1>1, <1>2, LoadTypeStep
<1> QED BY <1>1, <1>3, FinishStep

LEMMA DropStep == ASSUME IInv, NEW kind \in Coalescible, DropSuperseded(kind) PROVE IInv'
<1> DEFINE a == [outcome |-> "cancelled", mesh |-> NoMesh]
<1>1. /\ pc = "idle" /\ pc \notin ExecutePcs /\ head <= Len(jobs) /\ job.kind = kind
      /\ sent' = Append(sent, a)
      /\ lastFinished' = IF kind = "execute" THEN Max2(lastFinished, stamp) ELSE lastFinished
      /\ UNCHANGED <<jobs, stamps, latest, active, abortRequested, guestVars, loadVars,
                     hostVars, meshCache>>
  BY WaitingFacts DEF DropSuperseded, Reply
<1>2. a \in Answer
  BY DEF Answer
<1>3. /\ active \in Nat /\ abortRequested \in BOOLEAN
      /\ abortRequested => active < latest["execute"]
  BY DEF IInv, QueueInv, QueueType, StampOrder
<1> HIDE DEF a
<1>4. QueueInv'
  <2>1. CASE kind = "execute"
    BY <2>1, <1>1, <1>2, <1>3, AnswerExecuteQueue
  <2>2. CASE kind # "execute"
    BY <2>2, <1>1, <1>2, AnswerQueue DEF stampVars
  <2> QED BY <2>1, <2>2
<1>5. RunInv'
  <2>1. active = 0 /\ env = <<>> /\ guestMemo \in BOOLEAN
    BY <1>1, IdleNow
  <2> QED BY <1>1, <2>1, IdleRun DEF guestVars
<1> QED BY <1>1, <1>4, <1>5, QuietHost, QuietLoad DEF IInv

LEMMA AnalyzeSkipStep == ASSUME IInv, AnalyzeSkip PROVE IInv'
<1>1. /\ pc \notin ExecutePcs /\ head <= Len(jobs) /\ job.kind = "analyze"
      /\ Finish("cancelled") /\ UNCHANGED <<loadVars, hostVars, meshCache>>
  BY WaitingFacts DEF AnalyzeSkip
<1> QED BY <1>1, QuietLoad, FinishStep

\* A job that is not an execute starts.
LEMMA BeginStep ==
    ASSUME IInv, NEW kind \in {"analyze", "params_resolve"}, Waiting(kind),
           pc' = IF kind = "analyze" THEN "analyze" ELSE "resolve",
           UNCHANGED <<queueVars, stampVars, env, guestMemo, loadVars, hostVars, meshCache>>
    PROVE  IInv'
<1>1. pc \notin ExecutePcs /\ head <= Len(jobs) /\ job.kind = kind
  BY WaitingFacts
<1>2. active = 0 /\ env = <<>> /\ guestMemo \in BOOLEAN /\ pc' \in {"analyze", "resolve"}
      /\ active' = active /\ env' = env
  BY <1>1, IdleNow DEF stampVars
<1>3. head' = head /\ job' = job /\ jobs' = jobs
  BY SameHead DEF queueVars
<1>4. GuestType'
  BY <1>2, EmptySeq DEF GuestType
<1>5. Position'
  BY <1>1, <1>2, <1>3 DEF Position, ExecutePcs
<1>6. GuestStaged' /\ GuestShapesLive'
  BY <1>2 DEF GuestStaged, GuestShapesLive, Evaluating
<1> QED BY <1>4, <1>5, <1>6, QuietQueue, QuietHost, QuietLoad DEF IInv, RunInv

LEMMA AnalyzeEndStep == ASSUME IInv, AnalyzeEnd PROVE IInv'
<1>1. /\ pc \notin ExecutePcs /\ head <= Len(jobs) /\ job.kind = "analyze"
      /\ UNCHANGED <<base, staged, files, occ, hostVars, meshCache>>
      /\ vm' \in {vm, TRUE}
      /\ \E outcome \in {"ok", "cancelled", "error"} : Finish(outcome)
  BY DEF AnalyzeEnd, ExecutePcs, IInv, RunInv, Position
<1>2. LoadInv'
  BY <1>1, LoadTypeStep DEF IInv, LoadInv, LoadType
<1> QED BY <1>1, <1>2, FinishStep

LEMMA ResolveEndStep == ASSUME IInv, ResolveEnd PROVE IInv'
<1>1. /\ pc \notin ExecutePcs /\ head <= Len(jobs) /\ job.kind = "params_resolve"
      /\ UNCHANGED <<base, occ, hostVars, meshCache>>
      /\ vm' \in {vm, TRUE}
      /\ StageResolve \/ UNCHANGED <<staged, files>>
      /\ \E outcome \in {"ok", "cancelled", "error"} : Finish(outcome)
  BY DEF ResolveEnd, ExecutePcs, IInv, RunInv, Position
<1>2. LoadType /\ FlagsSound
  BY DEF IInv, LoadInv
<1>3. /\ staged' \in [full : BOOLEAN, resolve : BOOLEAN, base : Bases \cup {NoBase}]
      /\ files' \in [Battery -> Bases \cup {NoBase}]
  <2>1. CASE UNCHANGED <<staged, files>>
    BY <2>1, <1>2 DEF LoadType
  <2>2. CASE staged' = [staged EXCEPT !.resolve = TRUE] /\ UNCHANGED files
    BY <2>2, <1>2 DEF LoadType
  <2>3. CASE /\ files' = [files EXCEPT !["resolve"] = base]
             /\ staged' = [staged EXCEPT !.resolve = TRUE,
                                         !.base = IF @ = NoBase THEN base ELSE @]
    <3>1. files' \in [Battery -> Bases \cup {NoBase}]
      BY <2>3, <1>2 DEF LoadType
    <3>2. staged' \in [full : BOOLEAN, resolve : BOOLEAN, base : Bases \cup {NoBase}]
      BY <2>3, <1>2 DEF LoadType
    <3> QED BY <3>1, <3>2
  <2> QED BY <2>1, <2>2, <2>3, <1>1 DEF StageResolve
<1>4. FlagsSound'
  <2>1. CASE UNCHANGED <<staged, files>>
    BY <2>1, <1>1, <1>2 DEF FlagsSound
  <2>2. CASE StageResolve
    <3>1. \A f \in Required : files'[f] = files[f]
      BY <2>2, <1>2 DEF StageResolve, LoadType, Required, Battery
    <3>2. staged'.full = staged.full
      BY <2>2, <1>2 DEF StageResolve, LoadType
    <3>3. staged.full => staged'.base = staged.base
      BY <2>2, <1>2 DEF StageResolve, LoadType, FlagsSound
    <3> QED BY <3>1, <3>2, <3>3, <1>1, <1>2 DEF FlagsSound
  <2> QED BY <2>1, <2>2, <1>1
<1>5. LoadInv'
  BY <1>1, <1>2, <1>3, <1>4 DEF LoadInv, LoadType
<1> QED BY <1>1, <1>5, FinishStep

----------------------------------------------------------------------------
(* Execute.                                                                *)

LEMMA ExecuteBeginStep == ASSUME IInv, ExecuteBegin PROVE IInv'
<1>1. /\ pc = "idle" /\ pc \notin ExecutePcs /\ head <= Len(jobs) /\ job.kind = "execute"
      /\ stamp >= latest["execute"] /\ active' = stamp /\ pc' = "warm"
      /\ abortRequested' = (stamp < latest["execute"])
      /\ UNCHANGED <<queueVars, latest, lastFinished, env, guestMemo, loadVars, hostVars, meshCache>>
  BY WaitingFacts DEF ExecuteBegin
<1>2. /\ head' = head /\ job' = job /\ stamp' = stamp /\ jobs' = jobs
      /\ stamp \in Nat /\ latest["execute"] \in Nat
  BY <1>1, HeadJob DEF queueVars, head, job, stamp
<1>3. abortRequested' = FALSE
  <2>1. (stamp < latest["execute"]) = FALSE
    BY <1>1, <1>2
  <2>2. abortRequested' = (stamp < latest["execute"])
    BY <1>1
  <2> QED BY <2>1, <2>2, Zenon
<1>4. QueueInv'
  <2>1. QueueType /\ StampOrder /\ FinishedLine
    BY DEF IInv, QueueInv
  <2>2. QueueType'
    BY <2>1, <1>1, <1>2, <1>3 DEF QueueType, queueVars
  <2>3. StampOrder'
    BY <2>1, <1>1, <1>3 DEF StampOrder, queueVars
  <2>4. FinishedLine'
    BY <2>1, <1>1, <1>2 DEF FinishedLine, queueVars
  <2> QED BY <2>2, <2>3, <2>4 DEF QueueInv
<1>5. RunInv'
  <2>1. env = <<>> /\ guestMemo \in BOOLEAN
    BY <1>1, IdleNow
  <2>2. GuestType'
    BY <2>1, <1>1, EmptySeq DEF GuestType
  <2>3. Position'
    BY <2>1, <1>1, <1>2 DEF Position, ExecutePcs
  <2>4. GuestStaged' /\ GuestShapesLive'
    BY <1>1 DEF GuestStaged, GuestShapesLive, Evaluating
  <2> QED BY <2>2, <2>3, <2>4 DEF RunInv
<1> QED BY <1>1, <1>4, <1>5, QuietHost, QuietLoad DEF IInv

\* A step from one point of an execute to another that leaves the program's shapes alone.
LEMMA MoveRun ==
    ASSUME IInv, pc \in ExecutePcs, UNCHANGED <<queueVars, stampVars, env>>,
           guestMemo' \in BOOLEAN, env = <<>>,
           pc' \in {"stage", "session", "free", "lookup", "make", "failed"},
           pc' \in {"session", "free", "lookup", "make"} => StagedHere'
    PROVE  RunInv'
<1>1. /\ head <= Len(jobs) /\ job.kind = "execute" /\ active = stamp
      /\ Len(Program) \in Nat \ {0}
  BY RunningExecute
<1>2. head' = head /\ job' = job /\ stamp' = stamp /\ Program' = Program /\ jobs' = jobs
      /\ active' = active /\ env' = <<>>
  BY SameHead DEF queueVars, stampVars
<1>3. GuestType'
  BY <1>2, EmptySeq DEF GuestType
<1>4. Position'
  <2>1. Len(env') = 0
    BY <1>2
  <2> QED BY <1>1, <1>2, <2>1 DEF Position, ExecutePcs
<1>5. GuestStaged'
  BY DEF GuestStaged, Evaluating
<1>6. GuestShapesLive'
  BY <1>2 DEF GuestShapesLive
<1> QED BY <1>3, <1>4, <1>5, <1>6 DEF RunInv

LEMMA ExecuteWarmStep == ASSUME IInv, ExecuteWarm PROVE IInv'
<1>1. /\ pc = "warm" /\ pc \in ExecutePcs /\ env = <<>> /\ guestMemo \in BOOLEAN
      /\ UNCHANGED <<base, staged, files>>
      /\ vm' \in {vm, TRUE} /\ occ' \in BOOLEAN
      /\ Open \/ Throw
  BY DEF ExecuteWarm, Warmed, WarmFails, ExecutePcs, IInv, RunInv, Position, GuestType, LoadInv,
         LoadType
<1>2. LoadInv'
  BY <1>1, LoadTypeStep
<1>3. CASE Throw
  BY <1>1, <1>2, <1>3, ThrowStep DEF IInv
<1>4. CASE job.memo /\ meshCache.key = job.key /\ Open
  <2>1. CASE IsAborted
    BY <2>1, <1>1, <1>2, <1>4, CancelStep DEF IInv, Open
  <2>2. CASE ~IsAborted
    <3>1. EndExecute("ok", meshCache.mesh) /\ UNCHANGED <<hostVars, meshCache>>
      BY <2>2, <1>4 DEF Open
    <3>2. meshCache.mesh \in Prints \cup {NoMesh}
      BY DEF IInv, HostInv, HostType
    <3> QED BY <3>1, <3>2, <1>1, <1>2, EndExecuteStep, QuietHost DEF IInv
  <2> QED BY <2>1, <2>2
<1>5. CASE ~(job.memo /\ meshCache.key = job.key) /\ Open
  <2>1. CASE IsAborted
    <3>1. CancelExecute /\ meshCache' = NoCache
      BY <2>1, <1>5 DEF Open
    <3> QED BY <3>1, <1>1, <1>2, CancelStep DEF IInv
  <2>2. CASE ~IsAborted
    <3>1. /\ \/ sessionMemo' = TRUE /\ UNCHANGED <<shapes, nextId, memo, memoGen, meshCache>>
             \/ FreeAll /\ meshCache' = NoCache
          /\ pc' = "stage" /\ UNCHANGED <<queueVars, stampVars, env, guestMemo>>
      BY <2>2, <1>5 DEF Open
    <3>2. HostInv'
      <4>1. CASE sessionMemo' = TRUE /\ UNCHANGED <<shapes, nextId, memo, memoGen, meshCache>>
        BY <4>1 DEF IInv, HostInv, HostType, CachesSound
      <4>2. CASE FreeAll /\ meshCache' = NoCache
        BY <4>2, FreeAllHost
      <4> QED BY <4>1, <4>2, <3>1
    <3>3. RunInv'
      BY <3>1, <1>1, MoveRun
    <3> QED BY <3>1, <3>2, <3>3, <1>2, QuietQueue DEF IInv
  <2> QED BY <2>1, <2>2
<1> QED BY <1>1, <1>3, <1>4, <1>5

LEMMA StageBatteriesLoad ==
    ASSUME IInv, ~StagedHere, NEW got \in SUBSET Battery, StageBatteries(got),
           UNCHANGED <<base, vm, occ>>
    PROVE  LoadInv' /\ (Required \subseteq got => StagedHere')
<1>1. LoadType /\ FlagsSound
  BY DEF IInv, LoadInv
<1>2. /\ files' = [f \in Battery |-> IF f \in got THEN base ELSE files[f]]
      /\ staged' = [full |-> staged.full \/ Required \subseteq got,
                    resolve |-> staged.resolve \/ "resolve" \in got,
                    base |-> IF Required \subseteq got THEN base ELSE staged.base]
  BY DEF StageBatteries
<1>3. LoadType'
  <2>1. files' \in [Battery -> Bases \cup {NoBase}]
    BY <1>1, <1>2 DEF LoadType
  <2>2. staged' \in [full : BOOLEAN, resolve : BOOLEAN, base : Bases \cup {NoBase}]
    BY <1>1, <1>2 DEF LoadType
  <2> QED BY <1>1, <2>1, <2>2 DEF LoadType
<1>4. base # NoBase /\ Required \subseteq Battery
  BY <1>1, FreshAssumption DEF LoadType, Required, Battery
<1>5. FlagsSound'
  <2>1. CASE Required \subseteq got
    BY <2>1, <1>2, <1>4 DEF FlagsSound
  <2>2. CASE ~(Required \subseteq got)
    BY <2>2, <1>1, <1>2 DEF FlagsSound, StagedHere
  <2> QED BY <2>1, <2>2
<1>6. Required \subseteq got => StagedHere'
  BY <1>2 DEF StagedHere
<1> QED BY <1>3, <1>5, <1>6 DEF LoadInv

LEMMA ExecuteStageStep == ASSUME IInv, ExecuteStage PROVE IInv'
<1>1. /\ pc = "stage" /\ pc \in ExecutePcs /\ env = <<>> /\ guestMemo \in BOOLEAN
      /\ UNCHANGED <<base, vm, occ>>
  BY DEF ExecuteStage, ExecutePcs, IInv, RunInv, Position, GuestType
<1>2. CASE /\ IF StagedHere THEN UNCHANGED <<files, staged>>
              ELSE \E got \in SUBSET Battery : Required \subseteq got /\ StageBatteries(got)
           /\ IF IsAborted THEN CancelExecute /\ meshCache' = NoCache
              ELSE /\ pc' = "session"
                   /\ UNCHANGED <<queueVars, stampVars, env, guestMemo, hostVars, meshCache>>
  <2>1. LoadInv' /\ StagedHere'
    <3>1. CASE StagedHere
      <4>1. UNCHANGED loadVars
        BY <3>1, <1>1, <1>2 DEF loadVars
      <4>2. StagedHere'
        BY <3>1, <4>1 DEF StagedHere, loadVars
      <4> QED BY <4>1, <4>2, QuietLoad
    <3>2. CASE ~StagedHere
      BY <3>2, <1>1, <1>2, StageBatteriesLoad
    <3> QED BY <3>1, <3>2
  <2>2. CASE IsAborted
    BY <2>1, <2>2, <1>1, <1>2, CancelStep DEF IInv
  <2>3. CASE ~IsAborted
    <3>1. pc' = "session" /\ UNCHANGED <<queueVars, stampVars, env, guestMemo, hostVars, meshCache>>
      BY <2>3, <1>2
    <3>2. RunInv'
      BY <3>1, <2>1, <1>1, MoveRun
    <3> QED BY <3>1, <3>2, <2>1, QuietQueue, QuietHost DEF IInv
  <2> QED BY <2>2, <2>3
<1>3. CASE /\ ~StagedHere
           /\ \E got \in SUBSET Battery : ~(Required \subseteq got) /\ StageBatteries(got)
           /\ Throw
  <2>1. LoadInv'
    BY <1>1, <1>3, StageBatteriesLoad
  <2> QED BY <2>1, <1>1, <1>3, ThrowStep DEF IInv
<1> QED BY <1>2, <1>3 DEF ExecuteStage

\* What holds at every call the guest makes.
LEMMA GuestFacts ==
    ASSUME IInv, NEW at \in {"session", "free", "lookup", "make", "put"}, Guest(at)
    PROVE  /\ pc = at /\ pc \in ExecutePcs /\ Evaluating /\ StagedHere
           /\ UNCHANGED <<queueVars, stampVars, loadVars, meshCache>>
           /\ QueueInv' /\ LoadInv' /\ StagedHere'
           /\ env \in Seq(Nat) /\ guestMemo \in BOOLEAN
<1>1. /\ pc = at /\ pc \in ExecutePcs /\ Evaluating
      /\ UNCHANGED <<queueVars, stampVars, loadVars, meshCache>>
  BY DEF Guest, ExecutePcs, Evaluating
<1>2. StagedHere /\ env \in Seq(Nat) /\ guestMemo \in BOOLEAN
  BY <1>1 DEF IInv, RunInv, GuestStaged, GuestType
<1>3. StagedHere'
  BY <1>1, <1>2 DEF StagedHere, loadVars
<1> QED BY <1>1, <1>2, <1>3, QuietQueue, QuietLoad

LEMMA GuestSessionStep == ASSUME IInv, GuestSession PROVE IInv'
<1>1. /\ Guest("session") /\ pc' = "free" /\ UNCHANGED env
      /\ \/ FreeAll /\ guestMemo' = FALSE
         \/ guestMemo' = sessionMemo /\ UNCHANGED hostVars
  BY DEF GuestSession
<1>2. HostInv' /\ guestMemo' \in BOOLEAN
  <2>1. meshCache' = meshCache
    BY <1>1, GuestFacts
  <2>2. sessionMemo \in BOOLEAN
    BY DEF IInv, HostInv, HostType
  <2> QED BY <2>1, <2>2, <1>1, QuietHost, FreeAllHost
<1>3. env = <<>>
  BY <1>1, GuestFacts DEF IInv, RunInv, Position
<1>4. RunInv'
  BY <1>1, <1>2, <1>3, GuestFacts, MoveRun
<1> QED BY <1>1, <1>2, <1>4, GuestFacts DEF IInv

LEMMA GuestErrorStep == ASSUME IInv, GuestError PROVE IInv'
<1>1. Guest("session") /\ pc' = "failed" /\ UNCHANGED <<env, guestMemo, hostVars>>
  BY DEF GuestError
<1>2. env = <<>> /\ guestMemo' \in BOOLEAN
  BY <1>1, GuestFacts DEF IInv, RunInv, Position
<1>3. RunInv'
  BY <1>1, <1>2, GuestFacts, MoveRun
<1>4. HostInv'
  BY <1>1, GuestFacts, QuietHost
<1> QED BY <1>1, <1>3, <1>4, GuestFacts DEF IInv

LEMMA GuestFreeStep == ASSUME IInv, GuestFree PROVE IInv'
<1>1. /\ Guest("free") /\ pc' = After(env) /\ UNCHANGED <<env, guestMemo>>
      /\ \/ memoGen' = memoGen + 1 /\ UNCHANGED <<shapes, nextId, memo, sessionMemo>>
         \/ FreeAll
  BY DEF GuestFree
<1>2. env = <<>> /\ guestMemo' \in BOOLEAN /\ meshCache' = meshCache
  BY <1>1, GuestFacts DEF IInv, RunInv, Position
<1>3. HostInv'
  <2>1. CASE FreeAll
    BY <2>1, <1>2, FreeAllHost
  <2>2. CASE memoGen' = memoGen + 1 /\ UNCHANGED <<shapes, nextId, memo, sessionMemo>>
    BY <2>2, <1>2 DEF IInv, HostInv, HostType, CachesSound
  <2> QED BY <2>1, <2>2, <1>1
<1>4. pc' \in {"lookup", "make"}
  <2>1. Len(env) = 0 /\ Len(Program) # 0
    BY <1>1, <1>2, GuestFacts, RunningExecute
  <2> QED BY <2>1, <1>1 DEF After
<1>5. RunInv'
  BY <1>1, <1>2, <1>4, GuestFacts, MoveRun
<1> QED BY <1>1, <1>3, <1>5, GuestFacts DEF IInv

\* A step of the evaluation: what must be shown of the operations done so far.
LEMMA EvaluationRun ==
    ASSUME IInv, pc \in ExecutePcs, UNCHANGED <<queueVars, stampVars, guestMemo>>, StagedHere',
           env' \in Seq(Nat), Len(env') <= Len(Program),
           pc' \in {"lookup", "make", "put", "finish", "failed", "aborted"},
           pc' \in {"lookup", "make"} => Len(env') < Len(Program),
           pc' = "put" => Len(env') > 0,
           pc' = "finish" => Len(env') = Len(Program),
           pc' = "aborted" => IsAborted,
           pc' \in {"lookup", "make", "put", "finish"} /\ ~IsAborted =>
              \A i \in 1..Len(env') : env'[i] \in DOMAIN shapes' /\ shapes'[env'[i]] = Program[i]
    PROVE  RunInv'
<1>1. head <= Len(jobs) /\ job.kind = "execute" /\ active = stamp
  BY RunningExecute
<1>2. /\ head' = head /\ job' = job /\ stamp' = stamp /\ Program' = Program /\ jobs' = jobs
      /\ active' = active /\ (IsAborted' <=> IsAborted)
  BY SameHead DEF queueVars, stampVars
<1>3. GuestType'
  BY DEF GuestType, IInv, RunInv
<1>4. Position'
  BY <1>1, <1>2 DEF Position, ExecutePcs
<1>5. GuestStaged'
  BY DEF GuestStaged, Evaluating
<1>6. GuestShapesLive'
  <2>1. DOMAIN env' = 1..Len(env')
    OBVIOUS
  <2>2. Evaluating' => pc' \in {"lookup", "make", "put", "finish"}
    BY DEF Evaluating
  <2> QED BY <2>1, <2>2, <1>2 DEF GuestShapesLive
<1> QED BY <1>3, <1>4, <1>5, <1>6 DEF RunInv

\* Where evaluation goes next, after e.
LEMMA AfterFacts ==
    ASSUME NEW e \in Seq(Nat), Len(Program) \in Nat, Len(e) <= Len(Program)
    PROVE  /\ After(e) \in {"lookup", "make", "finish"}
           /\ After(e) \in {"lookup", "make"} => Len(e) < Len(Program)
           /\ After(e) = "finish" => Len(e) = Len(Program)
BY DEF After

\* The operations done so far and their shapes, while the program is not preempted.
LEMMA DoneFacts ==
    ASSUME IInv, pc \in {"lookup", "make", "put", "finish"}
    PROVE  /\ pc \in ExecutePcs /\ env \in Seq(Nat) /\ Len(env) \in Nat
           /\ Len(Program) \in Nat /\ Len(env) <= Len(Program)
           /\ ~IsAborted => \A i \in 1..Len(env) :
                 env[i] \in DOMAIN shapes /\ shapes[env[i]] = Program[i]
<1>1. pc \in ExecutePcs /\ Evaluating
  BY DEF ExecutePcs, Evaluating
<1>2. env \in Seq(Nat) /\ Len(env) \in Nat /\ DOMAIN env = 1..Len(env)
  BY DEF IInv, RunInv, GuestType
<1>3. Len(Program) \in Nat
  BY <1>1, RunningExecute
<1>4. Len(env) <= Len(Program)
  BY <1>2, <1>3 DEF IInv, RunInv, Position
<1>5. ~IsAborted => \A i \in 1..Len(env) : env[i] \in DOMAIN shapes /\ shapes[env[i]] = Program[i]
  BY <1>1, <1>2 DEF IInv, RunInv, GuestShapesLive
<1> QED BY <1>1, <1>2, <1>3, <1>4, <1>5

LEMMA OpLookupStep == ASSUME IInv, OpLookup PROVE IInv'
<1>1. /\ Guest("lookup") /\ UNCHANGED guestMemo /\ pc = "lookup" /\ pc \in ExecutePcs
      /\ UNCHANGED <<queueVars, stampVars, loadVars, meshCache>>
      /\ QueueInv' /\ LoadInv' /\ StagedHere'
  BY GuestFacts DEF OpLookup
<1>2. /\ env \in Seq(Nat) /\ Len(env) \in Nat /\ Len(Program) \in Nat /\ Len(env) < Len(Program)
      /\ ~IsAborted => \A i \in 1..Len(env) :
            env[i] \in DOMAIN shapes /\ shapes[env[i]] = Program[i]
  BY <1>1, DoneFacts DEF IInv, RunInv, Position
<1>3. HostType /\ CachesSound
  BY DEF IInv, HostInv
<1>4. CASE IsAborted /\ FreeAll /\ pc' = "make" /\ UNCHANGED env
  <2>1. HostInv'
    BY <1>1, <1>4, FreeAllHost
  <2>2. RunInv'
    BY <1>1, <1>2, <1>4, EvaluationRun
  <2> QED BY <2>1, <2>2, <1>1 DEF IInv
<1>5. CASE /\ ~IsAborted /\ Hit
           /\ memo' = [memo EXCEPT ![NextOp].gen = memoGen]
           /\ env' = Append(env, memo[NextOp].id)
           /\ pc' = After(env')
           /\ UNCHANGED <<shapes, nextId, memoGen, sessionMemo>>
  <2> DEFINE id == memo[NextOp].id
  <2>1. /\ NextOp \in DOMAIN memo /\ id \in DOMAIN shapes /\ id \in Nat /\ shapes[id] = NextOp
        /\ memo[NextOp] \in [id : Nat, gen : Nat] /\ memoGen \in Nat
    BY <1>3, <1>5 DEF Hit, HostType, CachesSound
  <2>2. /\ DOMAIN memo' = DOMAIN memo
        /\ \A p \in DOMAIN memo : memo'[p].id = memo[p].id /\ memo'[p] \in [id : Nat, gen : Nat]
    BY <2>1, <1>3, <1>5 DEF HostType
  <2>3. HostInv'
    <3>1. memo' \in [DOMAIN memo' -> [id : Nat, gen : Nat]]
      BY <2>2, <1>5
    <3>2. HostType'
      BY <3>1, <2>2, <1>1, <1>3, <1>5 DEF HostType
    <3>3. CachesSound'
      BY <2>2, <1>1, <1>3, <1>5 DEF CachesSound
    <3> QED BY <3>2, <3>3 DEF HostInv
  <2> HIDE DEF id
  <2>4. env' = Append(env, id)
    BY <1>5 DEF id
  <2>5. /\ env' \in Seq(Nat) /\ Len(env') = Len(env) + 1
        /\ \A i \in 1..Len(env) : env'[i] = env[i]
        /\ env'[Len(env) + 1] = id
    BY <2>1, <2>4, <1>2
  <2>6. ASSUME NEW i \in 1..Len(env')
        PROVE  env'[i] \in DOMAIN shapes' /\ shapes'[env'[i]] = Program[i]
    <3>1. CASE i \in 1..Len(env)
      BY <3>1, <2>5, <1>2, <1>5
    <3>2. CASE i = Len(env) + 1
      BY <3>2, <2>1, <2>5, <1>5 DEF NextOp
    <3> QED BY <3>1, <3>2, <2>5, <1>2
  <2>7. Len(env') <= Len(Program)
    BY <2>5, <1>2
  <2>8. pc' = After(env')
    BY <1>5
  <2>9. RunInv'
    BY <2>5, <2>6, <2>7, <2>8, <1>1, <1>2, AfterFacts, EvaluationRun
  <2> QED BY <2>3, <2>9, <1>1 DEF IInv
<1>6. CASE /\ ~IsAborted /\ memo' = [p \in DOMAIN memo \ {NextOp} |-> memo[p]]
           /\ pc' = "make" /\ UNCHANGED <<env, shapes, nextId, memoGen, sessionMemo>>
  <2>1. HostInv'
    <3>1. /\ DOMAIN memo' \subseteq DOMAIN memo
          /\ \A p \in DOMAIN memo' : memo'[p] = memo[p]
          /\ memo' \in [DOMAIN memo' -> [id : Nat, gen : Nat]]
      BY <1>3, <1>6 DEF HostType
    <3>2. HostType'
      BY <3>1, <1>1, <1>3, <1>6 DEF HostType
    <3>3. CachesSound'
      BY <3>1, <1>1, <1>3, <1>6 DEF CachesSound
    <3> QED BY <3>2, <3>3 DEF HostInv
  <2>2. RunInv'
    BY <1>1, <1>2, <1>6, EvaluationRun
  <2> QED BY <2>1, <2>2, <1>1 DEF IInv
<1> QED BY <1>4, <1>5, <1>6 DEF OpLookup

LEMMA OpMakeStep == ASSUME IInv, OpMake PROVE IInv'
<1>1. /\ Guest("make") /\ UNCHANGED guestMemo /\ pc = "make" /\ pc \in ExecutePcs
      /\ UNCHANGED <<queueVars, stampVars, loadVars, meshCache>>
      /\ QueueInv' /\ LoadInv' /\ StagedHere'
  BY GuestFacts DEF OpMake
<1>2. /\ env \in Seq(Nat) /\ Len(env) \in Nat /\ Len(Program) \in Nat /\ Len(env) < Len(Program)
      /\ ~IsAborted => \A i \in 1..Len(env) :
            env[i] \in DOMAIN shapes /\ shapes[env[i]] = Program[i]
  BY <1>1, DoneFacts DEF IInv, RunInv, Position
<1>3. HostType /\ CachesSound
  BY DEF IInv, HostInv
<1>4. CASE IsAborted /\ FreeAll /\ pc' = "aborted" /\ UNCHANGED env
  <2>1. HostInv'
    BY <1>1, <1>4, FreeAllHost
  <2>2. RunInv'
    BY <1>1, <1>2, <1>4, EvaluationRun
  <2> QED BY <2>1, <2>2, <1>1 DEF IInv
<1>5. CASE pc' = "failed" /\ UNCHANGED <<env, hostVars>>
  <2>1. RunInv'
    BY <1>1, <1>2, <1>5, EvaluationRun
  <2> QED BY <2>1, <1>1, <1>5, QuietHost DEF IInv
<1>6. CASE /\ ~IsAborted /\ Adopt(NextOp)
           /\ pc' = IF guestMemo THEN "put" ELSE After(env')
           /\ UNCHANGED <<memo, memoGen, sessionMemo>>
  <2>1. /\ shapes' = [i \in DOMAIN shapes \cup {nextId} |-> IF i = nextId THEN NextOp ELSE shapes[i]]
        /\ env' = Append(env, nextId) /\ nextId' = nextId + 1
    BY <1>6 DEF Adopt
  <2>2. NextOp \in Prints /\ NextOp = Program[Len(env) + 1]
    BY <1>1, <1>2, RunningExecute DEF NextOp
  <2>3. nextId \in Nat /\ nextId \notin DOMAIN shapes
    BY <1>3 DEF HostType
  <2>4. /\ DOMAIN shapes' = DOMAIN shapes \cup {nextId} /\ shapes'[nextId] = NextOp
        /\ \A i \in DOMAIN shapes : shapes'[i] = shapes[i] /\ i < nextId
    BY <2>1, <2>3, <1>3 DEF HostType
  <2>5. HostInv'
    <3>1. shapes' \in [DOMAIN shapes' -> Prints]
      BY <2>1, <2>2, <1>3 DEF HostType
    <3>2. \A i \in DOMAIN shapes' : i \in Nat /\ i < nextId'
      BY <2>1, <2>3, <2>4, <1>3 DEF HostType
    <3>3. HostType'
      BY <3>1, <3>2, <2>1, <2>3, <1>1, <1>3, <1>6 DEF HostType
    <3>4. \A p \in DOMAIN memo : memo[p].id \in Nat /\ memo[p].id < nextId
      BY <1>3 DEF HostType, CachesSound
    <3>5. CachesSound'
      BY <3>4, <2>1, <2>3, <2>4, <1>1, <1>3, <1>6 DEF CachesSound
    <3> QED BY <3>3, <3>5 DEF HostInv
  <2>6. /\ env' \in Seq(Nat) /\ Len(env') = Len(env) + 1
        /\ \A i \in 1..Len(env) : env'[i] = env[i]
        /\ env'[Len(env) + 1] = nextId
    BY <2>1, <2>3, <1>2
  <2>7. ASSUME NEW i \in 1..Len(env')
        PROVE  env'[i] \in DOMAIN shapes' /\ shapes'[env'[i]] = Program[i]
    <3>1. CASE i \in 1..Len(env)
      BY <3>1, <2>4, <2>6, <1>2, <1>6
    <3>2. CASE i = Len(env) + 1
      BY <3>2, <2>2, <2>4, <2>6
    <3> QED BY <3>1, <3>2, <2>6, <1>2
  <2>8. Len(env') <= Len(Program) /\ Len(env') > 0
    BY <2>6, <1>2
  <2>9. pc' = "put" \/ pc' = After(env')
    BY <1>6
  <2>10. RunInv'
    BY <2>6, <2>7, <2>8, <2>9, <1>1, <1>2, AfterFacts, EvaluationRun
  <2> QED BY <2>5, <2>10, <1>1 DEF IInv
<1> QED BY <1>4, <1>5, <1>6 DEF OpMake

LEMMA OpPutStep == ASSUME IInv, OpPut PROVE IInv'
<1>1. /\ Guest("put") /\ UNCHANGED <<env, guestMemo>> /\ pc = "put" /\ pc \in ExecutePcs
      /\ UNCHANGED <<queueVars, stampVars, loadVars, meshCache>>
      /\ QueueInv' /\ LoadInv' /\ StagedHere' /\ pc' = After(env)
  BY GuestFacts DEF OpPut
<1>2. /\ env \in Seq(Nat) /\ Len(env) \in Nat /\ Len(env) > 0
      /\ Len(Program) \in Nat /\ Len(env) <= Len(Program)
      /\ ~IsAborted => \A i \in 1..Len(env) :
            env[i] \in DOMAIN shapes /\ shapes[env[i]] = Program[i]
  BY <1>1, DoneFacts DEF IInv, RunInv, Position
<1>3. HostType /\ CachesSound
  BY DEF IInv, HostInv
<1>4. CASE IsAborted /\ FreeAll
  <2>1. HostInv'
    BY <1>1, <1>4, FreeAllHost
  <2>2. RunInv'
    BY <1>1, <1>2, <1>4, AfterFacts, EvaluationRun
  <2> QED BY <2>1, <2>2, <1>1 DEF IInv
<1>5. CASE /\ ~IsAborted /\ memo' = Put(Program[Len(env)])
           /\ UNCHANGED <<shapes, nextId, memoGen, sessionMemo>>
  <2> DEFINE p == Program[Len(env)]
             id == env[Len(env)]
  <2>1. /\ p \in Prints /\ id \in Nat /\ id \in DOMAIN shapes /\ shapes[id] = p
        /\ id < nextId /\ memoGen \in Nat
    <3>1. Len(env) \in 1..Len(env) /\ Len(env) \in 1..Len(Program)
      BY <1>2
    <3> QED BY <3>1, <1>1, <1>2, <1>3, <1>5, RunningExecute DEF HostType
  <2>2. memo' = [q \in DOMAIN memo \cup {p} |-> IF q = p THEN [id |-> id, gen |-> memoGen] ELSE memo[q]]
    BY <1>5 DEF Put
  <2> HIDE DEF p, id
  <2>3. /\ DOMAIN memo' = DOMAIN memo \cup {p} /\ memo'[p] = [id |-> id, gen |-> memoGen]
        /\ \A q \in DOMAIN memo : q # p => memo'[q] = memo[q]
    BY <2>2
  <2>4. memo' \in [DOMAIN memo' -> [id : Nat, gen : Nat]] /\ DOMAIN memo' \subseteq Prints
    BY <2>1, <2>2, <1>3 DEF HostType
  <2>5. HostInv'
    <3>1. HostType'
      BY <2>4, <1>1, <1>3, <1>5 DEF HostType
    <3>2. CachesSound'
      BY <2>1, <2>3, <1>1, <1>3, <1>5 DEF CachesSound
    <3> QED BY <3>1, <3>2 DEF HostInv
  <2>6. RunInv'
    BY <1>1, <1>2, <1>5, AfterFacts, EvaluationRun
  <2> QED BY <2>5, <2>6, <1>1 DEF IInv
<1> QED BY <1>4, <1>5 DEF OpPut

\* The shapes and the memo only ever lose entries when an execute ends.
LEMMA ShrinkHost ==
    ASSUME IInv, UNCHANGED <<nextId, memoGen, sessionMemo>>,
           NEW S \in SUBSET DOMAIN shapes, shapes' = [i \in S |-> shapes[i]],
           NEW M \in SUBSET DOMAIN memo, memo' = [p \in M |-> memo[p]],
           meshCache' \in [key : Keys \cup {NoKey}, mesh : Prints \cup {NoMesh}],
           meshCache'.key # NoKey => meshCache'.mesh = Want[meshCache'.key]
    PROVE  HostInv'
<1>1. HostType /\ CachesSound
  BY DEF IInv, HostInv
<1>2. /\ DOMAIN shapes' = S /\ DOMAIN memo' = M
      /\ \A i \in S : shapes'[i] = shapes[i]
      /\ \A p \in M : memo'[p] = memo[p]
  OBVIOUS
<1>3. shapes' \in [DOMAIN shapes' -> Prints] /\ memo' \in [DOMAIN memo' -> [id : Nat, gen : Nat]]
  BY <1>1 DEF HostType
<1>4. HostType'
  BY <1>1, <1>2, <1>3 DEF HostType
<1>5. CachesSound'
  BY <1>1, <1>2 DEF CachesSound
<1> QED BY <1>4, <1>5 DEF HostInv

LEMMA ExecuteMeshStep ==
    ASSUME IInv, pc = "finish", ~IsAborted, ExecuteMesh
    PROVE  /\ QueueInv' /\ RunInv' /\ HostInv'
           /\ Root \in DOMAIN shapes /\ shapes[Root] = Want[job.key]
           /\ EndExecute("ok", shapes[Root])
<1>1. /\ Root \in DOMAIN shapes /\ EndExecute("ok", shapes[Root])
      /\ meshCache' = IF job.memo THEN [key |-> job.key, mesh |-> shapes[Root]] ELSE meshCache
      /\ MemoEnd \/ KeepRoot
  BY DEF ExecuteMesh
<1>2. /\ pc \in ExecutePcs /\ job.key \in Keys /\ Want[job.key] \in Prints
      /\ Want[job.key] = Program[Len(Program)] /\ Len(Program) \in Nat \ {0}
  BY RunningExecute DEF ExecutePcs
<1>3. Len(env) = Len(Program)
  BY DEF IInv, RunInv, Position
<1>4. shapes[Root] = Want[job.key]
  <2>1. Len(env) \in 1..Len(env)
    BY <1>2, <1>3
  <2> QED BY <2>1, <1>2, <1>3, DoneFacts DEF Root
<1>5. HostType /\ CachesSound
  BY DEF IInv, HostInv
<1>6. /\ meshCache' \in [key : Keys \cup {NoKey}, mesh : Prints \cup {NoMesh}]
      /\ meshCache'.key # NoKey => meshCache'.mesh = Want[meshCache'.key]
  BY <1>1, <1>2, <1>4, <1>5 DEF HostType, CachesSound
<1>7. HostInv'
  <2>1. CASE MemoEnd
    <3> DEFINE M == {p \in DOMAIN memo : memo[p].gen = memoGen}
               S == DOMAIN shapes \cap ({Root} \cup {memo[p].id : p \in M})
    <3>1. /\ memo' = [p \in M |-> memo[p]] /\ shapes' = [i \in S |-> shapes[i]]
          /\ UNCHANGED <<nextId, memoGen, sessionMemo>>
      BY <2>1 DEF MemoEnd
    <3>2. M \in SUBSET DOMAIN memo /\ S \in SUBSET DOMAIN shapes
      OBVIOUS
    <3> HIDE DEF M, S
    <3> QED BY <3>1, <3>2, <1>6, ShrinkHost
  <2>2. CASE KeepRoot
    <3> DEFINE S == DOMAIN shapes \cap {Root}
    <3>1. /\ shapes' = [i \in S |-> shapes[i]] /\ UNCHANGED <<nextId, memo, memoGen, sessionMemo>>
      BY <2>2 DEF KeepRoot
    <3>2. S \in SUBSET DOMAIN shapes /\ DOMAIN memo \in SUBSET DOMAIN memo
      OBVIOUS
    <3>3. memo' = [p \in DOMAIN memo |-> memo[p]]
      BY <3>1, <1>5 DEF HostType
    <3> HIDE DEF S
    <3> QED BY <3>1, <3>2, <3>3, <1>6, ShrinkHost
  <2> QED BY <2>1, <2>2, <1>1
<1>8. QueueInv' /\ RunInv'
  BY <1>1, <1>2, <1>4, EndExecuteStep
<1> QED BY <1>1, <1>4, <1>7, <1>8

LEMMA ExecuteEndStep == ASSUME IInv, ExecuteEnd PROVE IInv'
<1>1. pc \in ExecutePcs /\ LoadInv'
  BY QuietLoad DEF ExecuteEnd, ExecutePcs
<1>2. CASE CancelExecute /\ meshCache' = NoCache
  BY <1>1, <1>2, CancelStep DEF IInv
<1>3. CASE ~IsAborted /\ pc = "finish" /\ ExecuteMesh
  BY <1>1, <1>3, ExecuteMeshStep DEF IInv
<1>4. CASE Throw
  BY <1>1, <1>4, ThrowStep DEF IInv
<1> QED BY <1>2, <1>3, <1>4 DEF ExecuteEnd

----------------------------------------------------------------------------
(* The invariants.                                                         *)

LEMMA NextIInv == ASSUME IInv, [Next]_vars PROVE IInv'
<1>1. CASE \E m \in Message : Post(m)
  BY <1>1, PostStep
<1>2. CASE Config \/ Warm
  BY <1>2, ConfigStep, WarmStep
<1>3. CASE \E kind \in Coalescible : DropSuperseded(kind)
  BY <1>3, DropStep
<1>4. CASE AnalyzeSkip
  BY <1>4, AnalyzeSkipStep
<1>5. CASE AnalyzeBegin
  BY <1>5, BeginStep DEF AnalyzeBegin
<1>6. CASE ResolveBegin
  BY <1>6, BeginStep DEF ResolveBegin
<1>7. CASE AnalyzeEnd \/ ResolveEnd
  BY <1>7, AnalyzeEndStep, ResolveEndStep
<1>8. CASE ExecuteBegin \/ ExecuteWarm \/ ExecuteStage
  BY <1>8, ExecuteBeginStep, ExecuteWarmStep, ExecuteStageStep
<1>9. CASE GuestSession \/ GuestError \/ GuestFree
  BY <1>9, GuestSessionStep, GuestErrorStep, GuestFreeStep
<1>10. CASE OpLookup \/ OpMake \/ OpPut
  BY <1>10, OpLookupStep, OpMakeStep, OpPutStep
<1>11. CASE ExecuteEnd
  BY <1>11, ExecuteEndStep
<1>12. CASE UNCHANGED vars
  <2>1. /\ UNCHANGED <<queueVars, stampVars, loadVars, hostVars, meshCache>>
        /\ pc' = pc /\ env' = env /\ guestMemo' = guestMemo
    BY <1>12 DEF vars, guestVars
  <2>2. head' = head /\ job' = job /\ stamp' = stamp /\ Program' = Program /\ jobs' = jobs
        /\ active' = active /\ (IsAborted' <=> IsAborted) /\ shapes' = shapes
        /\ (StagedHere' <=> StagedHere)
    BY <2>1, SameHead DEF queueVars, stampVars, hostVars, loadVars, StagedHere
  <2>3. RunInv'
    BY <2>1, <2>2 DEF IInv, RunInv, GuestType, Position, GuestStaged, GuestShapesLive, Evaluating
  <2> QED BY <2>1, <2>3, QuietQueue, QuietLoad, QuietHost DEF IInv
<1> QED BY <1>1, <1>2, <1>3, <1>4, <1>5, <1>6, <1>7, <1>8, <1>9, <1>10, <1>11, <1>12
        DEF Next, Work, Execute

\* Every reachable state satisfies the inductive invariant.
THEOREM SpecIInv == Spec => []IInv
BY InitIInv, NextIInv, PTL DEF Spec

\* Every variable keeps its type: replies never outnumber messages, ids are never reused.
THEOREM TypeCorrect == Spec => []TypeOK
<1>1. IInv => TypeOK
  BY DEF IInv, QueueInv, RunInv, LoadInv, HostInv, TypeOK
<1> QED BY <1>1, SpecIInv, PTL

\* Whatever messages arrive between two host calls, a program that was not preempted finds
\* every shape it made or reused alive, and of the right geometry.
THEOREM ShapesLive == Spec => []GuestShapesLive
<1>1. IInv => GuestShapesLive
  BY DEF IInv, RunInv
<1> QED BY <1>1, SpecIInv, PTL

\* A guest program runs over required batteries of the configured base only.
THEOREM RunsCurrentBase == Spec => []GuestRunsCurrentBase
<1>1. IInv => GuestRunsCurrentBase
  BY DEF IInv, RunInv, LoadInv, FlagsSound, GuestStaged, StagedHere, GuestRunsCurrentBase
<1> QED BY <1>1, SpecIInv, PTL

\* An execute is believed pending exactly when one is: the latest stamp is borne by some
\* message, and lastFinished separates the answered executes from the others.
LEMMA BusyPending == ASSUME IInv PROVE BusyMeansPending
<1>1. /\ QueueType /\ StampOrder /\ FinishedLine
      /\ Len(jobs) \in Nat /\ head \in Nat /\ head > 0 /\ "execute" \in Coalescible
  BY DEF IInv, QueueInv, QueueType, head, Coalescible
<1>2. latest["execute"] \in Nat /\ lastFinished \in Nat
  BY <1>1 DEF QueueType
<1>3. ASSUME BusyExecute
      PROVE  \E i \in head..Len(jobs) : jobs[i].kind = "execute"
  <2>1. latest["execute"] > lastFinished /\ latest["execute"] > 0
    BY <1>2, <1>3 DEF BusyExecute
  <2>2. PICK i \in 1..Len(jobs) : jobs[i].kind = "execute" /\ stamps[i] = latest["execute"]
    BY <2>1, <1>1 DEF StampOrder
  <2>3. ~(i < head)
    BY <2>1, <2>2, <1>1, <1>2 DEF FinishedLine
  <2>4. i \in head..Len(jobs)
    BY <2>3, <1>1
  <2> QED BY <2>2, <2>4
<1>4. ASSUME NEW i \in head..Len(jobs), jobs[i].kind = "execute"
      PROVE  BusyExecute
  <2>1. i \in 1..Len(jobs) /\ ~(i < head)
    BY <1>1
  <2>2. stamps[i] \in Nat /\ stamps[i] <= latest["execute"]
    BY <2>1, <1>1, <1>4 DEF QueueType, StampOrder
  <2>3. ~(stamps[i] <= lastFinished)
    BY <2>1, <1>1, <1>4 DEF FinishedLine
  <2> QED BY <2>2, <2>3, <1>2 DEF BusyExecute
<1> QED BY <1>3, <1>4 DEF BusyMeansPending

THEOREM BusyExact == Spec => []BusyMeansPending
BY SpecIInv, BusyPending, PTL

----------------------------------------------------------------------------
(* The sweep.  IInv says nothing of generations: SweepInv adds that an     *)
(* execute which was not aborted keeps its memo mode from warm to finish,  *)
(* and that under memo the entries of the running generation are exactly   *)
(* the operations done so far, each with the shape the program holds.      *)

GensPast == \A op \in DOMAIN memo : memo[op].gen <= memoGen

\* The mode handed to the bridge, then to the guest, is the one of the message.
ModeKept ==
    /\ pc \in {"stage", "session", "free"} => sessionMemo = job.memo
    /\ pc \in {"free", "lookup", "make", "put", "finish"} => guestMemo = job.memo

\* The first n operations are filed in this generation, and nothing else is.
Filed(n) ==
    /\ \A i \in 1..n : /\ Program[i] \in DOMAIN memo
                       /\ memo[Program[i]] = [id |-> env[i], gen |-> memoGen]
    /\ \A op \in DOMAIN memo : memo[op].gen = memoGen => \E i \in 1..n : op = Program[i]

\* An operation is made and put only when no entry of its fingerprint is left.
Ledger ==
    /\ pc \in {"lookup", "make", "finish"} => Filed(Len(env))
    /\ pc = "make" => NextOp \notin DOMAIN memo
    /\ pc = "put" => Filed(Len(env) - 1) /\ Program[Len(env)] \notin DOMAIN memo

SweepInv ==
    /\ GensPast
    /\ ~IsAborted => ModeKept
    /\ ~IsAborted /\ guestMemo => Ledger

LEMMA InitSweep == Init => SweepInv
BY DEF Init, Nothing, SweepInv, GensPast, ModeKept, Ledger

\* Outside a run that got past warm only the generations matter.
LEMMA HaltSweep ==
    ASSUME GensPast',
           pc' \notin {"stage", "session", "free", "lookup", "make", "put", "finish"}
    PROVE  SweepInv'
<1>1. ModeKept' /\ Ledger'
  BY DEF ModeKept, Ledger
<1> QED BY <1>1 DEF SweepInv

LEMMA QuietGens ==
    ASSUME SweepInv, UNCHANGED <<memo, memoGen>>
    PROVE  GensPast'
BY DEF SweepInv, GensPast

LEMMA FreeAllGens == ASSUME FreeAll PROVE GensPast'
BY DEF FreeAll, Nothing, GensPast

\* A later message may abort the run; if it does not the run is as it was.
LEMMA PostSweep ==
    ASSUME IInv, SweepInv, NEW m \in Message, Post(m)
    PROVE  SweepInv'
<1>1. /\ UNCHANGED <<sent, active, pc, env, guestMemo, hostVars>>
      /\ jobs' = Append(jobs, m) /\ (abortRequested => abortRequested')
  BY DEF Post, guestVars
<1>2. UNCHANGED <<memo, memoGen, sessionMemo>>
  BY <1>1 DEF hostVars
<1>3. IsAborted => IsAborted'
  <2>1. latest["execute"] \in Nat /\ latest'["execute"] \in Nat /\ active \in Nat
        /\ latest["execute"] <= latest'["execute"]
    BY DEF IInv, QueueInv, QueueType, Coalescible, Post, NextStamp
  <2> QED BY <2>1, <1>1 DEF IsAborted
<1>4. CASE pc \in {"stage", "session", "free", "lookup", "make", "put", "finish"}
  <2>1. head <= Len(jobs)
    BY <1>4 DEF IInv, RunInv, Position
  <2>2. head \in 1..Len(jobs) /\ Len(jobs) \in Nat /\ jobs \in Seq(Message)
    BY <2>1, HeadJob DEF IInv, QueueInv, QueueType
  <2>3. head' = head /\ jobs'[head] = jobs[head]
    BY <2>2, <1>1 DEF head
  <2>4. job' = job /\ Program' = Program
    BY <2>3 DEF job, Program
  <2>5. (ModeKept => ModeKept') /\ (Ledger => Ledger')
    BY <2>4, <1>1, <1>2 DEF ModeKept, Ledger, Filed, NextOp
  <2> QED BY <2>5, <1>1, <1>2, <1>3, QuietGens DEF SweepInv
<1>5. CASE pc \notin {"stage", "session", "free", "lookup", "make", "put", "finish"}
  BY <1>1, <1>2, <1>5, QuietGens, HaltSweep
<1> QED BY <1>4, <1>5

\* The steps of the other jobs, and the start of an execute, leave the memo alone.
LEMMA OtherSweep ==
    ASSUME IInv, SweepInv,
           \/ Config \/ Warm \/ AnalyzeSkip \/ AnalyzeBegin \/ AnalyzeEnd
           \/ ResolveBegin \/ ResolveEnd \/ ExecuteBegin
           \/ \E kind \in Coalescible : DropSuperseded(kind)
    PROVE  SweepInv'
<1>1. UNCHANGED hostVars
  BY DEF Config, Warm, AnalyzeSkip, AnalyzeBegin, AnalyzeEnd, ResolveBegin, ResolveEnd,
         ExecuteBegin, DropSuperseded
<1>2. pc' \in {"idle", "analyze", "resolve", "warm"}
  BY DEF Config, Warm, AnalyzeSkip, AnalyzeBegin, AnalyzeEnd, ResolveBegin, ResolveEnd,
         ExecuteBegin, DropSuperseded, Finish, Waiting, guestVars
<1> QED BY <1>1, <1>2, QuietGens, HaltSweep DEF hostVars

\* An execute that ends without a mesh of its own.
LEMMA EndSweep ==
    ASSUME SweepInv, CancelExecute \/ Throw
    PROVE  SweepInv'
<1>1. pc' = "idle"
  BY DEF CancelExecute, Throw, EndExecute
<1>2. GensPast'
  BY QuietGens, FreeAllGens DEF CancelExecute, Throw, hostVars
<1> QED BY <1>1, <1>2, HaltSweep

\* The session opens in the mode of the message.
LEMMA ExecuteWarmSweep ==
    ASSUME IInv, SweepInv, ExecuteWarm
    PROVE  SweepInv'
<1>1. pc = "warm" /\ pc \in ExecutePcs
  BY DEF ExecuteWarm, ExecutePcs
<1>2. CASE CancelExecute \/ Throw
  BY <1>2, EndSweep
<1>3. CASE EndExecute("ok", meshCache.mesh) /\ UNCHANGED hostVars
  BY <1>3, QuietGens, HaltSweep DEF EndExecute, hostVars
<1>4. CASE /\ IF job.memo
                THEN sessionMemo' = TRUE /\ UNCHANGED <<shapes, nextId, memo, memoGen, meshCache>>
                ELSE FreeAll /\ meshCache' = NoCache
           /\ pc' = "stage"
           /\ UNCHANGED <<queueVars, stampVars, env, guestMemo>>
  <2>1. job' = job /\ job.memo \in BOOLEAN
    BY <1>1, <1>4, SameHead, RunningExecute
  <2>2. GensPast' /\ sessionMemo' = job.memo
    <3>1. CASE job.memo = TRUE
      BY <3>1, <1>4, QuietGens
    <3>2. CASE job.memo = FALSE
      BY <3>2, <1>4, FreeAllGens DEF FreeAll
    <3> QED BY <3>1, <3>2, <2>1
  <2>3. ModeKept' /\ Ledger'
    BY <2>1, <2>2, <1>4 DEF ModeKept, Ledger
  <2> QED BY <2>2, <2>3 DEF SweepInv
<1> QED BY <1>2, <1>3, <1>4 DEF ExecuteWarm, Open

LEMMA ExecuteStageSweep ==
    ASSUME IInv, SweepInv, ExecuteStage
    PROVE  SweepInv'
<1>1. CASE CancelExecute \/ Throw
  BY <1>1, EndSweep
<1>2. CASE pc' = "session" /\ UNCHANGED <<queueVars, stampVars, env, guestMemo, hostVars>>
  <2>1. job' = job /\ (IsAborted' <=> IsAborted) /\ pc = "stage"
        /\ UNCHANGED <<memo, memoGen, sessionMemo>>
    BY <1>2, SameHead DEF ExecuteStage, hostVars
  <2>2. (ModeKept => ModeKept') /\ Ledger'
    BY <2>1, <1>2 DEF ModeKept, Ledger
  <2> QED BY <2>1, <2>2, QuietGens DEF SweepInv
<1> QED BY <1>1, <1>2 DEF ExecuteStage

LEMMA GuestSessionSweep ==
    ASSUME IInv, SweepInv, GuestSession
    PROVE  SweepInv'
<1>1. pc = "session" /\ pc' = "free" /\ UNCHANGED <<queueVars, stampVars>>
  BY DEF GuestSession, Guest
<1>2. job' = job /\ (IsAborted' <=> IsAborted)
  BY <1>1, SameHead
<1>3. Ledger'
  BY <1>1 DEF Ledger
<1>4. CASE IsAborted
  BY <1>2, <1>3, <1>4, FreeAllGens DEF GuestSession, SweepInv
<1>5. CASE ~IsAborted
  <2>1. guestMemo' = sessionMemo /\ UNCHANGED <<memo, memoGen, sessionMemo>>
    BY <1>5 DEF GuestSession, hostVars
  <2>2. ModeKept'
    BY <2>1, <1>1, <1>2, <1>5 DEF ModeKept, SweepInv
  <2> QED BY <2>1, <2>2, <1>3, QuietGens DEF SweepInv
<1> QED BY <1>4, <1>5

\* free_all under memo opens a generation no entry belongs to.
LEMMA GuestFreeSweep ==
    ASSUME IInv, SweepInv, GuestFree
    PROVE  SweepInv'
<1>1. /\ Guest("free") /\ pc = "free" /\ pc' = After(env) /\ UNCHANGED <<env, guestMemo>>
      /\ UNCHANGED <<queueVars, stampVars>>
  BY DEF GuestFree, Guest
<1>2. env = <<>> /\ Len(env) = 0 /\ Len(Program) \in Nat \ {0} /\ pc \in ExecutePcs
  BY <1>1, RunningExecute DEF IInv, RunInv, Position, ExecutePcs
<1>3. job' = job /\ (IsAborted' <=> IsAborted) /\ Program' = Program
  BY <1>1, SameHead
<1>4. pc' = IF guestMemo THEN "lookup" ELSE "make"
  BY <1>1, <1>2 DEF After
<1>5. HostType
  BY DEF IInv, HostInv
<1>6. GensPast' /\ \A op \in DOMAIN memo' : memo'[op].gen # memoGen'
  <2>1. CASE FreeAll
    BY <2>1, FreeAllGens DEF FreeAll, Nothing
  <2>2. CASE memoGen' = memoGen + 1 /\ UNCHANGED memo
    <3>1. \A op \in DOMAIN memo : memo[op].gen \in Nat /\ memo[op].gen <= memoGen
      BY <1>5 DEF SweepInv, GensPast, HostType
    <3>2. memoGen \in Nat
      BY <1>5 DEF HostType
    <3> QED BY <3>1, <3>2, <2>2 DEF GensPast
  <2> QED BY <2>1, <2>2 DEF GuestFree
<1>7. guestMemo => Ledger'
  BY <1>1, <1>2, <1>4, <1>6 DEF Ledger, Filed
<1>8. ModeKept => ModeKept'
  BY <1>1, <1>3, <1>4 DEF ModeKept
<1> QED BY <1>1, <1>3, <1>6, <1>7, <1>8 DEF SweepInv

\* What a guest step of the evaluation must show.
LEMMA EvaluationSweep ==
    ASSUME SweepInv, pc \in {"lookup", "make", "put"},
           UNCHANGED <<queueVars, stampVars, guestMemo>>, GensPast',
           pc' \in {"lookup", "make", "put", "finish", "failed", "aborted"},
           ~IsAborted /\ guestMemo => Ledger'
    PROVE  SweepInv'
<1>1. job' = job /\ (IsAborted' <=> IsAborted)
  BY SameHead
<1>2. ModeKept => ModeKept'
  BY <1>1 DEF ModeKept
<1> QED BY <1>1, <1>2 DEF SweepInv

\* Filing the next operation keeps the generation exact.
LEMMA FileNext ==
    ASSUME NEW n \in Nat, Filed(n), Program' = Program, memoGen' = memoGen,
           \A i \in 1..n : env'[i] = env[i],
           \A i \in 1..n : Program[i] = Program[n + 1] => env[i] = env'[n + 1],
           DOMAIN memo' = DOMAIN memo \cup {Program[n + 1]},
           memo'[Program[n + 1]] = [id |-> env'[n + 1], gen |-> memoGen],
           \A q \in DOMAIN memo : q # Program[n + 1] => memo'[q] = memo[q]
    PROVE  /\ \A i \in 1..(n + 1) : /\ Program'[i] \in DOMAIN memo'
                                    /\ memo'[Program'[i]] = [id |-> env'[i], gen |-> memoGen']
           /\ \A q \in DOMAIN memo' : memo'[q].gen = memoGen' =>
                 \E i \in 1..(n + 1) : q = Program'[i]
<1> DEFINE op == Program[n + 1]
<1>1. ASSUME NEW i \in 1..(n + 1)
      PROVE  Program[i] \in DOMAIN memo' /\ memo'[Program[i]] = [id |-> env'[i], gen |-> memoGen]
  <2>1. CASE i = n + 1
    BY <2>1
  <2>2. CASE i \in 1..n /\ Program[i] = op
    BY <2>2
  <2>3. CASE i \in 1..n /\ Program[i] # op
    BY <2>3 DEF Filed
  <2> QED BY <2>1, <2>2, <2>3
<1>2. ASSUME NEW q \in DOMAIN memo', memo'[q].gen = memoGen
      PROVE  \E i \in 1..(n + 1) : q = Program[i]
  <2>1. CASE q = op
    BY <2>1
  <2>2. CASE q # op
    <3>1. PICK i \in 1..n : q = Program[i]
      BY <2>2, <1>2 DEF Filed
    <3> QED BY <3>1
  <2> QED BY <2>1, <2>2
<1> QED BY <1>1, <1>2

\* A hit touches the entry; a miss removes one that belongs to no operation done so far,
\* because those are alive.
LEMMA OpLookupSweep ==
    ASSUME IInv, SweepInv, OpLookup
    PROVE  SweepInv'
<1>1. /\ pc = "lookup" /\ UNCHANGED <<queueVars, stampVars, guestMemo>>
  BY DEF OpLookup, Guest
<1>2. /\ env \in Seq(Nat) /\ Len(env) \in Nat /\ Len(Program) \in Nat
      /\ Len(env) < Len(Program) /\ Program' = Program
      /\ ~IsAborted => \A i \in 1..Len(env) : env[i] \in DOMAIN shapes
  BY <1>1, SameHead, DoneFacts DEF IInv, RunInv, Position
<1>3. /\ memo \in [DOMAIN memo -> [id : Nat, gen : Nat]] /\ memoGen \in Nat
      /\ ~IsAborted /\ guestMemo => Filed(Len(env))
  BY <1>1 DEF IInv, HostInv, HostType, SweepInv, Ledger
<1> PICK n \in Nat : n = Len(env)
  BY <1>2
<1> PICK op : op = NextOp
  OBVIOUS
<1>4. CASE IsAborted /\ FreeAll /\ pc' = "make"
  BY <1>1, <1>4, FreeAllGens, EvaluationSweep
<1>5. CASE /\ ~IsAborted /\ Hit
           /\ memo' = [memo EXCEPT ![NextOp].gen = memoGen]
           /\ env' = Append(env, memo[NextOp].id)
           /\ pc' = After(env')
           /\ UNCHANGED <<shapes, nextId, memoGen, sessionMemo>>
  <2>1. op \in DOMAIN memo /\ op = Program[n + 1] /\ memo[op].id \in Nat
    BY <1>3, <1>5 DEF Hit, NextOp
  <2>2. /\ DOMAIN memo' = DOMAIN memo /\ memo'[op] = [id |-> memo[op].id, gen |-> memoGen]
        /\ \A q \in DOMAIN memo : q # op => memo'[q] = memo[q]
    BY <2>1, <1>3, <1>5
  <2>3. /\ env' \in Seq(Nat) /\ Len(env') = n + 1 /\ env'[n + 1] = memo[op].id
        /\ \A i \in 1..n : env'[i] = env[i]
    <3>1. env' = Append(env, memo[op].id)
      BY <1>5
    <3> QED BY <3>1, <2>1, <1>2
  <2>4. pc' \in {"lookup", "make", "finish"} /\ (guestMemo => pc' # "make")
    BY <2>3, <1>2, <1>5 DEF After
  <2>5. GensPast'
    BY <2>2, <1>3, <1>5 DEF SweepInv, GensPast
  <2>6. ASSUME guestMemo
        PROVE  Ledger'
    <3>1. Filed(n)
      BY <2>6, <1>3, <1>5
    <3>2. ASSUME NEW i \in 1..n, Program[i] = op
          PROVE  env[i] = memo[op].id
      <4>1. memo[op] = [id |-> env[i], gen |-> memoGen]
        BY <3>1, <3>2 DEF Filed
      <4> QED BY <4>1
    <3>3. DOMAIN memo' = DOMAIN memo \cup {op} /\ memoGen' = memoGen /\ n \in Nat
      BY <2>1, <2>2, <1>2, <1>5
    <3>4. /\ \A i \in 1..n : Program[i] = Program[n + 1] => env[i] = env'[n + 1]
          /\ DOMAIN memo' = DOMAIN memo \cup {Program[n + 1]}
          /\ memo'[Program[n + 1]] = [id |-> env'[n + 1], gen |-> memoGen]
          /\ \A q \in DOMAIN memo : q # Program[n + 1] => memo'[q] = memo[q]
      BY <2>1, <2>2, <2>3, <3>2, <3>3
    <3>5. /\ \A i \in 1..(n + 1) : /\ Program'[i] \in DOMAIN memo'
                                   /\ memo'[Program'[i]] = [id |-> env'[i], gen |-> memoGen']
          /\ \A q \in DOMAIN memo' : memo'[q].gen = memoGen' =>
                \E i \in 1..(n + 1) : q = Program'[i]
      BY <2>3, <3>1, <3>3, <3>4, <1>2, FileNext
    <3> QED BY <3>5, <2>3, <2>4, <2>6 DEF Ledger, Filed
  <2> QED BY <2>4, <2>5, <2>6, <1>1, EvaluationSweep
<1>6. CASE /\ ~IsAborted /\ ~Hit
           /\ memo' = [q \in DOMAIN memo \ {NextOp} |-> memo[q]]
           /\ pc' = "make"
           /\ UNCHANGED <<env, shapes, nextId, memoGen, sessionMemo>>
  <2>1. DOMAIN memo' = DOMAIN memo \ {op} /\ \A q \in DOMAIN memo' : memo'[q] = memo[q]
    BY <1>6
  <2>2. GensPast'
    BY <2>1, <1>6 DEF SweepInv, GensPast
  <2>3. ASSUME guestMemo
        PROVE  Ledger'
    <3>1. Filed(n)
      BY <2>3, <1>3, <1>6
    <3>2. ASSUME NEW i \in 1..n, Program[i] = op
          PROVE  FALSE
      <4>1. op \in DOMAIN memo /\ memo[op] = [id |-> env[i], gen |-> memoGen]
        BY <3>1, <3>2 DEF Filed
      <4>2. memo[op].id \in DOMAIN shapes
        BY <4>1, <1>2, <1>6
      <4> QED BY <4>1, <4>2, <1>6 DEF Hit
    <3>3. NextOp' = op
      BY <1>2, <1>6 DEF NextOp
    <3>4. Filed(n)'
      BY <3>1, <3>2, <2>1, <1>2, <1>6 DEF Filed
    <3> QED BY <3>3, <3>4, <2>1, <1>6 DEF Ledger
  <2> QED BY <2>2, <2>3, <1>1, <1>6, EvaluationSweep
<1> QED BY <1>4, <1>5, <1>6 DEF OpLookup

\* A shape that is made is not filed yet.
LEMMA OpMakeSweep ==
    ASSUME IInv, SweepInv, OpMake
    PROVE  SweepInv'
<1>1. /\ pc = "make" /\ UNCHANGED <<queueVars, stampVars, guestMemo>>
  BY DEF OpMake, Guest
<1>2. /\ env \in Seq(Nat) /\ Len(env) \in Nat /\ Program' = Program /\ nextId \in Nat
  BY <1>1, SameHead, DoneFacts DEF IInv, HostInv, HostType
<1>3. CASE IsAborted /\ FreeAll /\ pc' = "aborted"
  BY <1>1, <1>3, FreeAllGens, EvaluationSweep
<1>4. CASE pc' = "failed" /\ UNCHANGED hostVars
  BY <1>1, <1>4, QuietGens, EvaluationSweep DEF hostVars, Ledger
<1>5. CASE /\ ~IsAborted /\ Adopt(NextOp)
           /\ pc' = IF guestMemo THEN "put" ELSE After(env')
           /\ UNCHANGED <<memo, memoGen, sessionMemo>>
  <2> DEFINE n == Len(env)
  <2>1. env' = Append(env, nextId)
    BY <1>5 DEF Adopt
  <2>2. Len(env') = n + 1 /\ n \in Nat /\ \A i \in 1..n : env'[i] = env[i]
    BY <2>1, <1>2
  <2>3. pc' \in {"lookup", "make", "put", "finish"} /\ (guestMemo => pc' = "put")
    BY <1>5 DEF After
  <2>4. ASSUME guestMemo
        PROVE  Ledger'
    <3>1. Filed(n) /\ Program[n + 1] \notin DOMAIN memo
      BY <2>4, <1>1, <1>5 DEF SweepInv, Ledger, NextOp
    <3> HIDE DEF n
    <3>2. Len(env') - 1 = n /\ Program'[Len(env')] = Program[n + 1]
      BY <2>2, <1>2
    <3>3. /\ \A i \in 1..n : /\ Program'[i] \in DOMAIN memo'
                             /\ memo'[Program'[i]] = [id |-> env'[i], gen |-> memoGen']
          /\ \A q \in DOMAIN memo' : memo'[q].gen = memoGen' => \E i \in 1..n : q = Program'[i]
      BY <3>1, <2>2, <1>2, <1>5 DEF Filed
    <3>4. (Filed(Len(env) - 1))'
      BY <3>2, <3>3 DEF Filed
    <3> QED BY <3>1, <3>2, <3>4, <2>3, <2>4, <1>5 DEF Ledger
  <2> QED BY <2>3, <2>4, <1>1, <1>5, QuietGens, EvaluationSweep
<1> QED BY <1>3, <1>4, <1>5 DEF OpMake

\* cache_put files the operation just made, the last one missing from the ledger.
LEMMA OpPutSweep ==
    ASSUME IInv, SweepInv, OpPut
    PROVE  SweepInv'
<1>1. /\ pc = "put" /\ UNCHANGED <<queueVars, stampVars, guestMemo, env>> /\ pc' = After(env)
  BY DEF OpPut, Guest
<1>2. /\ env \in Seq(Nat) /\ Len(env) \in Nat /\ Len(env) > 0 /\ Program' = Program
      /\ memo \in [DOMAIN memo -> [id : Nat, gen : Nat]] /\ memoGen \in Nat
  BY <1>1, SameHead, DoneFacts DEF IInv, RunInv, Position, HostInv, HostType
<1>3. pc' \in {"lookup", "make", "finish"} /\ (guestMemo => pc' # "make")
  BY <1>1 DEF After
<1>4. CASE IsAborted /\ FreeAll
  BY <1>1, <1>3, <1>4, FreeAllGens, EvaluationSweep
<1>5. CASE /\ ~IsAborted /\ memo' = Put(Program[Len(env)])
           /\ UNCHANGED <<shapes, nextId, memoGen, sessionMemo>>
  <2> PICK n \in Nat : n = Len(env) - 1
    BY <1>2
  <2> PICK op, id : op = Program[Len(env)] /\ id = env[Len(env)]
    OBVIOUS
  <2>1. n \in Nat /\ n + 1 = Len(env) /\ op = Program[n + 1] /\ id = env[n + 1]
    BY <1>2
  <2>2. memo' = [q \in DOMAIN memo \cup {op} |->
                   IF q = op THEN [id |-> id, gen |-> memoGen] ELSE memo[q]]
    BY <1>5 DEF Put
  <2>3. /\ DOMAIN memo' = DOMAIN memo \cup {op} /\ memo'[op] = [id |-> id, gen |-> memoGen]
        /\ \A q \in DOMAIN memo : q # op => memo'[q] = memo[q]
    BY <2>2
  <2>4. GensPast'
    BY <2>3, <1>2, <1>5 DEF SweepInv, GensPast
  <2>5. ASSUME guestMemo
        PROVE  Ledger'
    <3>1. Filed(n) /\ op \notin DOMAIN memo
      BY <2>5, <1>1, <1>5 DEF SweepInv, Ledger
    <3>2. \A i \in 1..n : Program[i] = op => env[i] = id
      BY <3>1 DEF Filed
    <3>3. /\ memoGen' = memoGen /\ env' = env
          /\ \A i \in 1..n : Program[i] = Program[n + 1] => env[i] = env'[n + 1]
          /\ DOMAIN memo' = DOMAIN memo \cup {Program[n + 1]}
          /\ memo'[Program[n + 1]] = [id |-> env'[n + 1], gen |-> memoGen]
          /\ \A q \in DOMAIN memo : q # Program[n + 1] => memo'[q] = memo[q]
      BY <1>1, <1>5, <2>1, <2>3, <3>2
    <3>4. /\ \A i \in 1..(n + 1) : /\ Program'[i] \in DOMAIN memo'
                                   /\ memo'[Program'[i]] = [id |-> env'[i], gen |-> memoGen']
          /\ \A q \in DOMAIN memo' : memo'[q].gen = memoGen' =>
                \E i \in 1..(n + 1) : q = Program'[i]
      BY <3>1, <3>3, <1>2, FileNext
    <3>5. (Filed(Len(env)))'
      BY <3>4, <3>3, <2>1 DEF Filed
    <3> QED BY <3>5, <2>5, <1>3 DEF Ledger
  <2> QED BY <2>4, <2>5, <1>1, <1>3, EvaluationSweep
<1> QED BY <1>4, <1>5 DEF OpPut

\* memoEnd only forgets entries.
LEMMA ExecuteEndSweep ==
    ASSUME IInv, SweepInv, ExecuteEnd
    PROVE  SweepInv'
<1>1. CASE CancelExecute \/ Throw
  BY <1>1, EndSweep
<1>2. CASE ExecuteMesh
  <2>1. pc' = "idle"
    BY <1>2 DEF ExecuteMesh, EndExecute
  <2>2. CASE MemoEnd
    <3>1. /\ memoGen' = memoGen /\ DOMAIN memo' \subseteq DOMAIN memo
          /\ \A op \in DOMAIN memo' : memo'[op] = memo[op]
      BY <2>2 DEF MemoEnd
    <3>2. GensPast'
      BY <3>1 DEF SweepInv, GensPast
    <3> QED BY <3>2, <2>1, HaltSweep
  <2>3. CASE KeepRoot
    BY <2>1, <2>3, QuietGens, HaltSweep DEF KeepRoot
  <2> QED BY <2>2, <2>3, <1>2 DEF ExecuteMesh
<1> QED BY <1>1, <1>2 DEF ExecuteEnd

\* One case per action.
LEMMA NextSweep == ASSUME IInv, SweepInv, [Next]_vars PROVE SweepInv'
<1>1. CASE \E m \in Message : Post(m)
  BY <1>1, PostSweep
<1>2. CASE \/ Config \/ Warm \/ AnalyzeSkip \/ AnalyzeBegin \/ AnalyzeEnd
           \/ ResolveBegin \/ ResolveEnd \/ ExecuteBegin
           \/ \E kind \in Coalescible : DropSuperseded(kind)
  BY <1>2, OtherSweep
<1>3. CASE ExecuteWarm \/ ExecuteStage \/ GuestSession \/ GuestFree
  BY <1>3, ExecuteWarmSweep, ExecuteStageSweep, GuestSessionSweep, GuestFreeSweep
<1>4. CASE GuestError
  <2>1. pc' = "failed" /\ UNCHANGED <<memo, memoGen>>
    BY <1>4 DEF GuestError, hostVars
  <2> QED BY <2>1, QuietGens, HaltSweep
<1>5. CASE OpLookup \/ OpMake \/ OpPut
  BY <1>5, OpLookupSweep, OpMakeSweep, OpPutSweep
<1>6. CASE ExecuteEnd
  BY <1>6, ExecuteEndSweep
<1>7. CASE UNCHANGED vars
  <2>1. /\ UNCHANGED <<queueVars, stampVars>>
        /\ UNCHANGED <<memo, memoGen, sessionMemo, pc, env, guestMemo>>
    BY <1>7 DEF vars, guestVars, hostVars
  <2>2. job' = job /\ Program' = Program /\ (IsAborted' <=> IsAborted)
    BY <2>1, SameHead
  <2>3. (ModeKept => ModeKept') /\ (Ledger => Ledger')
    BY <2>1, <2>2 DEF ModeKept, Ledger, Filed, NextOp
  <2> QED BY <2>1, <2>2, <2>3, QuietGens DEF SweepInv
<1> QED BY <1>1, <1>2, <1>3, <1>4, <1>5, <1>6, <1>7 DEF Next, Work, Execute

\* Every reachable state satisfies the sweep's invariant too.
THEOREM SpecSweepInv == Spec => []SweepInv
BY InitSweep, NextSweep, SpecIInv, PTL DEF Spec

\* The step that posts a computed mesh.
LEMMA MeshSweep ==
    ASSUME IInv, SweepInv, pc = "finish", ~IsAborted, ExecuteMesh
    PROVE  /\ DOMAIN shapes' = IF job.memo THEN {env[i] : i \in DOMAIN env} ELSE {Root}
           /\ job.memo => DOMAIN memo' = {Program[i] : i \in DOMAIN Program}
<1>1. /\ env \in Seq(Nat) /\ Len(env) \in Nat /\ Len(Program) = Len(env) /\ Len(env) > 0
      /\ Program \in Seq(Prints) /\ job.memo \in BOOLEAN
      /\ \A i \in 1..Len(env) : env[i] \in DOMAIN shapes
  BY DoneFacts, RunningExecute DEF IInv, RunInv, Position, ExecutePcs
<1>2. DOMAIN env = 1..Len(env) /\ DOMAIN Program = 1..Len(env) /\ Root \in DOMAIN shapes
  BY <1>1 DEF ExecuteMesh
<1>3. CASE job.memo = FALSE
  <2>1. KeepRoot
    BY <1>3 DEF ExecuteMesh
  <2>2. DOMAIN shapes' = {Root}
    BY <2>1, <1>2 DEF KeepRoot
  <2> QED BY <2>2, <1>3
<1>4. CASE job.memo = TRUE
  <2> DEFINE kept == {op \in DOMAIN memo : memo[op].gen = memoGen}
             n == Len(env)
  <2>1. DOMAIN memo' = kept
        /\ DOMAIN shapes' = DOMAIN shapes \cap ({Root} \cup {memo[op].id : op \in kept})
    BY <1>4 DEF ExecuteMesh, MemoEnd
  <2>2. Filed(n)
    BY <1>4 DEF SweepInv, ModeKept, Ledger
  <2>3. /\ \A i \in 1..n : Program[i] \in kept /\ memo[Program[i]].id = env[i]
        /\ \A op \in kept : \E i \in 1..n : op = Program[i]
    <3>1. ASSUME NEW i \in 1..n
          PROVE  Program[i] \in kept /\ memo[Program[i]].id = env[i]
      <4>1. Program[i] \in DOMAIN memo /\ memo[Program[i]] = [id |-> env[i], gen |-> memoGen]
        BY <2>2 DEF Filed
      <4> QED BY <4>1
    <3>2. \A op \in kept : \E i \in 1..n : op = Program[i]
      BY <2>2 DEF Filed
    <3> QED BY <3>1, <3>2
  <2>4. kept = {Program[i] : i \in DOMAIN Program}
    BY <2>3, <1>2
  <2>5. {memo[op].id : op \in kept} = {env[i] : i \in DOMAIN env}
    <3> HIDE DEF kept
    <3>1. \A op \in kept : \E i \in DOMAIN env : memo[op].id = env[i]
      BY <2>3, <1>2
    <3>2. \A i \in DOMAIN env : \E op \in kept : memo[op].id = env[i]
      BY <2>3, <1>2
    <3> QED BY <3>1, <3>2
  <2>6. Root \in {env[i] : i \in DOMAIN env}
    <3>1. Len(env) \in DOMAIN env
      BY <1>1, <1>2
    <3> QED BY <3>1 DEF Root
  <2>7. {env[i] : i \in DOMAIN env} \subseteq DOMAIN shapes
    BY <1>1, <1>2
  <2> HIDE DEF kept
  <2>8. DOMAIN shapes' = {env[i] : i \in DOMAIN env}
    BY <2>1, <2>5, <2>6, <2>7
  <2> QED BY <2>1, <2>4, <2>8, <1>4
<1> QED BY <1>3, <1>4, <1>1

\* What SweepExact asks of a step that changes the replies.
SweptStep ==
    pc = "finish" /\ Len(sent') = head /\ sent'[head].outcome = "ok"
      => /\ DOMAIN shapes' = IF job.memo THEN {env[i] : i \in DOMAIN env} ELSE {Root}
         /\ job.memo => DOMAIN memo' = {Program[i] : i \in DOMAIN Program}

\* Only the end of an execute that was not aborted posts a mesh from "finish".
LEMMA NextSwept == ASSUME IInv, SweepInv, [Next]_vars PROVE [SweptStep]_sent
<1> SUFFICES ASSUME pc = "finish", Len(sent') = head, sent'[head].outcome = "ok", sent' # sent
             PROVE  /\ DOMAIN shapes' = IF job.memo THEN {env[i] : i \in DOMAIN env} ELSE {Root}
                    /\ job.memo => DOMAIN memo' = {Program[i] : i \in DOMAIN Program}
  BY DEF SweptStep
<1>1. ExecuteEnd
  <2>1. ~(\E m \in Message : Post(m)) /\ ~UNCHANGED vars
    BY DEF Post, vars, queueVars
  <2>2. ~(Config \/ Warm \/ AnalyzeSkip \/ AnalyzeBegin \/ AnalyzeEnd)
    BY DEF Config, Warm, AnalyzeSkip, AnalyzeBegin, AnalyzeEnd, Waiting
  <2>3. ~(ResolveBegin \/ ResolveEnd \/ \E kind \in Coalescible : DropSuperseded(kind))
    BY DEF ResolveBegin, ResolveEnd, DropSuperseded, Waiting
  <2>4. ~(ExecuteBegin \/ ExecuteWarm \/ ExecuteStage)
    BY DEF ExecuteBegin, ExecuteWarm, ExecuteStage, Waiting
  <2>5. ~(GuestSession \/ GuestError \/ GuestFree \/ OpLookup \/ OpMake \/ OpPut)
    BY DEF GuestSession, GuestError, GuestFree, OpLookup, OpMake, OpPut, Guest
  <2> QED BY <2>1, <2>2, <2>3, <2>4, <2>5 DEF Next, Work, Execute
<1>2. ASSUME NEW outcome, NEW mesh, EndExecute(outcome, mesh)
      PROVE  outcome = "ok"
  <2>1. sent' = Append(sent, [outcome |-> outcome, mesh |-> mesh]) /\ sent \in Seq(Answer)
    BY <1>2 DEF EndExecute, Reply, IInv, QueueInv, QueueType
  <2>2. sent'[head] = [outcome |-> outcome, mesh |-> mesh]
    BY <2>1 DEF head
  <2> QED BY <2>2
<1>3. ~CancelExecute /\ ~Throw
  BY <1>2 DEF CancelExecute, Throw
<1>4. ~IsAborted /\ ExecuteMesh
  BY <1>1, <1>3 DEF ExecuteEnd
<1> QED BY <1>4, MeshSweep

\* A mesh that was computed leaves exactly the shapes of its own program behind: under memo
\* all of them and their fingerprints, to be reused by the next scrub, and else its root.
THEOREM SweepIsExact == Spec => SweepExact
<1>1. SweepInv /\ IInv /\ [Next]_vars => [SweptStep]_sent
  BY NextSwept
<1>2. SweepExact <=> [][SweptStep]_sent
  BY PTL DEF SweepExact, SweptStep
<1> QED BY <1>1, <1>2, SpecIInv, SpecSweepInv, PTL DEF Spec

----------------------------------------------------------------------------
(* RuntimeWorker implements LatestWins.                                    *)

LEMMA InitPromise == Init => Promise!Init
BY DEF Init, Promise!Init

LEMMA PostPromise ==
    ASSUME NEW m \in Message, Post(m)
    PROVE  Promise!Next
BY DEF Post, Promise!Next, Promise!Receive

\* The head is the request the promise answers next, and a newer request of a kind is one
\* further down the queue: a stamp below the latest is a superseded one.
LEMMA HeadPromise ==
    ASSUME IInv, head <= Len(jobs), job.kind \in Coalescible
    PROVE  Promise!Superseded(head) <=> stamp < latest[job.kind]
<1>1. /\ QueueType /\ StampOrder /\ head \in 1..Len(jobs) /\ Len(jobs) \in Nat
      /\ DOMAIN jobs = 1..Len(jobs)
  BY HeadJob DEF IInv, QueueInv, QueueType
<1>2. latest[job.kind] \in Nat /\ stamp \in Nat /\ \A i \in 1..Len(jobs) : stamps[i] \in Nat
  BY <1>1 DEF QueueType, stamp
<1>3. ASSUME NEW j \in DOMAIN jobs, j > head, jobs[j].kind = jobs[head].kind
      PROVE  stamp < latest[job.kind]
  <2>1. stamps[head] < stamps[j] /\ stamps[j] <= latest[job.kind]
    BY <1>1, <1>3 DEF StampOrder, job
  <2> QED BY <2>1, <1>1, <1>2, <1>3 DEF stamp
<1>4. ASSUME stamp < latest[job.kind]
      PROVE  \E j \in DOMAIN jobs : j > head /\ jobs[j].kind = jobs[head].kind
  <2>1. PICK j \in 1..Len(jobs) : jobs[j].kind = job.kind /\ stamps[j] = latest[job.kind]
    BY <1>1, <1>2, <1>4 DEF StampOrder
  <2>2. CASE j > head
    BY <2>1, <2>2, <1>1 DEF job
  <2>3. CASE j = head
    BY <2>1, <2>3, <1>2, <1>4 DEF stamp
  <2>4. CASE j < head
    <3>1. stamps[j] < stamps[head]
      BY <2>1, <2>4, <1>1 DEF StampOrder, job
    <3> QED BY <3>1, <2>1, <1>2, <1>4 DEF stamp
  <2> QED BY <2>2, <2>3, <2>4, <1>1
<1> QED BY <1>3, <1>4 DEF Promise!Superseded

LEMMA AnswerPromise ==
    ASSUME IInv, head <= Len(jobs), UNCHANGED jobs,
           Promise!Deliver(head) \/ Promise!Cancel(head) \/ Promise!Fail
    PROVE  Promise!Next
<1>1. head = Len(sent) + 1
  BY DEF head
<1> QED BY <1>1 DEF Promise!Next, Promise!Answer

\* A result may be delivered for the newest request of its kind.
LEMMA DeliverPromise ==
    ASSUME IInv, head <= Len(jobs), UNCHANGED jobs, NEW mesh,
           job.kind \in Coalescible => stamp >= latest[job.kind],
           mesh = IF job.kind = "execute" THEN Want[job.key] ELSE NoMesh,
           Reply("ok", mesh)
    PROVE  Promise!Next
<1>1. job.kind \in Coalescible => ~Promise!Superseded(head)
  <2>1. job.kind \in Coalescible => stamp \in Nat /\ latest[job.kind] \in Nat
    BY HeadJob DEF IInv, QueueInv, QueueType
  <2> QED BY <2>1, HeadPromise
<1>2. sent' = Append(sent, [outcome |-> "ok", mesh |-> mesh])
  BY DEF Reply
<1>3. Promise!Deliver(head)
  BY <1>1, <1>2 DEF Promise!Deliver, job
<1> QED BY <1>3, AnswerPromise

LEMMA CancelPromise ==
    ASSUME IInv, head <= Len(jobs), UNCHANGED jobs, job.kind \in Coalescible,
           stamp < latest[job.kind] \/ Promise!Yields(head), Reply("cancelled", NoMesh)
    PROVE  Promise!Next
<1>1. Promise!Superseded(head) \/ Promise!Yields(head)
  BY HeadPromise
<1>2. Promise!Cancel(head)
  BY <1>1 DEF Promise!Cancel, Reply, job
<1> QED BY <1>2, AnswerPromise

LEMMA FailPromise ==
    ASSUME IInv, head <= Len(jobs), UNCHANGED jobs, Reply("error", NoMesh)
    PROVE  Promise!Next
<1>1. Promise!Fail
  BY DEF Reply, Promise!Fail
<1> QED BY <1>1, AnswerPromise

\* An execute that is cancelled was aborted, which is to say superseded.
LEMMA CancelExecutePromise ==
    ASSUME IInv, pc \in ExecutePcs, IsAborted, CancelExecute
    PROVE  Promise!Next
<1>1. /\ head <= Len(jobs) /\ job.kind = "execute" /\ stamp < latest["execute"]
      /\ "execute" \in Coalescible
  BY RunningExecute DEF Coalescible
<1>2. Reply("cancelled", NoMesh) /\ UNCHANGED jobs
  BY DEF CancelExecute, EndExecute
<1> QED BY <1>1, <1>2, CancelPromise

LEMMA ThrowPromise ==
    ASSUME IInv, pc \in ExecutePcs, Throw
    PROVE  Promise!Next
<1>1. head <= Len(jobs) /\ Reply("error", NoMesh) /\ UNCHANGED jobs
  BY RunningExecute DEF Throw, EndExecute
<1> QED BY <1>1, FailPromise

\* A mesh is delivered for an execute that is not aborted.
LEMMA DeliverExecutePromise ==
    ASSUME IInv, pc \in ExecutePcs, ~IsAborted, NEW mesh, mesh = Want[job.key],
           EndExecute("ok", mesh)
    PROVE  Promise!Next
<1>1. /\ head <= Len(jobs) /\ job.kind = "execute" /\ ~(stamp < latest["execute"])
      /\ stamp \in Nat /\ latest["execute"] \in Nat
  BY RunningExecute, HeadJob
<1>2. Reply("ok", mesh) /\ UNCHANGED jobs
  BY DEF EndExecute
<1> QED BY <1>1, <1>2, DeliverPromise

LEMMA NonExecutePromise ==
    ASSUME IInv,
           \/ Config \/ Warm \/ AnalyzeSkip \/ AnalyzeEnd \/ ResolveEnd
           \/ \E kind \in Coalescible : DropSuperseded(kind)
    PROVE  Promise!Next
<1>1. CASE Config \/ Warm
  <2>1. /\ head <= Len(jobs) /\ job.kind \in {"config", "warm"} /\ UNCHANGED jobs
        /\ Reply("ok", NoMesh) \/ Reply("error", NoMesh)
    BY <1>1, WaitingFacts DEF Config, Warm, Finish
  <2>2. job.kind \notin Coalescible
    BY <2>1 DEF Coalescible
  <2> QED BY <2>1, <2>2, DeliverPromise, FailPromise
<1>2. CASE AnalyzeSkip
  <2>1. /\ head <= Len(jobs) /\ job.kind = "analyze" /\ job.kind \in Coalescible
        /\ UNCHANGED jobs /\ Reply("cancelled", NoMesh) /\ BusyExecute
    BY <1>2, WaitingFacts DEF AnalyzeSkip, Finish, Coalescible
  <2>2. PICK i \in head..Len(jobs) : jobs[i].kind = "execute"
    BY <2>1, BusyPending DEF BusyMeansPending
  <2>3. i # head /\ head \in 1..Len(jobs) /\ DOMAIN jobs = 1..Len(jobs)
    BY <2>1, <2>2, HeadJob DEF job, IInv, QueueInv, QueueType
  <2>4. i \in DOMAIN jobs /\ i > head
    BY <2>2, <2>3
  <2>5. Promise!Yields(head)
    BY <2>1, <2>2, <2>4 DEF Promise!Yields, job
  <2> QED BY <2>1, <2>5, CancelPromise
<1>3. CASE AnalyzeEnd \/ ResolveEnd
  <2>1. /\ head <= Len(jobs) /\ job.kind \in {"analyze", "params_resolve"} /\ UNCHANGED jobs
        /\ \/ Reply("cancelled", NoMesh) /\ stamp < latest[job.kind]
           \/ Reply("ok", NoMesh) /\ ~(stamp < latest[job.kind])
           \/ Reply("error", NoMesh)
    BY <1>3 DEF AnalyzeEnd, ResolveEnd, Finish, IInv, RunInv, Position
  <2>2. job.kind \in Coalescible /\ job.kind # "execute"
    BY <2>1 DEF Coalescible
  <2>3. stamp \in Nat /\ latest[job.kind] \in Nat
    BY <2>1, <2>2, HeadJob DEF IInv, QueueInv, QueueType
  <2>4. CASE Reply("cancelled", NoMesh) /\ stamp < latest[job.kind]
    BY <2>1, <2>2, <2>4, CancelPromise
  <2>5. CASE Reply("ok", NoMesh) /\ ~(stamp < latest[job.kind])
    BY <2>1, <2>2, <2>3, <2>5, DeliverPromise
  <2>6. CASE Reply("error", NoMesh)
    BY <2>1, <2>6, FailPromise
  <2> QED BY <2>1, <2>4, <2>5, <2>6
<1>4. CASE \E kind \in Coalescible : DropSuperseded(kind)
  <2>1. PICK kind \in Coalescible : DropSuperseded(kind)
    BY <1>4
  <2>2. /\ head <= Len(jobs) /\ job.kind = kind /\ stamp < latest[kind]
        /\ UNCHANGED jobs /\ Reply("cancelled", NoMesh)
    BY <2>1, WaitingFacts DEF DropSuperseded
  <2> QED BY <2>1, <2>2, CancelPromise
<1> QED BY <1>1, <1>2, <1>3, <1>4

LEMMA ExecutePromise ==
    ASSUME IInv, Execute
    PROVE  Promise!Next \/ UNCHANGED <<jobs, sent>>
<1>1. CASE ExecuteBegin
  BY <1>1 DEF ExecuteBegin, queueVars
<1>2. CASE ExecuteWarm
  <2>1. pc \in ExecutePcs /\ (Open \/ Throw)
    BY <1>2 DEF ExecuteWarm, ExecutePcs
  <2>2. CASE Throw
    BY <2>1, <2>2, ThrowPromise
  <2>3. CASE IsAborted /\ CancelExecute
    BY <2>1, <2>3, CancelExecutePromise
  <2>4. CASE job.memo /\ meshCache.key = job.key /\ ~IsAborted /\ EndExecute("ok", meshCache.mesh)
    <3>1. job.key \in Keys
      BY <2>1, RunningExecute
    <3>2. meshCache.mesh = Want[job.key]
      BY <3>1, <2>4, FreshAssumption DEF IInv, HostInv, CachesSound
    <3> QED BY <3>2, <2>1, <2>4, DeliverExecutePromise
  <2>5. CASE UNCHANGED queueVars
    BY <2>5 DEF queueVars
  <2> QED BY <2>1, <2>2, <2>3, <2>4, <2>5 DEF Open
<1>3. CASE ExecuteStage
  <2>1. pc \in ExecutePcs
    BY <1>3 DEF ExecuteStage, ExecutePcs
  <2>2. CASE Throw
    BY <2>1, <2>2, ThrowPromise
  <2>3. CASE IsAborted /\ CancelExecute
    BY <2>1, <2>3, CancelExecutePromise
  <2>4. CASE UNCHANGED queueVars
    BY <2>4 DEF queueVars
  <2> QED BY <1>3, <2>2, <2>3, <2>4 DEF ExecuteStage
<1>4. CASE GuestSession \/ GuestError \/ GuestFree \/ OpLookup \/ OpMake \/ OpPut
  BY <1>4 DEF GuestSession, GuestError, GuestFree, OpLookup, OpMake, OpPut, Guest, queueVars
<1>5. CASE ExecuteEnd
  <2>1. pc \in ExecutePcs
    BY <1>5 DEF ExecuteEnd, ExecutePcs
  <2>2. CASE (IsAborted \/ pc = "aborted") /\ CancelExecute
    BY <2>1, <2>2, CancelExecutePromise DEF IInv, RunInv, Position
  <2>3. CASE ~IsAborted /\ pc = "finish" /\ ExecuteMesh
    BY <2>1, <2>3, ExecuteMeshStep, DeliverExecutePromise
  <2>4. CASE Throw
    BY <2>1, <2>4, ThrowPromise
  <2> QED BY <1>5, <2>2, <2>3, <2>4 DEF ExecuteEnd
<1> QED BY <1>1, <1>2, <1>3, <1>4, <1>5 DEF Execute

LEMMA NextPromise == ASSUME IInv, [Next]_vars PROVE [Promise!Next]_(Promise!vars)
<1>1. CASE \E m \in Message : Post(m)
  BY <1>1, PostPromise
<1>2. CASE \/ Config \/ Warm \/ AnalyzeSkip \/ AnalyzeEnd \/ ResolveEnd
           \/ \E kind \in Coalescible : DropSuperseded(kind)
  BY <1>2, NonExecutePromise
<1>3. CASE AnalyzeBegin \/ ResolveBegin \/ UNCHANGED vars
  BY <1>3 DEF AnalyzeBegin, ResolveBegin, vars, queueVars, Promise!vars
<1>4. CASE Execute
  BY <1>4, ExecutePromise DEF Promise!vars
<1> QED BY <1>1, <1>2, <1>3, <1>4 DEF Next, Work

\* Whatever it caches, aborts or frees, the worker answers each request once and in order,
\* with a mesh only for the newest execute and of the geometry it asked for, and with a
\* cancellation only for the sake of a newer request.
THEOREM WorkerImplementsLatestWins == Spec => ImplementsLatestWins
BY InitPromise, NextPromise, SpecIInv, PTL DEF Spec, ImplementsLatestWins, Promise!Spec
============================================================================
