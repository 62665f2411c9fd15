------------------------- MODULE HistoryStoreProofs -------------------------
(***************************************************************************)
(* What is proved of the two stores of a timeline (HistoryStore), for any  *)
(* number of documents, page loads, git engines and calls, whatever fails  *)
(* and whenever the page leaves.  As in the run, the page's saves and      *)
(* lists do not come while it opens or clears (~Overlap): with them the    *)
(* properties are not true of the code.                                    *)
(***************************************************************************)
EXTENDS HistoryStore, SequenceTheorems, TLAPS

-----------------------------------------------------------------------------
(* Sequences of numbers and stores.                                        *)

LEMMA EmptyStore == Empty \in Store /\ Empty.log = <<>> /\ Empty.wt = NoDoc
<1>1. <<>> \in Seq(Ids)
  BY EmptySeq
<1> QED
  BY <1>1 DEF Empty, Store

LEMMA StoreShape ==
    ASSUME NEW s \in Store
    PROVE  /\ s # NoStore
           /\ s.log \in Seq(Ids) /\ s.wt \in Docs \cup {NoDoc}
           /\ s = [wt |-> s.wt, log |-> s.log]
  BY NoStoreAssumption DEF Store

\* The number of a document does not depend on the store it is known in.
LEMMA DocOfId ==
    ASSUME NEW id \in Ids
    PROVE  DocOf(id) \in Docs \cup {NoDoc} /\ DocOf(id) \in Ids
  BY BoundsAssumption DEF Ids, DocOf, Docs, NoDoc

LEMMA GitIdOfDoc ==
    ASSUME NEW d \in Ids
    PROVE  GitId(d) \in Ids /\ DocOf(GitId(d)) = DocOf(d)
  BY BoundsAssumption DEF Ids, DocOf, GitId

\* A change of the working copy alone.
LEMMA WorktreeKeepsLog ==
    ASSUME NEW s \in Store, NEW d \in Docs \cup {NoDoc}
    PROVE  WithWorktree(s, d) \in Store /\ WithWorktree(s, d).log = s.log
  BY StoreShape DEF WithWorktree, Store

\* A version goes to the end of the timeline.
LEMMA VersionIsAppended ==
    ASSUME NEW s \in Store, NEW id \in Ids
    PROVE  WithVersion(s, id) \in Store /\ WithVersion(s, id).log = Append(s.log, id)
<1>1. Append(s.log, id) \in Seq(Ids)
  BY StoreShape, AppendProperties
<1> QED
  BY <1>1, DocOfId DEF WithVersion, Store

\* A hard reset cuts the timeline off at a version.
LEMMA ResetCuts ==
    ASSUME NEW s \in Store, NEW id \in Ids, Has(s, id)
    PROVE  /\ ResetTo(s, id) \in Store
           /\ \E n \in 1..Len(s.log) : ResetTo(s, id).log = SubSeq(s.log, 1, n)
<1> DEFINE n == CHOOSE i \in 1..Len(s.log) : s.log[i] = id
<1>1. n \in 1..Len(s.log)
  BY DEF Has, Contains
<1>2. ResetTo(s, id) = [wt |-> DocOf(id), log |-> SubSeq(s.log, 1, n)]
  BY DEF ResetTo
<1> HIDE DEF n
<1>3. SubSeq(s.log, 1, n) \in Seq(Ids)
  BY <1>1, StoreShape, SubSeqProperties, LenProperties
<1> QED
  BY <1>1, <1>2, <1>3, DocOfId DEF Store

\* Going back to the head costs no version.
LEMMA HeadKeepsLog ==
    ASSUME NEW s \in Store
    PROVE  AtHead(s) \in Store /\ AtHead(s).log = s.log
<1>1. CASE s.log = <<>>
  BY <1>1 DEF AtHead
<1>2. CASE s.log # <<>>
  <2>1. Last(s.log) \in Ids
    BY <1>2, StoreShape, EmptySeq, LenProperties, ElementOfSeq DEF Last
  <2> QED
    BY <1>2, <2>1, DocOfId, WorktreeKeepsLog DEF AtHead
<1> QED
  BY <1>1, <1>2

-----------------------------------------------------------------------------
(* The calls: who waits where, and what is on its way for it.              *)

Opening  == {"boot", "opening", "openedGit", "tip", "tipGit", "tipRead", "list", "listed", "listGit",
             "mirror", "mirrored"}
Clearing == {"clearing", "cleared", "cleanGit", "closedGit"}
Working  == {"idle", "written", "committed", "restoreGit"}
Places   == Opening \cup Clearing \cup Working \cup {"reseed", "saved"}

Requests == [who : {"op", Nobody}, kind : {"get", "put", "delete"}, rec : Store \cup {NoStore}]
Kinds == {"open", "tip", "list", "save", "commit", "read", "restore", "clear", "close"}

JobType(j) ==
    /\ j \in [who : {"op", "save"}, repo : Nat, kind : Kinds, of : Ids]
    /\ j.repo \in 1..Len(repos)

StoreTypes ==
    /\ disk \in Store \cup {NoStore} /\ rec \in Store \cup {NoStore}
    /\ idb \in {"opening", "open", "failed"} /\ tx \in Seq(Requests)
    /\ edits \in Docs \cup {NoDoc} /\ wiped \in Docs \cup {NoDoc}
EngineTypes ==
    /\ blob \in Store /\ repos \in Seq(Store \cup {NoStore})
    /\ git \in Nat /\ git <= Len(repos)
    /\ jobs \in Seq([who : {"op", "save"}, repo : Nat, kind : Kinds, of : Ids])
    /\ \A i \in 1..Len(jobs) : jobs[i].repo \in 1..Len(repos)
CallTypes ==
    /\ at \in [Callers -> Places] /\ ans \in [Callers -> Seq(Ids)] /\ todo \in [Callers -> Seq(Ids)]
    /\ listed \in Seq(Ids)

\* The page has a record with a version whenever it is not busy, so that a list asks nobody.
Alone ==
    /\ at["list"] = "idle" /\ at["save"] \in {"idle", "saved"}
    /\ at["op"] \in Opening \cup Clearing \cup Working \cup {"reseed"}
    /\ at["op"] \in Working => rec # NoStore /\ rec.log # <<>>
    /\ at["op"] \in Clearing \cup {"boot"} => rec = NoStore
    /\ at["op"] = "written" => Last(rec.log) \in Docs

\* What the controller asks of git while it waits where it does.
Asked(w, k) ==
    \/ w = "openedGit" /\ k = "open"
    \/ w = "tipGit" /\ k = "tip"
    \/ w \in {"tipRead", "mirrored"} /\ k = "read"
    \/ w = "listGit" /\ k = "list"
    \/ w = "committed" /\ k = "commit"
    \/ w = "restoreGit" /\ k = "restore"
    \/ w = "cleanGit" /\ k = "clear"
    \/ w = "closedGit" /\ k = "close"

\* A caller has one operation of git's at a time, and an answer that is a document is one.
Chain ==
    /\ \A i \in 1..Len(jobs) :
         \/ jobs[i].who = "save" /\ jobs[i].kind = "save" /\ at["save"] = "saved"
         \/ jobs[i].who = "op" /\ Asked(at["op"], jobs[i].kind)
    /\ \A i, j \in 1..Len(jobs) : jobs[i].who = jobs[j].who => i = j
    /\ \A i \in 1..Len(jobs) : jobs[i].kind \in {"save", "commit"} => jobs[i].of \in Docs
    /\ at["op"] \in {"openedGit", "restoreGit", "mirrored"} /\ ans["op"] # <<>> =>
         ans["op"][1] \in Docs \cup {NoDoc}

IsPut(r) == r.kind = "put" /\ r.rec \in Store

\* A read or a delete is the last request there is, and the record is not there then; nothing is
\* written while the database opens.
Requested ==
    /\ \A i \in 1..Len(tx) :
         \/ IsPut(tx[i])
         \/ /\ tx[i].kind = "get" /\ tx[i].who = "op" /\ tx[i].rec = NoStore
            /\ Len(tx) = 1 /\ rec = NoStore /\ at["op"] \in {"opening", "listed"}
         \/ /\ tx[i].kind = "delete" /\ tx[i].who = "op" /\ tx[i].rec = NoStore
            /\ i = Len(tx) /\ rec = NoStore /\ at["op"] = "cleared"
    /\ idb = "opening" => at["op"] = "boot" \/ (at["op"] = "opening" /\ rec = NoStore /\ tx # <<>>)
    /\ idb = "failed" => tx = <<>>
    /\ at["op"] = "boot" => tx = <<>>
    /\ rec = NoStore /\ at["op"] \notin {"clearing", "cleared"} /\ tx # <<>> => tx[1].kind = "get"
    /\ at["op"] = "cleared" /\ tx # <<>> => tx[Len(tx)].kind = "delete"
    /\ \A i \in 1..Len(tx) : tx[i].who = "op" =>
         at["op"] \in {"opening", "listed", "mirror", "written", "cleared"}

Calls == ~Overlap /\ StoreTypes /\ EngineTypes /\ CallTypes /\ Alone /\ Chain /\ Requested

\* A page that has just been loaded: nothing is on its way.
LEMMA FreshPageKeeps ==
    ASSUME ~Overlap, FreshPage, disk' \in Store \cup {NoStore}, blob' \in Store,
           edits' \in Docs \cup {NoDoc}, wiped' \in Docs \cup {NoDoc}
    PROVE  Calls'
<1>1. <<>> \in Seq(Ids) /\ <<>> \in Seq(Store \cup {NoStore}) /\ <<>> \in Seq(Requests) /\ Len(<<>>) = 0
      /\ <<>> \in Seq([who : {"op", "save"}, repo : Nat, kind : Kinds, of : Ids])
  BY EmptySeq
<1>2. at'["op"] = "boot" /\ at'["save"] = "idle" /\ at'["list"] = "idle" /\ at' \in [Callers -> Places]
  <2>1. at' = [p \in Callers |-> IF p = "op" THEN "boot" ELSE "idle"]
    BY DEF FreshPage
  <2>2. \A p \in Callers : (IF p = "op" THEN "boot" ELSE "idle") \in Places
    BY DEF Places, Opening, Working
  <2> QED
    BY <2>1, <2>2 DEF Callers
<1>3. (StoreTypes /\ EngineTypes /\ CallTypes)'
  BY <1>1, <1>2 DEF FreshPage, StoreTypes, EngineTypes, CallTypes
<1>4. Alone' /\ Chain' /\ Requested'
  BY <1>1, <1>2 DEF FreshPage, Alone, Chain, Requested, Clearing, Opening, Working
<1> QED
  BY <1>3, <1>4 DEF Calls

LEMMA CallsInit == Init /\ ~Overlap => Calls
<1> SUFFICES ASSUME Init, ~Overlap PROVE Calls
  OBVIOUS
<1>1. <<>> \in Seq(Ids) /\ <<>> \in Seq(Store \cup {NoStore}) /\ <<>> \in Seq(Requests) /\ Len(<<>>) = 0
      /\ <<>> \in Seq([who : {"op", "save"}, repo : Nat, kind : Kinds, of : Ids])
  BY EmptySeq
<1>2. at["op"] = "boot" /\ at["save"] = "idle" /\ at["list"] = "idle" /\ at \in [Callers -> Places]
  <2>1. at = [p \in Callers |-> IF p = "op" THEN "boot" ELSE "idle"]
    BY DEF Init
  <2>2. \A p \in Callers : (IF p = "op" THEN "boot" ELSE "idle") \in Places
    BY DEF Places, Opening, Working
  <2> QED
    BY <2>1, <2>2 DEF Callers
<1>3. StoreTypes /\ EngineTypes /\ CallTypes
  BY <1>1, <1>2, EmptyStore DEF Init, StoreTypes, EngineTypes, CallTypes, NoDoc
<1>4. Alone /\ Chain /\ Requested
  BY <1>1, <1>2 DEF Init, Alone, Chain, Requested, Clearing, Opening, Working
<1> QED
  BY <1>3, <1>4 DEF Calls

LEMMA GoesTo ==
    ASSUME CallTypes, NEW p \in Callers, NEW w \in Places, Goto(p, w)
    PROVE  /\ at' \in [Callers -> Places] /\ ans' \in [Callers -> Seq(Ids)]
           /\ at'[p] = w /\ ans'[p] = <<>>
           /\ \A q \in Callers \ {p} : at'[q] = at[q] /\ ans'[q] = ans[q]
<1>1. <<>> \in Seq(Ids)
  BY EmptySeq
<1> QED
  BY <1>1 DEF CallTypes, Goto

LEMMA AsksLast ==
    ASSUME EngineTypes, git # 0, NEW p \in {"op", "save"}, NEW k \in Kinds, NEW v \in Ids, Ask(p, k, v)
    PROVE  /\ jobs' \in Seq([who : {"op", "save"}, repo : Nat, kind : Kinds, of : Ids])
           /\ Len(jobs') = Len(jobs) + 1 /\ Len(jobs) \in Nat
           /\ \A i \in 1..Len(jobs) : jobs'[i] = jobs[i]
           /\ LET j == jobs'[Len(jobs) + 1]
              IN  j.who = p /\ j.kind = k /\ j.of = v /\ j.repo \in 1..Len(repos)
<1> DEFINE j == [who |-> p, repo |-> git, kind |-> k, of |-> v]
<1>1. j \in [who : {"op", "save"}, repo : Nat, kind : Kinds, of : Ids] /\ j.repo \in 1..Len(repos)
  BY DEF EngineTypes
<1>2. jobs' = Append(jobs, j)
  BY DEF Ask
<1>3. /\ jobs' \in Seq([who : {"op", "save"}, repo : Nat, kind : Kinds, of : Ids])
      /\ Len(jobs') = Len(jobs) + 1 /\ Len(jobs) \in Nat
      /\ \A i \in 1..Len(jobs) : jobs'[i] = jobs[i]
      /\ jobs'[Len(jobs) + 1] = j
  <2> HIDE DEF j
  <2> QED
    BY <1>1, <1>2, AppendProperties, LenProperties DEF EngineTypes
<1> QED
  BY <1>1, <1>3

\* A request goes behind the others, or nowhere when there is no database.
LEMMA SubmitsLast ==
    ASSUME tx \in Seq(Requests), NEW r \in Requests, Submit(r)
    PROVE  /\ tx' \in Seq(Requests) /\ Len(tx) \in Nat
           /\ idb = "failed" => tx' = tx
           /\ idb # "failed" =>
                /\ Len(tx') = Len(tx) + 1 /\ tx' # <<>>
                /\ \A i \in 1..Len(tx) : tx'[i] = tx[i]
                /\ tx'[Len(tx) + 1] = r
<1>1. CASE idb = "failed"
  BY <1>1, LenProperties DEF Submit
<1>2. CASE idb # "failed"
  <2>1. tx' = Append(tx, r)
    BY <1>2 DEF Submit
  <2> QED
    BY <1>2, <2>1, AppendProperties, LenProperties, EmptySeq
<1> QED
  BY <1>1, <1>2

\* An idle controller has nothing on its way.
LEMMA IdleIsAnswered ==
    ASSUME Calls, at["op"] \in {"boot", "tip", "list", "idle", "reseed", "clearing"}
    PROVE  Answered("op")
  BY DEF Calls, Chain, Requested, Answered, Asked

\* With the controller's requests served, only writes are left, and none without a record.
LEMMA Quiet ==
    ASSUME Calls, Answered("op")
    PROVE  /\ \A i \in 1..Len(tx) : IsPut(tx[i]) /\ tx[i].who # "op"
           /\ at["op"] # "boot" => idb # "opening"
           /\ rec = NoStore /\ at["op"] # "clearing" => tx = <<>>
           /\ \A i \in 1..Len(jobs) : jobs[i].who # "op"
<1>1. Len(tx) \in Nat /\ (tx # <<>> => 1 \in 1..Len(tx) /\ Len(tx) \in 1..Len(tx))
  BY EmptySeq, LenProperties DEF Calls, StoreTypes
<1>2. \A i \in 1..Len(tx) : IsPut(tx[i]) /\ tx[i].who # "op"
  BY DEF Calls, Requested, Answered
<1>3. tx # <<>> => tx[1].kind = "put" /\ tx[Len(tx)].kind = "put"
  BY <1>1, <1>2 DEF IsPut
<1> QED
  BY <1>2, <1>3 DEF Calls, Requested, Answered

\* The controller goes on, with a question to git or without one.
Asks(w) ==
    \/ UNCHANGED jobs
    \/ /\ git # 0
       /\ \E k \in Kinds, v \in Ids : Asked(w, k) /\ Ask("op", k, v) /\ (k = "commit" => v \in Docs)

LEMMA ChainMoves ==
    ASSUME Calls, Answered("op"), NEW w \in Places, Goto("op", w), Asks(w), UNCHANGED repos
    PROVE  /\ Chain'
           /\ jobs' \in Seq([who : {"op", "save"}, repo : Nat, kind : Kinds, of : Ids])
           /\ \A i \in 1..Len(jobs') : jobs'[i].repo \in 1..Len(repos)
<1>1. /\ at'["op"] = w /\ ans'["op"] = <<>> /\ at'["save"] = at["save"]
      /\ \A i \in 1..Len(jobs) : jobs[i].who # "op"
  BY GoesTo, Quiet DEF Calls, Callers
<1>2. CASE UNCHANGED jobs
  BY <1>1, <1>2 DEF Calls, Chain, EngineTypes
<1>3. ASSUME git # 0, NEW k \in Kinds, NEW v \in Ids, Asked(w, k), Ask("op", k, v), k = "commit" => v \in Docs
      PROVE  /\ Chain'
             /\ jobs' \in Seq([who : {"op", "save"}, repo : Nat, kind : Kinds, of : Ids])
             /\ \A i \in 1..Len(jobs') : jobs'[i].repo \in 1..Len(repos)
  <2>1. /\ jobs' \in Seq([who : {"op", "save"}, repo : Nat, kind : Kinds, of : Ids])
        /\ Len(jobs') = Len(jobs) + 1 /\ Len(jobs) \in Nat
        /\ \A i \in 1..Len(jobs) : jobs'[i] = jobs[i]
        /\ LET j == jobs'[Len(jobs) + 1]
           IN  j.who = "op" /\ j.kind = k /\ j.of = v /\ j.repo \in 1..Len(repos)
    BY <1>3, AsksLast DEF Calls
  <2>2. \A i \in 1..Len(jobs') : i \in 1..Len(jobs) \/ i = Len(jobs) + 1
    BY <2>1
  <2>3. \A i \in 1..Len(jobs') : jobs'[i].repo \in 1..Len(repos)
    BY <2>1, <2>2 DEF Calls, EngineTypes
  <2>4. k # "save"
    BY <1>3 DEF Asked
  <2>5. Chain'
    BY <1>1, <1>3, <2>1, <2>2, <2>4 DEF Calls, Chain
  <2> QED
    BY <2>1, <2>3, <2>5
<1> QED
  BY <1>2, <1>3 DEF Asks

\* The controller goes on from one wait to another, the stores as they are.
LEMMA MovesKeep ==
    ASSUME Calls, Answered("op"), at["op"] # "boot", NEW w \in Places, Goto("op", w), Asks(w),
           UNCHANGED <<disk, blob, rec, idb, tx, repos, edits>>,
           git' \in Nat, git' <= Len(repos), wiped' \in Docs \cup {NoDoc},
           todo' \in [Callers -> Seq(Ids)], listed' \in Seq(Ids),
           w \notin {"boot", "saved", "written", "cleared"},
           w \in Working => rec # NoStore /\ rec.log # <<>>,
           w \in Clearing => rec = NoStore,
           rec = NoStore /\ at["op"] = "clearing" => w = "clearing"
    PROVE  Calls'
<1>1. /\ at'["op"] = w /\ at'["save"] = at["save"] /\ at'["list"] = at["list"]
      /\ at' \in [Callers -> Places] /\ ans' \in [Callers -> Seq(Ids)]
  BY GoesTo DEF Calls, Callers
<1>2. /\ Chain'
      /\ jobs' \in Seq([who : {"op", "save"}, repo : Nat, kind : Kinds, of : Ids])
      /\ \A i \in 1..Len(jobs') : jobs'[i].repo \in 1..Len(repos)
  BY ChainMoves
<1>3. (StoreTypes /\ EngineTypes /\ CallTypes)'
  BY <1>1, <1>2 DEF Calls, StoreTypes, EngineTypes, CallTypes
<1>4. Alone'
  BY <1>1 DEF Calls, Alone, Places
<1>5. Requested'
  <2>1. /\ \A i \in 1..Len(tx) : IsPut(tx[i]) /\ tx[i].who # "op"
        /\ idb # "opening" /\ (rec = NoStore /\ at["op"] # "clearing" => tx = <<>>)
    BY Quiet
  <2> QED
    BY <1>1, <2>1 DEF Calls, Requested, IsPut
<1> QED
  BY <1>2, <1>3, <1>4, <1>5 DEF Calls

LEMMA RecordShape ==
    ASSUME rec \in Store \cup {NoStore}
    PROVE  /\ Record \in Store
           /\ Listing \in Seq(Ids) /\ Record.log = Listing
           /\ rec # NoStore => Record = rec /\ Listing = rec.log
           /\ rec = NoStore => Listing = <<>>
  BY EmptyStore, StoreShape DEF Record, Listing

\* A write, awaited or not, goes behind the other writes.
LEMMA WriteRequested ==
    ASSUME StoreTypes, rec' \in Store, NEW p \in {"op", Nobody}, Persist(p), UNCHANGED idb,
           idb # "opening", idb = "failed" => tx = <<>>,
           \A i \in 1..Len(tx) : IsPut(tx[i])
    PROVE  /\ tx' \in Seq(Requests) /\ Len(tx) \in Nat
           /\ \A i \in 1..Len(tx') : IsPut(tx'[i])
           /\ idb = "failed" => tx' = tx /\ tx' = <<>>
           /\ idb = "open" =>
                /\ Len(tx') = Len(tx) + 1 /\ tx' # <<>>
                /\ \A i \in 1..Len(tx) : tx'[i] = tx[i]
                /\ LET r == tx'[Len(tx) + 1] IN r.rec = rec' /\ r.who = p
           /\ \A i \in 1..Len(tx') : tx'[i].who = "op" =>
                (i \in 1..Len(tx) /\ tx[i].who = "op") \/ p = "op"
<1> DEFINE r == Request(p, "put", rec')
<1>1. r \in Requests /\ r.who = p /\ r.kind = "put" /\ r.rec = rec'
  BY DEF Request, Requests
<1>2. Submit(r)
  BY DEF Persist
<1> HIDE DEF r
<1>3. /\ tx' \in Seq(Requests) /\ Len(tx) \in Nat
      /\ idb = "failed" => tx' = tx
      /\ idb # "failed" =>
           /\ Len(tx') = Len(tx) + 1 /\ tx' # <<>>
           /\ \A i \in 1..Len(tx) : tx'[i] = tx[i]
           /\ tx'[Len(tx) + 1] = r
  BY <1>1, <1>2, SubmitsLast DEF StoreTypes
<1>4. CASE idb = "failed"
  BY <1>3, <1>4
<1>5. CASE idb = "open"
  <2>1. \A i \in 1..Len(tx') : i \in 1..Len(tx) \/ i = Len(tx) + 1
    BY <1>3, <1>5
  <2> QED
    BY <1>1, <1>3, <1>5, <2>1 DEF IsPut
<1> QED
  BY <1>4, <1>5 DEF StoreTypes

\* The controller writes the record and goes on.
LEMMA WritesKeep ==
    ASSUME Calls, Answered("op"), at["op"] # "boot", at["op"] # "clearing",
           NEW w \in Places, Goto("op", w), UNCHANGED <<disk, blob, idb, git, repos, jobs, wiped>>,
           rec' \in Store, NEW p \in {"op", Nobody}, Persist(p),
           edits' \in Docs \cup {NoDoc},
           todo' \in [Callers -> Seq(Ids)], listed' \in Seq(Ids),
           w \notin Clearing \cup {"boot", "opening", "saved"},
           w \in Working => rec'.log # <<>>,
           w = "written" => Last(rec'.log) \in Docs,
           p = "op" => w \in {"mirror", "written"}
    PROVE  Calls'
<1>1. /\ at'["op"] = w /\ at'["save"] = at["save"] /\ at'["list"] = at["list"]
      /\ at' \in [Callers -> Places] /\ ans' \in [Callers -> Seq(Ids)]
  BY GoesTo DEF Calls, Callers
<1>2. Chain' /\ EngineTypes'
  BY ChainMoves DEF Calls, Asks, EngineTypes
<1>3. /\ \A i \in 1..Len(tx) : IsPut(tx[i]) /\ tx[i].who # "op"
      /\ idb # "opening" /\ (idb = "failed" => tx = <<>>)
  BY Quiet DEF Calls, Requested
<1>4. /\ tx' \in Seq(Requests)
      /\ \A i \in 1..Len(tx') : IsPut(tx'[i])
      /\ idb = "failed" => tx' = <<>>
      /\ \A i \in 1..Len(tx') : tx'[i].who = "op" => p = "op"
  BY <1>3, WriteRequested DEF Calls
<1>5. (StoreTypes /\ CallTypes)'
  BY <1>1, <1>4 DEF Calls, StoreTypes, CallTypes
<1>6. Alone'
  BY <1>1, StoreShape DEF Calls, Alone, Places, Clearing
<1>7. rec' # NoStore /\ idb' # "opening"
  BY <1>3, StoreShape
<1>8. Requested'
  BY <1>1, <1>4, <1>7 DEF Calls, Requested, IsPut, Clearing
<1> QED
  BY <1>2, <1>5, <1>6, <1>8 DEF Calls

LEMMA Answers ==
    ASSUME Calls, NEW p \in Callers
    PROVE  /\ ans[p] \in Seq(Ids) /\ (ans[p] # <<>> => ans[p][1] \in Ids)
           /\ todo[p] \in Seq(Ids)
           /\ todo[p] # <<>> => Head(todo[p]) \in Ids /\ Tail(todo[p]) \in Seq(Ids)
           /\ NoDoc \in Ids /\ NoDoc \in Docs \cup {NoDoc}
<1>1. ans[p] \in Seq(Ids) /\ todo[p] \in Seq(Ids)
  BY DEF Calls, CallTypes
<1>2. ans[p] # <<>> => ans[p][1] \in Ids
  BY <1>1, EmptySeq, LenProperties, ElementOfSeq
<1>3. todo[p] # <<>> => Head(todo[p]) \in Ids /\ Tail(todo[p]) \in Seq(Ids)
  BY <1>1, HeadTailProperties
<1> QED
  BY <1>1, <1>2, <1>3, BoundsAssumption DEF NoDoc, Ids

\* A page without the record asks for it, and waits when there is a database to answer.
LEMMA ReadsKeep ==
    ASSUME Calls, Answered("op"), rec = NoStore, tx = <<>>, Hydrate("op"),
           NEW w \in {"opening", "listed"}, Goto("op", w), idb = "opening" => w = "opening",
           Local, UNCHANGED <<rec, jobs, todo, listed, edits>>
    PROVE  Calls'
<1>1. w \in Places /\ "op" \in Callers
  BY DEF Places, Opening, Callers
<1>2. /\ at'["op"] = w /\ at'["save"] = at["save"] /\ at'["list"] = at["list"]
      /\ at' \in [Callers -> Places] /\ ans' \in [Callers -> Seq(Ids)]
  BY <1>1, GoesTo DEF Calls, Callers
<1>3. Chain' /\ EngineTypes'
  BY <1>1, ChainMoves DEF Local, durable, Asks, Calls, EngineTypes
<1> DEFINE r == Request("op", "get", NoStore)
<1>4. r \in Requests /\ r.who = "op" /\ r.kind = "get" /\ r.rec = NoStore /\ Submit(r)
  BY DEF Request, Requests, Hydrate
<1> HIDE DEF r
<1>5. /\ tx' \in Seq(Requests)
      /\ idb = "failed" => tx' = tx
      /\ idb # "failed" => Len(tx') = 1 /\ tx' # <<>> /\ tx'[1] = r
  <2>1. Len(tx) = 0
    BY EmptySeq
  <2> QED
    BY <1>4, <2>1, SubmitsLast DEF Calls, StoreTypes
<1>6. (StoreTypes /\ CallTypes)'
  BY <1>2, <1>5 DEF Local, durable, Calls, StoreTypes, CallTypes
<1>7. Alone'
  BY <1>2 DEF Local, durable, Calls, Alone, Opening, Clearing, Working
<1>8. Requested'
  <2>1. rec' = NoStore /\ idb' = idb
    BY DEF Local
  <2>2. CASE idb = "failed"
    <3>1. tx' = <<>> /\ Len(tx') = 0
      BY <1>5, <2>2, EmptySeq
    <3> QED
      BY <1>2, <2>1, <2>2, <3>1 DEF Requested
  <2>3. CASE idb # "failed"
    <3>1. Len(tx') = 1 /\ \A i \in 1..1 : i = 1
      BY <1>5, <2>3
    <3>2. \A i \in 1..Len(tx') : i = 1
      BY <3>1
    <3> QED
      BY <1>2, <1>4, <1>5, <2>1, <2>3, <3>2 DEF Requested
  <2> QED
    BY <2>2, <2>3
<1> QED
  BY <1>3, <1>6, <1>7, <1>8 DEF Calls

\* The opening of a project, up to the list (_open of project-controller.js).
LEMMA OpenKeeps ==
    ASSUME Calls, OpenCall \/ OpenGit \/ OpenEnd \/ Tip \/ ReadTip \/ TipRead
    PROVE  Calls'
<1>1. rec \in Store \cup {NoStore}
  BY DEF Calls, StoreTypes
<1>2. CASE OpenCall
  <2>1. rec = NoStore /\ tx = <<>> /\ Answered("op")
    BY <1>2, IdleIsAnswered DEF OpenCall, Calls, Alone, Requested
  <2> QED
    BY <1>2, <2>1, ReadsKeep DEF OpenCall
<1>3. ASSUME NEW v \in Places \ {"boot", "clearing"}, at["op"] = v, Answered("op"),
             NEW w \in {"openedGit", "tip", "tipGit", "tipRead", "list"}, Goto("op", w), Asks(w),
             Local, UNCHANGED <<rec, tx, todo, listed, edits, acts>>
      PROVE  Calls'
  <2>1. /\ w \in Places
        /\ w \notin {"boot", "saved", "written", "cleared"} /\ w \notin Working /\ w \notin Clearing
    BY <1>3 DEF Places, Opening, Working, Clearing
  <2>2. /\ UNCHANGED <<disk, blob, rec, idb, tx, repos, edits>>
        /\ git' \in Nat /\ git' <= Len(repos) /\ wiped' \in Docs \cup {NoDoc}
        /\ todo' \in [Callers -> Seq(Ids)] /\ listed' \in Seq(Ids)
    BY <1>3 DEF Local, durable, Calls, StoreTypes, EngineTypes, CallTypes
  <2> QED
    BY <1>3, <2>1, <2>2, MovesKeep
<1>4. CASE OpenGit
  <2>1. PICK w \in {"openedGit", "tip"} : Goto("op", w) /\ Asks(w)
    BY <1>4, Answers DEF OpenGit, Asks, Asked, Kinds, Callers
  <2> QED
    BY <1>3, <1>4, <2>1 DEF OpenGit, Places, Opening
<1>5. CASE Tip
  <2>1. PICK w \in {"tipGit", "list"} : Goto("op", w) /\ Asks(w)
    BY <1>5, Answers DEF Tip, Asks, Asked, Kinds, Callers
  <2>2. Answered("op")
    BY <1>5, IdleIsAnswered DEF Tip
  <2> QED
    BY <1>3, <1>5, <2>1, <2>2 DEF Tip, Places, Opening
<1>6. CASE ReadTip
  <2>1. PICK w \in {"tipRead", "list"} : Goto("op", w) /\ Asks(w)
    BY <1>6, Answers DEF ReadTip, Asks, Asked, Kinds, Callers
  <2> QED
    BY <1>3, <1>6, <2>1 DEF ReadTip, Places, Opening
<1>7. CASE TipRead
  BY <1>3, <1>7 DEF TipRead, Places, Opening, Asks
<1>8. CASE OpenEnd
  <2>1. CASE ans["op"] = <<>>
    BY <1>3, <1>8, <2>1 DEF OpenEnd, Places, Opening, Asks
  <2>2. CASE ans["op"] # <<>>
    <3>1. rec' = WithWorktree(Record, ans["op"][1]) /\ rec' \in Store
      BY <1>1, <1>8, <2>2, RecordShape, WorktreeKeepsLog DEF OpenEnd, Calls, Chain
    <3>2. /\ Goto("op", "tip") /\ "tip" \in Places /\ "tip" \notin Clearing \cup {"boot", "opening", "saved"}
          /\ "tip" \notin Working
      BY <1>8 DEF OpenEnd, Places, Opening, Clearing, Working
    <3> QED
      BY <1>8, <2>2, <3>1, <3>2, WritesKeep
      DEF OpenEnd, Local, durable, Nobody, Calls, StoreTypes, CallTypes
  <2> QED
    BY <2>1, <2>2
<1> QED
  BY <1>2, <1>4, <1>5, <1>6, <1>7, <1>8

\* With an empty timeline git is asked, otherwise the list is there.
LEMMA ListGoes ==
    ASSUME Calls, GitIfEmpty("op")
    PROVE  \E w \in {"listGit", "idle", "reseed"} :
             Goto("op", w) /\ Asks(w) /\ UNCHANGED listed /\ (w = "idle" => Listing # <<>>)
  BY Answers DEF GitIfEmpty, ListEnd, Asks, Asked, Kinds, Callers

\* The list of the versions, filled from git when there is none (listVersions, opfs-backend.js).
LEMMA ListKeeps ==
    ASSUME Calls, NEW p \in {"op", "list"},
           ListCall(p) \/ ListRead(p) \/ MirrorBegin(p) \/ Mirror(p) \/ MirrorOne(p) \/ MirrorEnd(p)
    PROVE  Calls'
<1>1. rec \in Store \cup {NoStore}
  BY DEF Calls, StoreTypes
<1>2. CASE p = "list"
  <2>1. at["list"] = "idle" /\ ListCall("list") /\ ~Busy
    BY <1>2 DEF Calls, Alone, ListCall, ListRead, MirrorBegin, Mirror, MirrorOne, MirrorEnd
  <2>2. at["op"] \in Working
    BY <2>1 DEF Calls, Alone, Busy, Opening, Clearing
  <2>3. rec # NoStore /\ Listing # <<>> /\ Listing \in Seq(Ids)
    BY <1>1, <2>2, RecordShape DEF Calls, Alone
  <2>4. UNCHANGED <<tx, jobs>> /\ Goto("list", "idle") /\ listed' = Listing
    BY <2>1, <2>3 DEF ListCall, Hydrate, GitIfEmpty, ListEnd
  <2>5. /\ at'["list"] = "idle" /\ at'["op"] = at["op"] /\ at'["save"] = at["save"]
        /\ at' \in [Callers -> Places] /\ ans' \in [Callers -> Seq(Ids)] /\ ans'["op"] = ans["op"]
    <3>1. "idle" \in Places /\ "list" \in Callers
      BY DEF Places, Working, Callers
    <3> QED
      BY <2>4, <3>1, GoesTo DEF Calls, Callers
  <2>6. (StoreTypes /\ EngineTypes /\ CallTypes)'
    BY <2>1, <2>3, <2>4, <2>5 DEF ListCall, Local, durable, Calls, StoreTypes, EngineTypes, CallTypes
  <2>7. Alone' /\ Chain' /\ Requested'
    BY <2>1, <2>4, <2>5 DEF ListCall, Local, durable, Calls, Alone, Chain, Requested, IsPut
  <2> QED
    BY <2>6, <2>7 DEF Calls
<1>3. ASSUME p = "op", Answered("op"), at["op"] \in {"list", "listed", "listGit", "mirror", "mirrored"},
             NEW w \in {"listGit", "mirror", "mirrored", "idle", "reseed"}, Goto("op", w), Asks(w),
             w = "idle" => Listing # <<>>, todo' \in [Callers -> Seq(Ids)],
             Local, UNCHANGED <<rec, tx, listed, edits>>
      PROVE  Calls'
  <2>1. /\ w \in Places
        /\ w \notin {"boot", "saved", "written", "cleared"} /\ w \notin Clearing
        /\ w \in Working => w = "idle"
    BY <1>3 DEF Places, Opening, Working, Clearing
  <2>2. w \in Working => rec # NoStore /\ rec.log # <<>>
    BY <1>1, <1>3, <2>1, RecordShape
  <2>3. /\ UNCHANGED <<disk, blob, rec, idb, tx, repos, edits>>
        /\ git' \in Nat /\ git' <= Len(repos) /\ wiped' \in Docs \cup {NoDoc} /\ listed' \in Seq(Ids)
    BY <1>3 DEF Local, durable, Calls, StoreTypes, EngineTypes, CallTypes
  <2> QED
    BY <1>3, <2>1, <2>2, <2>3, MovesKeep
<1>4. CASE p = "op" /\ ListCall(p)
  <2>1. at["op"] = "list" /\ Answered("op")
    BY <1>4, IdleIsAnswered DEF ListCall
  <2>2. CASE tx' # tx
    <3>1. rec = NoStore /\ tx = <<>> /\ idb # "opening"
      BY <1>4, <2>1, <2>2, Quiet DEF ListCall, Hydrate
    <3> QED
      BY <1>4, <2>1, <2>2, <3>1, ReadsKeep DEF ListCall
  <2>3. CASE tx' = tx
    <3>1. GitIfEmpty("op")
      BY <1>4, <2>3 DEF ListCall
    <3>2. PICK w \in {"listGit", "idle", "reseed"} :
            Goto("op", w) /\ Asks(w) /\ UNCHANGED listed /\ (w = "idle" => Listing # <<>>)
      BY <3>1, ListGoes
    <3> QED
      BY <1>3, <1>4, <2>1, <2>3, <3>2 DEF ListCall, Calls, CallTypes
  <2> QED
    BY <2>2, <2>3
<1>5. CASE p = "op" /\ ListRead(p)
  <2>1. PICK w \in {"listGit", "idle", "reseed"} :
          Goto("op", w) /\ Asks(w) /\ UNCHANGED listed /\ (w = "idle" => Listing # <<>>)
    BY <1>5, ListGoes DEF ListRead
  <2> QED
    BY <1>3, <1>5, <2>1 DEF ListRead, Calls, CallTypes
<1>6. CASE p = "op" /\ MirrorBegin(p)
  <2>1. PICK w \in {"mirror", "reseed"} : Goto("op", w) /\ UNCHANGED listed
    BY <1>6 DEF MirrorBegin, ListEnd
  <2>2. todo' \in [Callers -> Seq(Ids)]
    BY <1>6, Answers DEF MirrorBegin, Calls, CallTypes, Callers
  <2> QED
    BY <1>3, <1>6, <2>1, <2>2 DEF MirrorBegin, Asks
<1>7. CASE p = "op" /\ Mirror(p)
  <2>1. todo' \in [Callers -> Seq(Ids)] /\ Head(todo["op"]) \in Ids
    BY <1>7, Answers DEF Mirror, Calls, CallTypes, Callers
  <2>2. CASE git = 0
    <3>1. UNCHANGED <<jobs, at, ans, rec, tx, listed, edits>> /\ Local
      BY <1>7, <2>2 DEF Mirror
    <3>2. (StoreTypes /\ EngineTypes /\ CallTypes)'
      BY <2>1, <3>1 DEF Local, durable, Calls, StoreTypes, EngineTypes, CallTypes
    <3>3. Alone' /\ Chain' /\ Requested'
      BY <3>1 DEF Local, durable, Calls, Alone, Chain, Requested, IsPut
    <3> QED
      BY <3>2, <3>3 DEF Calls
  <2>3. CASE git # 0
    <3>1. Goto("op", "mirrored") /\ Asks("mirrored")
      BY <1>7, <2>1, <2>3 DEF Mirror, Asks, Asked, Kinds
    <3> QED
      BY <1>3, <1>7, <2>1, <3>1 DEF Mirror
  <2> QED
    BY <2>2, <2>3
<1>8. CASE p = "op" /\ MirrorEnd(p)
  <2>1. PICK w \in {"idle", "reseed"} : Goto("op", w) /\ UNCHANGED listed /\ (w = "idle" => Listing # <<>>)
    BY <1>8 DEF MirrorEnd, ListEnd
  <2> QED
    BY <1>3, <1>8, <2>1 DEF MirrorEnd, Asks, Calls, CallTypes
<1>9. CASE p = "op" /\ MirrorOne(p)
  <2>1. CASE ans["op"] = <<>>
    BY <1>3, <1>9, <2>1 DEF MirrorOne, Asks, Calls, CallTypes
  <2>2. CASE ans["op"] # <<>>
    <3>1. rec' = WithVersion(Record, ans["op"][1]) /\ rec' \in Store
      BY <1>1, <1>9, <2>2, RecordShape, VersionIsAppended, Answers DEF MirrorOne, Callers
    <3>2. /\ Goto("op", "mirror") /\ "mirror" \in Places /\ "mirror" \notin Clearing \cup {"boot", "opening", "saved"}
          /\ "mirror" \notin Working
      BY <1>9 DEF MirrorOne, Places, Opening, Clearing, Working
    <3> QED
      BY <1>9, <2>2, <3>1, <3>2, WritesKeep
      DEF MirrorOne, Local, durable, Calls, StoreTypes, CallTypes
  <2> QED
    BY <2>1, <2>2
<1> QED
  BY <1>2, <1>4, <1>5, <1>6, <1>7, <1>8, <1>9

\* The autosave writes the record at once and asks git (saveWorktree).
LEMMA SaveKeeps ==
    ASSUME Calls, SaveCall \/ SaveEnd
    PROVE  Calls'
<1>1. "save" \in Callers /\ "saved" \in Places /\ "idle" \in Places
  BY DEF Callers, Places, Working
<1>2. CASE SaveEnd
  <2>1. /\ at'["save"] = "idle" /\ at'["op"] = at["op"] /\ at'["list"] = at["list"]
        /\ at' \in [Callers -> Places] /\ ans' \in [Callers -> Seq(Ids)] /\ ans'["op"] = ans["op"]
    BY <1>1, <1>2, GoesTo DEF SaveEnd, Calls, Callers
  <2>2. (StoreTypes /\ EngineTypes /\ CallTypes)'
    BY <1>2, <2>1 DEF SaveEnd, Local, durable, Calls, StoreTypes, EngineTypes, CallTypes
  <2>3. Alone' /\ Requested'
    BY <1>2, <2>1 DEF SaveEnd, Local, durable, Calls, Alone, Requested, IsPut
  <2>4. Chain'
    BY <1>2, <2>1 DEF SaveEnd, Answered, Local, durable, Calls, Chain
  <2> QED
    BY <2>2, <2>3, <2>4 DEF Calls
<1>3. CASE SaveCall
  <2>1. at["op"] \in Working /\ rec # NoStore /\ rec.log # <<>> /\ at["save"] = "idle"
    BY <1>3 DEF SaveCall, Busy, Calls, Alone, Opening, Clearing
  <2>2. edits' \in Docs /\ edits' \in Ids
    BY <1>3, BoundsAssumption DEF SaveCall, Calls, StoreTypes, Docs, NoDoc, Ids
  <2>3. rec' \in Store /\ rec'.log = rec.log /\ rec' # NoStore
    BY <1>3, <2>1, <2>2, RecordShape, WorktreeKeepsLog, StoreShape DEF SaveCall, Calls, StoreTypes
  <2>4. /\ \A i \in 1..Len(tx) : IsPut(tx[i])
        /\ idb # "opening" /\ (idb = "failed" => tx = <<>>)
    BY <2>1 DEF Calls, Requested, Working
  <2>5. /\ tx' \in Seq(Requests)
        /\ \A i \in 1..Len(tx') : IsPut(tx'[i])
        /\ idb = "failed" => tx' = <<>>
        /\ \A i \in 1..Len(tx') : tx'[i].who = "op" => i \in 1..Len(tx) /\ tx[i].who = "op"
    BY <1>3, <2>3, <2>4, WriteRequested DEF SaveCall, Local, Nobody, Calls
  <2>6. /\ at'["op"] = at["op"] /\ at'["list"] = at["list"]
        /\ at' \in [Callers -> Places] /\ ans' \in [Callers -> Seq(Ids)] /\ ans'["op"] = ans["op"]
        /\ at'["save"] \in {"idle", "saved"} /\ (git # 0 => at'["save"] = "saved")
    BY <1>1, <1>3, <2>1, GoesTo DEF SaveCall, Calls, CallTypes, Callers
  <2>7. StoreTypes' /\ CallTypes'
    BY <1>3, <2>2, <2>3, <2>5, <2>6 DEF SaveCall, Local, durable, Calls, StoreTypes, CallTypes
  <2>8. Alone'
    BY <2>1, <2>3, <2>6 DEF Calls, Alone, Clearing, Working
  <2>9. rec' # NoStore /\ idb' = idb
    BY <1>3, <2>3 DEF SaveCall, Local
  <2>10. Requested'
    BY <2>1, <2>4, <2>5, <2>6, <2>9 DEF Calls, Requested, IsPut, Working
  <2>11. EngineTypes' /\ Chain'
    <3>1. CASE git = 0
      BY <1>3, <2>6, <3>1 DEF SaveCall, Local, durable, Calls, EngineTypes, Chain
    <3>2. CASE git # 0
      <4>1. Ask("save", "save", edits') /\ "save" \in Kinds /\ UNCHANGED <<git, repos, blob>>
        BY <1>3, <3>2 DEF SaveCall, Kinds, Local, durable
      <4>2. /\ jobs' \in Seq([who : {"op", "save"}, repo : Nat, kind : Kinds, of : Ids])
            /\ Len(jobs') = Len(jobs) + 1 /\ Len(jobs) \in Nat
            /\ \A i \in 1..Len(jobs) : jobs'[i] = jobs[i]
            /\ LET j == jobs'[Len(jobs) + 1]
               IN  j.who = "save" /\ j.kind = "save" /\ j.of = edits' /\ j.repo \in 1..Len(repos)
        BY <2>2, <3>2, <4>1, AsksLast DEF Calls
      <4>3. \A i \in 1..Len(jobs') : i \in 1..Len(jobs) \/ i = Len(jobs) + 1
        BY <4>2
      <4>4. \A i \in 1..Len(jobs) : jobs[i].who = "op"
        BY <2>1 DEF Calls, Chain
      <4>5. EngineTypes'
        BY <4>1, <4>2, <4>3 DEF Calls, EngineTypes
      <4>6. Chain'
        <5>1. ASSUME NEW i \in 1..Len(jobs')
              PROVE  /\ \/ jobs'[i].who = "save" /\ jobs'[i].kind = "save" /\ at'["save"] = "saved"
                        \/ jobs'[i].who = "op" /\ Asked(at'["op"], jobs'[i].kind)
                     /\ jobs'[i].kind \in {"save", "commit"} => jobs'[i].of \in Docs
          <6>1. CASE i \in 1..Len(jobs)
            BY <2>6, <4>2, <4>4, <6>1 DEF Calls, Chain
          <6>2. CASE i = Len(jobs) + 1
            BY <2>2, <2>6, <3>2, <4>2, <6>2
          <6> QED
            BY <4>3, <6>1, <6>2
        <5>2. \A i, k \in 1..Len(jobs') : jobs'[i].who = jobs'[k].who => i = k
          BY <4>2, <4>3, <4>4 DEF Calls, Chain
        <5>3. at["op"] \in {"openedGit", "restoreGit", "mirrored"} /\ ans["op"] # <<>> =>
                ans["op"][1] \in Docs \cup {NoDoc}
          BY DEF Calls, Chain
        <5>4. at'["op"] = at["op"] /\ ans'["op"] = ans["op"]
          BY <2>6
        <5> QED
          BY <5>1, <5>2, <5>3, <5>4 DEF Chain
      <4> QED
        BY <4>5, <4>6
    <3> QED
      BY <3>1, <3>2
  <2> QED
    BY <2>7, <2>8, <2>10, <2>11 DEF Calls
<1> QED
  BY <1>2, <1>3

\* A commit writes the record, waits for the database and goes on to git (commit, opfs-backend.js).
LEMMA CommitKeeps ==
    ASSUME Calls, CommitCall \/ CommitGit \/ CommitEnd
    PROVE  Calls'
<1>1. rec \in Store \cup {NoStore}
  BY DEF Calls, StoreTypes
<1>2. CASE CommitCall
  <2>1. edits' \in Docs /\ edits' \in Ids
    BY <1>2, BoundsAssumption DEF CommitCall, Calls, StoreTypes, Docs, NoDoc, Ids
  <2>2. rec' \in Store /\ rec'.log = Append(Record.log, edits')
    BY <1>1, <1>2, <2>1, RecordShape, VersionIsAppended DEF CommitCall
  <2>3. rec'.log # <<>> /\ Last(rec'.log) \in Docs
    BY <1>1, <2>1, <2>2, RecordShape, AppendProperties, LenProperties, EmptySeq DEF Last
  <2>4. /\ Goto("op", "written") /\ "written" \in Places /\ Answered("op")
        /\ "written" \notin Clearing \cup {"boot", "opening", "saved"}
    BY <1>2, IdleIsAnswered DEF CommitCall, Places, Working, Clearing
  <2> QED
    BY <1>2, <2>1, <2>2, <2>3, <2>4, WritesKeep
    DEF CommitCall, Local, durable, Calls, StoreTypes, CallTypes
<1>3. ASSUME at["op"] \in {"written", "committed"}, Answered("op"),
             NEW w \in {"committed", "idle"}, Goto("op", w), Asks(w),
             Local, UNCHANGED <<rec, tx, todo, listed, edits>>
      PROVE  Calls'
  <2>1. /\ w \in Places /\ rec # NoStore /\ rec.log # <<>>
        /\ w \notin {"boot", "saved", "written", "cleared"} /\ w \notin Clearing
    BY <1>3 DEF Places, Working, Clearing, Calls, Alone
  <2>2. /\ UNCHANGED <<disk, blob, rec, idb, tx, repos, edits>>
        /\ git' \in Nat /\ git' <= Len(repos) /\ wiped' \in Docs \cup {NoDoc} /\ listed' \in Seq(Ids)
        /\ todo' \in [Callers -> Seq(Ids)]
    BY <1>3 DEF Local, durable, Calls, StoreTypes, EngineTypes, CallTypes
  <2> QED
    BY <1>3, <2>1, <2>2, MovesKeep
<1>4. CASE CommitGit
  <2>1. Last(rec.log) \in Docs /\ Last(rec.log) \in Ids
    BY <1>4, BoundsAssumption DEF CommitGit, Calls, Alone, Docs, Ids
  <2>2. Asks("committed")
    BY <1>4, <2>1 DEF CommitGit, Asks, Asked, Kinds
  <2> QED
    BY <1>3, <1>4, <2>2 DEF CommitGit
<1>5. CASE CommitEnd
  BY <1>3, <1>5 DEF CommitEnd, Asks
<1> QED
  BY <1>2, <1>4, <1>5

\* A version is restored from the record, or from git when the record does not have it (restore).
LEMMA RestoreKeeps ==
    ASSUME Calls, RestoreCall \/ RestoreEnd
    PROVE  Calls'
<1>1. rec \in Store \cup {NoStore}
  BY DEF Calls, StoreTypes
<1>2. CASE RestoreCall
  <2>1. at["op"] = "idle" /\ rec # NoStore /\ rec.log # <<>> /\ Record = rec /\ Answered("op")
    BY <1>1, <1>2, IdleIsAnswered, RecordShape DEF RestoreCall, Calls, Alone, Working
  <2>2. PICK id \in ToSet(listed) :
          IF Has(Record, id)
          THEN /\ rec' = WithWorktree(Record, DocOf(id))
               /\ rec' # rec
               /\ Persist(Nobody)
               /\ UNCHANGED <<jobs, at, ans>>
          ELSE /\ git # 0
               /\ Ask("op", "restore", id)
               /\ Goto("op", "restoreGit")
               /\ UNCHANGED <<rec, tx>>
    BY <1>2 DEF RestoreCall
  <2>3. id \in Ids
    BY LenProperties DEF ToSet, Calls, CallTypes
  <2>4. CASE Has(Record, id)
    <3>1. rec' \in Store /\ rec'.log = rec.log /\ rec' # NoStore
      BY <1>1, <2>1, <2>2, <2>3, <2>4, DocOfId, WorktreeKeepsLog, StoreShape
    <3>2. /\ \A i \in 1..Len(tx) : IsPut(tx[i]) /\ tx[i].who # "op"
          /\ idb # "opening" /\ (idb = "failed" => tx = <<>>)
      BY <2>1, Quiet DEF Calls, Requested
    <3>3. /\ tx' \in Seq(Requests)
          /\ \A i \in 1..Len(tx') : IsPut(tx'[i])
          /\ idb = "failed" => tx' = <<>>
          /\ \A i \in 1..Len(tx') : tx'[i].who # "op"
      BY <1>2, <2>2, <2>4, <3>1, <3>2, WriteRequested DEF RestoreCall, Local, Nobody, Calls
    <3>4. (StoreTypes /\ EngineTypes /\ CallTypes)'
      BY <1>2, <2>2, <2>4, <3>1, <3>3
      DEF RestoreCall, Local, durable, Calls, StoreTypes, EngineTypes, CallTypes
    <3>5. Alone' /\ Chain'
      BY <1>2, <2>1, <2>2, <2>4, <3>1 DEF RestoreCall, Local, durable, Calls, Alone, Chain, Clearing
    <3>6. rec' # NoStore /\ idb' = idb /\ at' = at
      BY <1>2, <2>2, <2>4, <3>1 DEF RestoreCall, Local
    <3>7. Requested'
      BY <2>1, <3>2, <3>3, <3>6 DEF Requested, IsPut
    <3> QED
      BY <3>4, <3>5, <3>7 DEF Calls
  <2>5. CASE ~Has(Record, id)
    <3>1. Goto("op", "restoreGit") /\ Asks("restoreGit") /\ UNCHANGED <<rec, tx>>
      BY <2>2, <2>3, <2>5 DEF Asks, Asked, Kinds
    <3>2. /\ "restoreGit" \in Places /\ "restoreGit" \notin Clearing
          /\ "restoreGit" \notin {"boot", "saved", "written", "cleared"}
      BY DEF Places, Working, Clearing
    <3>3. /\ UNCHANGED <<disk, blob, rec, idb, tx, repos, edits>>
          /\ git' \in Nat /\ git' <= Len(repos) /\ wiped' \in Docs \cup {NoDoc} /\ listed' \in Seq(Ids)
          /\ todo' \in [Callers -> Seq(Ids)]
      BY <1>2, <3>1 DEF RestoreCall, Local, durable, Calls, StoreTypes, EngineTypes, CallTypes
    <3> QED
      BY <2>1, <3>1, <3>2, <3>3, MovesKeep
  <2> QED
    BY <2>4, <2>5
<1>3. CASE RestoreEnd
  <2>1. /\ at["op"] = "restoreGit" /\ Answered("op") /\ Goto("op", "idle")
        /\ rec # NoStore /\ rec.log # <<>> /\ Record = rec
    BY <1>1, <1>3, RecordShape DEF RestoreEnd, Calls, Alone, Working
  <2>2. "idle" \in Places /\ "idle" \notin Clearing
    BY DEF Places, Working, Clearing
  <2>3. CASE ans["op"] = <<>>
    <3>1. /\ UNCHANGED <<disk, blob, rec, idb, tx, repos, edits>> /\ Asks("idle")
          /\ git' \in Nat /\ git' <= Len(repos) /\ wiped' \in Docs \cup {NoDoc} /\ listed' \in Seq(Ids)
          /\ todo' \in [Callers -> Seq(Ids)]
      BY <1>3, <2>3 DEF RestoreEnd, Asks, Local, durable, Calls, StoreTypes, EngineTypes, CallTypes
    <3> QED
      BY <2>1, <2>2, <3>1, MovesKeep
  <2>4. CASE ans["op"] # <<>>
    <3>1. ans["op"][1] \in Docs \cup {NoDoc}
      BY <2>1, <2>4 DEF Calls, Chain
    <3>2. rec' \in Store /\ rec'.log = rec.log /\ Persist(Nobody)
      BY <1>1, <1>3, <2>1, <2>4, <3>1, WorktreeKeepsLog DEF RestoreEnd
    <3> QED
      BY <1>3, <2>1, <2>2, <3>2, WritesKeep
      DEF RestoreEnd, Local, durable, Nobody, Calls, StoreTypes, CallTypes
  <2> QED
    BY <2>3, <2>4
<1> QED
  BY <1>2, <1>3

\* A clear: the record goes, then the stored one, then git's (clear, opfs-backend.js).
LEMMA ClearKeeps ==
    ASSUME Calls, ClearCall \/ ClearDelete \/ ClearGit \/ ClearClose \/ ClearEnd
    PROVE  Calls'
<1>1. CASE ClearCall
  <2>1. /\ at["op"] = "idle" /\ Answered("op") /\ rec' = NoStore
        /\ Goto("op", "clearing") /\ "clearing" \in Places
    BY <1>1, IdleIsAnswered DEF ClearCall, Places, Clearing
  <2>2. /\ at'["op"] = "clearing" /\ at'["save"] = at["save"] /\ at'["list"] = at["list"]
        /\ at' \in [Callers -> Places] /\ ans' \in [Callers -> Seq(Ids)]
    BY <2>1, GoesTo DEF Calls, Callers
  <2>3. Chain' /\ EngineTypes'
    BY <1>1, <2>1, ChainMoves DEF ClearCall, Local, durable, Asks, Calls, EngineTypes
  <2>4. (StoreTypes /\ CallTypes)'
    BY <1>1, <2>2 DEF ClearCall, Local, durable, Calls, StoreTypes, CallTypes
  <2>5. Alone'
    BY <2>1, <2>2 DEF Calls, Alone, Working, Clearing
  <2>6. /\ \A i \in 1..Len(tx) : IsPut(tx[i]) /\ tx[i].who # "op"
        /\ idb # "opening" /\ (idb = "failed" => tx = <<>>)
    BY <2>1, Quiet DEF Calls, Requested
  <2>7. Requested'
    BY <1>1, <2>1, <2>2, <2>6 DEF ClearCall, Local, Requested, IsPut
  <2> QED
    BY <2>3, <2>4, <2>5, <2>7 DEF Calls
<1>2. CASE ClearDelete
  <2>1. /\ at["op"] = "clearing" /\ Answered("op") /\ rec = NoStore /\ UNCHANGED rec
        /\ Goto("op", "cleared") /\ "cleared" \in Places
    BY <1>2, IdleIsAnswered DEF ClearDelete, Calls, Alone, Places, Clearing
  <2>2. /\ at'["op"] = "cleared" /\ at'["save"] = at["save"] /\ at'["list"] = at["list"]
        /\ at' \in [Callers -> Places] /\ ans' \in [Callers -> Seq(Ids)]
    BY <2>1, GoesTo DEF Calls, Callers
  <2>3. Chain' /\ EngineTypes'
    BY <1>2, <2>1, ChainMoves DEF ClearDelete, Local, durable, Asks, Calls, EngineTypes
  <2> DEFINE r == Request("op", "delete", NoStore)
  <2>4. r \in Requests /\ r.who = "op" /\ r.kind = "delete" /\ r.rec = NoStore /\ Submit(r)
    BY <1>2 DEF Request, Requests, ClearDelete
  <2> HIDE DEF r
  <2>5. /\ tx' \in Seq(Requests) /\ Len(tx) \in Nat
        /\ idb = "failed" => tx' = tx
        /\ idb # "failed" =>
             /\ Len(tx') = Len(tx) + 1 /\ tx' # <<>>
             /\ \A i \in 1..Len(tx) : tx'[i] = tx[i]
             /\ tx'[Len(tx) + 1] = r
    BY <2>4, SubmitsLast DEF Calls, StoreTypes
  <2>6. (StoreTypes /\ CallTypes)'
    BY <1>2, <2>2, <2>5 DEF ClearDelete, Local, durable, Calls, StoreTypes, CallTypes
  <2>7. Alone'
    BY <2>1, <2>2 DEF Calls, Alone, Working, Clearing
  <2>8. /\ \A i \in 1..Len(tx) : IsPut(tx[i]) /\ tx[i].who # "op"
        /\ idb # "opening" /\ (idb = "failed" => tx = <<>>) /\ idb' = idb
    BY <1>2, <2>1, Quiet DEF ClearDelete, Local, Calls, Requested
  <2>9. Requested'
    <3>1. CASE idb = "failed"
      BY <2>1, <2>2, <2>5, <2>8, <3>1 DEF Requested, IsPut
    <3>2. CASE idb # "failed"
      <4>1. \A i \in 1..Len(tx') : i \in 1..Len(tx) \/ i = Len(tx) + 1
        BY <2>5, <3>2
      <4>2. Len(tx') = Len(tx) + 1 /\ tx'[Len(tx')].kind = "delete" /\ rec' = NoStore
        BY <2>1, <2>4, <2>5, <3>2
      <4>3. \A i \in 1..Len(tx') :
              \/ IsPut(tx'[i])
              \/ /\ tx'[i].kind = "delete" /\ tx'[i].who = "op" /\ tx'[i].rec = NoStore
                 /\ i = Len(tx')
        BY <2>4, <2>5, <2>8, <3>2, <4>1
      <4> QED
        BY <2>2, <2>8, <3>2, <4>2, <4>3 DEF Requested, IsPut
    <3> QED
      BY <3>1, <3>2
  <2> QED
    BY <2>3, <2>6, <2>7, <2>9 DEF Calls
<1>3. ASSUME at["op"] \in {"cleared", "cleanGit", "closedGit"}, Answered("op"),
             NEW w \in {"cleanGit", "closedGit", "reseed"}, Goto("op", w), Asks(w),
             UNCHANGED <<disk, blob, rec, idb, tx, repos, todo, listed, edits>>,
             git' \in {git, 0}, wiped' \in {wiped, edits}
      PROVE  Calls'
  <2>1. /\ w \in Places /\ w \notin Working /\ rec = NoStore
        /\ w \notin {"boot", "saved", "written", "cleared"}
    BY <1>3 DEF Places, Clearing, Working, Calls, Alone
  <2>2. /\ git' \in Nat /\ git' <= Len(repos) /\ wiped' \in Docs \cup {NoDoc} /\ listed' \in Seq(Ids)
        /\ todo' \in [Callers -> Seq(Ids)]
    <3>1. Len(repos) \in Nat
      BY LenProperties DEF Calls, EngineTypes
    <3> QED
      BY <1>3, <3>1 DEF Calls, StoreTypes, EngineTypes, CallTypes
  <2> QED
    BY <1>3, <2>1, <2>2, MovesKeep
<1>4. CASE ClearGit
  <2>1. Asks("cleanGit")
    BY <1>4, Answers DEF ClearGit, Asks, Asked, Kinds, Callers
  <2> QED
    BY <1>3, <1>4, <2>1 DEF ClearGit, Local, durable
<1>5. CASE ClearClose
  <2>1. Asks("closedGit")
    BY <1>5, Answers DEF ClearClose, Asks, Asked, Kinds, Callers
  <2> QED
    BY <1>3, <1>5, <2>1 DEF ClearClose, Local, durable
<1>6. CASE ClearEnd
  BY <1>3, <1>6 DEF ClearEnd, Asks, durable, local, counts
<1> QED
  BY <1>1, <1>2, <1>4, <1>5, <1>6

-----------------------------------------------------------------------------
(* The engine serves one operation and answers its caller.                 *)

\* A timeline in git is kept, cut off or begun anew; only a commit makes it longer.
LogStep(s, t, j) ==
    \/ t = NoStore
    \/ t \in Store /\ t.log = <<>>
    \/ s \in Store /\ t \in Store /\ t.log = s.log
    \/ s \in Store /\ t \in Store /\ \E n \in 1..Len(s.log) : t.log = SubSeq(s.log, 1, n)
    \/ s \in Store /\ t \in Store /\ j.kind = "commit" /\ t.log = Append(s.log, GitId(j.of))

\* What the caller of an operation is told.
Told(s, j, a) ==
    /\ a \in Seq(Ids)
    /\ j.kind \in {"open", "read", "restore"} /\ a # <<>> => a[1] \in Docs \cup {NoDoc}
    /\ j.kind = "list" => a = <<>> \/ (s \in Store /\ a = s.log)
    /\ j.kind = "read" => a = <<>> \/ a = <<DocOf(j.of)>>

Serves(j, a) ==
    /\ jobs # <<>> /\ j = Head(jobs) /\ j.repo \in 1..Len(repos) /\ j.who \in {"op", "save"} /\ j.of \in Ids
    /\ jobs' = Tail(jobs) /\ ans' = [ans EXCEPT ![j.who] = a]
    /\ repos' \in Seq(Store \cup {NoStore}) /\ Len(repos') = Len(repos)
    /\ \A i \in 1..Len(repos) : i # j.repo => repos'[i] = repos[i]
    /\ LogStep(repos[j.repo], repos'[j.repo], j)
    /\ blob' \in Store /\ (blob' = blob \/ blob' = repos'[j.repo] \/ blob' = Empty)
    /\ Told(repos[j.repo], j, a)
    /\ InGit

LEMMA OneRepoChanges ==
    ASSUME EngineTypes, NEW n \in 1..Len(repos), NEW s \in Store \cup {NoStore},
           repos' = [repos EXCEPT ![n] = s]
    PROVE  /\ repos' \in Seq(Store \cup {NoStore}) /\ Len(repos') = Len(repos)
           /\ \A i \in 1..Len(repos) : i # n => repos'[i] = repos[i]
           /\ repos'[n] = s /\ repos[n] \in Store \cup {NoStore}
  BY ExceptSeq, ElementOfSeq DEF EngineTypes

LEMMA ShortAnswers ==
    ASSUME NEW id \in Ids
    PROVE  <<id>> \in Seq(Ids) /\ <<id>>[1] = id /\ <<>> \in Seq(Ids)
  OBVIOUS

LEMMA GitServes ==
    ASSUME Calls,
           GitOpen \/ GitTip \/ GitList \/ GitSave \/ GitCommit \/ GitWriteFails
             \/ GitReadVersion \/ GitRestore \/ GitClear \/ GitClose
    PROVE  \E a : Serves(Head(jobs), a)
<1> DEFINE j == Head(jobs)
           s == repos[j.repo]
<1>1. jobs # <<>> /\ InGit
  BY DEF GitOpen, GitTip, GitList, GitSave, GitCommit, GitWriteFails, GitReadVersion, GitRestore, GitClear,
         GitClose, Job
<1>2. /\ j = jobs[1] /\ 1 \in 1..Len(jobs)
      /\ j \in [who : {"op", "save"}, repo : Nat, kind : Kinds, of : Ids] /\ j.repo \in 1..Len(repos)
  <2>1. jobs \in Seq([who : {"op", "save"}, repo : Nat, kind : Kinds, of : Ids]) /\ 1 \in 1..Len(jobs)
    BY <1>1, EmptySeq, LenProperties DEF Calls, EngineTypes
  <2>2. Head(jobs) = jobs[1]
    BY <1>1, <2>1, HeadTailProperties
  <2>3. jobs[1] \in [who : {"op", "save"}, repo : Nat, kind : Kinds, of : Ids]
    BY <2>1, ElementOfSeq
  <2>4. jobs[1].repo \in 1..Len(repos)
    BY <2>1 DEF Calls, EngineTypes
  <2> QED
    BY <2>1, <2>2, <2>3, <2>4
<1>3. s \in Store \cup {NoStore} /\ repos \in Seq(Store \cup {NoStore}) /\ blob \in Store
  BY <1>2, ElementOfSeq DEF Calls, EngineTypes
<1>4. Repo = s /\ (~Closed => s \in Store /\ s # NoStore) /\ (Closed => s = NoStore)
  BY <1>3 DEF Repo, Closed
<1> HIDE DEF j
<1>5. /\ j.who \in {"op", "save"} /\ j.of \in Ids
      /\ DocOf(j.of) \in Docs \cup {NoDoc} /\ DocOf(j.of) \in Ids
      /\ GitId(j.of) \in Ids
      /\ j.kind \in {"save", "commit"} => j.of \in Docs
  BY <1>2, DocOfId, GitIdOfDoc DEF Calls, Chain
<1> HIDE DEF s
<1>6. ASSUME NEW a, Reply(a), UNCHANGED <<blob, repos>>, Told(s, j, a)
      PROVE  Serves(j, a)
  <2>1. LogStep(s, repos'[j.repo], j)
    BY <1>2, <1>3, <1>6 DEF LogStep, s
  <2> QED
    BY <1>1, <1>2, <1>3, <1>5, <1>6, <2>1 DEF Serves, Reply, j, s
<1>7. ASSUME NEW a, Reply(a), NEW t \in Store \cup {NoStore}, SetRepo(t), LogStep(s, t, j), Told(s, j, a),
             blob' \in {blob, Empty} \/ (t \in Store /\ blob' = repos'[j.repo])
      PROVE  Serves(j, a)
  <2>1. repos' = [repos EXCEPT ![j.repo] = t]
    BY <1>7 DEF SetRepo, j
  <2>2. /\ repos' \in Seq(Store \cup {NoStore}) /\ Len(repos') = Len(repos)
        /\ \A i \in 1..Len(repos) : i # j.repo => repos'[i] = repos[i]
        /\ repos'[j.repo] = t
    BY <1>2, <2>1, OneRepoChanges DEF Calls
  <2>3. blob' \in Store /\ (blob' = blob \/ blob' = repos'[j.repo] \/ blob' = Empty)
    BY <1>3, <1>7, <2>2, EmptyStore
  <2> QED
    BY <1>1, <1>2, <1>5, <1>7, <2>2, <2>3 DEF Serves, Reply, j, s
<1>8. Told(s, j, <<>>) /\ (j.kind \notin {"open", "read", "restore", "list"} => \A a \in Seq(Ids) : Told(s, j, a))
  BY EmptySeq DEF Told
<1>9. CASE GitOpen
  <2>1. CASE Closed \/ Repo.wt = NoDoc
    BY <1>6, <1>8, <1>9, <2>1 DEF GitOpen, j
  <2>2. CASE ~(Closed \/ Repo.wt = NoDoc)
    <3>1. s.wt \in Docs \cup {NoDoc} /\ s.wt \in Ids
      BY <1>4, <2>2, StoreShape, BoundsAssumption DEF Docs, NoDoc, Ids
    <3>2. Told(s, j, <<s.wt>>)
      BY <1>9, <3>1, ShortAnswers DEF Told, GitOpen, Job, j
    <3> QED
      BY <1>4, <1>6, <1>9, <2>2, <3>2 DEF GitOpen, j
  <2> QED
    BY <2>1, <2>2
<1>10. CASE GitTip
  <2>1. CASE Closed \/ Repo.log = <<>>
    BY <1>6, <1>8, <1>10, <2>1 DEF GitTip, j
  <2>2. CASE ~(Closed \/ Repo.log = <<>>)
    <3>1. s.log \in Seq(Ids) /\ s.log # <<>>
      BY <1>4, <2>2, StoreShape
    <3>2. Last(s.log) \in Ids
      BY <3>1, EmptySeq, LenProperties, ElementOfSeq DEF Last
    <3>3. Told(s, j, <<Last(s.log)>>)
      BY <1>8, <1>10, <3>2, ShortAnswers DEF GitTip, Job, j
    <3> QED
      BY <1>4, <1>6, <1>10, <2>2, <3>3 DEF GitTip, j
  <2> QED
    BY <2>1, <2>2
<1>11. CASE GitList
  <2>1. CASE Closed
    BY <1>6, <1>8, <1>11, <2>1 DEF GitList, j
  <2>2. CASE ~Closed
    <3>1. Told(s, j, s.log)
      BY <1>4, <1>11, <2>2, StoreShape DEF Told, GitList, Job, j
    <3> QED
      BY <1>4, <1>6, <1>11, <2>2, <3>1 DEF GitList, j
  <2> QED
    BY <2>1, <2>2
<1>12. CASE GitSave
  <2> DEFINE t == WithWorktree(s, j.of)
  <2>1. t \in Store /\ t.log = s.log /\ s \in Store
    BY <1>4, <1>5, <1>12, WorktreeKeepsLog DEF GitSave, Job, j
  <2>2. SetRepo(t) /\ Reply(<<>>)
    BY <1>4, <1>12 DEF GitSave, j
  <2>3. blob' = repos'[j.repo] \/ blob' = blob
    BY <1>12 DEF GitSave, Checkpoint, j
  <2> HIDE DEF t
  <2>4. LogStep(s, t, j)
    BY <2>1 DEF LogStep
  <2> QED
    BY <1>7, <1>8, <2>1, <2>2, <2>3, <2>4 DEF j
<1>13. CASE GitCommit
  <2> DEFINE t == WithVersion(s, GitId(j.of))
  <2>1. t \in Store /\ t.log = Append(s.log, GitId(j.of)) /\ s \in Store /\ j.kind = "commit"
    BY <1>4, <1>5, <1>13, VersionIsAppended DEF GitCommit, Job, j
  <2>2. SetRepo(t) /\ Reply(<<>>)
    BY <1>4, <1>13 DEF GitCommit, j
  <2>3. blob' = repos'[j.repo] \/ blob' = blob
    BY <1>13 DEF GitCommit, Checkpoint, j
  <2> HIDE DEF t
  <2>4. LogStep(s, t, j)
    BY <2>1 DEF LogStep
  <2> QED
    BY <1>7, <1>8, <2>1, <2>2, <2>3, <2>4 DEF j
<1>14. CASE GitWriteFails
  <2>1. CASE Closed
    BY <1>6, <1>8, <1>14, <2>1 DEF GitWriteFails, j
  <2>2. CASE ~Closed
    <3> DEFINE t == WithWorktree(s, j.of)
    <3>1. t \in Store /\ t.log = s.log /\ s \in Store
      BY <1>4, <1>5, <1>14, <2>2, WorktreeKeepsLog DEF GitWriteFails, Job, j
    <3>2. SetRepo(t) /\ Reply(<<>>) /\ blob' = blob
      BY <1>4, <1>14, <2>2 DEF GitWriteFails, j
    <3> HIDE DEF t
    <3>3. LogStep(s, t, j)
      BY <3>1 DEF LogStep
    <3> QED
      BY <1>7, <1>8, <3>1, <3>2, <3>3 DEF j
  <2> QED
    BY <2>1, <2>2
<1>15. CASE GitReadVersion
  <2>1. CASE Closed \/ ~Has(Repo, Head(jobs).of)
    BY <1>6, <1>8, <1>15, <2>1 DEF GitReadVersion, j
  <2>2. CASE ~(Closed \/ ~Has(Repo, Head(jobs).of))
    <3> DEFINE t == AtHead(s)
    <3>1. t \in Store /\ t.log = s.log /\ s \in Store
      BY <1>4, <2>2, HeadKeepsLog
    <3>2. SetRepo(t) /\ Reply(<<DocOf(j.of)>>) /\ blob' = blob
      BY <1>4, <1>15, <2>2 DEF GitReadVersion, j
    <3> HIDE DEF t
    <3>3. LogStep(s, t, j)
      BY <3>1 DEF LogStep
    <3>4. Told(s, j, <<DocOf(j.of)>>)
      BY <1>5, <1>15, ShortAnswers DEF Told, GitReadVersion, Job, j
    <3> QED
      BY <1>7, <3>1, <3>2, <3>3, <3>4 DEF j
  <2> QED
    BY <2>1, <2>2
<1>16. CASE GitRestore
  <2>1. CASE Closed \/ ~Has(Repo, Head(jobs).of)
    BY <1>6, <1>8, <1>16, <2>1 DEF GitRestore, j
  <2>2. CASE ~(Closed \/ ~Has(Repo, Head(jobs).of))
    <3> DEFINE t == ResetTo(s, j.of)
    <3>1. s \in Store /\ Has(s, j.of)
      BY <1>4, <2>2 DEF j
    <3>2. t \in Store /\ \E n \in 1..Len(s.log) : t.log = SubSeq(s.log, 1, n)
      BY <1>5, <3>1, ResetCuts
    <3>3. SetRepo(t) /\ Reply(<<DocOf(j.of)>>)
      BY <1>4, <1>16, <2>2 DEF GitRestore, j
    <3>4. blob' = repos'[j.repo] \/ blob' = blob
      BY <1>16, <2>2 DEF GitRestore, Checkpoint, j
    <3> HIDE DEF t
    <3>5. LogStep(s, t, j)
      BY <3>1, <3>2 DEF LogStep
    <3>6. Told(s, j, <<DocOf(j.of)>>)
      BY <1>5, <1>16, ShortAnswers DEF Told, GitRestore, Job, j
    <3> QED
      BY <1>7, <3>2, <3>3, <3>4, <3>5, <3>6 DEF j
  <2> QED
    BY <2>1, <2>2
<1>17. CASE GitClear
  <2>1. PICK t \in {Empty, NoStore} : SetRepo(t)
    BY <1>17 DEF GitClear
  <2>2. LogStep(s, t, j) /\ t \in Store \cup {NoStore}
    BY EmptyStore DEF LogStep
  <2> QED
    BY <1>7, <1>8, <1>17, <2>1, <2>2 DEF GitClear, j
<1>18. CASE GitClose
  <2>1. LogStep(s, NoStore, j)
    BY DEF LogStep
  <2> QED
    BY <1>7, <1>8, <1>18, <2>1 DEF GitClose, j
<1> QED
  BY <1>9, <1>10, <1>11, <1>12, <1>13, <1>14, <1>15, <1>16, <1>17, <1>18 DEF j

LEMMA ServesKeeps ==
    ASSUME Calls, NEW j, NEW a, Serves(j, a)
    PROVE  /\ Calls'
           /\ Len(jobs') = Len(jobs) - 1 /\ Len(jobs) \in Nat \ {0} /\ j = jobs[1]
           /\ \A i \in 1..Len(jobs') : jobs'[i] = jobs[i + 1] /\ jobs'[i].who # j.who
           /\ ans'[j.who] = a /\ \A q \in Callers \ {j.who} : ans'[q] = ans[q]
<1>1. jobs \in Seq([who : {"op", "save"}, repo : Nat, kind : Kinds, of : Ids]) /\ jobs # <<>>
  BY DEF Serves, Calls, EngineTypes
<1>2. /\ jobs' \in Seq([who : {"op", "save"}, repo : Nat, kind : Kinds, of : Ids])
      /\ Len(jobs') = Len(jobs) - 1 /\ Len(jobs) \in Nat \ {0} /\ j = jobs[1]
      /\ \A i \in 1..Len(jobs') : jobs'[i] = jobs[i + 1]
  BY <1>1, HeadTailProperties, EmptySeq, LenProperties DEF Serves
<1>3. 1 \in 1..Len(jobs) /\ \A i \in 1..Len(jobs') : i + 1 \in 1..Len(jobs) /\ i + 1 # 1
  BY <1>2
<1>4. \A i \in 1..Len(jobs') : jobs'[i].who # j.who
  BY <1>2, <1>3 DEF Calls, Chain
<1>5. /\ ans' \in [Callers -> Seq(Ids)] /\ ans'[j.who] = a
      /\ \A q \in Callers \ {j.who} : ans'[q] = ans[q]
  BY DEF Serves, Told, Calls, CallTypes, Callers
<1>6. \A i \in 1..Len(jobs') : jobs'[i].repo \in 1..Len(repos)
  BY <1>2, <1>3 DEF Calls, EngineTypes
<1>7. (StoreTypes /\ EngineTypes /\ CallTypes)'
  BY <1>2, <1>5, <1>6 DEF Serves, InGit, local, Calls, StoreTypes, EngineTypes, CallTypes
<1>8. Alone' /\ Requested'
  BY DEF Serves, InGit, local, Calls, Alone, Requested, IsPut
<1>9. Chain'
  <2>1. at' = at
    BY DEF Serves, InGit
  <2>2. /\ \A i \in 1..Len(jobs') :
             \/ jobs'[i].who = "save" /\ jobs'[i].kind = "save" /\ at'["save"] = "saved"
             \/ jobs'[i].who = "op" /\ Asked(at'["op"], jobs'[i].kind)
        /\ \A i \in 1..Len(jobs') : jobs'[i].kind \in {"save", "commit"} => jobs'[i].of \in Docs
    <3>1. ASSUME NEW i \in 1..Len(jobs')
          PROVE  /\ \/ jobs'[i].who = "save" /\ jobs'[i].kind = "save" /\ at'["save"] = "saved"
                    \/ jobs'[i].who = "op" /\ Asked(at'["op"], jobs'[i].kind)
                 /\ jobs'[i].kind \in {"save", "commit"} => jobs'[i].of \in Docs
      <4>1. jobs'[i] = jobs[i + 1] /\ i + 1 \in 1..Len(jobs)
        BY <1>2, <1>3
      <4> QED
        BY <4>1, <2>1 DEF Calls, Chain
    <3> QED
      BY <3>1
  <2>3. \A i, k \in 1..Len(jobs') : jobs'[i].who = jobs'[k].who => i = k
    <3>1. ASSUME NEW i \in 1..Len(jobs'), NEW k \in 1..Len(jobs'), jobs'[i].who = jobs'[k].who PROVE i = k
      <4>1. jobs[i + 1].who = jobs[k + 1].who /\ i + 1 \in 1..Len(jobs) /\ k + 1 \in 1..Len(jobs)
        BY <1>2, <1>3, <3>1
      <4>2. i + 1 = k + 1
        BY <4>1 DEF Calls, Chain
      <4> QED
        BY <1>2, <4>2
    <3> QED
      BY <3>1
  <2>4. ASSUME at["op"] \in {"openedGit", "restoreGit", "mirrored"}, ans'["op"] # <<>>
        PROVE  ans'["op"][1] \in Docs \cup {NoDoc}
    <3>1. CASE j.who = "op"
      <4>1. j.kind \in {"open", "read", "restore"}
        BY <1>2, <1>3, <2>4, <3>1 DEF Calls, Chain, Asked
      <4> QED
        BY <1>5, <2>4, <3>1, <4>1 DEF Serves, Told
    <3>2. CASE j.who = "save"
      BY <1>5, <2>4, <3>2 DEF Calls, Chain, Callers
    <3> QED
      BY <3>1, <3>2 DEF Serves
  <2> QED
    BY <2>1, <2>2, <2>3, <2>4 DEF Chain
<1> QED
  BY <1>2, <1>4, <1>5, <1>7, <1>8, <1>9 DEF Calls, Serves

\* A load of git that ends adds an engine with the snapshot (warmGit, opfs-backend.js).
LEMMA LoadKeeps ==
    ASSUME Calls, GitLoads
    PROVE  Calls'
<1>1. repos \in Seq(Store \cup {NoStore}) /\ Len(repos) \in Nat /\ blob \in Store
  BY LenProperties DEF Calls, EngineTypes
<1>2. /\ repos' \in Seq(Store \cup {NoStore}) /\ Len(repos') >= Len(repos) /\ Len(repos') \in Nat
      /\ git' \in Nat /\ git' <= Len(repos')
  <2>1. CASE repos' = Append(repos, blob) /\ git' = Len(repos')
    BY <1>1, <2>1, AppendProperties
  <2>2. CASE git' = 0 /\ UNCHANGED repos
    BY <1>1, <2>2
  <2> QED
    BY <2>1, <2>2 DEF GitLoads
<1>3. \A i \in 1..Len(jobs) : jobs[i].repo \in 1..Len(repos')
  BY <1>1, <1>2 DEF Calls, EngineTypes
<1>4. (StoreTypes /\ EngineTypes /\ CallTypes)'
  BY <1>2, <1>3 DEF GitLoads, durable, local, calls, counts, Calls, StoreTypes, EngineTypes, CallTypes
<1>5. Alone' /\ Chain' /\ Requested'
  BY DEF GitLoads, durable, local, calls, counts, Calls, Alone, Chain, Requested, IsPut
<1> QED
  BY <1>4, <1>5 DEF Calls

\* The database opens, or does not, and serves one request after the other (openDb).
LEMMA ServeKeeps ==
    ASSUME Calls, Serve
    PROVE  Calls'
<1>1. tx \in Seq(Requests) /\ Len(tx) \in Nat /\ (tx # <<>> => 1 \in 1..Len(tx))
  BY EmptySeq, LenProperties DEF Calls, StoreTypes
<1>2. UNCHANGED <<blob, engine, calls, counts, wiped>>
  BY DEF Serve, DbOpens, DbFails, ServeGet, ServePut, ServeDelete, durable
<1>3. EngineTypes' /\ CallTypes' /\ Chain'
  BY <1>2 DEF engine, calls, Calls, EngineTypes, CallTypes, Chain
<1>4. CASE DbOpens
  <2>1. rec = NoStore /\ at["op"] \in {"boot", "opening"}
    BY <1>4 DEF DbOpens, Calls, Alone, Requested
  <2>2. /\ tx' = [i \in 1..Len(tx) |-> tx[i]]
        /\ UNCHANGED <<disk, rec>> /\ idb' = "open"
    BY <1>4, <2>1 DEF DbOpens, durable
  <2>3. tx' = tx
    BY <1>1, <2>2
  <2>4. StoreTypes' /\ Alone' /\ Requested'
    BY <1>2, <2>2, <2>3 DEF calls, counts, Calls, StoreTypes, Alone, Requested, IsPut
  <2> QED
    BY <1>3, <2>4 DEF Calls
<1>5. CASE DbFails
  <2>1. rec = NoStore /\ UNCHANGED <<disk, rec>> /\ idb' = "failed" /\ tx' = <<>> /\ Len(tx') = 0
    BY <1>5, EmptySeq DEF DbFails, durable, Calls, Alone, Requested
  <2>2. tx' \in Seq(Requests)
    BY <2>1, EmptySeq
  <2>3. StoreTypes' /\ Alone' /\ Requested'
    BY <1>2, <2>1, <2>2 DEF calls, counts, Calls, StoreTypes, Alone, Requested
  <2> QED
    BY <1>3, <2>3 DEF Calls
<1>6. ASSUME idb = "open", tx # <<>>, tx' = Tail(tx), idb' = "open",
             rec' \in Store \cup {NoStore}, disk' \in Store \cup {NoStore},
             Head(tx).kind = "get" \/ rec' = rec
      PROVE  Calls'
  <2>1. /\ tx' \in Seq(Requests) /\ Len(tx') = Len(tx) - 1 /\ Len(tx) \in Nat \ {0} /\ Head(tx) = tx[1]
        /\ \A i \in 1..Len(tx') : tx'[i] = tx[i + 1]
    BY <1>1, <1>6, HeadTailProperties
  <2>2. /\ \A i \in 1..Len(tx') : i + 1 \in 1..Len(tx)
        /\ tx' # <<>> => 1 \in 1..Len(tx') /\ Len(tx') + 1 = Len(tx)
        /\ Len(tx) = 1 => tx' = <<>>
    BY <2>1, EmptySeq, LenProperties
  <2>3. StoreTypes'
    BY <1>2, <1>6, <2>1 DEF counts, Calls, StoreTypes
  <2>4. at' = at
    BY <1>2 DEF calls
  <2>5. Alone'
    <3>1. CASE Head(tx).kind = "get"
      <4>1. at["op"] \in {"opening", "listed"}
        BY <1>1, <1>6, <2>1, <3>1 DEF Calls, Requested, IsPut
      <4> QED
        BY <2>4, <4>1 DEF Calls, Alone, Opening, Clearing, Working
    <3>2. CASE rec' = rec
      BY <2>4, <3>2 DEF Calls, Alone
    <3> QED
      BY <1>6, <3>1, <3>2
  <2>6. Requested'
    <3>1. CASE Head(tx).kind = "get"
      <4>1. tx' = <<>> /\ Len(tx') = 0
        BY <1>1, <1>6, <2>1, <2>2, <3>1 DEF Calls, Requested, IsPut
      <4>2. 1..Len(tx') = {}
        BY <4>1
      <4> QED
        BY <1>6, <4>1, <4>2 DEF Requested
    <3>2. CASE Head(tx).kind # "get" /\ rec' = rec
      <4>1. \A i \in 1..Len(tx') :
              \/ IsPut(tx'[i])
              \/ /\ tx'[i].kind = "delete" /\ tx'[i].who = "op" /\ tx'[i].rec = NoStore
                 /\ i = Len(tx') /\ rec = NoStore /\ at["op"] = "cleared"
        <5>1. ASSUME NEW i \in 1..Len(tx')
              PROVE  \/ IsPut(tx'[i])
                     \/ /\ tx'[i].kind = "delete" /\ tx'[i].who = "op" /\ tx'[i].rec = NoStore
                        /\ i = Len(tx') /\ rec = NoStore /\ at["op"] = "cleared"
          <6>1. tx'[i] = tx[i + 1] /\ i + 1 \in 1..Len(tx) /\ Len(tx) # 1
            BY <2>1, <2>2
          <6>2. i + 1 = Len(tx) => i = Len(tx')
            BY <2>1
          <6> QED
            BY <6>1, <6>2 DEF Calls, Requested
        <5> QED
          BY <5>1
      <4>2. \A i \in 1..Len(tx') : tx'[i].who = "op" =>
              at["op"] \in {"opening", "listed", "mirror", "written", "cleared"}
        BY <2>1, <2>2 DEF Calls, Requested
      <4>3. rec = NoStore /\ at["op"] \notin {"clearing", "cleared"} => FALSE
        BY <1>6, <2>1, <3>2 DEF Calls, Requested
      <4>4. at["op"] = "cleared" /\ tx' # <<>> => tx'[Len(tx')].kind = "delete"
        <5>1. tx' # <<>> => Len(tx') \in 1..Len(tx') /\ tx'[Len(tx')] = tx[Len(tx)]
          BY <2>1, <2>2
        <5> QED
          BY <1>6, <5>1 DEF Calls, Requested
      <4>5. at["op"] # "boot"
        BY <1>6 DEF Calls, Requested
      <4> QED
        BY <1>6, <2>4, <3>2, <4>1, <4>2, <4>3, <4>4, <4>5 DEF Requested
    <3> QED
      BY <1>6, <3>1, <3>2
  <2> QED
    BY <1>3, <2>3, <2>5, <2>6 DEF Calls
<1>7. CASE ServeGet
  BY <1>6, <1>7 DEF ServeGet, durable, Calls, StoreTypes
<1>8. CASE ServePut
  <2>1. Head(tx) \in Requests
    BY <1>1, <1>8, HeadTailProperties DEF ServePut
  <2>2. Head(tx).rec \in Store \cup {NoStore}
    BY <2>1 DEF Requests
  <2> QED
    BY <1>6, <1>8, <2>2 DEF ServePut, Calls, StoreTypes
<1>9. CASE ServeDelete
  BY <1>6, <1>9 DEF ServeDelete, Calls, StoreTypes
<1> QED
  BY <1>4, <1>5, <1>7, <1>8, <1>9 DEF Serve

LEMMA CallsStep ==
    ASSUME Calls, [Next]_vars
    PROVE  Calls'
<1>1. CASE Serve
  BY <1>1, ServeKeeps
<1>2. CASE RunGit
  <2>1. CASE GitLoads
    BY <2>1, LoadKeeps
  <2>2. CASE ~GitLoads
    BY <1>2, <2>2, GitServes, ServesKeeps DEF RunGit
  <2> QED
    BY <2>1, <2>2
<1>3. CASE Facade
  BY <1>3, OpenKeeps, ListKeeps, SaveKeeps, CommitKeeps, RestoreKeeps, ClearKeeps DEF Facade
<1>4. CASE Reload
  BY <1>4, FreshPageKeeps DEF Reload, durable, Calls, StoreTypes, EngineTypes
<1>5. CASE UNCHANGED vars
  <2>1. (StoreTypes /\ EngineTypes /\ CallTypes)'
    BY <1>5 DEF vars, durable, local, engine, calls, counts, Calls, StoreTypes, EngineTypes, CallTypes
  <2>2. Alone' /\ Chain' /\ Requested'
    BY <1>5 DEF vars, durable, local, engine, calls, counts, Calls, Alone, Chain, Requested, IsPut
  <2> QED
    BY <2>1, <2>2 DEF Calls
<1> QED
  BY <1>1, <1>2, <1>3, <1>4, <1>5 DEF Next, Rests

LEMMA CallsHold == ~Overlap /\ Spec => []Calls
<1>1. Calls /\ [Next]_vars => Calls'
  BY CallsStep
<1> QED
  BY <1>1, CallsInit, PTL DEF Spec

-----------------------------------------------------------------------------
(* The record, the requests that write it, and the stored one.             *)

Committing == {"written", "committed"}

\* A step that leaves record and database alone; only a commit that was answered goes on with it.
Still ==
    /\ UNCHANGED <<rec, tx, disk, idb, failed>>
    /\ idb = "open" /\ at["op"] \in {"boot", "clearing"} => at'["op"] \in {"boot", "clearing"}
    /\ at'["op"] \in Committing =>
         \/ at'["op"] = at["op"]
         \/ at["op"] = "written" /\ at'["op"] = "committed" /\ Answered("op")

\* Where a version comes from: the user, or git.
CommitsAs(id) == CommitCall /\ id = edits'
MirrorsAs(id) == MirrorOne("op") /\ ans["op"] # <<>> /\ id = ans["op"][1]

\* A step that writes: the working copy, or a version behind the others.
Writes(p) ==
    /\ rec' \in Store /\ Persist(p) /\ UNCHANGED <<disk, idb, failed>>
    /\ idb # "opening" /\ (idb = "failed" => tx = <<>>) /\ (rec = NoStore => tx = <<>>)
    /\ at["op"] \notin {"boot", "clearing"}
    /\ \A i \in 1..Len(tx) : IsPut(tx[i])
    /\ \/ rec'.log = Listing
       \/ \E id \in Ids : rec'.log = Append(Listing, id) /\ (CommitsAs(id) \/ MirrorsAs(id))
    /\ at'["op"] \in Committing =>
         \/ p = "op" /\ at'["op"] = "written" /\ Answered("op")
         \/ p = Nobody /\ at'["op"] = at["op"] /\ rec # NoStore /\ rec'.log = rec.log

\* A step after which the page has no record: it does not yet, or a clear has taken it.
Blanks ==
    /\ rec' = NoStore /\ UNCHANGED disk
    /\ idb' = "open" =>
         /\ UNCHANGED failed
         /\ tx' = <<>> => at'["op"] \in {"boot", "clearing"}
         /\ \A i \in 1..Len(tx') : IsPut(tx'[i]) => i \in 1..Len(tx) /\ tx'[i] = tx[i] /\ idb = "open"

\* What a write may come on top of.
LEMMA Writable ==
    ASSUME Calls, at["op"] \in Working \/ (Answered("op") /\ at["op"] \notin {"boot", "clearing"})
    PROVE  /\ idb # "opening" /\ (idb = "failed" => tx = <<>>) /\ (rec = NoStore => tx = <<>>)
           /\ at["op"] \notin {"boot", "clearing"}
           /\ \A i \in 1..Len(tx) : IsPut(tx[i])
<1>1. CASE at["op"] \in Working
  BY <1>1 DEF Calls, Alone, Requested, Working
<1>2. CASE Answered("op") /\ at["op"] \notin {"boot", "clearing"}
  BY <1>2, Quiet DEF Calls, Requested
<1> QED
  BY <1>1, <1>2

\* A question to the database, with nothing else on its way or behind what is.
LEMMA Questions ==
    ASSUME Calls, rec = NoStore, rec' = NoStore, UNCHANGED <<disk, idb, failed>>,
           NEW k \in {"get", "delete"}, Submit(Request("op", k, NoStore)), tx' # tx
    PROVE  Blanks
<1> DEFINE r == Request("op", k, NoStore)
<1>1. r \in Requests /\ ~IsPut(r)
  BY DEF Request, Requests, IsPut
<1> HIDE DEF r
<1>2. /\ Len(tx') = Len(tx) + 1 /\ tx' # <<>> /\ Len(tx) \in Nat
      /\ \A i \in 1..Len(tx) : tx'[i] = tx[i]
      /\ tx'[Len(tx) + 1] = r
  BY <1>1, SubmitsLast DEF Calls, StoreTypes, r
<1>3. \A i \in 1..Len(tx') : IsPut(tx'[i]) => i \in 1..Len(tx) /\ tx'[i] = tx[i]
  BY <1>1, <1>2
<1> QED
  BY <1>2, <1>3 DEF Blanks

LEMMA OpenWrites ==
    ASSUME Calls, OpenCall \/ OpenGit \/ OpenEnd \/ Tip \/ ReadTip \/ TipRead
    PROVE  Still \/ Blanks \/ \E p \in {"op", Nobody} : Writes(p)
<1>1. CASE OpenCall
  <2>1. rec = NoStore /\ rec' = NoStore /\ tx = <<>> /\ at["op"] = "boot" /\ at'["op"] = "opening"
    BY <1>1 DEF OpenCall, Goto, Calls, CallTypes, Callers, Alone, Requested
  <2>2. UNCHANGED <<disk, idb, failed>> /\ Submit(Request("op", "get", NoStore))
    BY <1>1, <2>1 DEF OpenCall, Hydrate, Local, durable
  <2>3. CASE tx' = tx
    <3>1. idb = "failed"
      <4>1. Request("op", "get", NoStore) \in Requests
        BY DEF Request, Requests
      <4> QED
        BY <2>2, <2>3, <4>1, SubmitsLast DEF Calls, StoreTypes
    <3> QED
      BY <2>1, <2>2, <2>3, <3>1 DEF Still, Committing
  <2>4. CASE tx' # tx
    BY <2>1, <2>2, <2>4, Questions
  <2> QED
    BY <2>3, <2>4
<1>2. CASE OpenEnd /\ ans["op"] # <<>>
  <2>1. ans["op"][1] \in Docs \cup {NoDoc} /\ at["op"] = "openedGit" /\ at'["op"] = "tip" /\ Answered("op")
    BY <1>2 DEF OpenEnd, Goto, Calls, CallTypes, Callers, Chain
  <2>2. rec' \in Store /\ rec'.log = Listing
    BY <1>2, <2>1, RecordShape, WorktreeKeepsLog DEF OpenEnd, Calls, StoreTypes
  <2>3. Writes(Nobody)
    BY <1>2, <2>1, <2>2, Writable DEF OpenEnd, Local, durable, Writes, Committing
  <2> QED
    BY <2>3
<1>3. CASE OpenGit \/ Tip \/ ReadTip \/ TipRead \/ (OpenEnd /\ ans["op"] = <<>>)
  <2>1. /\ UNCHANGED <<rec, tx, disk, idb, failed>>
        /\ at["op"] \in {"opening", "tip", "tipGit", "tipRead", "openedGit"}
        /\ at'["op"] \in {"openedGit", "tip", "tipGit", "tipRead", "list"}
    BY <1>3 DEF OpenGit, Tip, ReadTip, TipRead, OpenEnd, Goto, Local, durable, Calls, CallTypes, Callers
  <2> QED
    BY <2>1 DEF Still, Committing
<1> QED
  BY <1>1, <1>2, <1>3

LEMMA ListWrites ==
    ASSUME Calls, NEW q \in {"op", "list"},
           ListCall(q) \/ ListRead(q) \/ MirrorBegin(q) \/ Mirror(q) \/ MirrorOne(q) \/ MirrorEnd(q)
    PROVE  Still \/ Blanks \/ \E p \in {"op", Nobody} : Writes(p)
<1>1. CASE q = "list"
  <2>1. at["list"] = "idle" /\ ListCall("list") /\ ~Busy
    BY <1>1 DEF Calls, Alone, ListCall, ListRead, MirrorBegin, Mirror, MirrorOne, MirrorEnd
  <2>2. at["op"] \in Working
    BY <2>1 DEF Calls, Alone, Busy, Opening, Clearing
  <2>3. UNCHANGED <<rec, tx, disk, idb, failed>>
    BY <2>1, <2>2 DEF ListCall, Hydrate, Local, durable, Calls, Alone
  <2>4. at'["op"] = at["op"]
    BY <2>1, <2>3 DEF ListCall, GitIfEmpty, ListEnd, Goto, Calls, CallTypes, Callers
  <2> QED
    BY <2>2, <2>3, <2>4 DEF Still, Working
<1>2. CASE q = "op" /\ MirrorOne(q) /\ ans["op"] # <<>>
  <2>1. ans["op"][1] \in Ids /\ at["op"] = "mirrored" /\ at'["op"] = "mirror" /\ Answered("op")
    BY <1>2, Answers DEF MirrorOne, Goto, Calls, CallTypes, Callers
  <2>2. rec' \in Store /\ rec'.log = Append(Listing, ans["op"][1])
    BY <1>2, <2>1, RecordShape, VersionIsAppended DEF MirrorOne, Calls, StoreTypes
  <2>3. MirrorsAs(ans["op"][1])
    BY <1>2 DEF MirrorsAs
  <2>4. Writes("op")
    BY <1>2, <2>1, <2>2, <2>3, Writable DEF MirrorOne, Local, durable, Writes, Committing
  <2> QED
    BY <2>4
<1>3. CASE q = "op" /\ ListCall(q) /\ tx' # tx
  <2>1. rec = NoStore /\ rec' = NoStore /\ Submit(Request("op", "get", NoStore))
    BY <1>3 DEF ListCall, Hydrate
  <2> QED
    BY <1>3, <2>1, Questions DEF ListCall, Local, durable
<1>4. CASE q = "op" /\ ~(MirrorOne(q) /\ ans["op"] # <<>>) /\ ~(ListCall(q) /\ tx' # tx)
  <2>1. /\ UNCHANGED <<rec, tx, disk, idb, failed>>
        /\ at["op"] \in {"list", "listed", "listGit", "mirror", "mirrored"}
        /\ at'["op"] \in {"listGit", "mirror", "mirrored", "idle", "reseed"}
    BY <1>4 DEF ListCall, ListRead, MirrorBegin, Mirror, MirrorOne, MirrorEnd, GitIfEmpty, ListEnd, Goto, Local,
                durable, Calls, CallTypes, Callers
  <2> QED
    BY <2>1 DEF Still, Committing
<1> QED
  BY <1>1, <1>2, <1>3, <1>4

LEMMA SaveWrites ==
    ASSUME Calls, SaveCall \/ SaveEnd
    PROVE  Still \/ \E p \in {"op", Nobody} : Writes(p)
<1>1. at'["op"] = at["op"]
  BY DEF SaveCall, SaveEnd, Goto, Calls, CallTypes, Callers
<1>2. CASE SaveEnd
  BY <1>1, <1>2 DEF SaveEnd, Local, durable, Still
<1>3. CASE SaveCall
  <2>1. at["op"] \in Working /\ rec # NoStore
    BY <1>3 DEF SaveCall, Busy, Calls, Alone, Opening, Clearing
  <2>2. edits' \in Docs
    BY <1>3, BoundsAssumption DEF SaveCall, Calls, StoreTypes, Docs, NoDoc
  <2>3. rec' \in Store /\ rec'.log = rec.log /\ rec.log = Listing
    BY <1>3, <2>1, <2>2, RecordShape, WorktreeKeepsLog DEF SaveCall, Calls, StoreTypes
  <2>4. Writes(Nobody)
    BY <1>1, <1>3, <2>1, <2>3, Writable DEF SaveCall, Local, durable, Writes
  <2> QED
    BY <2>4
<1> QED
  BY <1>2, <1>3

LEMMA CommitWrites ==
    ASSUME Calls, CommitCall \/ CommitGit \/ CommitEnd
    PROVE  Still \/ \E p \in {"op", Nobody} : Writes(p)
<1>1. CASE CommitCall
  <2>1. /\ edits' \in Ids /\ at["op"] \in {"idle", "reseed"} /\ at'["op"] = "written" /\ Answered("op")
    BY <1>1, IdleIsAnswered, BoundsAssumption
    DEF CommitCall, Goto, Calls, StoreTypes, CallTypes, Callers, Docs, NoDoc, Ids
  <2>2. rec' \in Store /\ rec'.log = Append(Listing, edits')
    BY <1>1, <2>1, RecordShape, VersionIsAppended DEF CommitCall, Calls, StoreTypes
  <2>3. CommitsAs(edits')
    BY <1>1 DEF CommitsAs
  <2>4. Writes("op")
    BY <1>1, <2>1, <2>2, <2>3, Writable DEF CommitCall, Local, durable, Writes
  <2> QED
    BY <2>4
<1>2. CASE CommitGit \/ CommitEnd
  <2>1. /\ UNCHANGED <<rec, tx, disk, idb, failed>> /\ Answered("op")
        /\ \/ at["op"] = "written" /\ at'["op"] = "committed"
           \/ at["op"] = "committed" /\ at'["op"] = "idle"
    BY <1>2 DEF CommitGit, CommitEnd, Goto, Local, durable, Calls, CallTypes, Callers
  <2> QED
    BY <2>1 DEF Still, Committing
<1> QED
  BY <1>1, <1>2

LEMMA RestoreWrites ==
    ASSUME Calls, RestoreCall \/ RestoreEnd
    PROVE  Still \/ \E p \in {"op", Nobody} : Writes(p)
<1>1. /\ at["op"] \in {"idle", "restoreGit"} /\ rec # NoStore
      /\ Record = rec /\ Record \in Store /\ Listing = rec.log
  BY RecordShape DEF RestoreCall, RestoreEnd, Calls, StoreTypes, Alone, Working
<1>2. at'["op"] \in {"idle", "restoreGit"}
  BY DEF RestoreCall, RestoreEnd, Goto, Calls, CallTypes, Callers
<1>3. CASE UNCHANGED <<rec, tx>>
  BY <1>1, <1>2, <1>3 DEF RestoreCall, RestoreEnd, Local, durable, Still, Committing
<1>4. ASSUME NEW d \in Docs \cup {NoDoc}, rec' = WithWorktree(Record, d), Persist(Nobody)
      PROVE  Writes(Nobody)
  <2>1. rec' \in Store /\ rec'.log = rec.log
    BY <1>1, <1>4, WorktreeKeepsLog
  <2>2. at["op"] \in Working
    BY <1>1 DEF Working
  <2> QED
    BY <1>1, <1>2, <1>4, <2>1, <2>2, Writable DEF RestoreCall, RestoreEnd, Local, durable, Writes, Committing
<1>5. CASE RestoreCall /\ ~UNCHANGED <<rec, tx>>
  <2>1. PICK id \in ToSet(listed) : rec' = WithWorktree(Record, DocOf(id)) /\ Persist(Nobody)
    BY <1>5 DEF RestoreCall
  <2>2. id \in Ids
    BY LenProperties DEF ToSet, Calls, CallTypes
  <2> QED
    BY <1>4, <2>1, <2>2, DocOfId
<1>6. CASE RestoreEnd /\ ~UNCHANGED <<rec, tx>>
  <2>1. ans["op"] # <<>> /\ ans["op"][1] \in Docs \cup {NoDoc}
    BY <1>6 DEF RestoreEnd, Calls, Chain
  <2> QED
    BY <1>4, <1>6, <2>1 DEF RestoreEnd
<1> QED
  BY <1>3, <1>5, <1>6

LEMMA ClearWrites ==
    ASSUME Calls, ClearCall \/ ClearDelete \/ ClearGit \/ ClearClose \/ ClearEnd
    PROVE  Still \/ Blanks
<1>1. CASE ClearCall
  BY <1>1 DEF ClearCall, Goto, Local, durable, Calls, StoreTypes, CallTypes, Callers, Requested, Blanks
<1>2. CASE ClearDelete
  <2>1. /\ rec = NoStore /\ rec' = NoStore /\ UNCHANGED <<disk, idb, failed>>
        /\ Submit(Request("op", "delete", NoStore)) /\ at["op"] = "clearing" /\ at'["op"] = "cleared"
    BY <1>2 DEF ClearDelete, Goto, Local, durable, Calls, Alone, Clearing, CallTypes, Callers
  <2>2. CASE tx' = tx
    <3>1. idb = "failed"
      <4>1. Request("op", "delete", NoStore) \in Requests
        BY DEF Request, Requests
      <4> QED
        BY <2>1, <2>2, <4>1, SubmitsLast DEF Calls, StoreTypes
    <3> QED
      BY <2>1, <2>2, <3>1 DEF Still, Committing
  <2>3. CASE tx' # tx
    BY <2>1, <2>3, Questions
  <2> QED
    BY <2>2, <2>3
<1>3. CASE ClearGit \/ ClearClose \/ ClearEnd
  <2>1. /\ UNCHANGED <<rec, tx, disk, idb, failed>>
        /\ at["op"] \in {"cleared", "cleanGit", "closedGit"}
        /\ at'["op"] \in {"cleanGit", "closedGit", "reseed"}
    BY <1>3 DEF ClearGit, ClearClose, ClearEnd, Goto, Local, durable, local, Calls, CallTypes, Callers
  <2> QED
    BY <2>1 DEF Still, Committing
<1> QED
  BY <1>1, <1>2, <1>3

\* What a step does to the record and the database.
LEMMA Stores ==
    ASSUME Calls, [Next]_vars
    PROVE  \/ Still \/ Blanks \/ \E p \in {"op", Nobody} : Writes(p)
           \/ ServeGet \/ ServePut \/ ServeDelete
<1>1. CASE Facade
  BY <1>1, OpenWrites, ListWrites, SaveWrites, CommitWrites, RestoreWrites, ClearWrites DEF Facade
<1>2. CASE RunGit
  BY <1>2 DEF RunGit, GitOpen, GitTip, GitList, GitSave, GitCommit, GitWriteFails, GitReadVersion, GitRestore,
              GitClear, GitClose, InGit, GitLoads, durable, local, calls, Still
<1>3. CASE DbOpens
  <2>1. /\ rec = NoStore /\ rec' = NoStore /\ UNCHANGED <<disk, failed>>
        /\ at' = at /\ at["op"] \in {"boot", "opening"} /\ (at["op"] = "opening" => tx # <<>>)
    BY <1>3 DEF DbOpens, durable, calls, Calls, Alone, Requested
  <2>2. tx' = [i \in 1..Len(tx) |-> tx[i]] /\ tx \in Seq(Requests)
    BY <1>3, <2>1 DEF DbOpens, Calls, StoreTypes
  <2>3. tx' = tx
    BY <2>2
  <2>4. \A i \in 1..Len(tx) : ~IsPut(tx[i])
    <3>1. CASE tx = <<>>
      BY <3>1, EmptySeq
    <3>2. CASE tx # <<>>
      <4>1. tx[1].kind = "get" /\ 1 \in 1..Len(tx)
        BY <2>1, <2>2, <3>2, EmptySeq, LenProperties DEF Calls, Requested
      <4>2. Len(tx) = 1
        BY <4>1 DEF Calls, Requested, IsPut
      <4>3. \A i \in 1..1 : i = 1
        OBVIOUS
      <4> QED
        BY <4>1, <4>2, <4>3 DEF IsPut
    <3> QED
      BY <3>1, <3>2
  <2> QED
    BY <2>1, <2>3, <2>4 DEF Blanks
<1>4. CASE DbFails
  BY <1>4 DEF DbFails, durable, Calls, Alone, Requested, Blanks
<1>5. CASE Reload
  BY <1>5 DEF Reload, FreshPage, durable, Blanks
<1>6. CASE UNCHANGED vars
  BY <1>6 DEF vars, durable, local, calls, Still
<1> QED
  BY <1>1, <1>2, <1>3, <1>4, <1>5, <1>6 DEF Next, Serve, Rests

-----------------------------------------------------------------------------
(* The last write has the record.                                          *)

LastWrite ==
    idb = "open" /\ rec # NoStore =>
        IF tx = <<>> THEN "put" \in failed \/ disk = rec ELSE tx[Len(tx)].rec = rec

LEMMA LastWriteStep ==
    ASSUME Calls, LastWrite, [Next]_vars
    PROVE  LastWrite'
<1>1. tx \in Seq(Requests) /\ Len(tx) \in Nat /\ (tx # <<>> => Len(tx) \in 1..Len(tx))
  BY EmptySeq, LenProperties DEF Calls, StoreTypes
<1>2. CASE Still
  BY <1>2 DEF Still, LastWrite
<1>3. CASE Blanks
  BY <1>3 DEF Blanks, LastWrite
<1>4. ASSUME NEW p \in {"op", Nobody}, Writes(p) PROVE LastWrite'
  <2>1. /\ idb = "open" =>
             /\ Len(tx') = Len(tx) + 1 /\ tx' # <<>>
             /\ tx'[Len(tx) + 1].rec = rec'
        /\ idb' = idb
    BY <1>4, WriteRequested DEF Writes, Calls
  <2> QED
    BY <2>1 DEF LastWrite
<1>5. CASE ServeGet
  <2>1. tx' = <<>>
    <3>1. tx # <<>> /\ tx[1] = Head(tx) /\ Len(tx) = 1
      BY <1>1, <1>5, HeadTailProperties, EmptySeq DEF ServeGet, Calls, Requested, IsPut
    <3> QED
      BY <1>1, <1>5, <3>1, HeadTailProperties, EmptySeq DEF ServeGet
  <2>2. rec = NoStore
    BY <1>1, <1>5, HeadTailProperties DEF ServeGet, Calls, Requested, IsPut
  <2>3. UNCHANGED disk /\ rec' \in {rec, disk}
    BY <1>5 DEF ServeGet, durable
  <2> QED
    BY <2>1, <2>2, <2>3 DEF LastWrite
<1>6. CASE ServePut
  <2>1. /\ idb = "open" /\ UNCHANGED <<rec, idb>> /\ tx' = Tail(tx) /\ tx # <<>>
        /\ (disk' = tx[1].rec \/ "put" \in failed')
    BY <1>1, <1>6, HeadTailProperties DEF ServePut
  <2>2. /\ tx' \in Seq(Requests) /\ Len(tx') = Len(tx) - 1
        /\ \A i \in 1..Len(tx') : tx'[i] = tx[i + 1]
    BY <1>1, <2>1, HeadTailProperties
  <2>3. CASE tx' = <<>>
    <3>1. Len(tx) = 1
      BY <1>1, <2>2, <2>3, EmptySeq
    <3> QED
      BY <2>1, <2>3, <3>1 DEF LastWrite
  <2>4. CASE tx' # <<>>
    <3>1. Len(tx') \in 1..Len(tx') /\ tx'[Len(tx')] = tx[Len(tx)]
      BY <1>1, <2>2, <2>4, EmptySeq
    <3> QED
      BY <2>1, <2>4, <3>1 DEF LastWrite
  <2> QED
    BY <2>3, <2>4
<1>7. CASE ServeDelete
  <2>1. tx[1].kind = "delete" /\ 1 \in 1..Len(tx) /\ UNCHANGED rec
    BY <1>1, <1>7, HeadTailProperties DEF ServeDelete
  <2>2. rec' = NoStore
    BY <2>1 DEF Calls, Requested, IsPut
  <2> QED
    BY <2>2 DEF LastWrite
<1> QED
  BY <1>2, <1>3, <1>4, <1>5, <1>6, <1>7, Stores

\* Once IndexedDB has answered everything, and unless its last write failed, it has exactly what the
\* page shows: the put of every change of the record carries it whole and comes last (persist,
\* opfs-backend.js), and a record that is read is the stored one.
THEOREM DatabaseHasRecord == ~Overlap => (Spec => []AtRest)
<1>1. Init => LastWrite
  BY DEF Init, LastWrite
<1>2. Calls /\ LastWrite /\ [Next]_vars => LastWrite'
  BY LastWriteStep
<1>3. LastWrite => AtRest
  BY DEF LastWrite, AtRest
<1> QED
  BY <1>1, <1>2, <1>3, CallsHold, PTL DEF Spec

-----------------------------------------------------------------------------
(* Timelines grow.                                                         *)

\* One timeline begins another.
Begins(s, t) == Len(s) <= Len(t) /\ \A i \in 1..Len(s) : s[i] = t[i]

LEMMA PrefixBegins ==
    ASSUME NEW s \in Seq(Ids), NEW t \in Seq(Ids)
    PROVE  IsPrefix(s, t) <=> Begins(s, t)
<1>1. Len(s) \in Nat /\ Len(t) \in Nat
  BY LenProperties
<1>2. CASE Len(s) <= Len(t)
  <2>1. /\ SubSeq(s, 1, Len(s)) \in Seq(Ids) /\ Len(SubSeq(s, 1, Len(s))) = Len(s)
        /\ \A i \in 1..Len(s) : SubSeq(s, 1, Len(s))[i] = s[i]
    BY <1>1
  <2>2. /\ SubSeq(t, 1, Len(s)) \in Seq(Ids) /\ Len(SubSeq(t, 1, Len(s))) = Len(s)
        /\ \A i \in 1..Len(s) : SubSeq(t, 1, Len(s))[i] = t[i]
    BY <1>1, <1>2
  <2>3. Begins(s, t) => SubSeq(s, 1, Len(s)) = SubSeq(t, 1, Len(s))
    BY <2>1, <2>2, SeqEqual DEF Begins
  <2>4. SubSeq(s, 1, Len(s)) = SubSeq(t, 1, Len(s)) => Begins(s, t)
    BY <1>2, <2>1, <2>2 DEF Begins
  <2> QED
    BY <1>2, <2>3, <2>4 DEF IsPrefix
<1>3. CASE ~(Len(s) <= Len(t))
  BY <1>3 DEF IsPrefix, Begins
<1> QED
  BY <1>2, <1>3

LEMMA BeginsItself ==
    ASSUME NEW s \in Seq(Ids)
    PROVE  Begins(s, s)
  BY LenProperties DEF Begins

LEMMA BeginsThrough ==
    ASSUME NEW s \in Seq(Ids), NEW t \in Seq(Ids), NEW u \in Seq(Ids), Begins(s, t), Begins(t, u)
    PROVE  Begins(s, u)
  BY LenProperties DEF Begins

LEMMA BeginsAppended ==
    ASSUME NEW s \in Seq(Ids), NEW id \in Ids
    PROVE  Append(s, id) \in Seq(Ids) /\ Begins(s, Append(s, id))
  BY AppendProperties, LenProperties DEF Begins

\* What is stored, each write on its way, and the record begin one another, in that order, unless
\* a read failed; without a record and with nothing on its way there is nothing stored.
Grown ==
    idb = "open" /\ "get" \notin failed =>
      /\ rec = NoStore /\ tx = <<>> /\ at["op"] \notin {"boot", "clearing"} => disk = NoStore
      /\ rec # NoStore /\ disk # NoStore => Begins(disk.log, rec.log)
      /\ \A i \in 1..Len(tx) : IsPut(tx[i]) =>
           /\ disk # NoStore => Begins(disk.log, tx[i].rec.log)
           /\ rec # NoStore => Begins(tx[i].rec.log, rec.log)
           /\ \A k \in i..Len(tx) : IsPut(tx[k]) => Begins(tx[i].rec.log, tx[k].rec.log)

LEMMA GrownStep ==
    ASSUME Calls, Grown, [Next]_vars
    PROVE  Grown'
<1>1. /\ tx \in Seq(Requests) /\ Len(tx) \in Nat /\ (tx # <<>> => 1 \in 1..Len(tx))
      /\ disk \in Store \cup {NoStore} /\ rec \in Store \cup {NoStore}
  BY EmptySeq, LenProperties DEF Calls, StoreTypes
<1>2. CASE Still
  <2>1. UNCHANGED <<rec, tx, disk, idb, failed>>
    BY <1>2 DEF Still
  <2>2. idb = "open" /\ at'["op"] \notin {"boot", "clearing"} => at["op"] \notin {"boot", "clearing"}
    BY <1>2 DEF Still
  <2> QED
    BY <2>1, <2>2 DEF Grown, IsPut
<1>3. CASE Blanks
  <2> SUFFICES ASSUME idb' = "open", "get" \notin failed' PROVE Grown'
    BY DEF Grown
  <2>1. /\ rec' = NoStore /\ UNCHANGED <<disk, failed>> /\ (tx' = <<>> => at'["op"] \in {"boot", "clearing"})
        /\ \A i \in 1..Len(tx') : IsPut(tx'[i]) => i \in 1..Len(tx) /\ tx'[i] = tx[i] /\ idb = "open"
    BY <1>3 DEF Blanks
  <2>2. tx' \in Seq(Requests) /\ Len(tx') \in Nat
    BY CallsStep, LenProperties DEF Calls, StoreTypes
  <2>3. ASSUME NEW i \in 1..Len(tx'), IsPut(tx'[i])
        PROVE  /\ disk' # NoStore => Begins(disk'.log, tx'[i].rec.log)
               /\ \A k \in i..Len(tx') : IsPut(tx'[k]) => Begins(tx'[i].rec.log, tx'[k].rec.log)
    <3>1. i \in 1..Len(tx) /\ tx'[i] = tx[i] /\ idb = "open" /\ "get" \notin failed
      BY <2>1, <2>3
    <3>2. ASSUME NEW k \in i..Len(tx'), IsPut(tx'[k]) PROVE k \in i..Len(tx) /\ tx'[k] = tx[k]
      <4>1. k \in 1..Len(tx')
        BY <2>2, <3>2
      <4> QED
        BY <1>1, <2>1, <3>2, <4>1
    <3> QED
      BY <2>1, <2>3, <3>1, <3>2 DEF Grown
  <2> QED
    BY <2>1, <2>3 DEF Grown
<1>4. ASSUME NEW p \in {"op", Nobody}, Writes(p) PROVE Grown'
  <2> SUFFICES ASSUME idb' = "open", "get" \notin failed' PROVE Grown'
    BY DEF Grown
  <2>1. /\ idb = "open" /\ "get" \notin failed /\ UNCHANGED disk /\ rec' \in Store /\ rec' # NoStore
        /\ (rec = NoStore => tx = <<>>) /\ at["op"] \notin {"boot", "clearing"}
    BY <1>4, StoreShape DEF Writes
  <2>2. /\ Len(tx') = Len(tx) + 1
        /\ \A i \in 1..Len(tx) : tx'[i] = tx[i]
        /\ tx'[Len(tx) + 1].rec = rec'
        /\ \A i \in 1..Len(tx) : IsPut(tx[i])
    BY <1>4, <2>1, WriteRequested DEF Writes, Calls
  <2>3. /\ rec'.log \in Seq(Ids) /\ (rec # NoStore => rec.log \in Seq(Ids) /\ Begins(rec.log, rec'.log))
        /\ (disk # NoStore => disk.log \in Seq(Ids))
        /\ \A i \in 1..Len(tx) : tx[i].rec.log \in Seq(Ids)
    <3>1. rec # NoStore => rec.log \in Seq(Ids) /\ Listing = rec.log
      BY <1>1, StoreShape, RecordShape
    <3>2. rec # NoStore => Begins(rec.log, rec'.log)
      BY <1>4, <3>1, BeginsItself, BeginsAppended DEF Writes
    <3>3. rec'.log \in Seq(Ids) /\ (disk # NoStore => disk.log \in Seq(Ids))
      BY <1>1, <2>1, StoreShape
    <3>4. \A i \in 1..Len(tx) : tx[i].rec.log \in Seq(Ids)
      BY <2>2, StoreShape DEF IsPut
    <3> QED
      BY <3>1, <3>2, <3>3, <3>4
  <2>4. disk # NoStore => Begins(disk.log, rec'.log)
    <3>1. disk # NoStore => rec # NoStore
      BY <2>1 DEF Grown
    <3> QED
      BY <2>1, <2>3, <3>1, BeginsThrough DEF Grown
  <2>5. \A i \in 1..Len(tx) : Begins(tx[i].rec.log, rec'.log)
    <3>1. ASSUME NEW i \in 1..Len(tx) PROVE Begins(tx[i].rec.log, rec'.log)
      <4>1. rec # NoStore
        BY <1>1, <2>1, EmptySeq, <3>1
      <4>2. Begins(tx[i].rec.log, rec.log)
        BY <2>1, <2>2, <4>1 DEF Grown
      <4> QED
        BY <2>3, <4>1, <4>2, BeginsThrough
    <3> QED
      BY <3>1
  <2>6. \A i \in 1..Len(tx') : i \in 1..Len(tx) \/ i = Len(tx) + 1
    BY <1>1, <2>2
  <2>7. ASSUME NEW i \in 1..Len(tx')
        PROVE  /\ disk # NoStore => Begins(disk.log, tx'[i].rec.log)
               /\ Begins(tx'[i].rec.log, rec'.log)
               /\ \A k \in i..Len(tx') : Begins(tx'[i].rec.log, tx'[k].rec.log)
    <3>1. CASE i = Len(tx) + 1
      <4>1. \A k \in i..Len(tx') : k = i
        BY <1>1, <2>2, <3>1
      <4> QED
        BY <2>2, <2>3, <2>4, <3>1, <4>1, BeginsItself
    <3>2. CASE i \in 1..Len(tx)
      <4>1. ASSUME NEW k \in i..Len(tx') PROVE Begins(tx'[i].rec.log, tx'[k].rec.log)
        <5>1. k \in i..Len(tx) \/ k = Len(tx) + 1
          BY <1>1, <2>2, <4>1
        <5>2. k \in i..Len(tx) => k \in 1..Len(tx)
          BY <3>2
        <5> QED
          BY <2>1, <2>2, <2>5, <3>2, <5>1, <5>2 DEF Grown
      <4> QED
        BY <2>1, <2>2, <2>5, <3>2, <4>1 DEF Grown
    <3> QED
      BY <2>6, <3>1, <3>2
  <2> QED
    BY <2>1, <2>4, <2>7 DEF Grown
<1>5. CASE ServeGet
  <2>1. tx' = <<>> /\ Len(tx') = 0 /\ UNCHANGED disk /\ rec = NoStore
    <3>1. tx # <<>> /\ tx[1] = Head(tx) /\ Len(tx) = 1 /\ rec = NoStore
      BY <1>1, <1>5, HeadTailProperties, EmptySeq DEF ServeGet, Calls, Requested, IsPut
    <3> QED
      BY <1>1, <1>5, <3>1, HeadTailProperties, EmptySeq DEF ServeGet, durable
  <2>2. "get" \in failed' \/ rec' = disk
    BY <1>5, <2>1 DEF ServeGet
  <2>3. rec' # NoStore => Begins(rec'.log, rec'.log)
    BY <1>1, <1>5, <2>1, StoreShape, BeginsItself DEF ServeGet
  <2>4. 1..Len(tx') = {}
    BY <2>1
  <2> QED
    BY <2>1, <2>2, <2>3, <2>4 DEF Grown
<1>6. CASE ServePut
  <2> SUFFICES ASSUME idb' = "open", "get" \notin failed' PROVE Grown'
    BY DEF Grown
  <2>1. /\ idb = "open" /\ UNCHANGED <<rec, idb, at>> /\ tx' = Tail(tx) /\ tx # <<>> /\ "get" \notin failed
        /\ (disk' = tx[1].rec \/ disk' = disk) /\ tx[1].kind = "put"
    BY <1>1, <1>6, HeadTailProperties DEF ServePut, calls
  <2>2. /\ tx' \in Seq(Requests) /\ Len(tx') = Len(tx) - 1
        /\ \A i \in 1..Len(tx') : tx'[i] = tx[i + 1]
    BY <1>1, <2>1, HeadTailProperties
  <2>3. IsPut(tx[1]) /\ 1 \in 1..Len(tx)
    BY <1>1, <2>1 DEF Calls, Requested
  <2>4. rec = NoStore /\ tx' = <<>> => at["op"] = "clearing"
    <3>1. tx' = <<>> => Len(tx) = 1
      BY <1>1, <2>2, EmptySeq
    <3> QED
      BY <2>1, <2>3, <3>1 DEF Calls, Requested
  <2>5. disk' # NoStore /\ rec # NoStore => Begins(disk'.log, rec.log)
    BY <2>1, <2>3 DEF Grown
  <2>6. ASSUME NEW i \in 1..Len(tx'), IsPut(tx'[i])
        PROVE  /\ disk' # NoStore => Begins(disk'.log, tx'[i].rec.log)
               /\ rec # NoStore => Begins(tx'[i].rec.log, rec.log)
               /\ \A k \in i..Len(tx') : IsPut(tx'[k]) => Begins(tx'[i].rec.log, tx'[k].rec.log)
    <3>1. i + 1 \in 1..Len(tx) /\ tx'[i] = tx[i + 1] /\ i + 1 \in 1..Len(tx)
      BY <2>2
    <3>2. ASSUME NEW k \in i..Len(tx') PROVE k + 1 \in (i + 1)..Len(tx) /\ tx'[k] = tx[k + 1]
      BY <2>2, <3>2
    <3>3. disk' # NoStore => Begins(disk'.log, tx[i + 1].rec.log)
      BY <2>1, <2>3, <2>6, <3>1 DEF Grown
    <3>4. \A k \in (i + 1)..Len(tx) : IsPut(tx[k]) => Begins(tx[i + 1].rec.log, tx[k].rec.log)
      BY <2>1, <2>6, <3>1 DEF Grown
    <3>5. \A k \in i..Len(tx') : IsPut(tx'[k]) => Begins(tx'[i].rec.log, tx'[k].rec.log)
      BY <3>1, <3>2, <3>4
    <3> QED
      BY <2>1, <2>6, <3>1, <3>3, <3>5 DEF Grown
  <2> QED
    BY <2>1, <2>4, <2>5, <2>6 DEF Grown
<1>7. CASE ServeDelete
  <2>1. /\ tx[1].kind = "delete" /\ 1 \in 1..Len(tx) /\ UNCHANGED rec /\ disk' = NoStore /\ tx' = Tail(tx)
        /\ tx # <<>>
    BY <1>1, <1>7, HeadTailProperties DEF ServeDelete
  <2>2. rec = NoStore /\ Len(tx) = 1
    BY <2>1 DEF Calls, Requested, IsPut
  <2>3. Len(tx') = 0
    BY <1>1, <2>1, <2>2, HeadTailProperties
  <2>4. 1..Len(tx') = {}
    BY <2>3
  <2> QED
    BY <2>1, <2>2, <2>4 DEF Grown
<1> QED
  BY <1>2, <1>3, <1>4, <1>5, <1>6, <1>7, Stores

\* No step but a clear's delete takes a version out of IndexedDB, unless the page could not read the
\* record that it writes over: mirrors, saves, restores and commits all write a record that begins
\* with what is stored by then (getRec, hydrate and persist, opfs-backend.js).
THEOREM TimelineIsKept == ~Overlap => (Spec => TimelineGrows)
<1>1. Init => Grown
  BY DEF Init, Grown
<1>2. Calls /\ Grown /\ [Next]_vars => Grown'
  BY GrownStep
<1>3. ASSUME Calls, Grown, [Next]_vars, disk # NoStore, "get" \notin failed
      PROVE  \/ disk' = NoStore /\ at["op"] = "cleared"
             \/ disk' # NoStore /\ IsPrefix(disk.log, disk'.log)
  <2>1. /\ tx \in Seq(Requests) /\ Len(tx) \in Nat /\ (tx # <<>> => 1 \in 1..Len(tx))
        /\ disk \in Store /\ disk.log \in Seq(Ids)
    BY <1>3, EmptySeq, LenProperties, StoreShape DEF Calls, StoreTypes
  <2>2. CASE UNCHANGED disk
    BY <1>3, <2>1, <2>2, PrefixBegins, BeginsItself
  <2>3. CASE ServePut /\ disk' = Head(tx).rec
    <3>1. IsPut(tx[1]) /\ 1 \in 1..Len(tx) /\ Head(tx) = tx[1]
      <4>1. 1 \in 1..Len(tx) /\ Head(tx) = tx[1] /\ tx[1].kind = "put"
        BY <2>1, <2>3, HeadTailProperties DEF ServePut
      <4> QED
        BY <1>3, <4>1 DEF Calls, Requested
    <3>2. disk' \in Store /\ disk' # NoStore /\ disk'.log \in Seq(Ids)
      BY <2>3, <3>1, StoreShape DEF IsPut
    <3>3. Begins(disk.log, disk'.log)
      BY <1>3, <2>3, <3>1 DEF ServePut, Grown
    <3> QED
      BY <2>1, <3>2, <3>3, PrefixBegins
  <2>4. CASE ServeDelete
    <3>1. 1 \in 1..Len(tx) /\ tx[1].kind = "delete" /\ disk' = NoStore
      BY <2>1, <2>4, HeadTailProperties DEF ServeDelete
    <3> QED
      BY <1>3, <3>1 DEF Calls, Requested, IsPut
  <2> QED
    BY <1>3, <2>2, <2>3, <2>4, Stores DEF Still, Blanks, Writes, ServeGet, ServePut, durable
<1>4. Calls /\ Grown /\ [Next]_vars =>
        [disk = NoStore \/ "get" \in failed \/ (disk' = NoStore /\ at["op"] = "cleared")
           \/ (disk' # NoStore /\ IsPrefix(disk.log, disk'.log))]_vars
  BY <1>3
<1> QED
  BY <1>1, <1>2, <1>4, CallsHold, PTL DEF Spec, TimelineGrows

-----------------------------------------------------------------------------
(* Timelines are ordered.                                                  *)

\* Documents of the first n edits, each before every later one.
Timeline(s, n) ==
    /\ \A i \in 1..Len(s) : 1 <= DocOf(s[i]) /\ DocOf(s[i]) <= n
    /\ \A i, k \in 1..Len(s) : i < k => DocOf(s[i]) < DocOf(s[k])

Under(s, d) == \A i \in 1..Len(s) : DocOf(s[i]) < d

LEMMA NoTimeline ==
    ASSUME NEW n, NEW d
    PROVE  Timeline(<<>>, n) /\ Under(<<>>, d)
<1>1. Len(<<>>) = 0 /\ 1..0 = {}
  BY EmptySeq
<1> QED
  BY <1>1 DEF Timeline, Under

LEMMA LaterTimeline ==
    ASSUME NEW s \in Seq(Ids), NEW n \in Nat, NEW m \in Nat, n <= m, Timeline(s, n)
    PROVE  Timeline(s, m) /\ \A d \in Nat : d > n => Under(s, d)
<1>1. \A i \in 1..Len(s) : DocOf(s[i]) \in Int
  BY DocOfId, ElementOfSeq, BoundsAssumption DEF Ids
<1> QED
  BY <1>1 DEF Timeline, Under

LEMMA LongerTimeline ==
    ASSUME NEW s \in Seq(Ids), NEW id \in Ids, NEW n \in Nat, Timeline(s, n), Under(s, DocOf(id)),
           1 <= DocOf(id), DocOf(id) <= n
    PROVE  Timeline(Append(s, id), n)
<1> DEFINE t == Append(s, id)
<1>1. /\ Len(t) = Len(s) + 1 /\ Len(s) \in Nat /\ t[Len(s) + 1] = id
      /\ \A i \in 1..Len(s) : t[i] = s[i]
  BY AppendProperties, LenProperties
<1> HIDE DEF t
<1>2. \A i \in 1..Len(t) : i \in 1..Len(s) \/ i = Len(s) + 1
  BY <1>1
<1>3. \A i \in 1..Len(t) : 1 <= DocOf(t[i]) /\ DocOf(t[i]) <= n
  BY <1>1, <1>2 DEF Timeline
<1>4. ASSUME NEW i \in 1..Len(t), NEW k \in 1..Len(t), i < k PROVE DocOf(t[i]) < DocOf(t[k])
  <2>1. i \in 1..Len(s)
    BY <1>1, <1>4
  <2>2. CASE k \in 1..Len(s)
    BY <1>1, <1>4, <2>1, <2>2 DEF Timeline
  <2>3. CASE k = Len(s) + 1
    BY <1>1, <2>1, <2>3 DEF Under
  <2> QED
    BY <1>2, <2>2, <2>3
<1> QED
  BY <1>3, <1>4 DEF Timeline, t

LEMMA ShorterTimeline ==
    ASSUME NEW s \in Seq(Ids), NEW m \in 1..Len(s), NEW n
    PROVE  /\ Timeline(s, n) => Timeline(SubSeq(s, 1, m), n)
           /\ \A d : Under(s, d) => Under(SubSeq(s, 1, m), d)
<1> DEFINE t == SubSeq(s, 1, m)
<1>1. Len(s) \in Nat /\ m \in Nat /\ m >= 1 /\ m <= Len(s)
  BY LenProperties
<1>2. /\ Len(t) = m
      /\ \A i \in 1..m : t[i] = s[i]
  BY <1>1
<1> HIDE DEF t
<1>3. \A i \in 1..m : i \in 1..Len(s)
  BY <1>1
<1>4. Timeline(s, n) => Timeline(t, n)
  BY <1>2, <1>3 DEF Timeline
<1>5. \A d : Under(s, d) => Under(t, d)
  BY <1>2, <1>3 DEF Under
<1> QED
  BY <1>4, <1>5 DEF t

LEMMA RestOfTimeline ==
    ASSUME NEW s \in Seq(Ids), s # <<>>, NEW n, Timeline(s, n)
    PROVE  /\ Timeline(Tail(s), n) /\ Head(s) = s[1] /\ 1 \in 1..Len(s)
           /\ 1 <= DocOf(s[1]) /\ DocOf(s[1]) <= n
           /\ \A i \in 1..Len(Tail(s)) : /\ Tail(s)[i] = s[i + 1] /\ i + 1 \in 1..Len(s)
                                         /\ DocOf(s[1]) < DocOf(Tail(s)[i])
<1> DEFINE t == Tail(s)
<1>1. /\ Len(t) = Len(s) - 1 /\ Len(s) \in Nat \ {0} /\ Head(s) = s[1]
      /\ \A i \in 1..Len(t) : t[i] = s[i + 1]
  BY HeadTailProperties, LenProperties, EmptySeq
<1> HIDE DEF t
<1>2. 1 \in 1..Len(s) /\ \A i \in 1..Len(t) : i + 1 \in 1..Len(s) /\ 1 < i + 1
  BY <1>1
<1>3. \A i, k \in 1..Len(t) : i < k => i + 1 < k + 1
  BY <1>1
<1>4. Timeline(t, n)
  BY <1>1, <1>2, <1>3 DEF Timeline
<1> QED
  BY <1>1, <1>2, <1>4 DEF Timeline, t

LEMMA TimelineIncreases ==
    ASSUME NEW s \in Seq(Ids), NEW n, Timeline(s, n)
    PROVE  Increasing(s)
<1>1. \A i \in 1..Len(s) - 1 : i \in 1..Len(s) /\ i + 1 \in 1..Len(s) /\ i < i + 1
  BY LenProperties
<1> QED
  BY <1>1 DEF Timeline, Increasing

\* A store with a timeline, and one that is older than a document.
Sound(s, n) == s # NoStore => Timeline(s.log, n)
Older(s, d) == s # NoStore => Under(s.log, d)

LEMMA SoundLater ==
    ASSUME NEW s \in Store \cup {NoStore}, NEW n \in Nat, NEW m \in Nat, n <= m, Sound(s, n)
    PROVE  Sound(s, m) /\ \A d \in Nat : d > n => Older(s, d)
  BY LaterTimeline, StoreShape DEF Sound, Older

LEMMA BlankIsSound ==
    ASSUME NEW n, NEW d
    PROVE  Sound(NoStore, n) /\ Older(NoStore, d) /\ Sound(Empty, n) /\ Older(Empty, d)
  BY NoTimeline, EmptyStore DEF Sound, Older

\* Every timeline there is, the ones on their way to the database included.
Timelines ==
    /\ Sound(disk, edits) /\ Sound(rec, edits) /\ Sound(blob, edits)
    /\ \A i \in 1..Len(repos) : Sound(repos[i], edits)
    /\ \A i \in 1..Len(tx) : IsPut(tx[i]) => Sound(tx[i].rec, edits)

\* The version of a commit that has not reached git is newer than all git has.
Fresh ==
    /\ at["op"] = "written" \/ (at["op"] = "committed" /\ \E i \in 1..Len(jobs) : jobs[i].who = "op") =>
         /\ Older(blob, Last(rec.log))
         /\ \A i \in 1..Len(repos) : Older(repos[i], Last(rec.log))
    /\ \A i \in 1..Len(jobs) : jobs[i].kind = "commit" => jobs[i].of = Last(rec.log)

\* The document of a version that is being mirrored comes behind the record's and before what is left.
Between(d) ==
    /\ 1 <= d /\ d <= edits /\ Under(Listing, d)
    /\ \A k \in 1..Len(todo["op"]) : d < DocOf(todo["op"][k])

Mirrors ==
    /\ at["op"] = "listGit" => Listing = <<>> /\ Timeline(ans["op"], edits)
    /\ at["op"] \in {"mirror", "mirrored"} =>
         /\ Timeline(todo["op"], edits)
         /\ \A k \in 1..Len(todo["op"]) : Under(Listing, DocOf(todo["op"][k]))
    /\ at["op"] = "mirrored" =>
         /\ \A i \in 1..Len(jobs) : jobs[i].who = "op" => Between(DocOf(jobs[i].of))
         /\ ans["op"] # <<>> => Between(DocOf(ans["op"][1]))

Order == Timelines /\ Fresh /\ Mirrors

\* The documents are counted by saves and commits alone.
LEMMA Counted ==
    ASSUME Calls, [Next]_vars
    PROVE  /\ edits \in Nat /\ edits' \in Nat /\ edits <= edits'
           /\ edits' = edits \/ (edits' = edits + 1 /\ (SaveCall \/ CommitCall))
<1>1. edits \in Nat /\ edits' \in Nat
  BY CallsStep, BoundsAssumption DEF Calls, StoreTypes, Docs, NoDoc
<1>2. edits' = edits \/ (edits' = edits + 1 /\ (SaveCall \/ CommitCall))
  <2>1. CASE Facade
    BY <2>1 DEF Facade, OpenCall, OpenGit, OpenEnd, Tip, ReadTip, TipRead, ListCall, ListRead, MirrorBegin,
                Mirror, MirrorOne, MirrorEnd, SaveCall, SaveEnd, CommitCall, CommitGit, CommitEnd, RestoreCall,
                RestoreEnd, ClearCall, ClearDelete, ClearGit, ClearClose, ClearEnd, counts
  <2>2. CASE RunGit
    BY <2>2 DEF RunGit, GitOpen, GitTip, GitList, GitSave, GitCommit, GitWriteFails, GitReadVersion,
                GitRestore, GitClear, GitClose, InGit, GitLoads, counts
  <2>3. CASE Serve \/ Reload \/ UNCHANGED vars
    BY <2>3 DEF Serve, DbOpens, DbFails, ServeGet, ServePut, ServeDelete, Reload, vars, counts
  <2> QED
    BY <2>1, <2>2, <2>3 DEF Next, Rests
<1> QED
  BY <1>1, <1>2

\* What a step does to the engine.
LEMMA Engines ==
    ASSUME Calls, [Next]_vars
    PROVE  \/ UNCHANGED <<blob, repos>> /\ (Facade \/ Serve \/ UNCHANGED vars)
           \/ GitLoads \/ Reload \/ \E j, a : Serves(j, a)
<1>1. CASE Facade
  BY <1>1 DEF Facade, OpenCall, OpenGit, OpenEnd, Tip, ReadTip, TipRead, ListCall, ListRead, MirrorBegin,
              Mirror, MirrorOne, MirrorEnd, SaveCall, SaveEnd, CommitCall, CommitGit, CommitEnd, RestoreCall,
              RestoreEnd, ClearCall, ClearDelete, ClearGit, ClearClose, ClearEnd, Local, durable
<1>2. CASE Serve
  BY <1>2 DEF Serve, DbOpens, DbFails, ServeGet, ServePut, ServeDelete, durable, engine
<1>3. CASE RunGit
  BY <1>3, GitServes DEF RunGit
<1>4. CASE Reload \/ UNCHANGED vars
  BY <1>4 DEF vars, durable, engine
<1> QED
  BY <1>1, <1>2, <1>3, <1>4 DEF Next, Rests

\* A version that is written is newer than those of the record.
LEMMA RecordStaysSound ==
    ASSUME Calls, Order, NEW p \in {"op", Nobody}, Writes(p), [Next]_vars
    PROVE  Sound(rec', edits')
<1>1. /\ edits \in Nat /\ edits' \in Nat /\ edits <= edits'
      /\ rec \in Store \cup {NoStore} /\ Listing \in Seq(Ids)
  BY Counted, RecordShape DEF Calls, StoreTypes
<1>2. Timeline(Listing, edits) /\ Timeline(Listing, edits')
  <2>1. Timeline(Listing, edits)
    BY <1>1, RecordShape, NoTimeline DEF Order, Timelines, Sound
  <2> QED
    BY <1>1, <2>1, LaterTimeline
<1>3. CASE rec'.log = Listing
  BY <1>2, <1>3 DEF Sound
<1>4. ASSUME NEW id \in Ids, rec'.log = Append(Listing, id), CommitsAs(id) PROVE Sound(rec', edits')
  <2>1. id = edits' /\ edits' = edits + 1 /\ DocOf(id) = id
    BY <1>1, <1>4 DEF CommitsAs, CommitCall, DocOf
  <2>2. Under(Listing, DocOf(id))
    BY <1>1, <1>2, <2>1, LaterTimeline
  <2> QED
    BY <1>1, <1>2, <1>4, <2>1, <2>2, LongerTimeline DEF Sound
<1>5. ASSUME NEW id \in Ids, rec'.log = Append(Listing, id), MirrorsAs(id) PROVE Sound(rec', edits')
  <2>1. Between(DocOf(id)) /\ edits' = edits
    BY <1>5 DEF MirrorsAs, MirrorOne, Order, Mirrors
  <2> QED
    BY <1>1, <1>2, <1>5, <2>1, LongerTimeline DEF Between, Sound
<1> QED
  BY <1>3, <1>4, <1>5 DEF Writes

LEMMA RepoStaysSound ==
    ASSUME NEW s \in Store \cup {NoStore}, NEW t, NEW j, j.of \in Ids, NEW n \in Nat,
           LogStep(s, t, j), Sound(s, n),
           j.kind = "commit" => Older(s, DocOf(j.of)) /\ 1 <= DocOf(j.of) /\ DocOf(j.of) <= n
    PROVE  /\ Sound(t, n)
           /\ j.kind # "commit" => \A d : Older(s, d) => Older(t, d)
<1>1. CASE t = NoStore
  BY <1>1, BlankIsSound
<1>2. CASE t \in Store /\ t.log = <<>>
  BY <1>2, NoTimeline DEF Sound, Older
<1>3. CASE s \in Store /\ t \in Store /\ t.log = s.log
  BY <1>3, StoreShape DEF Sound, Older
<1>4. CASE s \in Store /\ t \in Store /\ \E m \in 1..Len(s.log) : t.log = SubSeq(s.log, 1, m)
  BY <1>4, StoreShape, ShorterTimeline DEF Sound, Older
<1>5. CASE s \in Store /\ t \in Store /\ j.kind = "commit" /\ t.log = Append(s.log, GitId(j.of))
  BY <1>5, StoreShape, GitIdOfDoc, LongerTimeline DEF Sound, Older
<1> QED
  BY <1>1, <1>2, <1>3, <1>4, <1>5 DEF LogStep

\* The commit that the engine serves is of the newest version.
LEMMA CommitIsNewest ==
    ASSUME Calls, Order, NEW j, NEW a, Serves(j, a), j.kind = "commit"
    PROVE  /\ at["op"] = "committed" /\ j.who = "op" /\ j.of = Last(rec.log) /\ j.of \in Docs
           /\ DocOf(j.of) = j.of /\ 1 <= j.of /\ j.of <= edits
           /\ Older(blob, j.of) /\ \A i \in 1..Len(repos) : Older(repos[i], j.of)
<1>1. /\ 1 \in 1..Len(jobs) /\ j = jobs[1]
  BY ServesKeeps
<1>2. at["op"] = "committed" /\ j.who = "op" /\ j.of = Last(rec.log) /\ j.of \in Docs
  BY <1>1 DEF Calls, Chain, Asked, Order, Fresh
<1>3. DocOf(j.of) = j.of /\ 1 <= j.of
  BY <1>2, BoundsAssumption DEF Docs, DocOf
<1>4. rec \in Store /\ rec.log # <<>> /\ rec # NoStore /\ rec.log \in Seq(Ids)
  BY <1>2, StoreShape DEF Calls, StoreTypes, Alone, Working
<1>5. Len(rec.log) \in 1..Len(rec.log)
  BY <1>4, EmptySeq, LenProperties
<1>6. j.of <= edits
  BY <1>2, <1>3, <1>4, <1>5 DEF Order, Timelines, Sound, Timeline, Last
<1>7. Older(blob, j.of) /\ \A i \in 1..Len(repos) : Older(repos[i], j.of)
  BY <1>1, <1>2 DEF Order, Fresh
<1> QED
  BY <1>2, <1>3, <1>6, <1>7

LEMMA TimelinesStep ==
    ASSUME Calls, Order, [Next]_vars
    PROVE  Timelines'
<1>1. /\ edits \in Nat /\ edits' \in Nat /\ edits <= edits'
      /\ disk \in Store \cup {NoStore} /\ rec \in Store \cup {NoStore} /\ blob \in Store
      /\ repos \in Seq(Store \cup {NoStore})
      /\ tx \in Seq(Requests) /\ Len(tx) \in Nat /\ (tx # <<>> => 1 \in 1..Len(tx))
  BY Counted, EmptySeq, LenProperties DEF Calls, StoreTypes, EngineTypes
<1>2. /\ \A i \in 1..Len(repos) : repos[i] \in Store \cup {NoStore}
      /\ \A i \in 1..Len(tx) : tx[i].rec \in Store \cup {NoStore}
  <2>1. \A i \in 1..Len(tx) : tx[i] \in Requests
    BY <1>1, ElementOfSeq
  <2> QED
    BY <1>1, <2>1, ElementOfSeq DEF Requests
<1>3. /\ Sound(disk, edits') /\ Sound(rec, edits') /\ Sound(blob, edits')
      /\ \A i \in 1..Len(repos) : Sound(repos[i], edits')
      /\ \A i \in 1..Len(tx) : IsPut(tx[i]) => Sound(tx[i].rec, edits')
  BY <1>1, <1>2, SoundLater DEF Order, Timelines
<1>4. /\ Sound(disk', edits') /\ Sound(rec', edits')
      /\ \A i \in 1..Len(tx') : IsPut(tx'[i]) => Sound(tx'[i].rec, edits')
  <2>1. CASE Still
    BY <1>3, <2>1 DEF Still
  <2>2. CASE Blanks
    <3>1. rec' = NoStore /\ disk' = disk
      BY <2>2 DEF Blanks
    <3>2. \A i \in 1..Len(tx') : IsPut(tx'[i]) => i \in 1..Len(tx) /\ tx'[i] = tx[i]
      <4>1. CASE idb' = "open"
        BY <2>2, <4>1 DEF Blanks
      <4>2. CASE idb' = "failed"
        <5>1. 1..Len(tx') = {}
          BY <4>2, CallsStep, EmptySeq DEF Calls, Requested
        <5> QED
          BY <5>1
      <4>3. CASE idb' = "opening"
        <5>1. (at["op"] = "boot" => tx = <<>>)' /\ rec' = NoStore /\ at'["op"] \in {"boot", "opening"}
          BY <3>1, <4>3, CallsStep DEF Calls, Requested
        <5>2. tx' # <<>> => tx'[1].kind = "get" /\ 1 \in 1..Len(tx')
          <6>1. tx' \in Seq(Requests)
            BY CallsStep DEF Calls, StoreTypes
          <6> QED
            BY <5>1, <6>1, CallsStep, EmptySeq, LenProperties DEF Calls, Requested
        <5>3. tx' # <<>> => Len(tx') = 1
          BY <5>2, CallsStep DEF Calls, Requested, IsPut
        <5>4. CASE tx' = <<>>
          <6>1. 1..Len(tx') = {}
            BY <5>4, EmptySeq
          <6> QED
            BY <6>1
        <5>5. CASE tx' # <<>>
          <6>1. \A i \in 1..1 : i = 1
            OBVIOUS
          <6>2. \A i \in 1..Len(tx') : i = 1
            BY <5>3, <5>5, <6>1
          <6>3. ~IsPut(tx'[1])
            BY <5>2, <5>5 DEF IsPut
          <6> QED
            BY <6>2, <6>3
        <5> QED
          BY <5>4, <5>5
      <4> QED
        BY <4>1, <4>2, <4>3, CallsStep DEF Calls, StoreTypes
    <3> QED
      BY <1>3, <3>1, <3>2, BlankIsSound
  <2>3. ASSUME NEW p \in {"op", Nobody}, Writes(p)
        PROVE  /\ Sound(disk', edits') /\ Sound(rec', edits')
               /\ \A i \in 1..Len(tx') : IsPut(tx'[i]) => Sound(tx'[i].rec, edits')
    <3>1. Sound(rec', edits') /\ disk' = disk
      BY <2>3, RecordStaysSound DEF Writes
    <3>2. /\ idb = "failed" => tx' = tx
          /\ idb = "open" =>
               /\ Len(tx') = Len(tx) + 1
               /\ \A i \in 1..Len(tx) : tx'[i] = tx[i]
               /\ tx'[Len(tx) + 1].rec = rec'
          /\ idb \in {"open", "failed"}
      BY <2>3, WriteRequested DEF Writes, Calls, StoreTypes
    <3>3. idb = "open" => \A i \in 1..Len(tx') : i \in 1..Len(tx) \/ i = Len(tx) + 1
      BY <1>1, <3>2
    <3> QED
      BY <1>3, <3>1, <3>2, <3>3
  <2>4. CASE ServeGet \/ ServePut \/ ServeDelete
    <3>1. /\ tx' = Tail(tx) /\ tx # <<>> /\ rec' \in {rec, disk}
          /\ \/ disk' \in {disk, NoStore}
             \/ disk' = tx[1].rec /\ tx[1].kind = "put"
      BY <1>1, <2>4, HeadTailProperties DEF ServeGet, ServePut, ServeDelete, durable
    <3>2. \A i \in 1..Len(tx') : tx'[i] = tx[i + 1] /\ i + 1 \in 1..Len(tx)
      BY <1>1, <3>1, HeadTailProperties
    <3>3. tx[1].kind = "put" => IsPut(tx[1])
      BY <1>1, <3>1 DEF Calls, Requested
    <3> QED
      BY <1>1, <1>3, <3>1, <3>2, <3>3, BlankIsSound
  <2> QED
    BY <2>1, <2>2, <2>3, <2>4, Stores
<1>5. Sound(blob', edits') /\ \A i \in 1..Len(repos') : Sound(repos'[i], edits')
  <2>1. CASE UNCHANGED <<blob, repos>>
    BY <1>3, <2>1
  <2>2. CASE GitLoads
    <3>1. blob' = blob /\ (repos' = repos \/ repos' = Append(repos, blob))
      BY <2>2 DEF GitLoads, durable
    <3>2. ASSUME repos' = Append(repos, blob), NEW i \in 1..Len(repos') PROVE Sound(repos'[i], edits')
      <4>1. /\ Len(repos') = Len(repos) + 1 /\ Len(repos) \in Nat /\ repos'[Len(repos) + 1] = blob
            /\ \A k \in 1..Len(repos) : repos'[k] = repos[k]
        BY <1>1, <3>2, AppendProperties, LenProperties
      <4>2. i \in 1..Len(repos) \/ i = Len(repos) + 1
        BY <3>2, <4>1
      <4> QED
        BY <1>3, <4>1, <4>2
    <3> QED
      BY <1>3, <3>1, <3>2
  <2>3. CASE Reload
    <3>1. blob' = blob /\ repos' = <<>>
      BY <2>3 DEF Reload, FreshPage, durable
    <3>2. 1..Len(repos') = {}
      BY <3>1, EmptySeq
    <3> QED
      BY <1>3, <3>1, <3>2
  <2>4. ASSUME NEW j, NEW a, Serves(j, a)
        PROVE  Sound(blob', edits') /\ \A i \in 1..Len(repos') : Sound(repos'[i], edits')
    <3>1. edits' = edits
      BY <2>4 DEF Serves, InGit
    <3>2. /\ j.repo \in 1..Len(repos) /\ j.of \in Ids /\ LogStep(repos[j.repo], repos'[j.repo], j)
          /\ blob' \in {blob, repos'[j.repo], Empty} /\ Len(repos') = Len(repos)
          /\ \A i \in 1..Len(repos) : i # j.repo => repos'[i] = repos[i]
      BY <2>4 DEF Serves
    <3>3. /\ repos[j.repo] \in Store \cup {NoStore} /\ Sound(repos[j.repo], edits')
      BY <1>2, <1>3, <3>2
    <3>4. j.kind = "commit" =>
            Older(repos[j.repo], DocOf(j.of)) /\ 1 <= DocOf(j.of) /\ DocOf(j.of) <= edits'
      BY <2>4, <3>1, <3>2, CommitIsNewest
    <3>5. Sound(repos'[j.repo], edits')
      BY <1>1, <3>2, <3>3, <3>4, RepoStaysSound
    <3> QED
      BY <1>3, <3>2, <3>5, BlankIsSound
  <2> QED
    BY <2>1, <2>2, <2>3, <2>4, Engines
<1> QED
  BY <1>4, <1>5 DEF Timelines

\* A step in the middle of a commit that is not the commit's own.
Stays ==
    /\ at'["op"] = at["op"] /\ Last(rec'.log) = Last(rec.log)
    /\ \A i \in 1..Len(jobs') : jobs'[i].who = "op" => \E k \in 1..Len(jobs) : jobs'[i] = jobs[k]

LEMMA Commits ==
    ASSUME Calls, [Next]_vars, at'["op"] \in Committing
    PROVE  CommitCall \/ CommitGit \/ Stays
<1>1. CASE Facade
  <2>1. CASE \/ OpenCall \/ OpenGit \/ OpenEnd \/ Tip \/ ReadTip \/ TipRead
             \/ CommitEnd \/ RestoreEnd \/ ClearCall \/ ClearDelete \/ ClearGit \/ ClearClose \/ ClearEnd
    BY <2>1 DEF OpenCall, OpenGit, OpenEnd, Tip, ReadTip, TipRead, CommitEnd, RestoreEnd, ClearCall, ClearDelete,
                ClearGit, ClearClose, ClearEnd, Goto, Committing, Calls, CallTypes, Callers
  <2>2. CASE RestoreCall
    BY <2>2 DEF RestoreCall, Goto, Committing, Calls, CallTypes, Callers
  <2>3. CASE \/ ListCall("op") \/ ListRead("op") \/ MirrorBegin("op") \/ Mirror("op") \/ MirrorOne("op")
             \/ MirrorEnd("op")
    BY <2>3 DEF ListCall, ListRead, MirrorBegin, Mirror, MirrorOne, MirrorEnd, GitIfEmpty, ListEnd, Goto,
                Committing, Calls, CallTypes, Callers
  <2>4. CASE \/ ListCall("list") \/ ListRead("list") \/ MirrorBegin("list") \/ Mirror("list") \/ MirrorOne("list")
             \/ MirrorEnd("list")
    <3>1. at["list"] = "idle" /\ ListCall("list") /\ ~Busy
      BY <2>4 DEF Calls, Alone, ListCall, ListRead, MirrorBegin, Mirror, MirrorOne, MirrorEnd
    <3>2. Listing # <<>>
      BY <3>1, RecordShape DEF Calls, StoreTypes, Alone, Busy, Opening, Clearing, Working
    <3>3. UNCHANGED <<rec, jobs>> /\ at'["op"] = at["op"]
      BY <3>1, <3>2, RecordShape DEF ListCall, GitIfEmpty, ListEnd, Hydrate, Goto, Calls, CallTypes, Callers,
                                     StoreTypes
    <3> QED
      BY <3>3 DEF Stays
  <2>5. CASE SaveEnd
    BY <2>5 DEF SaveEnd, Goto, Calls, CallTypes, Callers, Stays
  <2>6. CASE SaveCall
    <3>1. at'["op"] = at["op"]
      BY <2>6 DEF SaveCall, Goto, Calls, CallTypes, Callers
    <3>2. rec' = WithWorktree(rec, edits') /\ rec \in Store /\ edits' \in Docs \cup {NoDoc}
      BY <2>6, <3>1, CallsStep, RecordShape DEF SaveCall, Calls, StoreTypes, Alone, Working, Committing
    <3>3. rec'.log = rec.log
      BY <3>2, WorktreeKeepsLog
    <3>4. CASE git = 0
      BY <2>6, <3>1, <3>3, <3>4 DEF SaveCall, Stays
    <3>5. CASE git # 0
      <4>1. Ask("save", "save", edits') /\ edits' \in Ids
        BY <2>6, <3>2, <3>5, BoundsAssumption DEF SaveCall, Docs, NoDoc, Ids
      <4>2. /\ Len(jobs') = Len(jobs) + 1 /\ Len(jobs) \in Nat
            /\ \A i \in 1..Len(jobs) : jobs'[i] = jobs[i]
            /\ jobs'[Len(jobs) + 1].who = "save"
        BY <3>5, <4>1, AsksLast DEF Calls, Kinds
      <4>3. \A i \in 1..Len(jobs') : i \in 1..Len(jobs) \/ i = Len(jobs) + 1
        BY <4>2
      <4> QED
        BY <3>1, <3>3, <4>2, <4>3 DEF Stays
    <3> QED
      BY <3>4, <3>5
  <2> QED
    BY <1>1, <2>1, <2>2, <2>3, <2>4, <2>5, <2>6 DEF Facade
<1>2. CASE Serve
  <2>1. UNCHANGED <<jobs, at>>
    BY <1>2 DEF Serve, DbOpens, DbFails, ServeGet, ServePut, ServeDelete, engine, calls
  <2>2. ~ServeGet
    <3>1. SUFFICES ASSUME ServeGet PROVE FALSE
      OBVIOUS
    <3>2. tx \in Seq(Requests) /\ tx # <<>> /\ Head(tx).kind = "get" /\ 1 \in 1..Len(tx) /\ Head(tx) = tx[1]
      BY <3>1, HeadTailProperties, EmptySeq, LenProperties DEF ServeGet, Calls, StoreTypes
    <3> QED
      BY <2>1, <3>2 DEF Calls, Requested, IsPut, Committing
  <2>3. UNCHANGED rec
    BY <1>2, <2>2 DEF Serve, DbOpens, DbFails, ServePut, ServeDelete
  <2> QED
    BY <2>1, <2>3 DEF Stays
<1>3. CASE GitLoads \/ UNCHANGED vars
  BY <1>3 DEF GitLoads, Stays, vars, local, engine, calls
<1>4. ASSUME NEW j, NEW a, Serves(j, a) PROVE Stays
  <2>1. UNCHANGED <<rec, at>>
    BY <1>4 DEF Serves, InGit, local
  <2>2. /\ Len(jobs') = Len(jobs) - 1 /\ Len(jobs) \in Nat \ {0}
        /\ \A i \in 1..Len(jobs') : jobs'[i] = jobs[i + 1]
    BY <1>4, ServesKeeps
  <2>3. \A i \in 1..Len(jobs') : i + 1 \in 1..Len(jobs)
    BY <2>2
  <2> QED
    BY <2>1, <2>2, <2>3 DEF Stays
<1>5. CASE Reload
  <2>1. at'["op"] = "boot"
    BY <1>5 DEF Reload, FreshPage, Callers
  <2> QED
    BY <2>1 DEF Committing
<1> QED
  BY <1>1, <1>2, <1>3, <1>4, <1>5, GitServes DEF Next, RunGit, Rests

\* A commit job is the controller's, on its way while it waits for that.
LEMMA CommitJobs ==
    ASSUME Calls, NEW i \in 1..Len(jobs), jobs[i].kind = "commit"
    PROVE  jobs[i].who = "op" /\ at["op"] = "committed"
  BY DEF Calls, Chain, Asked

LEMMA FreshStep ==
    ASSUME Calls, Order, [Next]_vars
    PROVE  Fresh'
<1>1. Calls'
  BY CallsStep
<1> DEFINE d == Last(rec.log)
           Pending == at["op"] = "written" \/ (at["op"] = "committed" /\ \E i \in 1..Len(jobs) : jobs[i].who = "op")
           Behind == Older(blob, d) /\ \A i \in 1..Len(repos) : Older(repos[i], d)
<1>2. SUFFICES /\ Pending' => Behind'
               /\ \A i \in 1..Len(jobs') : jobs'[i].kind = "commit" => jobs'[i].of = d'
  BY DEF Fresh
<1>3. /\ Pending => Behind
      /\ \A i \in 1..Len(jobs) : jobs[i].kind = "commit" => jobs[i].of = d
  BY DEF Order, Fresh
<1>4. CASE at'["op"] \notin Committing
  <2>1. \A i \in 1..Len(jobs') : jobs'[i].kind # "commit"
    BY <1>1, <1>4 DEF Calls, Chain, Asked, Committing
  <2> QED
    BY <1>4, <2>1 DEF Committing
<1>5. CASE CommitCall
  <2>1. /\ at["op"] \in {"idle", "reseed"} /\ UNCHANGED <<blob, repos, jobs>> /\ edits' = edits + 1
        /\ rec' = WithVersion(Record, edits')
    BY <1>5 DEF CommitCall, Local, durable
  <2>2. \A i \in 1..Len(jobs') : jobs'[i].kind # "commit"
    BY <2>1, CommitJobs
  <2>3. /\ edits \in Nat /\ edits' \in Ids /\ Record \in Store /\ Record.log \in Seq(Ids)
    BY <1>1, Counted, RecordShape, BoundsAssumption DEF Calls, StoreTypes, Docs, NoDoc, Ids
  <2>4. rec'.log = Append(Record.log, edits')
    BY <2>1, <2>3, VersionIsAppended
  <2>5. d' = edits'
    BY <2>3, <2>4, AppendProperties DEF Last
  <2>6. edits' \in Nat /\ edits' > edits
    BY <2>1, <2>3
  <2>7. Older(blob, edits') /\ \A i \in 1..Len(repos) : Older(repos[i], edits')
    <3>1. \A s \in Store \cup {NoStore} : Sound(s, edits) => Older(s, edits')
      <4>1. edits <= edits
        BY <2>3
      <4>2. \A s \in Store \cup {NoStore} : Sound(s, edits) => \A n \in Nat : n > edits => Older(s, n)
        BY <2>3, <4>1, SoundLater
      <4> QED
        BY <2>6, <4>2
    <3>2. blob \in Store /\ \A i \in 1..Len(repos) : repos[i] \in Store \cup {NoStore}
      BY ElementOfSeq DEF Calls, EngineTypes
    <3> QED
      BY <3>1, <3>2 DEF Order, Timelines
  <2> QED
    BY <2>1, <2>2, <2>5, <2>7
<1>6. CASE CommitGit
  <2>1. /\ at["op"] = "written" /\ UNCHANGED <<blob, repos, rec>> /\ rec # NoStore /\ rec.log # <<>>
        /\ Last(rec.log) \in Docs
    BY <1>6 DEF CommitGit, Local, durable, Calls, Alone, Working
  <2>2. \A i \in 1..Len(jobs) : jobs[i].kind # "commit"
    BY <2>1, CommitJobs
  <2>3. CASE UNCHANGED jobs
    BY <1>3, <2>1, <2>2, <2>3
  <2>4. CASE git # 0 /\ Ask("op", "commit", Last(rec.log))
    <3>1. Last(rec.log) \in Ids
      BY <2>1, BoundsAssumption DEF Docs, Ids
    <3>2. /\ Len(jobs') = Len(jobs) + 1 /\ Len(jobs) \in Nat
          /\ \A i \in 1..Len(jobs) : jobs'[i] = jobs[i]
          /\ jobs'[Len(jobs) + 1].of = Last(rec.log)
      BY <2>4, <3>1, AsksLast DEF Calls, Kinds
    <3>3. \A i \in 1..Len(jobs') : i \in 1..Len(jobs) \/ i = Len(jobs) + 1
      BY <3>2
    <3> QED
      BY <1>3, <2>1, <2>2, <3>2, <3>3
  <2> QED
    BY <1>6, <2>3, <2>4 DEF CommitGit
<1>7. CASE Stays /\ at'["op"] \in Committing
  <2>1. \A i \in 1..Len(jobs') : jobs'[i].kind = "commit" => jobs'[i].of = d'
    BY <1>1, <1>3, <1>7, CommitJobs DEF Stays, Calls, Chain
  <2>2. Pending' => Pending
    BY <1>7 DEF Stays
  <2>3. d' = d
    BY <1>7 DEF Stays
  <2> HIDE DEF d
  <2>4. ASSUME Pending', Behind PROVE Behind'
    <3>1. CASE UNCHANGED <<blob, repos>>
      BY <2>3, <2>4, <3>1
    <3>2. CASE GitLoads
      <4>1. repos \in Seq(Store \cup {NoStore}) /\ blob \in Store
        BY DEF Calls, EngineTypes
      <4>2. CASE repos' = Append(repos, blob)
        <5>1. /\ Len(repos') = Len(repos) + 1 /\ Len(repos) \in Nat /\ repos'[Len(repos) + 1] = blob
              /\ \A k \in 1..Len(repos) : repos'[k] = repos[k]
          BY <4>1, <4>2, AppendProperties, LenProperties
        <5>2. \A i \in 1..Len(repos') : i \in 1..Len(repos) \/ i = Len(repos) + 1
          BY <5>1
        <5> QED
          BY <2>3, <2>4, <3>2, <5>1, <5>2 DEF GitLoads, durable
      <4> QED
        BY <2>3, <2>4, <3>2, <4>2 DEF GitLoads, durable
    <3>3. ASSUME NEW j, NEW a, Serves(j, a) PROVE Behind'
      <4>1. /\ j.repo \in 1..Len(repos) /\ j.of \in Ids /\ LogStep(repos[j.repo], repos'[j.repo], j)
            /\ blob' \in {blob, repos'[j.repo], Empty} /\ Len(repos') = Len(repos)
            /\ \A i \in 1..Len(repos) : i # j.repo => repos'[i] = repos[i]
        BY <3>3 DEF Serves
      <4>2. repos[j.repo] \in Store \cup {NoStore} /\ edits \in Nat /\ Sound(repos[j.repo], edits)
        BY <4>1, Counted, ElementOfSeq DEF Calls, EngineTypes, Order, Timelines
      <4>3. j.kind # "commit"
        <5>1. SUFFICES ASSUME j.kind = "commit" PROVE FALSE
          OBVIOUS
        <5>2. j.who = "op" /\ at["op"] = "committed" /\ at'["op"] = "committed"
          BY <1>7, <3>3, <5>1, CommitIsNewest DEF Stays
        <5>3. \A i \in 1..Len(jobs') : jobs'[i].who # "op"
          BY <3>3, <5>2, ServesKeeps
        <5> QED
          BY <2>4, <5>2, <5>3
      <4>4. Older(repos'[j.repo], d)
        BY <2>4, <4>1, <4>2, <4>3, RepoStaysSound
      <4> QED
        BY <2>3, <2>4, <4>1, <4>4, BlankIsSound
    <3>4. CASE Reload
      <4>1. at'["op"] = "boot"
        BY <3>4 DEF Reload, FreshPage, Callers
      <4> QED
        BY <1>7, <4>1 DEF Committing
    <3> QED
      BY <3>1, <3>2, <3>3, <3>4, Engines
  <2> QED
    BY <1>3, <2>1, <2>2, <2>4
<1> QED
  BY <1>4, <1>5, <1>6, <1>7, Commits

Mirroring == {"listGit", "mirror", "mirrored"}

\* A step that does not concern the mirroring.
Aside ==
    /\ UNCHANGED <<rec, todo, edits>> /\ at'["op"] = at["op"] /\ ans'["op"] = ans["op"]
    /\ \A i \in 1..Len(jobs') : jobs'[i].who = "op" => \E k \in 1..Len(jobs) : jobs'[i] = jobs[k]

LEMMA AsideKeeps ==
    ASSUME Mirrors, Aside
    PROVE  Mirrors'
<1>1. Listing' = Listing
  BY DEF Aside, Listing
<1>2. \A d : Between(d)' <=> Between(d)
  BY <1>1 DEF Aside, Between, Under
<1> QED
  BY <1>1, <1>2 DEF Aside, Mirrors, Timeline, Under

\* Which steps the mirroring goes through.
LEMMA MirrorSteps ==
    ASSUME Calls, [Next]_vars, at'["op"] \in Mirroring
    PROVE  \/ Aside \/ \E j, a : Serves(j, a)
           \/ ListCall("op") \/ ListRead("op") \/ MirrorBegin("op") \/ Mirror("op") \/ MirrorOne("op")
<1>1. CASE Facade
  <2>1. CASE \/ OpenCall \/ OpenGit \/ OpenEnd \/ Tip \/ ReadTip \/ TipRead
             \/ CommitCall \/ CommitGit \/ CommitEnd \/ RestoreEnd
             \/ ClearCall \/ ClearDelete \/ ClearGit \/ ClearClose \/ ClearEnd
    BY <2>1 DEF OpenCall, OpenGit, OpenEnd, Tip, ReadTip, TipRead, CommitCall, CommitGit, CommitEnd, RestoreEnd,
                ClearCall, ClearDelete, ClearGit, ClearClose, ClearEnd, Goto, Mirroring, Calls, CallTypes, Callers
  <2>2. CASE RestoreCall \/ MirrorEnd("op")
    BY <2>2 DEF RestoreCall, MirrorEnd, ListEnd, Goto, Mirroring, Calls, CallTypes, Callers
  <2>3. CASE ListRead("list") \/ MirrorBegin("list") \/ Mirror("list") \/ MirrorOne("list") \/ MirrorEnd("list")
    BY <2>3 DEF Calls, Alone, ListRead, MirrorBegin, Mirror, MirrorOne, MirrorEnd
  <2>4. CASE ListCall("list") \/ SaveCall
    <3>1. at["op"] \in Working
      BY <2>4 DEF ListCall, SaveCall, Calls, Alone, Busy, Opening, Clearing, Working
    <3>2. Listing # <<>>
      BY <3>1, RecordShape DEF Calls, StoreTypes, Alone
    <3>3. at'["op"] = at["op"]
      BY <2>4, <3>2 DEF ListCall, SaveCall, GitIfEmpty, ListEnd, Goto, Calls, CallTypes, Callers
    <3> QED
      BY <3>1, <3>3 DEF Working, Mirroring
  <2>5. CASE SaveEnd
    BY <2>5 DEF SaveEnd, Goto, Calls, CallTypes, Callers, Aside
  <2> QED
    BY <1>1, <2>1, <2>2, <2>3, <2>4, <2>5 DEF Facade
<1>2. CASE Serve
  <2>1. UNCHANGED <<jobs, at, ans, todo, edits>>
    BY <1>2 DEF Serve, DbOpens, DbFails, ServeGet, ServePut, ServeDelete, engine, calls, counts
  <2>2. ~ServeGet
    <3>1. SUFFICES ASSUME ServeGet PROVE FALSE
      OBVIOUS
    <3>2. tx \in Seq(Requests) /\ tx # <<>> /\ Head(tx).kind = "get" /\ 1 \in 1..Len(tx) /\ Head(tx) = tx[1]
      BY <3>1, HeadTailProperties, EmptySeq, LenProperties DEF ServeGet, Calls, StoreTypes
    <3> QED
      BY <2>1, <3>2 DEF Calls, Requested, IsPut, Mirroring
  <2>3. UNCHANGED rec
    BY <1>2, <2>2 DEF Serve, DbOpens, DbFails, ServePut, ServeDelete
  <2> QED
    BY <2>1, <2>3 DEF Aside
<1>3. CASE GitLoads \/ UNCHANGED vars
  BY <1>3 DEF GitLoads, Aside, vars, local, engine, calls, counts
<1>4. CASE Reload
  <2>1. at'["op"] = "boot"
    BY <1>4 DEF Reload, FreshPage, Callers
  <2> QED
    BY <2>1 DEF Mirroring
<1> QED
  BY <1>1, <1>2, <1>3, <1>4, GitServes DEF Next, RunGit, Rests

LEMMA MirrorsStep ==
    ASSUME Calls, Order, [Next]_vars
    PROVE  Mirrors'
<1>1. /\ Calls' /\ edits \in Nat /\ rec \in Store \cup {NoStore}
      /\ Listing \in Seq(Ids) /\ (rec = NoStore => Listing = <<>>) /\ (rec # NoStore => Listing = rec.log)
  BY CallsStep, Counted, RecordShape DEF Calls, StoreTypes
<1>2. CASE at'["op"] \notin Mirroring
  BY <1>2 DEF Mirrors, Mirroring
<1>3. CASE Aside
  BY <1>3, AsideKeeps DEF Order
<1>4. CASE (ListCall("op") \/ ListRead("op")) /\ at'["op"] \in Mirroring
  <2>1. /\ UNCHANGED <<rec, edits>> /\ GitIfEmpty("op")
    BY <1>4 DEF ListCall, ListRead, Goto, Mirroring, Calls, CallTypes, Callers
  <2>2. /\ Listing = <<>> /\ at'["op"] = "listGit" /\ ans'["op"] = <<>>
    BY <1>4, <2>1 DEF GitIfEmpty, ListEnd, Goto, Mirroring, Calls, CallTypes, Callers
  <2>3. Listing' = Listing
    BY <2>1 DEF Listing
  <2>4. Timeline(ans'["op"], edits')
    BY <2>2, NoTimeline
  <2> QED
    BY <2>2, <2>3, <2>4 DEF Mirrors
<1>5. CASE MirrorBegin("op") /\ at'["op"] \in Mirroring
  <2>1. /\ UNCHANGED <<rec, edits>> /\ at["op"] = "listGit" /\ at'["op"] = "mirror" /\ todo'["op"] = ans["op"]
    BY <1>5 DEF MirrorBegin, ListEnd, Goto, Mirroring, Calls, CallTypes, Callers
  <2>2. Listing' = <<>> /\ Timeline(todo'["op"], edits')
    BY <2>1 DEF Order, Mirrors, Listing
  <2>3. \A k \in 1..Len(todo'["op"]) : Under(Listing', DocOf(todo'["op"][k]))
    BY <2>2, NoTimeline
  <2> QED
    BY <2>1, <2>2, <2>3 DEF Mirrors
<1>6. CASE Mirror("op")
  <2> DEFINE s == todo["op"]
  <2>1. /\ UNCHANGED <<rec, edits>> /\ at["op"] = "mirror" /\ s \in Seq(Ids) /\ s # <<>>
        /\ todo'["op"] = Tail(s) /\ Answered("op")
    BY <1>6 DEF Mirror, Calls, CallTypes, Callers
  <2>2. Timeline(s, edits) /\ \A k \in 1..Len(s) : Under(Listing, DocOf(s[k]))
    BY <2>1 DEF Order, Mirrors
  <2>3. Listing' = Listing
    BY <2>1 DEF Listing
  <2> HIDE DEF s
  <2>4. /\ Timeline(Tail(s), edits) /\ Head(s) = s[1] /\ 1 \in 1..Len(s)
        /\ 1 <= DocOf(s[1]) /\ DocOf(s[1]) <= edits
        /\ \A i \in 1..Len(Tail(s)) : /\ Tail(s)[i] = s[i + 1] /\ i + 1 \in 1..Len(s)
                                      /\ DocOf(s[1]) < DocOf(Tail(s)[i])
    BY <2>1, <2>2, RestOfTimeline
  <2>5. /\ Timeline(todo'["op"], edits')
        /\ \A k \in 1..Len(todo'["op"]) : Under(Listing', DocOf(todo'["op"][k]))
    BY <2>1, <2>2, <2>3, <2>4
  <2>6. CASE git = 0
    <3>1. at'["op"] = "mirror"
      BY <1>6, <2>1, <2>6 DEF Mirror
    <3> QED
      BY <2>5, <3>1 DEF Mirrors
  <2>7. CASE git # 0
    <3>1. Ask("op", "read", Head(s)) /\ at'["op"] = "mirrored" /\ ans'["op"] = <<>>
      BY <1>6, <2>7 DEF Mirror, s, Goto, Calls, CallTypes, Callers
    <3>2. PICK h \in Ids : h = s[1]
      BY <2>1, <2>4, ElementOfSeq
    <3>3. \A i \in 1..Len(jobs) : jobs[i].who # "op"
      BY <2>1, Quiet
    <3>4. /\ Len(jobs') = Len(jobs) + 1 /\ Len(jobs) \in Nat
          /\ \A i \in 1..Len(jobs) : jobs'[i] = jobs[i]
          /\ jobs'[Len(jobs) + 1].of = h
      BY <2>4, <2>7, <3>1, <3>2, AsksLast DEF Calls, Kinds
    <3>5. \A i \in 1..Len(jobs') : i \in 1..Len(jobs) \/ i = Len(jobs) + 1
      BY <3>4
    <3>6. Between(DocOf(h))'
      BY <2>1, <2>2, <2>3, <2>4, <3>2 DEF Between
    <3> QED
      BY <2>5, <3>1, <3>3, <3>4, <3>5, <3>6 DEF Mirrors
  <2> QED
    BY <2>6, <2>7
<1>7. CASE MirrorOne("op")
  <2>1. /\ UNCHANGED <<todo, edits>> /\ at["op"] = "mirrored" /\ at'["op"] = "mirror"
    BY <1>7 DEF MirrorOne, Goto, Calls, CallTypes, Callers
  <2>2. /\ Timeline(todo["op"], edits)
        /\ \A k \in 1..Len(todo["op"]) : Under(Listing, DocOf(todo["op"][k]))
        /\ ans["op"] # <<>> => Between(DocOf(ans["op"][1]))
    BY <2>1 DEF Order, Mirrors
  <2>3. CASE ans["op"] = <<>>
    <3>1. Listing' = Listing
      BY <1>7, <2>3 DEF MirrorOne, Listing
    <3> QED
      BY <2>1, <2>2, <3>1 DEF Mirrors
  <2>4. CASE ans["op"] # <<>>
    <3>1. ans["op"][1] \in Ids /\ Record \in Store /\ Record.log = Listing
      BY <1>1, <2>4, Answers, RecordShape DEF Callers
    <3>2. rec' \in Store /\ rec'.log = Append(Listing, ans["op"][1])
      BY <1>7, <2>4, <3>1, VersionIsAppended DEF MirrorOne
    <3>3. Listing' = Append(Listing, ans["op"][1])
      BY <3>2, StoreShape DEF Listing
    <3>4. ASSUME NEW k \in 1..Len(todo["op"])
          PROVE  Under(Append(Listing, ans["op"][1]), DocOf(todo["op"][k]))
      <4>1. DocOf(ans["op"][1]) < DocOf(todo["op"][k]) /\ Under(Listing, DocOf(todo["op"][k]))
        BY <2>2, <2>4, <3>4 DEF Between
      <4>2. /\ Len(Append(Listing, ans["op"][1])) = Len(Listing) + 1 /\ Len(Listing) \in Nat
            /\ Append(Listing, ans["op"][1])[Len(Listing) + 1] = ans["op"][1]
            /\ \A i \in 1..Len(Listing) : Append(Listing, ans["op"][1])[i] = Listing[i]
        BY <1>1, <3>1, AppendProperties, LenProperties
      <4>3. \A i \in 1..Len(Append(Listing, ans["op"][1])) : i \in 1..Len(Listing) \/ i = Len(Listing) + 1
        BY <4>2
      <4> QED
        BY <4>1, <4>2, <4>3 DEF Under
    <3> QED
      BY <2>1, <2>2, <3>3, <3>4 DEF Mirrors
  <2> QED
    BY <2>3, <2>4
<1>8. ASSUME NEW j, NEW a, Serves(j, a), at'["op"] \in Mirroring PROVE Mirrors'
  <2>1. UNCHANGED <<rec, at, todo, edits>>
    BY <1>8 DEF Serves, InGit, local
  <2>2. /\ Len(jobs') = Len(jobs) - 1 /\ Len(jobs) \in Nat \ {0} /\ 1 \in 1..Len(jobs) /\ j = jobs[1]
        /\ \A i \in 1..Len(jobs') : jobs'[i] = jobs[i + 1] /\ jobs'[i].who # j.who
        /\ ans'[j.who] = a /\ \A q \in Callers \ {j.who} : ans'[q] = ans[q]
    BY <1>8, ServesKeeps
  <2>3. \A i \in 1..Len(jobs') : \E k \in 1..Len(jobs) : jobs'[i] = jobs[k]
    <3>1. \A i \in 1..Len(jobs') : i + 1 \in 1..Len(jobs)
      BY <2>2
    <3> QED
      BY <2>2, <3>1
  <2>4. CASE j.who # "op"
    <3>1. ans'["op"] = ans["op"]
      BY <2>2, <2>4 DEF Callers
    <3> QED
      BY <2>1, <2>3, <3>1, AsideKeeps DEF Aside, Order
  <2>5. CASE j.who = "op"
    <3>1. Listing' = Listing /\ \A d : Between(d)' <=> Between(d)
      BY <2>1 DEF Listing, Between, Under
    <3>2. Asked(at["op"], j.kind) /\ Told(repos[j.repo], j, a) /\ j.of \in Ids /\ j.repo \in 1..Len(repos)
      BY <1>8, <2>2, <2>5 DEF Serves, Calls, Chain
    <3>3. CASE at["op"] = "listGit"
      <4>1. j.kind = "list"
        BY <3>2, <3>3 DEF Asked
      <4>2. Timeline(a, edits)
        BY <3>2, <4>1, NoTimeline, StoreShape DEF Told, Order, Timelines, Sound
      <4> QED
        BY <2>1, <2>2, <2>5, <3>1, <3>3, <4>2 DEF Order, Mirrors, Mirroring
    <3>4. CASE at["op"] = "mirrored"
      <4>1. j.kind = "read"
        BY <3>2, <3>4 DEF Asked
      <4>2. Between(DocOf(j.of))
        BY <2>2, <2>5, <3>4 DEF Order, Mirrors
      <4>3. DocOf(DocOf(j.of)) = DocOf(j.of)
        BY <3>2, BoundsAssumption DEF Ids, DocOf
      <4>4. a # <<>> => a[1] = DocOf(j.of)
        BY <3>2, <4>1, ShortAnswers DEF Told
      <4>5. a # <<>> => Between(DocOf(a[1]))
        BY <4>2, <4>3, <4>4
      <4>6. \A k \in 1..Len(jobs') : jobs'[k].who # "op"
        BY <2>2, <2>5
      <4>7. /\ Timeline(todo["op"], edits)
            /\ \A k \in 1..Len(todo["op"]) : Under(Listing, DocOf(todo["op"][k]))
        BY <3>4 DEF Order, Mirrors
      <4> HIDE DEF Between
      <4>8. ans'["op"] # <<>> => Between(DocOf(a[1]))'
        BY <2>2, <2>5, <3>1, <4>5
      <4> QED
        BY <2>1, <2>2, <2>5, <3>1, <3>4, <4>6, <4>7, <4>8 DEF Mirrors
    <3>5. CASE at["op"] = "mirror"
      BY <2>1, <3>1, <3>5 DEF Order, Mirrors
    <3> QED
      BY <1>8, <2>1, <3>3, <3>4, <3>5 DEF Mirroring
  <2> QED
    BY <2>4, <2>5
<1> QED
  BY <1>2, <1>3, <1>4, <1>5, <1>6, <1>7, <1>8, MirrorSteps

LEMMA OrderInit == Init /\ ~Overlap => Order
<1> SUFFICES ASSUME Init, ~Overlap PROVE Order
  OBVIOUS
<1>1. 1..Len(repos) = {} /\ 1..Len(tx) = {} /\ 1..Len(jobs) = {} /\ at["op"] = "boot"
  BY EmptySeq DEF Init, Callers
<1>2. Timelines
  BY <1>1, BlankIsSound DEF Init, Timelines
<1>3. Fresh /\ Mirrors
  BY <1>1 DEF Fresh, Mirrors
<1> QED
  BY <1>2, <1>3 DEF Order

LEMMA OrderHolds == ~Overlap /\ Spec => [](Calls /\ Order)
<1>1. Init /\ ~Overlap => Calls /\ Order
  BY CallsInit, OrderInit
<1>2. Calls /\ Order /\ [Next]_vars => (Calls /\ Order)'
  BY CallsStep, TimelinesStep, FreshStep, MirrorsStep DEF Order
<1> QED
  BY <1>1, <1>2, PTL DEF Spec

\* Every timeline, in IndexedDB, on the page, in the snapshot and in every git engine there was, is
\* oldest first and has no version twice: a mirror appends in git's order to a record that had
\* none, a restore cuts a branch off, and git gets a version before a newer one is made (commit,
\* listVersions and restore of opfs-backend.js, git-backend.js).
THEOREM TimelinesOrdered == ~Overlap => (Spec => []TimelineOrdered)
<1>1. Calls /\ Order => TimelineOrdered
  <2> SUFFICES ASSUME Calls, Order, NEW s \in ({disk, rec, blob} \cup ToSet(repos)) \ {NoStore}
               PROVE  Increasing(s.log)
    BY DEF TimelineOrdered
  <2>1. s \in Store
    BY LenProperties, ElementOfSeq DEF ToSet, Calls, StoreTypes, EngineTypes
  <2>2. Sound(s, edits)
    <3>1. CASE s \in {disk, rec, blob}
      BY <3>1 DEF Order, Timelines
    <3>2. CASE s \in ToSet(repos)
      <4>1. repos \in Seq(Store \cup {NoStore})
        BY DEF Calls, EngineTypes
      <4>2. DOMAIN repos = 1..Len(repos)
        BY <4>1, LenProperties
      <4>3. PICK i \in 1..Len(repos) : s = repos[i]
        BY <3>2, <4>2 DEF ToSet
      <4> QED
        BY <4>3 DEF Order, Timelines
    <3> QED
      BY <3>1, <3>2
  <2> QED
    BY <2>1, <2>2, StoreShape, TimelineIncreases DEF Sound
<1> QED
  BY <1>1, OrderHolds, PTL

-----------------------------------------------------------------------------
(* What the drawer shows.                                                  *)

\* Before a clear, the drawer shows what the record has; nothing while a project opens, and what is
\* cleared has at least one document.
Shown ==
    /\ at["op"] \in Opening => listed = <<>>
    /\ at["op"] \in Clearing => edits >= 1
    /\ at["op"] = "reseed" /\ wiped = 0 => listed = <<>>
    /\ at["op"] \in Working /\ wiped = 0 => \A i \in 1..Len(listed) : Has(rec, listed[i])

\* How the controller goes through opening, work and clearing, and what it shows meanwhile.
Moves ==
    \/ /\ UNCHANGED wiped
       /\ \/ at'["op"] = at["op"]
          \/ at["op"] \in Opening /\ at'["op"] \in Opening \cup {"idle", "reseed"}
          \/ at["op"] \in Working /\ at'["op"] \in Working
          \/ at["op"] = "reseed" /\ at'["op"] = "written"
          \/ at["op"] = "idle" /\ at'["op"] = "clearing"
          \/ at["op"] \in Clearing /\ at'["op"] \in Clearing
    \/ at["op"] \in Clearing /\ at'["op"] = "reseed" /\ wiped' = edits

LEMMA Regions ==
    ASSUME Calls, [Next]_vars
    PROVE  \/ Moves /\ UNCHANGED listed
           \/ UNCHANGED <<at, wiped, rec>> /\ at["op"] \in Working /\ listed' = Listing
           \/ at'["op"] = "boot" /\ listed' = <<>>
<1>1. CASE Facade
  <2>1. CASE \/ OpenCall \/ OpenGit \/ OpenEnd \/ Tip \/ ReadTip \/ TipRead
    BY <2>1 DEF OpenCall, OpenGit, OpenEnd, Tip, ReadTip, TipRead, Goto, Local, Moves, Opening,
                Calls, CallTypes, Callers
  <2>2. CASE \/ ListCall("op") \/ ListRead("op") \/ MirrorBegin("op") \/ Mirror("op") \/ MirrorOne("op")
             \/ MirrorEnd("op")
    BY <2>2 DEF ListCall, ListRead, MirrorBegin, Mirror, MirrorOne, MirrorEnd, GitIfEmpty, ListEnd, Goto, Local,
                Moves, Opening, Calls, CallTypes, Callers
  <2>3. CASE ListRead("list") \/ MirrorBegin("list") \/ Mirror("list") \/ MirrorOne("list") \/ MirrorEnd("list")
    BY <2>3 DEF Calls, Alone, ListRead, MirrorBegin, Mirror, MirrorOne, MirrorEnd
  <2>4. CASE ListCall("list")
    <3>1. at["op"] \in Working /\ at["list"] = "idle"
      BY <2>4 DEF ListCall, Calls, Alone, Busy, Opening, Clearing, Working
    <3>2. Listing # <<>> /\ rec # NoStore
      BY <3>1, RecordShape DEF Calls, StoreTypes, Alone
    <3>3. listed' = Listing /\ Goto("list", "idle") /\ UNCHANGED <<rec, wiped>>
      BY <2>4, <3>2 DEF ListCall, Hydrate, GitIfEmpty, ListEnd, Local
    <3>4. UNCHANGED at
      BY <3>1, <3>3 DEF Goto, Calls, CallTypes, Callers
    <3> QED
      BY <3>1, <3>3, <3>4
  <2>5. CASE SaveCall \/ SaveEnd
    BY <2>5 DEF SaveCall, SaveEnd, Goto, Local, Moves, Calls, CallTypes, Callers
  <2>6. CASE CommitCall \/ CommitGit \/ CommitEnd \/ RestoreCall \/ RestoreEnd
    BY <2>6 DEF CommitCall, CommitGit, CommitEnd, RestoreCall, RestoreEnd, Goto, Local, Moves, Working,
                Calls, CallTypes, Callers
  <2>7. CASE ClearCall \/ ClearDelete \/ ClearGit \/ ClearClose \/ ClearEnd
    BY <2>7 DEF ClearCall, ClearDelete, ClearGit, ClearClose, ClearEnd, Goto, Local, Moves, Clearing,
                Calls, CallTypes, Callers
  <2> QED
    BY <1>1, <2>1, <2>2, <2>3, <2>4, <2>5, <2>6, <2>7 DEF Facade
<1>2. CASE Serve \/ GitLoads \/ UNCHANGED vars
  BY <1>2 DEF Serve, DbOpens, DbFails, ServeGet, ServePut, ServeDelete, GitLoads, vars, calls, Moves
<1>3. ASSUME NEW j, NEW a, Serves(j, a) PROVE Moves /\ UNCHANGED listed
  BY <1>3 DEF Serves, InGit, Moves
<1>4. CASE Reload
  BY <1>4 DEF Reload, FreshPage, Callers
<1> QED
  BY <1>1, <1>2, <1>3, <1>4, GitServes DEF Next, RunGit, Rests

\* While the controller works no version leaves the record.
LEMMA RecordKeeps ==
    ASSUME Calls, [Next]_vars, at["op"] \in Working, at'["op"] \in Working
    PROVE  \A id : Has(rec, id) => Has(rec', id)
<1>1. rec \in Store /\ rec.log \in Seq(Ids) /\ Listing = rec.log /\ rec' # NoStore
  BY CallsStep, RecordShape, StoreShape DEF Calls, StoreTypes, Alone
<1>2. CASE UNCHANGED rec
  BY <1>2
<1>3. CASE ServeGet
  <2>1. tx \in Seq(Requests) /\ tx # <<>> /\ Head(tx).kind = "get" /\ 1 \in 1..Len(tx) /\ Head(tx) = tx[1]
    BY <1>3, HeadTailProperties, EmptySeq, LenProperties DEF ServeGet, Calls, StoreTypes
  <2> QED
    BY <2>1 DEF Calls, Requested, IsPut, Working
<1>4. ASSUME NEW p \in {"op", Nobody}, Writes(p) PROVE \A id : Has(rec, id) => Has(rec', id)
  <2>1. CASE rec'.log = rec.log
    BY <2>1 DEF Has
  <2>2. ASSUME NEW v \in Ids, rec'.log = Append(rec.log, v) PROVE \A id : Has(rec, id) => Has(rec', id)
    <3>1. /\ Len(rec'.log) = Len(rec.log) + 1 /\ Len(rec.log) \in Nat
          /\ \A i \in 1..Len(rec.log) : rec'.log[i] = rec.log[i] /\ i \in 1..Len(rec'.log)
      BY <1>1, <2>2, AppendProperties, LenProperties
    <3> QED
      BY <3>1 DEF Has, Contains
  <2> QED
    BY <1>1, <1>4, <2>1, <2>2 DEF Writes
<1> QED
  BY <1>1, <1>2, <1>3, <1>4, Stores DEF Still, Blanks, ServePut, ServeDelete

LEMMA ShownStep ==
    ASSUME Calls, Order, Shown, [Next]_vars
    PROVE  Shown'
<1>1. /\ Calls' /\ edits \in Nat /\ edits' \in Nat /\ edits <= edits' /\ wiped \in Nat
      /\ rec \in Store \cup {NoStore}
  BY CallsStep, Counted, BoundsAssumption DEF Calls, StoreTypes, Docs, NoDoc
<1>2. /\ "reseed" \notin Opening \cup Clearing \cup Working /\ "boot" \in Opening
      /\ "boot" \notin Clearing \cup Working \cup {"reseed"} /\ "written" \in Working
      /\ "idle" \in Working /\ "clearing" \in Clearing
      /\ \A w \in Opening : w \notin Clearing \cup Working \cup {"reseed"}
      /\ \A w \in Clearing : w \notin Opening \cup Working \cup {"reseed"}
      /\ \A w \in Working : w \notin Opening \cup Clearing \cup {"reseed"}
  BY DEF Opening, Clearing, Working
<1>3. 1..Len(<<>>) = {}
  OBVIOUS
<1>4. CASE at'["op"] = "boot" /\ listed' = <<>>
  BY <1>2, <1>4 DEF Shown
<1>5. CASE UNCHANGED <<at, wiped, rec>> /\ at["op"] \in Working /\ listed' = Listing
  <2>1. rec # NoStore /\ Listing = rec.log
    BY <1>1, <1>5, RecordShape DEF Calls, Alone
  <2>2. \A i \in 1..Len(listed') : Has(rec', listed'[i])
    BY <1>5, <2>1 DEF Has, Contains
  <2> QED
    BY <1>2, <1>5, <2>2 DEF Shown
<1>6. CASE Moves /\ UNCHANGED listed
  <2>1. CASE at["op"] \in Opening /\ at'["op"] \in Opening \cup {"idle", "reseed"}
    BY <1>2, <1>3, <1>6, <2>1 DEF Shown
  <2>2. CASE at["op"] \in Clearing /\ at'["op"] \in Clearing
    BY <1>1, <1>2, <1>6, <2>2 DEF Shown
  <2>3. CASE at["op"] \in Clearing /\ at'["op"] = "reseed" /\ wiped' = edits
    BY <1>1, <1>2, <2>3 DEF Shown
  <2>4. CASE at["op"] = "idle" /\ at'["op"] = "clearing"
    <3>1. rec \in Store /\ rec.log \in Seq(Ids) /\ rec.log # <<>> /\ Timeline(rec.log, edits)
      BY <1>1, <1>2, <2>4, StoreShape DEF Calls, Alone, Order, Timelines, Sound
    <3>2. 1 \in 1..Len(rec.log)
      BY <3>1, EmptySeq, LenProperties
    <3>3. edits >= 1
      <4>1. rec.log[1] \in Ids
        BY <3>1, <3>2, ElementOfSeq
      <4>2. DocOf(rec.log[1]) \in Nat
        BY <4>1, DocOfId, BoundsAssumption DEF Docs, NoDoc
      <4> QED
        BY <1>1, <3>1, <3>2, <4>2 DEF Timeline
    <3> QED
      BY <1>1, <1>2, <2>4, <3>3 DEF Shown
  <2>5. CASE at["op"] = "reseed" /\ at'["op"] = "written" /\ UNCHANGED wiped
    BY <1>2, <1>3, <1>6, <2>5 DEF Shown
  <2>6. CASE at["op"] \in Working /\ at'["op"] \in Working /\ UNCHANGED wiped
    BY <1>2, <1>6, <2>6, RecordKeeps DEF Shown
  <2>7. CASE at'["op"] = at["op"] /\ at["op"] = "reseed" /\ UNCHANGED wiped
    BY <1>2, <1>6, <2>7 DEF Shown
  <2> QED
    BY <1>1, <1>6, <2>1, <2>2, <2>3, <2>4, <2>5, <2>6, <2>7 DEF Moves, Calls, Alone
<1> QED
  BY <1>4, <1>5, <1>6, Regions

\* Until a clear, the drawer never shows a version the record cannot restore: nothing is shown before
\* the record is there, a list shows the record's own versions, and no write takes one away
\* (listVersions and restore, opfs-backend.js).
THEOREM DrawerIsRestorable == ~Overlap => (Spec => []ShownIsRestorable)
<1>1. Init /\ ~Overlap => Shown
  <2> SUFFICES ASSUME Init PROVE Shown
    OBVIOUS
  <2>1. at["op"] = "boot" /\ listed = <<>>
    BY DEF Init, Callers
  <2> QED
    BY <2>1 DEF Shown, Clearing, Working
<1>2. Calls /\ Order /\ Shown /\ [Next]_vars => Shown'
  BY ShownStep
<1>3. Calls /\ Shown => ShownIsRestorable
  <2> SUFFICES ASSUME Calls, Shown, wiped = 0, ~Busy, NEW i \in 1..Len(listed) PROVE Has(Record, listed[i])
    BY DEF ShownIsRestorable
  <2>1. at["op"] \in Working
    BY DEF Calls, Alone, Busy, Opening, Clearing, Working
  <2>2. Record = rec
    BY <2>1 DEF Calls, Alone, Record
  <2> QED
    BY <2>1, <2>2 DEF Shown
<1> QED
  BY <1>1, <1>2, <1>3, OrderHolds, PTL DEF Spec

-----------------------------------------------------------------------------
(* IndexedDB comes first.                                                  *)

\* In a commit, whatever is written behind its own write has the record's timeline; once that write is
\* answered, all that is on its way and what is stored has it, unless a write failed.
Ahead ==
    at["op"] \in Committing =>
      /\ \A i \in 1..Len(tx) : tx[i].who = "op" => \A k \in i..Len(tx) : tx[k].rec.log = rec.log
      /\ (\A i \in 1..Len(tx) : tx[i].who # "op") =>
           /\ \A k \in 1..Len(tx) : tx[k].rec.log = rec.log
           /\ idb = "open" => "put" \in failed \/ (disk # NoStore /\ disk.log = rec.log)

LEMMA AheadStep ==
    ASSUME Calls, Ahead, [Next]_vars
    PROVE  Ahead'
<1>1. SUFFICES ASSUME at'["op"] \in Committing PROVE Ahead'
  BY DEF Ahead
<1>2. /\ tx \in Seq(Requests) /\ Len(tx) \in Nat /\ (tx # <<>> => 1 \in 1..Len(tx))
      /\ Calls' /\ rec' # NoStore /\ rec \in Store \cup {NoStore}
  BY <1>1, CallsStep, EmptySeq, LenProperties DEF Calls, StoreTypes, Alone, Committing, Working
<1>3. CASE Still
  <2>1. at["op"] \in Committing /\ UNCHANGED <<rec, tx, disk, idb, failed>>
    BY <1>1, <1>3 DEF Still, Committing
  <2> QED
    BY <2>1 DEF Ahead
<1>4. CASE Blanks
  BY <1>2, <1>4 DEF Blanks
<1>5. ASSUME NEW p \in {"op", Nobody}, Writes(p) PROVE Ahead'
  <2>1. /\ idb = "failed" => tx' = <<>>
        /\ idb = "open" =>
             /\ Len(tx') = Len(tx) + 1
             /\ \A i \in 1..Len(tx) : tx'[i] = tx[i]
             /\ tx'[Len(tx) + 1].rec = rec' /\ tx'[Len(tx) + 1].who = p
        /\ idb \in {"open", "failed"} /\ UNCHANGED <<disk, idb, failed>>
    BY <1>5, WriteRequested DEF Writes, Calls, StoreTypes
  <2>2. CASE idb = "failed"
    <3>1. 1..Len(tx') = {} /\ idb' # "open"
      BY <2>1, <2>2, EmptySeq
    <3> QED
      BY <3>1 DEF Ahead
  <2>3. CASE idb = "open" /\ p = "op" /\ Answered("op")
    <3>1. \A i \in 1..Len(tx') : (i \in 1..Len(tx) /\ tx'[i].who # "op") \/ i = Len(tx) + 1
      BY <1>2, <2>1, <2>3 DEF Answered
    <3>2. /\ Len(tx) + 1 \in 1..Len(tx') /\ tx'[Len(tx) + 1].who = "op"
          /\ \A k \in (Len(tx) + 1)..Len(tx') : k = Len(tx) + 1
      BY <1>2, <2>1, <2>3
    <3> QED
      BY <2>1, <2>3, <3>1, <3>2 DEF Ahead
  <2>4. CASE idb = "open" /\ p = Nobody /\ at'["op"] = at["op"] /\ rec # NoStore /\ rec'.log = rec.log
    <3>1. \A i \in 1..Len(tx') : i \in 1..Len(tx) \/ i = Len(tx) + 1
      BY <1>2, <2>1, <2>4
    <3>2. \A i \in 1..Len(tx), k \in 1..Len(tx') : k >= i => k \in i..Len(tx) \/ k = Len(tx) + 1
      BY <1>2, <3>1
    <3>3. \A i \in 1..Len(tx') : tx'[i].who = "op" => i \in 1..Len(tx) /\ tx[i].who = "op"
      BY <2>1, <2>4, <3>1 DEF Nobody
    <3>4. \A i \in 1..Len(tx) : i \in 1..Len(tx') /\ tx'[i].who = tx[i].who
      BY <1>2, <2>1, <2>4
    <3>5. at["op"] \in Committing
      BY <1>1, <2>4
    <3>6. \A i \in 1..Len(tx') : tx'[i].who = "op" => \A k \in i..Len(tx') : tx'[k].rec.log = rec'.log
      <4> SUFFICES ASSUME NEW i \in 1..Len(tx'), tx'[i].who = "op", NEW k \in i..Len(tx')
                   PROVE  tx'[k].rec.log = rec'.log
        OBVIOUS
      <4>1. i \in 1..Len(tx) /\ tx[i].who = "op"
        BY <3>3
      <4>2. k \in 1..Len(tx') /\ k >= i
        BY <1>2, <2>1, <2>4, <4>1
      <4>3. k \in i..Len(tx) \/ k = Len(tx) + 1
        BY <3>2, <4>1, <4>2
      <4>4. k \in i..Len(tx) => k \in 1..Len(tx)
        BY <1>2, <4>1
      <4> QED
        BY <2>1, <2>4, <3>5, <4>1, <4>3, <4>4 DEF Ahead
    <3>7. ASSUME \A i \in 1..Len(tx') : tx'[i].who # "op"
          PROVE  /\ \A k \in 1..Len(tx') : tx'[k].rec.log = rec'.log
                 /\ "put" \in failed \/ (disk # NoStore /\ disk.log = rec'.log)
      <4>1. \A i \in 1..Len(tx) : tx[i].who # "op"
        BY <3>4, <3>7
      <4> QED
        BY <2>1, <2>4, <3>1, <3>5, <4>1 DEF Ahead
    <3> QED
      BY <2>1, <3>6, <3>7 DEF Ahead
  <2> QED
    BY <1>1, <1>5, <2>1, <2>2, <2>3, <2>4 DEF Writes
<1>6. CASE ServeGet \/ ServePut \/ ServeDelete
  <2>1. /\ idb = "open" /\ idb' = "open" /\ tx' = Tail(tx) /\ tx # <<>> /\ Head(tx) = tx[1] /\ 1 \in 1..Len(tx)
        /\ at' = at
    BY <1>2, <1>6, HeadTailProperties DEF ServeGet, ServePut, ServeDelete, calls
  <2>2. /\ Len(tx') = Len(tx) - 1 /\ \A i \in 1..Len(tx') : tx'[i] = tx[i + 1] /\ i + 1 \in 1..Len(tx)
    BY <1>2, <2>1, HeadTailProperties
  <2>3. at["op"] \in Committing /\ rec # NoStore
    BY <1>1, <2>1 DEF Calls, Alone, Committing, Working
  <2>4. IsPut(tx[1]) /\ \A i \in 1..Len(tx) : tx[i].rec # NoStore
    BY <2>1, <2>3, StoreShape DEF Calls, Requested, IsPut
  <2>5. /\ UNCHANGED rec
        /\ (disk' = tx[1].rec \/ "put" \in failed')
    BY <1>6, <2>1, <2>4 DEF ServeGet, ServePut, ServeDelete, IsPut
  <2>6. ASSUME NEW i \in 1..Len(tx'), tx'[i].who = "op", NEW k \in i..Len(tx') PROVE tx'[k].rec.log = rec'.log
    <3>1. i + 1 \in 1..Len(tx) /\ tx[i + 1].who = "op" /\ k \in 1..Len(tx') /\ k + 1 \in (i + 1)..Len(tx)
      BY <1>2, <2>2, <2>6
    <3> QED
      BY <2>2, <2>3, <2>5, <3>1 DEF Ahead
  <2>7. ASSUME \A i \in 1..Len(tx') : tx'[i].who # "op"
        PROVE  /\ \A k \in 1..Len(tx') : tx'[k].rec.log = rec'.log
               /\ "put" \in failed' \/ (disk' # NoStore /\ disk'.log = rec'.log)
    <3>1. \A k \in 1..Len(tx) : tx[k].rec.log = rec.log
      <4>1. CASE tx[1].who = "op"
        BY <2>1, <2>3, <4>1 DEF Ahead
      <4>2. CASE tx[1].who # "op"
        <5>1. \A i \in 1..Len(tx) : i = 1 \/ (i - 1 \in 1..Len(tx') /\ tx'[i - 1] = tx[i])
          BY <1>2, <2>2
        <5>2. \A i \in 1..Len(tx) : tx[i].who # "op"
          BY <2>7, <4>2, <5>1
        <5> QED
          BY <2>3, <5>2 DEF Ahead
      <4> QED
        BY <4>1, <4>2
    <3> QED
      BY <2>1, <2>2, <2>4, <2>5, <3>1
  <2> QED
    BY <2>6, <2>7 DEF Ahead
<1> QED
  BY <1>3, <1>4, <1>5, <1>6, Stores

\* A version reaches git only when IndexedDB has it, unless this page cannot write there: the commit
\* asks git after its own write was answered, and no write that followed it has less (commit,
\* opfs-backend.js).
THEOREM DatabaseComesFirst == ~Overlap => (Spec => PrimaryFirst)
<1>1. Init => Ahead
  BY DEF Init, Ahead, Callers, Committing
<1>2. Calls /\ Ahead /\ [Next]_vars => Ahead'
  BY AheadStep
<1>3. ASSUME Calls, Order, Ahead, GitCommit, idb = "open", "put" \notin failed
      PROVE  disk # NoStore /\ Has(disk, Head(jobs).of)
  <2>1. 1 \in 1..Len(jobs) /\ Head(jobs) = jobs[1] /\ jobs[1].kind = "commit"
    BY <1>3, HeadTailProperties, LenProperties, EmptySeq DEF GitCommit, Job, Calls, EngineTypes
  <2>2. at["op"] = "committed" /\ jobs[1].of = Last(rec.log)
    BY <1>3, <2>1, CommitJobs DEF Order, Fresh
  <2>3. \A i \in 1..Len(tx) : tx[i].who # "op"
    BY <1>3, <2>2 DEF Calls, Requested
  <2>4. disk # NoStore /\ disk.log = rec.log
    BY <1>3, <2>2, <2>3 DEF Ahead, Committing
  <2>5. rec.log # <<>> /\ rec.log \in Seq(Ids)
    BY <1>3, <2>2, StoreShape DEF Calls, StoreTypes, Alone, Working
  <2>6. Len(rec.log) \in 1..Len(rec.log)
    BY <2>5, EmptySeq, LenProperties
  <2> QED
    BY <2>1, <2>2, <2>4, <2>6 DEF Has, Contains, Last
<1>4. Calls /\ Order /\ Ahead /\ [Next]_vars =>
        [(GitCommit /\ idb = "open" /\ "put" \notin failed) => disk # NoStore /\ Has(disk, Head(jobs).of)]_vars
  BY <1>3
<1> QED
  BY <1>1, <1>2, <1>4, OrderHolds, PTL DEF Spec, PrimaryFirst

=============================================================================
