---------------------------- MODULE LatestWins ----------------------------
(***************************************************************************)
(* What the CAD runtime worker promises the page, with nothing of how it   *)
(* does it: requests are answered once each, in the order they arrived,    *)
(* and among the kinds of request that supersede each other (execute,      *)
(* params_resolve, analyze) only the newest one may be answered with a     *)
(* result.  RuntimeWorker is shown to implement this specification.        *)
(***************************************************************************)
EXTENDS Naturals, Sequences

CONSTANTS Requests,     \* the messages a page can post: records with a kind and a key
          Coalescible,  \* the kinds where the newest request wins
          Want,         \* Want[key]: the geometry an execute of that key asks for
          NoMesh        \* what every answer but an execute's carries

VARIABLES jobs,   \* the requests received, in order
          sent    \* the answers given: sent[i] answers jobs[i]

vars == <<jobs, sent>>

\* A newer request of the same kind has been received.
Superseded(i) ==
    \E j \in DOMAIN jobs : j > i /\ jobs[j].kind = jobs[i].kind

\* An analysis yields to an execute that is waiting behind it.
Yields(i) ==
    /\ jobs[i].kind = "analyze"
    /\ \E j \in DOMAIN jobs : j > i /\ jobs[j].kind = "execute"

Init == jobs = <<>> /\ sent = <<>>

Receive == \E r \in Requests : jobs' = Append(jobs, r) /\ UNCHANGED sent

\* A result is only ever the newest request's, and it is the one asked for.
Deliver(i) ==
    /\ jobs[i].kind \in Coalescible => ~Superseded(i)
    /\ sent' = Append(sent,
                 [outcome |-> "ok",
                  mesh |-> IF jobs[i].kind = "execute" THEN Want[jobs[i].key] ELSE NoMesh])

\* A request is only cancelled for the sake of another one.
Cancel(i) ==
    /\ jobs[i].kind \in Coalescible
    /\ Superseded(i) \/ Yields(i)
    /\ sent' = Append(sent, [outcome |-> "cancelled", mesh |-> NoMesh])

Fail == sent' = Append(sent, [outcome |-> "error", mesh |-> NoMesh])

Answer ==
    LET i == Len(sent) + 1
    IN  /\ i <= Len(jobs)
        /\ Deliver(i) \/ Cancel(i) \/ Fail
        /\ UNCHANGED jobs

Next == Receive \/ Answer

Spec == Init /\ [][Next]_vars
============================================================================
