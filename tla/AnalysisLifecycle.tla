-------------------------- MODULE AnalysisLifecycle --------------------------
(***************************************************************************)
(* What the rest of the program may rely on about the status of an         *)
(* analysis, whatever happens to queues, workers and heartbeats: the       *)
(* abstract specification that AnalysisJobs implements.                    *)
(***************************************************************************)
EXTENDS Naturals

CONSTANTS
    Analyses,    \* ids of analyses rows
    Target,      \* Target[a]: the (document, policy) pair of row a
    MaxAttempts  \* attempts after which an analysis may fail

VARIABLES
    status,      \* analyses.status
    attempts     \* analyses.attempt_count

Init ==
    /\ status = [a \in Analyses |-> "absent"]
    /\ attempts = [a \in Analyses |-> 0]

Live(a) == status[a] \in {"queued", "running"}

\* A user submits a document that has no live analysis under the policy.
Submit(a) ==
    /\ status[a] = "absent"
    /\ \A b \in Analyses : Target[b] = Target[a] => ~ Live(b)
    /\ status' = [status EXCEPT ![a] = "queued"]
    /\ UNCHANGED attempts

\* An attempt starts on a live analysis.
Attempt(a) ==
    /\ Live(a)
    /\ status' = [status EXCEPT ![a] = "running"]
    /\ attempts' = [attempts EXCEPT ![a] = @ + 1]

\* Running analyses with attempts left go back to the queue.
Requeue(S) ==
    /\ \A a \in S : status[a] = "running" /\ attempts[a] < MaxAttempts
    /\ status' = [a \in Analyses |-> IF a \in S THEN "queued" ELSE status[a]]
    /\ UNCHANGED attempts

\* An attempt delivers its result.
Succeed(a) ==
    /\ status[a] # "absent" /\ attempts[a] > 0
    /\ \E outcome \in {"complete", "partial"} :
         status' = [status EXCEPT ![a] = outcome]
    /\ UNCHANGED attempts

\* The attempts are exhausted.
Fail(a) ==
    /\ status[a] # "absent" /\ attempts[a] >= MaxAttempts
    /\ status' = [status EXCEPT ![a] = "failed"]
    /\ UNCHANGED attempts

Next ==
    \/ \E a \in Analyses : Submit(a) \/ Attempt(a) \/ Succeed(a) \/ Fail(a)
    \/ \E S \in SUBSET Analyses : Requeue(S)

Spec == Init /\ [][Next]_<<status, attempts>>
=============================================================================
