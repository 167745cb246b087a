---------------------------- MODULE AnalysisJobs ----------------------------
(***************************************************************************)
(* The life of an analysis between the API, Redis, the workers and the     *)
(* analyses table.                                                         *)
(*                                                                         *)
(* The API inserts a row and enqueues a job (api/v1/analyses.py,           *)
(* jobs/queue.py).  A worker reserves the job, claims the row, runs the    *)
(* pipeline, writes the outcome and acknowledges the job (worker.py,       *)
(* db/repositories/analyses.py).  Every worker also runs a sweep that      *)
(* requeues rows whose heartbeat is older than five minutes.  Each Redis   *)
(* command and each SQL statement commits on its own, so every one of them *)
(* is a step here and the two coroutines of a worker, other workers and    *)
(* the API may run between any two.                                        *)
(*                                                                         *)
(* Time is reduced to one bit per row (stale: heartbeat_at is more than    *)
(* five minutes old) and to the expiry of a dedupe key.                    *)
(***************************************************************************)
EXTENDS Naturals, Sequences, SequencesExt

CONSTANTS
    Analyses,    \* ids of analyses rows
    Target,      \* Target[a]: the (document, policy) pair of row a
    Workers,     \* worker ids; a fresh one per process, see make_worker_id
    NoWorker,    \* worker_id IS NULL
    NoAnalysis,  \* no job in hand
    Faults,      \* the kinds of trouble admitted, a subset of FaultKinds
    MaxFaults    \* bound: how many budgeted faults may happen

\* raise    an attempt of the pipeline raises                 (not budgeted)
\* backlog  a job may wait in Redis longer than five minutes  (not budgeted)
\* kill     a worker process dies between two statements
\* api      an API request stops between its INSERT and its LPUSH
\* redis    a Redis command of a worker raises
\* db       an SQL statement of a worker raises
\* flush    Redis loses its content
\* lapse    a live owner lets its heartbeat become five minutes old
FaultKinds == {"raise", "backlog", "kill", "api", "redis", "db", "flush", "lapse"}

ASSUME ConstantsAssumption ==
    /\ DOMAIN Target = Analyses
    /\ NoWorker \notin Workers
    /\ NoAnalysis \notin Analyses
    /\ Faults \subseteq FaultKinds
    /\ MaxFaults \in Nat

MaxAttempts == 3

VARIABLES
    status,      \* analyses.status; "absent" before the INSERT
    owner,       \* analyses.worker_id
    stale,       \* heartbeat_at < NOW() - 5 minutes
    attempts,    \* analyses.attempt_count
    pending,     \* Redis list, leftmost element first
    processing,  \* Redis list of each worker id
    dedupe,      \* analyses whose dedupe key exists
    request,     \* progress of the API request that created the row
    pc,          \* what the _consume coroutine of a worker does next
    job,         \* the job it holds
    claimed,     \* attempt_count in the row its claim returned
    swept,       \* rows its sweep recovered and has still to enqueue
    pushing,     \* the row its sweep has a dedupe key for but has not pushed
    faults       \* budgeted faults so far

rows  == <<status, owner, stale, attempts>>
redis == <<pending, processing, dedupe>>
loop  == <<pc, job, claimed>>
sweep == <<swept, pushing>>
vars  == <<rows, redis, request, loop, sweep, faults>>

Outcomes == {"complete", "partial", "failed"}
Active   == {"queued", "running"}
Statuses == {"absent"} \cup Active \cup Outcomes

\* _consume is before Redis ("idle"), or in _process: about to claim, inside
\* pipeline.run and complete, in the except clause, in the two commands of
\* retry, or in the two commands of acknowledge, reached on three paths.
RunningPcs == {"run", "except", "requeue", "repush",
               "ackDone", "unkeyDone", "ackFailed", "unkeyFailed"}
Pcs == {"off", "dead", "idle", "claim", "ackTaken", "unkeyTaken"} \cup RunningPcs

Alive(w) == pc[w] \notin {"off", "dead"}

\* The try block of _process and its handler: the heartbeat task exists.
Processing(w) == pc[w] \in RunningPcs

Finished(a) == status[a] \in Outcomes

TypeOK ==
    /\ status \in [Analyses -> Statuses]
    /\ owner \in [Analyses -> Workers \cup {NoWorker}]
    /\ stale \in [Analyses -> BOOLEAN]
    /\ attempts \in [Analyses -> Nat]
    /\ pending \in Seq(Analyses)
    /\ processing \in [Workers -> Seq(Analyses)]
    /\ dedupe \subseteq Analyses
    /\ request \in [Analyses -> {"none", "inserted", "keyed", "over"}]
    /\ pc \in [Workers -> Pcs]
    /\ job \in [Workers -> Analyses \cup {NoAnalysis}]
    /\ claimed \in [Workers -> Nat]
    /\ swept \in [Workers -> SUBSET Analyses]
    /\ pushing \in [Workers -> Analyses \cup {NoAnalysis}]
    /\ faults \in Nat

Init ==
    /\ status = [a \in Analyses |-> "absent"]
    /\ owner = [a \in Analyses |-> NoWorker]
    /\ stale = [a \in Analyses |-> FALSE]
    /\ attempts = [a \in Analyses |-> 0]
    /\ pending = <<>>
    /\ processing = [w \in Workers |-> <<>>]
    /\ dedupe = {}
    /\ request = [a \in Analyses |-> "none"]
    /\ pc = [w \in Workers |-> "off"]
    /\ job = [w \in Workers |-> NoAnalysis]
    /\ claimed = [w \in Workers |-> 0]
    /\ swept = [w \in Workers |-> {}]
    /\ pushing = [w \in Workers |-> NoAnalysis]
    /\ faults = 0

Fault(kind) ==
    /\ kind \in Faults
    /\ faults < MaxFaults
    /\ faults' = faults + 1

-----------------------------------------------------------------------------
(* The API request.                                                        *)

\* active_for_document, then INSERT .. ON CONFLICT DO NOTHING against the
\* partial unique index on live rows.  A request that finds a live row, at
\* either place, answers with it and changes nothing.
Create(a) ==
    /\ status[a] = "absent"
    /\ \A b \in Analyses : Target[b] = Target[a] => status[b] \notin Active
    /\ status' = [status EXCEPT ![a] = "queued"]
    /\ request' = [request EXCEPT ![a] = "inserted"]
    /\ UNCHANGED <<owner, stale, attempts, redis, loop, sweep, faults>>

\* enqueue of a fresh row: SET NX of the dedupe key, then LPUSH.
RequestSetsKey(a) ==
    /\ request[a] = "inserted"
    /\ dedupe' = dedupe \cup {a}
    /\ request' = [request EXCEPT ![a] = IF a \in dedupe THEN "over" ELSE "keyed"]
    /\ UNCHANGED <<rows, pending, processing, loop, sweep, faults>>

RequestPushes(a) ==
    /\ request[a] = "keyed"
    /\ pending' = Cons(a, pending)
    /\ request' = [request EXCEPT ![a] = "over"]
    /\ UNCHANGED <<rows, processing, dedupe, loop, sweep, faults>>

\* No queue was built at start-up (the handler only logs that), Redis raised,
\* or the API process died.
RequestStops(a) ==
    /\ request[a] \in {"inserted", "keyed"}
    /\ Fault("api")
    /\ request' = [request EXCEPT ![a] = "over"]
    /\ UNCHANGED <<rows, redis, loop, sweep>>

-----------------------------------------------------------------------------
(* The worker's consume loop.                                              *)

Goto(w, label) == pc' = [pc EXCEPT ![w] = label]

BackToLoop(w) ==
    /\ Goto(w, "idle")
    /\ job' = [job EXCEPT ![w] = NoAnalysis]
    /\ claimed' = [claimed EXCEPT ![w] = 0]

\* Worker.start: requeue_stalled moves this id's processing list, one
\* RPOPLPUSH at a time, to the pending list.
Start(w) ==
    /\ pc[w] = "off"
    /\ pending' = processing[w] \o pending
    /\ processing' = [processing EXCEPT ![w] = <<>>]
    /\ Goto(w, "idle")
    /\ UNCHANGED <<rows, dedupe, request, job, claimed, sweep, faults>>

\* Faulty variant of Reserve: a plain BRPOP, the job is in no list any more.
ReserveByPop(w) ==
    /\ pc[w] = "idle"
    /\ pending # <<>>
    /\ job' = [job EXCEPT ![w] = Last(pending)]
    /\ pending' = Front(pending)
    /\ Goto(w, "claim")
    /\ UNCHANGED <<rows, processing, dedupe, request, claimed, sweep, faults>>

\* BRPOPLPUSH; a timeout is a stuttering step.
Reserve(w) ==
    /\ pc[w] = "idle"
    /\ pending # <<>>
    /\ LET a == pending[Len(pending)] IN
        /\ processing' = [processing EXCEPT ![w] = Cons(a, @)]
        /\ job' = [job EXCEPT ![w] = a]
    /\ pending' = Front(pending)
    /\ Goto(w, "claim")
    /\ UNCHANGED <<rows, dedupe, request, claimed, sweep, faults>>

\* Faulty variants of Claimable: any running row, and WHERE id = $1 alone.
ClaimableWhileFresh(a) == status[a] \in Active
ClaimableAlways(a) == status[a] # "absent"

Claimable(a) ==
    \/ status[a] = "queued"
    \/ status[a] = "running" /\ stale[a]

\* Faulty variant of Claim: the attempt is not counted.
ClaimUncounted(w) ==
    LET a == job[w] IN
    /\ pc[w] = "claim"
    /\ Claimable(a)
    /\ status' = [status EXCEPT ![a] = "running"]
    /\ owner' = [owner EXCEPT ![a] = w]
    /\ stale' = [stale EXCEPT ![a] = FALSE]
    /\ claimed' = [claimed EXCEPT ![w] = attempts[a]]
    /\ Goto(w, "run")
    /\ UNCHANGED <<attempts, redis, request, job, sweep, faults>>

\* The status-guarded UPDATE .. RETURNING.
Claim(w) ==
    LET a == job[w] IN
    /\ pc[w] = "claim"
    /\ Claimable(a)
    /\ status' = [status EXCEPT ![a] = "running"]
    /\ owner' = [owner EXCEPT ![a] = w]
    /\ stale' = [stale EXCEPT ![a] = FALSE]
    /\ attempts' = [attempts EXCEPT ![a] = @ + 1]
    /\ claimed' = [claimed EXCEPT ![w] = attempts[a] + 1]
    /\ Goto(w, "run")
    /\ UNCHANGED <<redis, request, job, sweep, faults>>

\* The UPDATE matched no row: someone else owns it, or it is finished.
ClaimMisses(w) ==
    /\ pc[w] = "claim"
    /\ ~ Claimable(job[w])
    /\ Goto(w, "ackTaken")
    /\ UNCHANGED <<rows, redis, request, job, claimed, sweep, faults>>

\* _heartbeat, every 15 seconds while _process is in its try block; guarded
\* by worker_id.
Heartbeat(w) ==
    /\ Processing(w)
    /\ owner[job[w]] = w
    /\ stale' = [stale EXCEPT ![job[w]] = FALSE]
    /\ UNCHANGED <<status, owner, attempts, redis, request, loop, sweep, faults>>

\* update_stage and mark_category_complete inside pipeline.run: they set
\* heartbeat_at for whoever calls them.
Progress(w) ==
    /\ pc[w] = "run"
    /\ stale' = [stale EXCEPT ![job[w]] = FALSE]
    /\ UNCHANGED <<status, owner, attempts, redis, request, loop, sweep, faults>>

\* AnalysisRepository.complete; the report, email and action items that
\* follow swallow their own failures.
Complete(w) ==
    /\ pc[w] = "run"
    /\ \E outcome \in {"complete", "partial"} :
         status' = [status EXCEPT ![job[w]] = outcome]
    /\ Goto(w, "ackDone")
    /\ UNCHANGED <<owner, stale, attempts, redis, request, job, claimed, sweep, faults>>

PipelineRaises(w) ==
    /\ pc[w] = "run"
    /\ "raise" \in Faults
    /\ Goto(w, "except")
    /\ UNCHANGED <<rows, redis, request, job, claimed, sweep, faults>>

\* The except clause with attempts left: update_stage (which refreshes the
\* heartbeat and leaves the row running), then AnalysisQueue.retry.
PutBack(w) ==
    /\ pc[w] = "except"
    /\ claimed[w] < MaxAttempts
    /\ stale' = [stale EXCEPT ![job[w]] = FALSE]
    /\ Goto(w, "requeue")
    /\ UNCHANGED <<status, owner, attempts, redis, request, job, claimed, sweep, faults>>

\* Faulty variant of GiveUp: the job is acknowledged, the row not failed.
GiveUpSilently(w) ==
    /\ pc[w] = "except"
    /\ claimed[w] >= MaxAttempts
    /\ Goto(w, "ackFailed")
    /\ UNCHANGED <<rows, redis, request, job, claimed, sweep, faults>>

\* The except clause on the last attempt: AnalysisRepository.fail.
GiveUp(w) ==
    /\ pc[w] = "except"
    /\ claimed[w] >= MaxAttempts
    /\ status' = [status EXCEPT ![job[w]] = "failed"]
    /\ Goto(w, "ackFailed")
    /\ UNCHANGED <<owner, stale, attempts, redis, request, job, claimed, sweep, faults>>

\* LREM of one occurrence of the job from this worker's processing list, the
\* first command of retry and of acknowledge.
Unlist(w) ==
    /\ \/ pc[w] = "requeue"   /\ Goto(w, "repush")
       \/ pc[w] = "ackDone"   /\ Goto(w, "unkeyDone")
       \/ pc[w] = "ackFailed" /\ Goto(w, "unkeyFailed")
       \/ pc[w] = "ackTaken"  /\ Goto(w, "unkeyTaken")
    /\ processing' = [processing EXCEPT ![w] = RemoveFirst(@, job[w])]
    /\ UNCHANGED <<rows, pending, dedupe, request, job, claimed, sweep, faults>>

\* Faulty variant of Repush: the job is dropped before it is pushed.
RepushForgotten(w) ==
    /\ pc[w] = "repush"
    /\ BackToLoop(w)
    /\ pending' = Cons(job'[w], pending)
    /\ UNCHANGED <<rows, processing, dedupe, request, sweep, faults>>

\* The second command of retry: LPUSH; the dedupe key stays.
Repush(w) ==
    /\ pc[w] = "repush"
    /\ pending' = Cons(job[w], pending)
    /\ BackToLoop(w)
    /\ UNCHANGED <<rows, processing, dedupe, request, sweep, faults>>

\* The second command of acknowledge: DEL of the dedupe key.
Unkey(w) ==
    /\ pc[w] \in {"unkeyDone", "unkeyFailed", "unkeyTaken"}
    /\ dedupe' = dedupe \ {job[w]}
    /\ BackToLoop(w)
    /\ UNCHANGED <<rows, pending, processing, request, sweep, faults>>

\* A statement raises outside the try block, or in its except clause: the
\* exception reaches _consume, which sleeps and goes round again.  What was
\* reserved stays in the processing list.
StepRaises(w) ==
    /\ \/ pc[w] \in {"claim", "except"} /\ Fault("db")
       \/ pc[w] \in {"ackTaken", "unkeyTaken", "ackFailed", "unkeyFailed",
                     "requeue", "repush"} /\ Fault("redis")
    /\ BackToLoop(w)
    /\ UNCHANGED <<rows, redis, request, sweep>>

\* The acknowledge of a finished analysis is inside the try block, so its
\* exception is handled like one of the pipeline.
AcknowledgeRaises(w) ==
    /\ pc[w] \in {"ackDone", "unkeyDone"}
    /\ Fault("redis")
    /\ Goto(w, "except")
    /\ UNCHANGED <<rows, redis, request, job, claimed, sweep>>

-----------------------------------------------------------------------------
(* The worker's recovery sweep.                                            *)

\* Faulty variant of Stalled: finished rows are not left out.
StalledAtAnyStatus == {a \in Analyses : /\ status[a] # "queued"
                                        /\ stale[a]
                                        /\ attempts[a] < MaxAttempts}

\* recover_stalled, one UPDATE over all rows.
Stalled == {a \in Analyses : /\ status[a] = "running"
                             /\ stale[a]
                             /\ attempts[a] < MaxAttempts}

RecoverStalled(w) ==
    /\ Alive(w)
    /\ swept[w] = {} /\ pushing[w] = NoAnalysis
    /\ Stalled # {}
    /\ status' = [a \in Analyses |-> IF a \in Stalled THEN "queued" ELSE status[a]]
    /\ owner' = [a \in Analyses |-> IF a \in Stalled THEN NoWorker ELSE owner[a]]
    /\ swept' = [swept EXCEPT ![w] = Stalled]
    /\ UNCHANGED <<stale, attempts, redis, request, loop, pushing, faults>>

\* enqueue of a recovered row: suppressed while its dedupe key exists.
SweepSetsKey(w) ==
    /\ pushing[w] = NoAnalysis
    /\ \E a \in swept[w] :
         /\ swept' = [swept EXCEPT ![w] = @ \ {a}]
         /\ pushing' = [pushing EXCEPT ![w] = IF a \in dedupe THEN NoAnalysis ELSE a]
         /\ dedupe' = dedupe \cup {a}
    /\ UNCHANGED <<rows, pending, processing, request, loop, faults>>

SweepPushes(w) ==
    /\ pushing[w] # NoAnalysis
    /\ pending' = Cons(pushing[w], pending)
    /\ pushing' = [pushing EXCEPT ![w] = NoAnalysis]
    /\ UNCHANGED <<rows, processing, dedupe, request, loop, swept, faults>>

\* The except clause of the sweep drops the rows it had not enqueued yet.
SweepRaises(w) ==
    /\ swept[w] # {} \/ pushing[w] # NoAnalysis
    /\ Fault("redis")
    /\ swept' = [swept EXCEPT ![w] = {}]
    /\ pushing' = [pushing EXCEPT ![w] = NoAnalysis]
    /\ UNCHANGED <<rows, redis, request, loop>>

-----------------------------------------------------------------------------
(* Time and trouble.                                                       *)

\* Somebody keeps heartbeat_at of row a recent.
KeptFresh(a) == \E w \in Workers : Processing(w) /\ job[w] = a /\ owner[a] = w

\* A job of a is in Redis or in the hands of a worker that will claim or
\* acknowledge it next.
InFlight(a) ==
    \/ \E i \in 1 .. Len(pending) : pending[i] = a
    \/ \E w \in Workers : /\ pc[w] \in {"claim", "ackTaken", "unkeyTaken"}
                          /\ job[w] = a

\* Five minutes pass without a write to heartbeat_at of a running row that
\* nobody keeps fresh ...
HeartbeatAges(a) ==
    /\ status[a] = "running"
    /\ ~ stale[a]
    /\ ~ KeptFresh(a)
    /\ InFlight(a) => "backlog" \in Faults
    /\ stale' = [stale EXCEPT ![a] = TRUE]
    /\ UNCHANGED <<status, owner, attempts, redis, request, loop, sweep, faults>>

\* ... or whose owner is alive but stuck, or has lost its heartbeat task.
OwnerLapses(a) ==
    /\ status[a] = "running"
    /\ ~ stale[a]
    /\ KeptFresh(a)
    /\ Fault("lapse")
    /\ stale' = [stale EXCEPT ![a] = TRUE]
    /\ UNCHANGED <<status, owner, attempts, redis, request, loop, sweep>>

\* DEDUPE_TTL_SECONDS pass.
KeyExpires(a) ==
    /\ a \in dedupe
    /\ dedupe' = dedupe \ {a}
    /\ UNCHANGED <<rows, pending, processing, request, loop, sweep, faults>>

\* Both coroutines of the process end; its Redis list and its rows stay.
WorkerDies(w) ==
    /\ Alive(w)
    /\ Fault("kill")
    /\ pc' = [pc EXCEPT ![w] = "dead"]
    /\ job' = [job EXCEPT ![w] = NoAnalysis]
    /\ claimed' = [claimed EXCEPT ![w] = 0]
    /\ swept' = [swept EXCEPT ![w] = {}]
    /\ pushing' = [pushing EXCEPT ![w] = NoAnalysis]
    /\ UNCHANGED <<rows, redis, request>>

RedisFlushed ==
    /\ Fault("flush")
    /\ pending' = <<>>
    /\ processing' = [w \in Workers |-> <<>>]
    /\ dedupe' = {}
    /\ UNCHANGED <<rows, request, loop, sweep>>

-----------------------------------------------------------------------------
\* Statements a live worker gets to after a bounded time: each has a timeout.
Consume(w) ==
    \/ Start(w)
    \/ Reserve(w)
    \/ Claim(w)
    \/ ClaimMisses(w)
    \/ Complete(w)
    \/ PipelineRaises(w)
    \/ PutBack(w)
    \/ GiveUp(w)
    \/ Unlist(w)
    \/ Repush(w)
    \/ Unkey(w)

Recover(w) ==
    \/ RecoverStalled(w)
    \/ SweepSetsKey(w)
    \/ SweepPushes(w)

Request(a) ==
    \/ RequestSetsKey(a)
    \/ RequestPushes(a)

Next ==
    \/ \E a \in Analyses :
         \/ Create(a)
         \/ Request(a)
         \/ RequestStops(a)
         \/ HeartbeatAges(a)
         \/ OwnerLapses(a)
         \/ KeyExpires(a)
    \/ \E w \in Workers :
         \/ Consume(w)
         \/ Recover(w)
         \/ Heartbeat(w)
         \/ Progress(w)
         \/ StepRaises(w)
         \/ AcknowledgeRaises(w)
         \/ SweepRaises(w)
         \/ WorkerDies(w)
    \/ RedisFlushed

Spec == Init /\ [][Next]_vars

\* asyncio runs both coroutines of a live process; the pipeline's calls have
\* timeouts, so an attempt ends one way or the other; a request that started
\* to enqueue goes on; the clock runs.  Nothing obliges a user to submit, a
\* fault to happen or a key to expire.
FairSpec ==
    /\ Spec
    /\ \A w \in Workers : WF_vars(Consume(w)) /\ WF_vars(Recover(w))
    /\ \A a \in Analyses : WF_vars(Request(a)) /\ WF_vars(HeartbeatAges(a))

-----------------------------------------------------------------------------
(* Properties.                                                             *)

\* The status machine a user of the API may rely on.
Lifecycle == INSTANCE AnalysisLifecycle

\* Every step of the queue, the workers and the sweeps is a step of the
\* status machine of AnalysisLifecycle, or invisible to it: an outcome is only
\* written after an attempt, "failed" only after three, a requeue only with
\* attempts left, and a finished row never becomes live again.
ImplementsLifecycle == Lifecycle!Spec

\* Workers that run the same analysis at the same time, one of them having
\* lost its claim, hold different attempt numbers, none of them beyond the
\* row's attempt_count.
DistinctAttempts ==
    \A w \in Workers : Processing(w) =>
        /\ claimed[w] \in 1 .. attempts[job[w]]
        /\ \A x \in Workers \ {w} :
             Processing(x) /\ job[x] = job[w] => claimed[x] # claimed[w]

\* There is never a second live analysis of a document under a policy: no
\* late job and no sweep revives a row whose successor has been submitted, so
\* idx_analyses_active_unique never rejects an UPDATE.
OneActivePerTarget ==
    \A a, b \in Analyses :
        Target[a] = Target[b] /\ status[a] \in Active /\ status[b] \in Active => a = b

\* While owners heartbeat, two workers never run the same analysis at once,
\* whatever stray jobs the retries, sweeps and expired keys leave in Redis.
SingleRunner ==
    \A w, x \in Workers :
        Processing(w) /\ Processing(x) /\ job[w] = job[x] => w = x

\* As long as its analysis has not ended, a job that a worker has reserved and not
\* put back is in the worker's processing list, where it survives the worker,
\* whatever jobs Redis errors have left in that list.
HeldJobIsListed ==
    \A w \in Workers :
        /\ pc[w] \in {"claim", "run", "except", "requeue",
                     "ackTaken", "ackDone", "ackFailed"}
        /\ ~ Finished(job[w])
        => job[w] \in ToSet(processing[w])

\* While owners heartbeat, an outcome once written stays: neither a retry nor a
\* sweep nor a late worker overwrites it.  There is one exception.  A third
\* attempt that has finished the analysis, and then meets a Redis error in its
\* acknowledgement, takes it for an error of its own and fails the analysis.
ResultIsFinal ==
    [][\A a \in Analyses : Finished(a) /\ status'[a] # status[a] =>
         /\ "redis" \in Faults
         /\ status'[a] = "failed"
         /\ \E w \in Workers : /\ pc[w] = "except" /\ pc'[w] = "ackFailed"
                               /\ job[w] = a /\ owner[a] = w
                               /\ claimed[w] >= MaxAttempts]_vars

\* A submitted analysis ends as complete, partial or failed.
EveryAnalysisEnds ==
    \A a \in Analyses : status[a] = "queued" ~> Finished(a)

\* Nobody will work on a again: it is queued, or has had its attempts, and no
\* request, sweep or live worker has it, nor has the pending list.
Stranded(a) ==
    /\ \/ status[a] = "queued"
       \/ status[a] = "running" /\ attempts[a] = MaxAttempts
    /\ request[a] = "over"
    /\ a \notin ToSet(pending)
    /\ \A w \in Workers : job[w] # a /\ a \notin swept[w] /\ pushing[w] # a

\* A submitted analysis ends, also if it meets errors; one that does not has met a
\* fault of the processes, Redis or the database, and then waits in one of the
\* two places that no sweep looks at: queued without a job, or running the
\* last attempt of a worker that is gone.  The first also follows a death in an
\* earlier attempt: the sweep makes the row queued, but the dedupe key that the
\* attempt's job has left suppresses the enqueue.
AnalysesEndOrStrand ==
    \A a \in Analyses :
        status[a] = "queued" ~> (Finished(a) \/ (faults > 0 /\ Stranded(a)))

\* A job is only dropped for the reason _process gives: another worker owns
\* the analysis, or it already finished.
DroppedJobsAreTaken ==
    [][\A w \in Workers : pc[w] = "claim" /\ pc'[w] = "ackTaken" =>
         \/ Finished(job[w])
         \/ \E x \in Workers : Processing(x) /\ job[x] = job[w]]_vars
=============================================================================
