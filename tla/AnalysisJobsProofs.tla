------------------------- MODULE AnalysisJobsProofs -------------------------
(***************************************************************************)
(* Theorems about AnalysisJobs, for every set of analyses and workers,     *)
(* every choice of faults and every budget.                                *)
(***************************************************************************)
EXTENDS AnalysisJobs, Integers, WellFoundedInduction, SequenceTheorems, TLAPS

-----------------------------------------------------------------------------
(* Lemmas about the sequence operators that stand for Redis lists.         *)

\* A non-empty set of naturals contains its minimum.
LEMMA MinIsMember ==
    ASSUME NEW I \in SUBSET Nat, I # {}
    PROVE  Min(I) \in I
<1> DEFINE Less == {ss \in Nat \X Nat : ss[1] < ss[2]}
<1>1. IsWellFoundedOn(Less, Nat)
  BY NatLessThanWellFounded DEF OpToRel
<1>2. PICK x \in I : \A y \in I : <<y, x>> \notin Less
  BY <1>1, WFMin, Zenon
<1>3. \A y \in I : x =< y
  <2> TAKE y \in I
  <2>1. x \in Nat /\ y \in Nat
    OBVIOUS
  <2>2. <<y, x>> \in Less <=> y < x
    BY <2>1
  <2> QED
    BY <1>2, <2>1, <2>2
<1> QED
  BY <1>3, Zenon DEF Min

\* LREM leaves a list of jobs.
LEMMA RemoveFirstType ==
    ASSUME NEW S, NEW s \in Seq(S), NEW e
    PROVE  RemoveFirst(s, e) \in Seq(S)
<1> DEFINE I == {i \in 1 .. Len(s) : s[i] = e}
<1>1. CASE I = {}
  BY <1>1 DEF RemoveFirst
<1>2. CASE I # {}
  <2>1. SelectInSeq(s, LAMBDA v : v = e) = Min(I)
    BY <1>2 DEF SelectInSeq
  <2>2. PICK i \in 1 .. Len(s) : i = Min(I)
    <3>1. I \in SUBSET Nat
      OBVIOUS
    <3> QED
      BY <1>2, <3>1, MinIsMember
  <2>3. RemoveFirst(s, e) = SubSeq(s, 1, i - 1) \o SubSeq(s, i + 1, Len(s))
    BY <2>1, <2>2, <1>2 DEF RemoveFirst, RemoveAt
  <2> HIDE DEF I
  <2>4. \A j \in 1 .. Len(s) : s[j] \in S
    OBVIOUS
  <2>5. SubSeq(s, 1, i - 1) \in Seq(S)
    BY <2>4, SubSeqProperties
  <2>6. SubSeq(s, i + 1, Len(s)) \in Seq(S)
    BY <2>4, SubSeqProperties
  <2> QED
    BY <2>3, <2>5, <2>6, ConcatProperties
<1> QED
  BY <1>1, <1>2

\* LPUSH adds the job to the list and keeps the others.
LEMMA ConsType ==
    ASSUME NEW S, NEW s \in Seq(S), NEW e \in S
    PROVE  /\ Cons(e, s) \in Seq(S)
           /\ e \in ToSet(Cons(e, s))
           /\ ToSet(s) \subseteq ToSet(Cons(e, s))
<1>1. <<e>> \in Seq(S) /\ Len(<<e>>) = 1 /\ <<e>>[1] = e
  OBVIOUS
<1>2. /\ Cons(e, s) \in Seq(S)
      /\ Len(Cons(e, s)) = 1 + Len(s)
      /\ Cons(e, s)[1] = e
      /\ \A i \in 1 .. Len(s) : Cons(e, s)[i + 1] = s[i]
  BY <1>1, ConcatProperties DEF Cons
<1>3. DOMAIN Cons(e, s) = 1 .. Len(s) + 1 /\ DOMAIN s = 1 .. Len(s) /\ Len(s) \in Nat
  BY <1>2
<1> QED
  BY <1>2, <1>3 DEF ToSet

\* RPOP of a non-empty list.
LEMMA FrontType ==
    ASSUME NEW S, NEW s \in Seq(S), s # <<>>
    PROVE  Front(s) \in Seq(S) /\ s[Len(s)] \in S
<1>1. Len(s) \in Nat \ {0} /\ \A i \in 1 .. Len(s) : s[i] \in S
  BY EmptySeq
<1>2. SubSeq(s, 1, Len(s) - 1) \in Seq(S)
  BY <1>1, SubSeqProperties
<1> QED
  BY <1>1, <1>2 DEF Front

-----------------------------------------------------------------------------
(* Type correctness.                                                       *)

USE ConstantsAssumption

\* A worker whose program counter is past Reserve holds a job.
HandsFull ==
    \A w \in Workers : pc[w] \notin {"off", "dead", "idle"} => job[w] \in Analyses

TypeInv == TypeOK /\ HandsFull

\* What the proofs below use of the types.
LEMMA Types ==
    ASSUME TypeInv
    PROVE  /\ status \in [Analyses -> Statuses]
           /\ owner \in [Analyses -> Workers \cup {NoWorker}]
           /\ stale \in [Analyses -> BOOLEAN]
           /\ attempts \in [Analyses -> Nat]
           /\ pc \in [Workers -> Pcs]
           /\ job \in [Workers -> Analyses \cup {NoAnalysis}]
           /\ claimed \in [Workers -> Nat]
           /\ \A w \in Workers : pc[w] \notin {"off", "dead", "idle"} =>
                job[w] \in Analyses /\ attempts[job[w]] \in Nat
  BY DEF TypeInv, TypeOK, HandsFull

\* Every step keeps the types.
LEMMA TypeStep == TypeInv /\ [Next]_vars => TypeInv'
<1> SUFFICES ASSUME TypeInv, [Next]_vars
             PROVE  TypeInv'
  OBVIOUS
<1>1. ASSUME NEW a \in Analyses, Create(a)
      PROVE  TypeInv'
  BY <1>1 DEF TypeInv, TypeOK, HandsFull, Create, Pcs, RunningPcs, Statuses, Active, Outcomes,
     rows, redis, loop, sweep
<1>2. ASSUME NEW a \in Analyses, RequestSetsKey(a)
      PROVE  TypeInv'
  BY <1>2 DEF TypeInv, TypeOK, HandsFull, RequestSetsKey, Pcs, RunningPcs, Statuses, Active,
     Outcomes,
     rows, redis, loop, sweep
<1>3. ASSUME NEW a \in Analyses, RequestPushes(a)
      PROVE  TypeInv'
  BY <1>3, ConsType DEF TypeInv, TypeOK, HandsFull, RequestPushes, Pcs, RunningPcs, Statuses,
     Active, Outcomes,
     rows, redis, loop, sweep
<1>4. ASSUME NEW a \in Analyses, RequestStops(a)
      PROVE  TypeInv'
  BY <1>4 DEF TypeInv, TypeOK, HandsFull, RequestStops, Fault, Pcs, RunningPcs, Statuses, Active,
     Outcomes,
     rows, redis, loop, sweep
<1>5. ASSUME NEW a \in Analyses, HeartbeatAges(a)
      PROVE  TypeInv'
  BY <1>5 DEF TypeInv, TypeOK, HandsFull, HeartbeatAges, Pcs, RunningPcs, Statuses, Active,
     Outcomes,
     rows, redis, loop, sweep
<1>6. ASSUME NEW a \in Analyses, OwnerLapses(a)
      PROVE  TypeInv'
  BY <1>6 DEF TypeInv, TypeOK, HandsFull, OwnerLapses, Fault, Pcs, RunningPcs, Statuses, Active,
     Outcomes,
     rows, redis, loop, sweep
<1>7. ASSUME NEW a \in Analyses, KeyExpires(a)
      PROVE  TypeInv'
  BY <1>7 DEF TypeInv, TypeOK, HandsFull, KeyExpires, Pcs, RunningPcs, Statuses, Active, Outcomes,
     rows, redis, loop, sweep
<1>8. ASSUME NEW w \in Workers, Start(w)
      PROVE  TypeInv'
  BY <1>8, ConcatProperties DEF TypeInv, TypeOK, HandsFull, Start, Goto, Pcs, RunningPcs,
     Statuses, Active, Outcomes,
     rows, redis, loop, sweep
<1>9. ASSUME NEW w \in Workers, Reserve(w)
      PROVE  TypeInv'
  BY <1>9, ConsType, FrontType DEF TypeInv, TypeOK, HandsFull, Reserve, Goto, Pcs, RunningPcs,
     Statuses, Active, Outcomes,
     rows, redis, loop, sweep
<1>10. ASSUME NEW w \in Workers, Claim(w)
      PROVE  TypeInv'
  <2>1. job[w] \in Analyses /\ attempts[job[w]] \in Nat
    BY <1>10, Types DEF Claim
  <2> QED
    BY <1>10, <2>1 DEF TypeInv, TypeOK, HandsFull, Claim, Goto, Pcs, RunningPcs,
       Statuses, Active, redis, sweep
<1>11. ASSUME NEW w \in Workers, ClaimMisses(w)
      PROVE  TypeInv'
  BY <1>11 DEF TypeInv, TypeOK, HandsFull, ClaimMisses, Goto, Pcs, RunningPcs, Statuses, Active,
     Outcomes,
     rows, redis, loop, sweep
<1>12. ASSUME NEW w \in Workers, Complete(w)
      PROVE  TypeInv'
  <2>1. status' \in [Analyses -> Statuses]
    BY <1>12, Types DEF Complete, Statuses, Outcomes
  <2> QED
    BY <1>12, <2>1 DEF TypeInv, TypeOK, HandsFull, Complete, Goto, Pcs, RunningPcs,
       redis, sweep
<1>13. ASSUME NEW w \in Workers, PipelineRaises(w)
      PROVE  TypeInv'
  BY <1>13 DEF TypeInv, TypeOK, HandsFull, PipelineRaises, Goto, Pcs, RunningPcs, Statuses,
     Active, Outcomes,
     rows, redis, loop, sweep
<1>14. ASSUME NEW w \in Workers, PutBack(w)
      PROVE  TypeInv'
  BY <1>14 DEF TypeInv, TypeOK, HandsFull, PutBack, Goto, Pcs, RunningPcs, Statuses, Active,
     Outcomes,
     rows, redis, loop, sweep
<1>15. ASSUME NEW w \in Workers, GiveUp(w)
      PROVE  TypeInv'
  BY <1>15 DEF TypeInv, TypeOK, HandsFull, GiveUp, Goto, Pcs, RunningPcs, Statuses, Active,
     Outcomes,
     rows, redis, loop, sweep
<1>16. ASSUME NEW w \in Workers, Unlist(w)
      PROVE  TypeInv'
  BY <1>16, RemoveFirstType DEF TypeInv, TypeOK, HandsFull, Unlist, Goto, Pcs, RunningPcs,
     Statuses, Active, Outcomes,
     rows, redis, loop, sweep
<1>17. ASSUME NEW w \in Workers, Repush(w)
      PROVE  TypeInv'
  BY <1>17, ConsType DEF TypeInv, TypeOK, HandsFull, Repush, BackToLoop, Goto, Pcs, RunningPcs,
     Statuses, Active, Outcomes,
     rows, redis, loop, sweep
<1>18. ASSUME NEW w \in Workers, Unkey(w)
      PROVE  TypeInv'
  BY <1>18 DEF TypeInv, TypeOK, HandsFull, Unkey, BackToLoop, Goto, Pcs, RunningPcs, Statuses,
     Active, Outcomes,
     rows, redis, loop, sweep
<1>19. ASSUME NEW w \in Workers, RecoverStalled(w)
      PROVE  TypeInv'
  BY <1>19 DEF TypeInv, TypeOK, HandsFull, RecoverStalled, Alive, Stalled, Pcs, RunningPcs,
     Statuses, Active, Outcomes,
     rows, redis, loop, sweep
<1>20. ASSUME NEW w \in Workers, SweepSetsKey(w)
      PROVE  TypeInv'
  BY <1>20 DEF TypeInv, TypeOK, HandsFull, SweepSetsKey, Pcs, RunningPcs, Statuses, Active,
     Outcomes,
     rows, redis, loop, sweep
<1>21. ASSUME NEW w \in Workers, SweepPushes(w)
      PROVE  TypeInv'
  BY <1>21, ConsType DEF TypeInv, TypeOK, HandsFull, SweepPushes, Pcs, RunningPcs, Statuses,
     Active, Outcomes,
     rows, redis, loop, sweep
<1>22. ASSUME NEW w \in Workers, Heartbeat(w)
      PROVE  TypeInv'
  BY <1>22 DEF TypeInv, TypeOK, HandsFull, Heartbeat, Processing, Pcs, RunningPcs, Statuses,
     Active, Outcomes,
     rows, redis, loop, sweep
<1>23. ASSUME NEW w \in Workers, Progress(w)
      PROVE  TypeInv'
  BY <1>23 DEF TypeInv, TypeOK, HandsFull, Progress, Pcs, RunningPcs, Statuses, Active, Outcomes,
     rows, redis, loop, sweep
<1>24. ASSUME NEW w \in Workers, StepRaises(w)
      PROVE  TypeInv'
  BY <1>24 DEF TypeInv, TypeOK, HandsFull, StepRaises, Fault, BackToLoop, Goto, Pcs, RunningPcs,
     Statuses, Active, Outcomes,
     rows, redis, loop, sweep
<1>25. ASSUME NEW w \in Workers, AcknowledgeRaises(w)
      PROVE  TypeInv'
  BY <1>25 DEF TypeInv, TypeOK, HandsFull, AcknowledgeRaises, Fault, Goto, Pcs, RunningPcs,
     Statuses, Active, Outcomes,
     rows, redis, loop, sweep
<1>26. ASSUME NEW w \in Workers, SweepRaises(w)
      PROVE  TypeInv'
  BY <1>26 DEF TypeInv, TypeOK, HandsFull, SweepRaises, Fault, Pcs, RunningPcs, Statuses, Active,
     Outcomes,
     rows, redis, loop, sweep
<1>27. ASSUME NEW w \in Workers, WorkerDies(w)
      PROVE  TypeInv'
  BY <1>27 DEF TypeInv, TypeOK, HandsFull, WorkerDies, Fault, Alive, Pcs, RunningPcs, Statuses,
     Active, Outcomes,
     rows, redis, loop, sweep
<1>28. ASSUME RedisFlushed
      PROVE  TypeInv'
  BY <1>28, EmptySeq DEF TypeInv, TypeOK, HandsFull, RedisFlushed, Fault, Pcs, RunningPcs,
     Statuses, Active, Outcomes,
     rows, redis, loop, sweep
<1>29. ASSUME UNCHANGED vars
      PROVE  TypeInv'
  BY <1>29 DEF TypeInv, TypeOK, HandsFull, vars, rows, redis, loop, sweep
<1> QED
  BY <1>1, <1>2, <1>3, <1>4, <1>5, <1>6, <1>7, <1>8, <1>9, <1>10, <1>11, <1>12, <1>13, <1>14,
     <1>15, <1>16, <1>17, <1>18, <1>19, <1>20, <1>21, <1>22, <1>23, <1>24, <1>25, <1>26, <1>27,
            <1>28, <1>29
     DEF Next, Consume, Recover, Request

\* In every reachable state the variables have their types and a worker that
\* is processing holds a job.
THEOREM TypeCorrect == Spec => []TypeOK
<1>1. Init => TypeInv
  BY EmptySeq DEF Init, TypeInv, TypeOK, HandsFull, Pcs, RunningPcs, Statuses
<1>2. TypeInv /\ [Next]_vars => TypeInv'
  BY TypeStep
<1>3. TypeInv => TypeOK
  BY DEF TypeInv
<1> QED
  BY <1>1, <1>2, <1>3, PTL DEF Spec

\* The same for the inductive form, which the later proofs need.
LEMMA TypeInvariant == Spec => []TypeInv
<1>1. Init => TypeInv
  BY EmptySeq DEF Init, TypeInv, TypeOK, HandsFull, Pcs, RunningPcs, Statuses
<1> QED
  BY <1>1, TypeStep, PTL DEF Spec

-----------------------------------------------------------------------------
(* Attempt numbers.                                                        *)

\* An attempt is only ever made on a row that exists.
AttemptsExist == \A a \in Analyses : attempts[a] > 0 => status[a] # "absent"

AttemptInv == DistinctAttempts /\ AttemptsExist

\* The steps that touch neither status, attempt_count nor a consume loop are
\* the API's, the heartbeats', the sweeps' Redis commands and the clock's.
LEMMA QuietStep ==
    [Next]_vars =>
        \/ UNCHANGED <<status, attempts, loop>>
        \/ \E a \in Analyses : Create(a)
        \/ \E w \in Workers :
             \/ Start(w) \/ Reserve(w) \/ Claim(w) \/ ClaimMisses(w) \/ Complete(w)
             \/ PipelineRaises(w) \/ PutBack(w) \/ GiveUp(w) \/ Unlist(w) \/ Repush(w)
             \/ Unkey(w) \/ RecoverStalled(w) \/ StepRaises(w)
             \/ AcknowledgeRaises(w) \/ WorkerDies(w)
  BY DEF Next, Consume, Recover, Request, vars, rows, redis, loop, sweep,
     RequestSetsKey, RequestPushes, RequestStops, HeartbeatAges, OwnerLapses,
     KeyExpires, Heartbeat, Progress, SweepSetsKey, SweepPushes, SweepRaises,
     RedisFlushed

\* Every step keeps attempt numbers distinct and within attempt_count.
LEMMA AttemptStep == TypeInv /\ AttemptInv /\ [Next]_vars => AttemptInv'
<1> SUFFICES ASSUME TypeInv, AttemptInv, [Next]_vars
             PROVE  AttemptInv'
  OBVIOUS
<1>1. ASSUME UNCHANGED <<status, attempts, loop>>
      PROVE  AttemptInv'
  BY <1>1 DEF AttemptInv, DistinctAttempts, AttemptsExist, Processing, loop
<1>2. ASSUME NEW a \in Analyses, Create(a)
      PROVE  AttemptInv'
  BY <1>2 DEF AttemptInv, DistinctAttempts, AttemptsExist, TypeInv, TypeOK, HandsFull,
     Processing, RunningPcs, Create, loop
<1>3. ASSUME NEW w \in Workers, Claim(w)
      PROVE  AttemptInv'
  BY <1>3, Types DEF AttemptInv, DistinctAttempts, AttemptsExist, Processing, RunningPcs, Claim,
     Goto
<1>4. ASSUME NEW w \in Workers,
             Start(w) \/ Reserve(w) \/ ClaimMisses(w) \/ PipelineRaises(w)
             \/ PutBack(w) \/ Unlist(w) \/ AcknowledgeRaises(w)
      PROVE  AttemptInv'
  BY <1>4, Types DEF AttemptInv, DistinctAttempts, AttemptsExist, Processing,
     RunningPcs, Start, Reserve, ClaimMisses, PipelineRaises, PutBack, Unlist,
     AcknowledgeRaises, Goto, rows
<1>5. ASSUME NEW w \in Workers, Complete(w) \/ GiveUp(w)
      PROVE  AttemptInv'
  BY <1>5, Types DEF AttemptInv, DistinctAttempts, AttemptsExist, Processing, RunningPcs,
     Complete, GiveUp, Goto, Outcomes
<1>6. ASSUME NEW w \in Workers,
             Repush(w) \/ Unkey(w) \/ StepRaises(w) \/ WorkerDies(w)
      PROVE  AttemptInv'
  BY <1>6, Types DEF AttemptInv, DistinctAttempts, AttemptsExist, Processing, RunningPcs, Repush,
     Unkey, StepRaises,
     WorkerDies, BackToLoop, Goto, rows
<1>7. ASSUME NEW w \in Workers, RecoverStalled(w)
      PROVE  AttemptInv'
  BY <1>7, Types DEF AttemptInv, DistinctAttempts, AttemptsExist, Processing, RunningPcs,
     RecoverStalled, Stalled, loop
<1> QED
  BY <1>1, <1>2, <1>3, <1>4, <1>5, <1>6, <1>7, QuietStep

\* Hence they are so in every reachable state.
LEMMA AttemptInvariant == Spec => []AttemptInv
<1>1. Init => AttemptInv
  BY DEF Init, AttemptInv, DistinctAttempts, AttemptsExist, Processing, RunningPcs
<1> QED
  BY <1>1, AttemptStep, TypeInvariant, PTL DEF Spec

\* Two workers that run one analysis at once, because one of them lost its
\* claim, never hold the same attempt number, and none is beyond the row's
\* attempt_count: the UPDATE of claim hands each number out once.
THEOREM AttemptsAreDistinct == Spec => []DistinctAttempts
<1>1. AttemptInv => DistinctAttempts
  BY DEF AttemptInv
<1> QED
  BY <1>1, AttemptInvariant, PTL

-----------------------------------------------------------------------------
(* Refinement.                                                             *)

\* Every step is a step of the abstract machine, or leaves status and
\* attempt_count as they are.
LEMMA LifecycleStep ==
    TypeInv /\ AttemptInv /\ [Next]_vars => [Lifecycle!Next]_<<status, attempts>>
<1> SUFFICES ASSUME TypeInv, AttemptInv, [Next]_vars
             PROVE  [Lifecycle!Next]_<<status, attempts>>
  OBVIOUS
<1>1. ASSUME UNCHANGED <<status, attempts>>
      PROVE  [Lifecycle!Next]_<<status, attempts>>
  BY <1>1
<1>2. ASSUME NEW a \in Analyses, Create(a)
      PROVE  Lifecycle!Submit(a)
  BY <1>2 DEF Create, Lifecycle!Submit, Lifecycle!Live, Active
<1>3. ASSUME NEW w \in Workers, Claim(w)
      PROVE  Lifecycle!Attempt(job[w])
  BY <1>3 DEF Claim, Claimable, Lifecycle!Attempt, Lifecycle!Live
<1>4. ASSUME NEW w \in Workers, Complete(w)
      PROVE  Lifecycle!Succeed(job[w])
  <2>1. Processing(w) /\ job[w] \in Analyses
    BY <1>4 DEF Complete, TypeInv, HandsFull, Processing, RunningPcs
  <2>2. attempts[job[w]] > 0 /\ status[job[w]] # "absent"
    BY <2>1 DEF AttemptInv, DistinctAttempts, AttemptsExist, TypeInv, TypeOK
  <2> QED
    BY <1>4, <2>2 DEF Complete, Lifecycle!Succeed
<1>5. ASSUME NEW w \in Workers, GiveUp(w)
      PROVE  Lifecycle!Fail(job[w])
  <2>1. Processing(w) /\ job[w] \in Analyses
    BY <1>5 DEF GiveUp, TypeInv, HandsFull, Processing, RunningPcs
  <2>2. attempts[job[w]] >= MaxAttempts /\ status[job[w]] # "absent"
    BY <1>5, <2>1
       DEF GiveUp, MaxAttempts, AttemptInv, DistinctAttempts, AttemptsExist, TypeInv, TypeOK
  <2> QED
    BY <1>5, <2>2 DEF GiveUp, Lifecycle!Fail
<1>6. ASSUME NEW w \in Workers, RecoverStalled(w)
      PROVE  Lifecycle!Requeue(Stalled)
  BY <1>6 DEF RecoverStalled, Stalled, Lifecycle!Requeue
<1>7. ASSUME NEW w \in Workers,
             Start(w) \/ Reserve(w) \/ ClaimMisses(w) \/ PipelineRaises(w)
             \/ PutBack(w) \/ Unlist(w) \/ Repush(w) \/ Unkey(w) \/ StepRaises(w)
             \/ AcknowledgeRaises(w) \/ WorkerDies(w)
      PROVE  UNCHANGED <<status, attempts>>
  BY <1>7 DEF Start, Reserve, ClaimMisses, PipelineRaises, PutBack, Unlist, Repush,
     Unkey, StepRaises, AcknowledgeRaises, WorkerDies, rows
<1>8. \A w \in Workers : Claim(w) \/ Complete(w) \/ GiveUp(w) => job[w] \in Analyses
  BY DEF TypeInv, HandsFull, Claim, Complete, GiveUp
<1>9. Stalled \in SUBSET Analyses
  BY DEF Stalled
<1> QED
  BY <1>1, <1>2, <1>3, <1>4, <1>5, <1>6, <1>7, <1>8, <1>9, QuietStep DEF Lifecycle!Next

\* Whatever the queue, the workers, the sweeps and the faults do, the status
\* and attempt_count of the rows follow the machine of AnalysisLifecycle.
THEOREM JobsImplementLifecycle == Spec => ImplementsLifecycle
<1>1. Init => Lifecycle!Init
  BY DEF Init, Lifecycle!Init
<1> QED
  BY <1>1, LifecycleStep, TypeInvariant, AttemptInvariant, PTL
     DEF Spec, ImplementsLifecycle, Lifecycle!Spec

-----------------------------------------------------------------------------
(* The partial unique index.                                               *)

\* Only an INSERT makes a row live that was not.
LEMMA OneActiveStep ==
    ASSUME TypeInv, OneActivePerTarget, [Lifecycle!Next]_<<status, attempts>>
    PROVE  OneActivePerTarget'
<1>1. CASE UNCHANGED <<status, attempts>>
  BY <1>1 DEF OneActivePerTarget
<1>2. ASSUME NEW a \in Analyses, Lifecycle!Submit(a)
      PROVE  OneActivePerTarget'
  BY <1>2 DEF Lifecycle!Submit, Lifecycle!Live, OneActivePerTarget, Active, TypeInv, TypeOK
<1>3. ASSUME NEW a \in Analyses,
             Lifecycle!Attempt(a) \/ Lifecycle!Succeed(a) \/ Lifecycle!Fail(a)
      PROVE  OneActivePerTarget'
  <2>1. \A b \in Analyses : status'[b] \in Active => status[b] \in Active
    BY <1>3, Types DEF Lifecycle!Attempt, Lifecycle!Succeed, Lifecycle!Fail,
       Lifecycle!Live, Active
  <2> QED
    BY <2>1 DEF OneActivePerTarget
<1>4. ASSUME NEW S \in SUBSET Analyses, Lifecycle!Requeue(S)
      PROVE  OneActivePerTarget'
  BY <1>4 DEF Lifecycle!Requeue, OneActivePerTarget, Active
<1> QED
  BY <1>1, <1>2, <1>3, <1>4 DEF Lifecycle!Next

\* No claim, retry or sweep ever makes a second analysis of a document under
\* a policy live: idx_analyses_active_unique can only reject an INSERT.
THEOREM NeverTwoActive == Spec => []OneActivePerTarget
<1>1. Init => OneActivePerTarget
  BY DEF Init, OneActivePerTarget, Active
<1>2. TypeInv /\ OneActivePerTarget /\ [Lifecycle!Next]_<<status, attempts>>
        => OneActivePerTarget'
  BY OneActiveStep
<1> QED
  BY <1>1, <1>2, LifecycleStep, TypeInvariant, AttemptInvariant, PTL DEF Spec

-----------------------------------------------------------------------------
(* One runner per analysis while owners heartbeat.                         *)

\* A worker in the try block of _process owns its row and the row is fresh:
\* neither claim nor recover_stalled matches it.
OwnersAreFresh ==
    \A w \in Workers : Processing(w) =>
        /\ owner[job[w]] = w
        /\ status[job[w]] \notin {"absent", "queued"}
        /\ status[job[w]] = "running" => ~ stale[job[w]]

\* While no owner lapses, every step keeps a processing worker the owner of its
\* row, and the row fresh as long as it is running.
LEMMA OwnershipStep ==
    ASSUME "lapse" \notin Faults, TypeInv, OwnersAreFresh, [Next]_vars
    PROVE  OwnersAreFresh'
<1>1. ASSUME UNCHANGED <<status, owner, stale, loop>>
      PROVE  OwnersAreFresh'
  BY <1>1 DEF OwnersAreFresh, Processing, loop
<1>2. ASSUME NEW a \in Analyses, Create(a)
      PROVE  OwnersAreFresh'
  BY <1>2 DEF OwnersAreFresh, TypeInv, TypeOK, HandsFull, Processing, RunningPcs,
     Create, loop
<1>3. ASSUME NEW a \in Analyses, HeartbeatAges(a)
      PROVE  OwnersAreFresh'
  BY <1>3 DEF OwnersAreFresh, TypeInv, TypeOK, HandsFull, Processing, RunningPcs,
     HeartbeatAges, KeptFresh, loop
<1>4. ASSUME NEW a \in Analyses, OwnerLapses(a)
      PROVE  FALSE
  BY <1>4 DEF OwnerLapses, Fault
<1>5. ASSUME NEW w \in Workers, Claim(w)
      PROVE  OwnersAreFresh'
  BY <1>5, Types DEF OwnersAreFresh, Processing, RunningPcs,
     Claim, Claimable, Goto
<1>6. ASSUME NEW w \in Workers, Complete(w) \/ GiveUp(w)
      PROVE  OwnersAreFresh'
  BY <1>6, Types DEF OwnersAreFresh, Processing, RunningPcs,
     Complete, GiveUp, Goto
<1>7. ASSUME NEW w \in Workers, PutBack(w) \/ Heartbeat(w) \/ Progress(w)
      PROVE  OwnersAreFresh'
  BY <1>7, Types DEF OwnersAreFresh, Processing, RunningPcs,
     PutBack, Heartbeat, Progress, Goto, loop
<1>8. ASSUME NEW w \in Workers,
             Start(w) \/ Reserve(w) \/ ClaimMisses(w) \/ PipelineRaises(w)
             \/ Unlist(w) \/ AcknowledgeRaises(w)
      PROVE  OwnersAreFresh'
  BY <1>8, Types DEF OwnersAreFresh, Processing, RunningPcs,
     Start, Reserve, ClaimMisses, PipelineRaises, Unlist, AcknowledgeRaises, Goto, rows
<1>9. ASSUME NEW w \in Workers,
             Repush(w) \/ Unkey(w) \/ StepRaises(w) \/ WorkerDies(w)
      PROVE  OwnersAreFresh'
  BY <1>9, Types DEF OwnersAreFresh, Processing, RunningPcs,
     Repush, Unkey, StepRaises, WorkerDies,
     BackToLoop, Goto, rows
<1>10. ASSUME NEW w \in Workers, RecoverStalled(w)
       PROVE  OwnersAreFresh'
  BY <1>10, Types DEF OwnersAreFresh, Processing, RunningPcs,
     RecoverStalled, Stalled, loop
<1>11. ASSUME NEW w \in Workers, SweepSetsKey(w) \/ SweepPushes(w) \/ SweepRaises(w)
       PROVE  UNCHANGED <<status, owner, stale, loop>>
  BY <1>11 DEF SweepSetsKey, SweepPushes, SweepRaises, rows
<1>12. ASSUME NEW a \in Analyses,
              RequestSetsKey(a) \/ RequestPushes(a) \/ RequestStops(a) \/ KeyExpires(a)
       PROVE  UNCHANGED <<status, owner, stale, loop>>
  BY <1>12 DEF RequestSetsKey, RequestPushes, RequestStops, KeyExpires, rows
<1>13. RedisFlushed \/ UNCHANGED vars => UNCHANGED <<status, owner, stale, loop>>
  BY DEF RedisFlushed, vars, rows
<1> QED
  BY <1>1, <1>2, <1>3, <1>4, <1>5, <1>6, <1>7, <1>8, <1>9, <1>10, <1>11, <1>12, <1>13
     DEF Next, Consume, Recover, Request

\* While no live owner lets its heartbeat lapse, no two workers are ever in
\* the try block of _process for the same analysis, although retries, sweeps,
\* expired dedupe keys, crashes and Redis errors put it in Redis repeatedly.
THEOREM AtMostOneRunner ==
    ASSUME "lapse" \notin Faults
    PROVE  Spec => []SingleRunner
<1>1. Init => OwnersAreFresh
  BY DEF Init, OwnersAreFresh, Processing, RunningPcs
<1>2. TypeInv /\ OwnersAreFresh /\ [Next]_vars => OwnersAreFresh'
  BY OwnershipStep
<1>3. OwnersAreFresh => SingleRunner
  BY DEF OwnersAreFresh, SingleRunner
<1> QED
  BY <1>1, <1>2, <1>3, TypeInvariant, PTL DEF Spec

-----------------------------------------------------------------------------
(* Outcomes are final while owners heartbeat, but for a third attempt that *)
(* cannot acknowledge what it has finished.                                *)

\* A worker that runs the pipeline has a row without an outcome, and one in the
\* except clause too unless it came there from its acknowledgement.
RunnersUnfinished ==
    \A w \in Workers :
        /\ pc[w] = "run" => status[job[w]] = "running"
        /\ pc[w] = "except" => status[job[w]] = "running" \/ "redis" \in Faults

\* The one way in which row a may lose its outcome.
Overwritten(a) ==
    /\ "redis" \in Faults
    /\ status'[a] = "failed"
    /\ \E w \in Workers : /\ pc[w] = "except" /\ pc'[w] = "ackFailed"
                          /\ job[w] = a /\ owner[a] = w
                          /\ claimed[w] >= MaxAttempts

Kept == \A a \in Analyses : Finished(a) /\ status'[a] # status[a] => Overwritten(a)

\* No other step overwrites an outcome: who could is not processing that row.
LEMMA FinalStep ==
    ASSUME "lapse" \notin Faults, TypeInv, OwnersAreFresh, RunnersUnfinished, [Next]_vars
    PROVE  RunnersUnfinished' /\ Kept
<1>1. ASSUME UNCHANGED <<status, attempts, loop>>
      PROVE  RunnersUnfinished' /\ Kept
  BY <1>1 DEF RunnersUnfinished, Kept, loop
<1>2. ASSUME NEW a \in Analyses, Create(a)
      PROVE  RunnersUnfinished' /\ Kept
  BY <1>2, Types DEF RunnersUnfinished, Kept, Finished, Outcomes, Create, loop
<1>3. ASSUME NEW w \in Workers, Claim(w)
      PROVE  RunnersUnfinished' /\ Kept
  BY <1>3, Types DEF RunnersUnfinished, Kept, Finished, Outcomes, Claim, Claimable, Goto
<1>4. ASSUME NEW w \in Workers, Complete(w) \/ GiveUp(w)
      PROVE  RunnersUnfinished' /\ Kept
  <2>1. pc[w] \in {"run", "except"} /\ Processing(w) /\ job[w] \in Analyses
    BY <1>4, Types DEF Complete, GiveUp, Processing, RunningPcs
  <2>2. \A x \in Workers \ {w} : pc[x] \in {"run", "except"} => job[x] # job[w]
    BY <2>1 DEF OwnersAreFresh, Processing, RunningPcs
  <2>3. RunnersUnfinished'
    BY <1>4, <2>1, <2>2, Types DEF RunnersUnfinished, Complete, GiveUp, Goto
  <2>4. CASE Complete(w)
    BY <2>1, <2>3, <2>4, Types DEF RunnersUnfinished, Kept, Finished, Outcomes, Complete
  <2>5. CASE GiveUp(w)
    <3>1. \A a \in Analyses : status'[a] # status[a] => a = job[w]
      BY <2>5, Types DEF GiveUp
    <3>2. Finished(job[w]) => Overwritten(job[w])
      <4>1. owner[job[w]] = w
        BY <2>1 DEF OwnersAreFresh
      <4>2. Finished(job[w]) => "redis" \in Faults
        BY <2>5 DEF RunnersUnfinished, GiveUp, Finished, Outcomes
      <4>3. /\ pc[w] = "except" /\ pc'[w] = "ackFailed"
            /\ claimed[w] >= MaxAttempts /\ status'[job[w]] = "failed"
        BY <2>1, <2>5, Types DEF GiveUp, Goto
      <4> QED
        BY <4>1, <4>2, <4>3 DEF Overwritten
    <3> QED
      BY <2>3, <3>1, <3>2 DEF Kept
  <2> QED
    BY <1>4, <2>4, <2>5
<1>5. ASSUME NEW w \in Workers,
             Start(w) \/ Reserve(w) \/ ClaimMisses(w) \/ PipelineRaises(w)
             \/ PutBack(w) \/ Unlist(w)
      PROVE  RunnersUnfinished' /\ Kept
  <2>1. CASE Start(w)
    BY <2>1, Types DEF RunnersUnfinished, Kept, Start, Goto, rows
  <2>2. CASE Reserve(w)
    BY <2>2, Types DEF RunnersUnfinished, Kept, Reserve, Goto, rows
  <2>3. CASE ClaimMisses(w)
    BY <2>3, Types DEF RunnersUnfinished, Kept, ClaimMisses, Goto, rows
  <2>4. CASE PipelineRaises(w)
    BY <2>4, Types DEF RunnersUnfinished, Kept, PipelineRaises, Goto, rows
  <2>5. CASE PutBack(w)
    BY <2>5, Types DEF RunnersUnfinished, Kept, PutBack, Goto, rows
  <2>6. CASE Unlist(w)
    BY <2>6, Types DEF RunnersUnfinished, Kept, Unlist, Goto, rows
  <2> QED
    BY <1>5, <2>1, <2>2, <2>3, <2>4, <2>5, <2>6
<1>6. ASSUME NEW w \in Workers, AcknowledgeRaises(w)
      PROVE  RunnersUnfinished' /\ Kept
  BY <1>6, Types DEF RunnersUnfinished, Kept, AcknowledgeRaises, Fault, Goto, rows
<1>7. ASSUME NEW w \in Workers,
             Repush(w) \/ Unkey(w) \/ StepRaises(w) \/ WorkerDies(w)
      PROVE  RunnersUnfinished' /\ Kept
  BY <1>7, Types DEF RunnersUnfinished, Kept, Repush, Unkey, StepRaises,
     WorkerDies, BackToLoop, Goto, rows
<1>8. ASSUME NEW w \in Workers, RecoverStalled(w)
      PROVE  RunnersUnfinished' /\ Kept
  BY <1>8, Types DEF RunnersUnfinished, Kept, OwnersAreFresh, Processing, RunningPcs,
     Finished, Outcomes, RecoverStalled, Stalled, loop
<1> QED
  BY <1>1, <1>2, <1>3, <1>4, <1>5, <1>6, <1>7, <1>8, QuietStep

\* While owners heartbeat, an outcome is overwritten by no retry, sweep, duplicate
\* job or worker that was slow, but only by the third attempt that has written
\* it and met a Redis error in its acknowledgement, and only with "failed".
THEOREM OutcomesAreFinal ==
    ASSUME "lapse" \notin Faults
    PROVE  Spec => ResultIsFinal
<1>1. Init => OwnersAreFresh /\ RunnersUnfinished
  BY DEF Init, OwnersAreFresh, RunnersUnfinished, Processing, RunningPcs
<1>2. TypeInv /\ OwnersAreFresh /\ RunnersUnfinished /\ [Next]_vars
        => OwnersAreFresh' /\ RunnersUnfinished'
  BY OwnershipStep, FinalStep
<1>3. TypeInv /\ OwnersAreFresh /\ RunnersUnfinished /\ [Next]_vars => [Kept]_vars
  BY FinalStep
<1>4. Spec => [][Kept]_vars
  BY <1>1, <1>2, <1>3, TypeInvariant, PTL DEF Spec
<1> QED
  BY <1>4 DEF ResultIsFinal, Kept, Overwritten

-----------------------------------------------------------------------------
(* The reliable-queue pattern.                                             *)

\* A job whose acknowledgement has begun is one of an analysis that has ended.
AcknowledgedHasEnded ==
    \A w \in Workers : pc[w] \in {"ackDone", "unkeyDone"} => Finished(job[w])

ListedInv == HeldJobIsListed /\ AcknowledgedHasEnded

\* What has ended stays so.
LEMMA EndedStays ==
    ASSUME TypeInv, AttemptInv, [Next]_vars
    PROVE  \A a \in Analyses : Finished(a) => Finished(a)'
<1>1. [Lifecycle!Next]_<<status, attempts>>
  BY LifecycleStep
<1>2. CASE UNCHANGED <<status, attempts>>
  BY <1>2 DEF Finished
<1>3. ASSUME NEW a \in Analyses, Lifecycle!Submit(a) \/ Lifecycle!Attempt(a)
                                 \/ Lifecycle!Succeed(a) \/ Lifecycle!Fail(a)
      PROVE  \A b \in Analyses : Finished(b) => Finished(b)'
  BY <1>3, Types DEF Lifecycle!Submit, Lifecycle!Attempt, Lifecycle!Succeed,
     Lifecycle!Fail, Lifecycle!Live, Finished, Outcomes
<1>4. ASSUME NEW S \in SUBSET Analyses, Lifecycle!Requeue(S)
      PROVE  \A b \in Analyses : Finished(b) => Finished(b)'
  BY <1>4, Types DEF Lifecycle!Requeue, Finished, Outcomes
<1> QED
  BY <1>1, <1>2, <1>3, <1>4 DEF Lifecycle!Next

\* Every step keeps the job in hand in the processing list.
LEMMA ListedStep ==
    ASSUME "flush" \notin Faults, TypeInv, AttemptInv, ListedInv, [Next]_vars
    PROVE  ListedInv'
<1>e. \A a \in Analyses : Finished(a) => Finished(a)'
  BY EndedStays
<1>t. /\ pc \in [Workers -> Pcs]
      /\ job \in [Workers -> Analyses \cup {NoAnalysis}]
      /\ processing \in [Workers -> Seq(Analyses)]
      /\ \A w \in Workers : pc[w] \notin {"off", "dead", "idle"} => job[w] \in Analyses
  BY DEF TypeInv, TypeOK, HandsFull
<1>1. ASSUME UNCHANGED <<processing, loop>>
      PROVE  ListedInv'
  BY <1>1, <1>e, <1>t DEF ListedInv, HeldJobIsListed, AcknowledgedHasEnded, loop
<1>2. ASSUME NEW w \in Workers, Start(w)
      PROVE  ListedInv'
  BY <1>2, <1>e, <1>t DEF ListedInv, HeldJobIsListed, AcknowledgedHasEnded, Start, Goto
<1>3. ASSUME NEW w \in Workers, Reserve(w)
      PROVE  ListedInv'
  <2>1. pending[Len(pending)] \in ToSet(Cons(pending[Len(pending)], processing[w]))
    BY <1>3, ConsType, FrontType DEF Reserve, TypeInv, TypeOK
  <2> QED
    BY <1>3, <1>e, <1>t, <2>1
       DEF ListedInv, HeldJobIsListed, AcknowledgedHasEnded, Reserve, Goto
<1>4. ASSUME NEW w \in Workers,
             Claim(w) \/ ClaimMisses(w) \/ PipelineRaises(w) \/ PutBack(w) \/ GiveUp(w)
      PROVE  ListedInv'
  BY ZenonT(40), <1>4, <1>e, <1>t DEF ListedInv, HeldJobIsListed, AcknowledgedHasEnded, Claim,
     ClaimMisses, PipelineRaises, PutBack, GiveUp, Goto, redis
<1>5. ASSUME NEW w \in Workers, Complete(w)
      PROVE  ListedInv'
  <2>1. Finished(job[w])'
    BY <1>5, <1>t, Types DEF Complete, Finished, Outcomes
  <2> QED
    BY <1>5, <1>e, <1>t, <2>1
       DEF ListedInv, HeldJobIsListed, AcknowledgedHasEnded, Complete, Goto, redis
<1>6. ASSUME NEW w \in Workers, Unlist(w)
      PROVE  ListedInv'
  BY ZenonT(40), <1>6, <1>e, <1>t DEF ListedInv, HeldJobIsListed, AcknowledgedHasEnded, Unlist, Goto
<1>7. ASSUME NEW w \in Workers,
             Repush(w) \/ Unkey(w) \/ StepRaises(w) \/ WorkerDies(w)
      PROVE  ListedInv'
  <2>1. CASE Repush(w)
    BY <2>1, <1>e, <1>t DEF ListedInv, HeldJobIsListed, AcknowledgedHasEnded, Repush,
       BackToLoop, Goto, redis
  <2>2. CASE Unkey(w)
    BY <2>2, <1>e, <1>t DEF ListedInv, HeldJobIsListed, AcknowledgedHasEnded, Unkey,
       BackToLoop, Goto, redis
  <2>3. CASE StepRaises(w)
    BY <2>3, <1>e, <1>t DEF ListedInv, HeldJobIsListed, AcknowledgedHasEnded, StepRaises,
       BackToLoop, Goto, redis
  <2>4. CASE WorkerDies(w)
    BY <2>4, <1>e, <1>t DEF ListedInv, HeldJobIsListed, AcknowledgedHasEnded, WorkerDies,
       BackToLoop, Goto, redis
  <2> QED
    BY <1>7, <2>1, <2>2, <2>3, <2>4
<1>8. ASSUME NEW w \in Workers, AcknowledgeRaises(w)
      PROVE  ListedInv'
  BY <1>8, <1>e, <1>t DEF ListedInv, HeldJobIsListed, AcknowledgedHasEnded,
     AcknowledgeRaises, Goto, redis
<1>9. ASSUME RedisFlushed
      PROVE  FALSE
  BY <1>9 DEF RedisFlushed, Fault
<1>10. ASSUME NEW w \in Workers,
              Heartbeat(w) \/ Progress(w) \/ RecoverStalled(w) \/ SweepSetsKey(w)
              \/ SweepPushes(w) \/ SweepRaises(w)
       PROVE  UNCHANGED <<processing, loop>>
  BY <1>10 DEF Heartbeat, Progress, RecoverStalled, SweepSetsKey, SweepPushes,
     SweepRaises, redis
<1>11. ASSUME NEW a \in Analyses,
              Create(a) \/ RequestSetsKey(a) \/ RequestPushes(a) \/ RequestStops(a)
              \/ HeartbeatAges(a) \/ OwnerLapses(a) \/ KeyExpires(a)
       PROVE  UNCHANGED <<processing, loop>>
  BY <1>11 DEF Create, RequestSetsKey, RequestPushes, RequestStops, HeartbeatAges,
     OwnerLapses, KeyExpires, redis
<1>12. UNCHANGED vars => UNCHANGED <<processing, loop>>
  BY DEF vars, redis
<1> QED
  BY <1>1, <1>2, <1>3, <1>4, <1>5, <1>6, <1>7, <1>8, <1>9, <1>10, <1>11, <1>12
     DEF Next, Consume, Recover, Request

\* While Redis does not lose data, a worker that may die has the job it holds in
\* its processing list, up to the LREM of retry or acknowledge, unless the
\* analysis has ended: also when Redis or database errors have left other jobs
\* in that list, or have interrupted an acknowledgement.
THEOREM HeldJobsAreListed ==
    ASSUME "flush" \notin Faults
    PROVE  Spec => []HeldJobIsListed
<1>1. Init => ListedInv
  BY DEF Init, ListedInv, HeldJobIsListed, AcknowledgedHasEnded
<1>2. TypeInv /\ AttemptInv /\ ListedInv /\ [Next]_vars => ListedInv'
  BY ListedStep
<1>3. ListedInv => HeldJobIsListed
  BY DEF ListedInv
<1> QED
  BY <1>1, <1>2, <1>3, TypeInvariant, AttemptInvariant, PTL DEF Spec
=============================================================================
