------------------------------ MODULE Pipeline ------------------------------
(***************************************************************************)
(* The attempts at one analysis (AnalysisPipeline.run as the worker calls  *)
(* it): review every category of the policy, recording each one so that a  *)
(* later attempt skips it, then verify and store the findings, then        *)
(* complete the row.                                                       *)
(*                                                                         *)
(* Every database statement commits on its own, so an attempt may die or   *)
(* raise between any two of them, and the policy's rules may be replaced   *)
(* under it.  How an attempt comes to be started is AnalysisJobs; here an  *)
(* attempt starts when the earlier ones are over or, with Overlap, while   *)
(* an earlier owner that let its heartbeat lapse still works.              *)
(***************************************************************************)
EXTENDS Naturals, Sequences, FiniteSets, Functions

CONSTANTS
    MaxAttempts,    \* attempts before the worker fails the analysis: 3
    RuleLists,      \* what the enabled rules of the policy may be, in order
    MaxFindings,    \* bound: findings in one answer
    MaxEdits,       \* bound: times the rules are replaced
    MaxRaises,      \* bound: attempts that raise
    MaxDeaths,      \* bound: attempts whose worker dies, or whose retry is lost
    Overlap         \* an owner may lapse while it works

ASSUME PipelineAssumption ==
    /\ MaxAttempts \in Nat \ {0}
    /\ \A list \in RuleLists : list \in Seq(Range(list)) /\ IsInjective(list)
    /\ {MaxFindings, MaxEdits, MaxRaises, MaxDeaths} \subseteq Nat
    /\ Overlap \in BOOLEAN

Attempts == 1 .. MaxAttempts
Categories == UNION {Range(list) : list \in RuleLists}

\* A failed category is treated as one that needs review.
Statuses == {"completed", "abstained", "needs_review"}

\* A quarantined finding is treated as one that needs review.
Verdicts == {"verified", "unverified"}

\* What extracting one category may yield: its status and, in order, what
\* verification will make of each of its findings.
Answers ==
    {a \in [status : Statuses, verdicts : UNION {[1 .. k -> Verdicts] : k \in 0 .. MaxFindings}] :
        /\ a.status = "completed" => a.verdicts # <<>>
        /\ a.status = "abstained" => a.verdicts = <<>>}

VARIABLES
    row,            \* the analysis: status, attempts, done, progress, findings
    categoryRows,   \* status in analysis_categories
    stored,         \* rows of findings
    rules,          \* enabled rules of the policy, and which edition they are
    pc,             \* the await that each attempt is at
    skip,           \* already_done, read when the attempt claimed the row
    plan,           \* rules, as the attempt has read them
    at,             \* position in the plan
    results,        \* category_results
    raises, deaths

attempt == <<pc, skip, plan, at, results>>
vars == <<row, categoryRows, stored, rules, attempt, raises, deaths>>

Over == {"finished", "raised", "dead"}

AnalysisRow ==
    [status : {"queued", "running", "complete", "partial", "failed"},
     attempts : 0 .. MaxAttempts, done : SUBSET Categories, progress : Nat, findings : Nat]

FindingRow ==
    [attempt : Attempts, result : Nat, nr : Nat, category : Categories, verdict : Verdicts]

Plan == [edition : 0 .. MaxEdits, list : RuleLists \cup {<<>>}]

CategoryResult == [category : Categories, status : Statuses, verdicts : Seq(Verdicts)]

TypeOK ==
    /\ row \in AnalysisRow /\ IsFiniteSet(row.done)
    /\ categoryRows \in [Categories -> Statuses \cup {"none"}]
    /\ stored \subseteq FindingRow
    /\ rules \in Plan
    /\ pc \in [Attempts -> {"idle", "prepare", "next", "extract", "mark", "store"} \cup Over]
    /\ skip \in [Attempts -> SUBSET Categories]
    /\ plan \in [Attempts -> Plan]
    /\ at \in [Attempts -> Nat \ {0}]
    /\ \A n \in Attempts : at[n] <= Len(plan[n].list) + 1
    /\ results \in [Attempts -> Seq(CategoryResult)]
    /\ raises \in 0 .. MaxRaises
    /\ deaths \in 0 .. MaxDeaths

Init ==
    /\ row = [status |-> "queued", attempts |-> 0, done |-> {}, progress |-> 0, findings |-> 0]
    /\ categoryRows = [c \in Categories |-> "none"]
    /\ stored = {}
    /\ rules \in [edition : {0}, list : RuleLists \ {<<>>}]
    /\ pc = [n \in Attempts |-> "idle"]
    /\ skip = [n \in Attempts |-> {}]
    /\ plan = [n \in Attempts |-> [edition |-> 0, list |-> <<>>]]
    /\ at = [n \in Attempts |-> 1]
    /\ results = [n \in Attempts |-> <<>>]
    /\ raises = 0
    /\ deaths = 0

\* The attempt is over and its local variables are gone; its plan is kept
\* for the properties.
Leave(n, how) ==
    /\ pc' = [pc EXCEPT ![n] = how]
    /\ skip' = [skip EXCEPT ![n] = {}]
    /\ at' = [at EXCEPT ![n] = 1]
    /\ results' = [results EXCEPT ![n] = <<>>]
    /\ UNCHANGED plan

-----------------------------------------------------------------------------
(* Reviewing the categories.                                               *)

\* Faulty variant of Start: what earlier attempts have done is not read.
StartAfresh(n) ==
    /\ row.status \in {"queued", "running"}
    /\ n = row.attempts + 1
    /\ Overlap \/ \A m \in 1 .. n - 1 : pc[m] \in Over
    /\ row' = [row EXCEPT !.status = "running", !.attempts = n]
    /\ pc' = [pc EXCEPT ![n] = "prepare"]
    /\ UNCHANGED <<categoryRows, stored, rules, skip, plan, at, results, raises, deaths>>

\* The claim succeeds; the row it returns is the attempt's snapshot.
Start(n) ==
    /\ row.status \in {"queued", "running"}
    /\ n = row.attempts + 1
    /\ Overlap \/ \A m \in 1 .. n - 1 : pc[m] \in Over
    /\ row' = [row EXCEPT !.status = "running", !.attempts = n]
    /\ pc' = [pc EXCEPT ![n] = "prepare"]
    /\ skip' = [skip EXCEPT ![n] = row.done]
    /\ UNCHANGED <<categoryRows, stored, rules, plan, at, results, raises, deaths>>

\* The document is read, cut and indexed, and the rules are read.
Prepare(n) ==
    /\ pc[n] = "prepare"
    /\ rules.list # <<>>
    /\ plan' = [plan EXCEPT ![n] = rules]
    /\ pc' = [pc EXCEPT ![n] = "next"]
    /\ UNCHANGED <<row, categoryRows, stored, rules, skip, at, results, raises, deaths>>

Pending(n) == pc[n] = "next" /\ at[n] <= Len(plan[n].list)
Current(n) == plan[n].list[at[n]]

SkipCategory(n) ==
    /\ Pending(n)
    /\ Current(n) \in skip[n]
    /\ at' = [at EXCEPT ![n] = @ + 1]
    /\ UNCHANGED <<row, categoryRows, stored, rules, pc, skip, plan, results, raises, deaths>>

\* Faulty variant of BeginCategory: the category is recorded as done before
\* it is reviewed.
BeginCategoryMarked(n) ==
    /\ Pending(n)
    /\ Current(n) \notin skip[n]
    /\ row' = [row EXCEPT !.progress = at[n] - 1, !.done = @ \cup {Current(n)}]
    /\ pc' = [pc EXCEPT ![n] = "extract"]
    /\ UNCHANGED <<categoryRows, stored, rules, skip, plan, at, results, raises, deaths>>

\* Faulty variant of BeginCategory: the count starts again.
BeginCategoryAnew(n) ==
    /\ Pending(n)
    /\ Current(n) \notin skip[n]
    /\ row' = [row EXCEPT !.progress = 0]
    /\ pc' = [pc EXCEPT ![n] = "extract"]
    /\ UNCHANGED <<categoryRows, stored, rules, skip, plan, at, results, raises, deaths>>

BeginCategory(n) ==
    /\ Pending(n)
    /\ Current(n) \notin skip[n]
    /\ row' = [row EXCEPT !.progress = at[n] - 1]
    /\ pc' = [pc EXCEPT ![n] = "extract"]
    /\ UNCHANGED <<categoryRows, stored, rules, skip, plan, at, results, raises, deaths>>

ResultOf(n, a) == [category |-> Current(n), status |-> a.status, verdicts |-> a.verdicts]

\* Faulty variant of Extract: the row of an earlier attempt is kept.
ExtractKeepsRow(n) ==
    /\ pc[n] = "extract"
    /\ \E a \in Answers :
          /\ results' = [results EXCEPT ![n] = Append(@, ResultOf(n, a))]
          /\ categoryRows' = [categoryRows EXCEPT ![Current(n)] = IF @ = "none" THEN a.status ELSE @]
    /\ pc' = [pc EXCEPT ![n] = "mark"]
    /\ UNCHANGED <<row, stored, rules, skip, plan, at, raises, deaths>>

\* The extractor returns, and upsert_category records the outcome.
Extract(n) ==
    /\ pc[n] = "extract"
    /\ \E a \in Answers :
          /\ results' = [results EXCEPT ![n] = Append(@, ResultOf(n, a))]
          /\ categoryRows' = [categoryRows EXCEPT ![Current(n)] = a.status]
    /\ pc' = [pc EXCEPT ![n] = "mark"]
    /\ UNCHANGED <<row, stored, rules, skip, plan, at, raises, deaths>>

\* Faulty variant of MarkComplete: the next category is passed over.
MarkCompletePassing(n) ==
    /\ pc[n] = "mark"
    /\ LET done == row.done \cup {Current(n)}
       IN  row' = [row EXCEPT !.done = done, !.progress = Cardinality(done)]
    /\ at' = [at EXCEPT ![n] = @ + 2]
    /\ pc' = [pc EXCEPT ![n] = "next"]
    /\ UNCHANGED <<categoryRows, stored, rules, skip, plan, results, raises, deaths>>

MarkComplete(n) ==
    /\ pc[n] = "mark"
    /\ LET done == row.done \cup {Current(n)}
       IN  row' = [row EXCEPT !.done = done, !.progress = Cardinality(done)]
    /\ at' = [at EXCEPT ![n] = @ + 1]
    /\ pc' = [pc EXCEPT ![n] = "next"]
    /\ UNCHANGED <<categoryRows, stored, rules, skip, plan, results, raises, deaths>>

-----------------------------------------------------------------------------
(* Storing the findings and completing the row.                            *)

BeginVerifying(n) ==
    /\ pc[n] = "next" /\ at[n] > Len(plan[n].list)
    /\ pc' = [pc EXCEPT ![n] = "store"]
    /\ UNCHANGED <<row, categoryRows, stored, rules, skip, plan, at, results, raises, deaths>>

\* The findings of the i-th of category_results, each with its place.
FindingsOf(n, i) ==
    {[attempt |-> n, result |-> i, nr |-> j, category |-> results[n][i].category,
      verdict |-> results[n][i].verdicts[j]] : j \in DOMAIN results[n][i].verdicts}

Proposed(n) == UNION {FindingsOf(n, i) : i \in DOMAIN results[n]}

Left(n) == Proposed(n) \ stored
StoredBy(n) == {f \in stored : f.attempt = n}
Verified(findings) == {f \in findings : f.verdict = "verified"}

Precedes(f, g) == f.result < g.result \/ (f.result = g.result /\ f.nr < g.nr)

\* Faulty variant of AllStored: the last finding is forgotten.
AllStoredButOne(n) == Cardinality(Left(n)) <= 1

AllStored(n) == Left(n) = {}

\* create_with_evidence. A finding refers to the rule it was found under:
\* the insert fails if that rule has been replaced.
StoreFinding(n) ==
    /\ pc[n] = "store"
    /\ ~ AllStored(n)
    /\ plan[n].edition = rules.edition
    /\ \E f \in Left(n) :
          /\ \A g \in Left(n) \ {f} : Precedes(f, g)
          /\ stored' = stored \cup {f}
    /\ UNCHANGED <<row, categoryRows, rules, attempt, raises, deaths>>

\* The pipeline returns and the row is completed, whoever owns it by now.
\* Only this attempt's results count.
Finish(n) ==
    /\ pc[n] = "store"
    /\ AllStored(n)
    /\ row' = [row EXCEPT
          !.status = IF \E i \in DOMAIN results[n] : results[n][i].status = "needs_review"
                        THEN "partial" ELSE "complete",
          !.findings = Cardinality(Verified(Proposed(n)))]
    /\ Leave(n, "finished")
    /\ UNCHANGED <<categoryRows, stored, rules, raises, deaths>>

-----------------------------------------------------------------------------
(* Errors, deaths and edits.                                               *)

\* Faulty variant of HandleError: the last attempt fails without a trace.
HandleErrorSilently(n) ==
    /\ Leave(n, "raised")
    /\ UNCHANGED <<row, categoryRows, stored, rules>>

\* The worker's except clause: put the job back, or fail the analysis.
HandleError(n) ==
    /\ Leave(n, "raised")
    /\ row' = IF n < MaxAttempts THEN row ELSE [row EXCEPT !.status = "failed"]
    /\ UNCHANGED <<categoryRows, stored, rules>>

Active(n) == pc[n] \notin Over \cup {"idle"}

\* A provider, the database or a tool raises.
Raise(n) ==
    /\ Active(n)
    /\ raises < MaxRaises
    /\ raises' = raises + 1
    /\ HandleError(n)
    /\ UNCHANGED deaths

NoRulesLeft(n) ==
    /\ pc[n] = "prepare"
    /\ rules.list = <<>>
    /\ HandleError(n)
    /\ UNCHANGED <<raises, deaths>>

\* The insert of a finding violates the foreign key on policy_rules.
RuleIsGone(n) ==
    /\ pc[n] = "store"
    /\ ~ AllStored(n)
    /\ plan[n].edition # rules.edition
    /\ HandleError(n)
    /\ UNCHANGED <<raises, deaths>>

Die(n) ==
    /\ Active(n)
    /\ deaths < MaxDeaths
    /\ deaths' = deaths + 1
    /\ Leave(n, "dead")
    /\ UNCHANGED <<row, categoryRows, stored, rules, raises>>

\* The worker dies after it has logged the error and before another attempt has
\* its job, or the database or Redis raises in the except clause itself.
RetryIsLost(n) ==
    /\ pc[n] = "raised"
    /\ n = row.attempts /\ n < MaxAttempts
    /\ deaths < MaxDeaths
    /\ deaths' = deaths + 1
    /\ pc' = [pc EXCEPT ![n] = "dead"]
    /\ UNCHANGED <<row, categoryRows, stored, rules, skip, plan, at, results, raises>>

\* replace_rules: every rule is deleted and inserted anew.
ReplaceRules ==
    /\ rules.edition < MaxEdits
    /\ \E list \in RuleLists : rules' = [edition |-> rules.edition + 1, list |-> list]
    /\ UNCHANGED <<row, categoryRows, stored, attempt, raises, deaths>>

-----------------------------------------------------------------------------
Work(n) ==
    \/ Prepare(n)
    \/ SkipCategory(n)
    \/ BeginCategory(n)
    \/ Extract(n)
    \/ MarkComplete(n)
    \/ BeginVerifying(n)
    \/ StoreFinding(n)
    \/ Finish(n)
    \/ NoRulesLeft(n)
    \/ RuleIsGone(n)

Next ==
    \/ ReplaceRules
    \/ \E n \in Attempts :
          \/ Start(n)
          \/ Work(n)
          \/ Raise(n)
          \/ Die(n)
          \/ RetryIsLost(n)

Spec == Init /\ [][Next]_vars

Retry(n) == n > 1 /\ pc[n - 1] = "raised" /\ Start(n)

\* A worker that lives goes on, and after an attempt that raised, and whose job
\* was put back, there is a further one: the job is claimed, or dropped with
\* its dedupe key, and then a sweep can enqueue the analysis (AnalysisJobs).  A
\* first attempt is not promised, nor one after a death: the key that outlives
\* the job makes the sweep's enqueue do nothing, and the row stays queued.
FairSpec ==
    /\ Spec
    /\ \A n \in Attempts : WF_vars(Retry(n)) /\ WF_vars(Work(n))

-----------------------------------------------------------------------------
(* Properties.                                                             *)

Finished == row.status \in {"complete", "partial"}

\* An attempt that finishes leaves no category of its plan unreviewed,
\* although it skips what others have recorded, and may be overtaken.
PlanIsReviewed ==
    \A n \in Attempts : pc[n] = "finished" =>
        \A c \in Range(plan[n].list) : c \in row.done /\ categoryRows[c] # "none"

\* The findings counted on a finished analysis are the verified findings
\* that one of its attempts has stored.
CountsAreStored ==
    Finished => \E n \in Attempts : row.findings = Cardinality(Verified(StoredBy(n)))

\* While attempts follow one another, no category's findings are stored by
\* two of them.
NoDuplicateFindings ==
    \A f, g \in stored : f.category = g.category => f.attempt = g.attempt

\* While attempts follow one another, the rows keep their promises, whatever
\* attempts skip, die or raise and however the rules are edited between them: a
\* recorded category is never reviewed again, the progress goes back only when
\* the rules were edited, and the conclusion follows from the records.
Promise == INSTANCE AnalysisReview WITH
    Policies <- {Range(list) : list \in RuleLists},
    Outcomes <- Statuses,
    status <- row.status,
    outcome <- categoryRows,
    done <- row.done,
    progress <- row.progress,
    edited <- rules.edition > 0

ImplementsReview == Promise!Spec

\* An analysis that an attempt has begun ends, however often attempts raise,
\* resume or find the rules edited, or its latest attempt is one whose worker
\* died: no attempt hangs, and the last one that raises does not just return.
\* If the queue brings another attempt after a death, the same holds again.
AnalysisEnds ==
    row.attempts > 0 ~>
        \/ row.status \in {"complete", "partial", "failed"}
        \/ \E n \in Attempts : n = row.attempts /\ pc[n] = "dead"

\* A category recorded as completed has its findings in the report.
FindingsAreKept ==
    Finished => \A c \in Categories :
        categoryRows[c] = "completed" => \E f \in stored : f.category = c
=============================================================================
