# ClauseGuard: specifications and proofs

ClauseGuard reviews a software agreement against a company's policy. A user
uploads a document and asks for an analysis; a background worker lets a language
model look for the clauses of each policy category, checks every quoted clause
against the document, scores the findings, and sends the requester a report.

This directory specifies, model-checks and in part proves the server side of it
(`src/backend/app`): the parts where several processes, a database in autocommit
mode, Redis, a language model and a mail provider have to agree on what has
happened.

- `*.tla` without prefix or suffix: the specifications.
- `MC*.tla`: instances of them for TLC.
- `*.cfg`: one TLC run each; the module and the properties are in `PROJECT.json`.
- `*Proofs.tla`: theorems, checked by TLAPS.

Check a run with `tlc -workers 2 -config JobsTimely.cfg MCAnalysisJobs`, and the
proofs with `tlapm AnalysisJobsProofs.tla`. `PROJECT.json` lists for each
definition the source lines it stands for, for each property a faulty variant of
the code that the property catches (`Faulty variant` in the modules), and for
each hazard of the code the properties that watch it.


## 1. The system

| Part | State it keeps | Operations | Talks to |
|---|---|---|---|
| API (`api/v1`) | none | submit an analysis, upload, review, edit a policy, resend a report | Postgres, Redis, storage, mail |
| Job queue (`jobs/queue.py`) | in Redis: a pending list, a processing list per worker, dedupe keys with an expiry | enqueue, reserve (BRPOPLPUSH), acknowledge, retry, requeue at start-up | API, workers |
| Worker (`worker.py`) | the job in hand, the claimed row | consume, process, heartbeat task, recovery sweep, report and action items | queue, repositories, pipeline |
| Analyses (`db/repositories/analyses.py`) | `analyses`: status, worker_id, heartbeat_at, attempt_count, completed_categories, counts; `analysis_categories`; `findings`, `finding_evidence`, `finding_reviews` | create, claim, heartbeat, update_stage, mark_category_complete, complete, fail, recover_stalled; insert and review findings | worker, pipeline, API |
| Pipeline (`services/pipeline.py`) | category_results and proposed findings, in memory | one attempt: prepare the document, review each category, verify, score, store | all below |
| Extraction (`services/extraction.py`, `tools.py`) | transcript, tool budget, flag | one category: retrieve, ask, serve tools, validate, repair | model, retrieval |
| Retrieval (`services/retrieval.py`) | none | hybrid search that falls back to dense, keyword, ordinal scan | chunks, embeddings |
| Verification, scoring (`verification.py`, `scoring.py`) | none (pure) | check a quote and recover its offsets; severity and overall score | pipeline |
| Reports (`report_delivery.py`, `db/repositories/reports.py`) | `analysis_reports`, `report_deliveries`, the PDF in the storage | generate and store, mail with retries, resend | worker, API, mail, storage |
| Action items (`action_items.py`) | `action_items`, `action_item_reviews` | derive from verified findings, edit, review | worker, API |
| Documents (`api/v1/documents.py`, `parsing.py`, `chunking.py`) | `documents`, `document_chunks` | measure and sniff a file, parse, store, cut, embed, delete | API, pipeline, chat |
| Policies (`db/repositories/policies.py`, `policy_builder.py`) | `policies`, `policy_rules` | draft with a model, version, set default, replace rules | API, pipeline, model |
| Access (`core/jwks.py`, `security.py`, `ratelimit.py`) | cached signing keys; a window of requests in Redis | authenticate, limit | API |
| Chat (`api/v1/chat.py`, `services/chat.py`) | none | answer a question from the chunks and verified findings of a document, with citations | documents, analyses, model |
| Usage, audit, health | append-only rows | | API |
| Frontend, deployment, scripts | none the server relies on | | API |

Statements commit one by one: `db/session.py` acquires a connection per
statement, and only a few repository methods open a transaction. So between any
two statements of a worker another worker, a request or a crash may intervene.

### What is hard here

- *Two records of one fact.* A queued analysis is a row in Postgres and a job in
  Redis, written one after the other, removed one after the other, with three
  parties that repair one from the other: the retry path, the sweep and the
  start-up requeue.
- *Ownership by heartbeat.* A worker owns a row while its heartbeat is younger
  than five minutes. It is not told when it has lost the row, and the statements
  after the claim do not ask.
- *Resumption.* An attempt skips the categories that are recorded as done, but
  what those categories found was in the memory of an attempt that is gone.
- *A model that may answer anything*, in a loop that must nevertheless end,
  within budget, and never take a flagged or unvalidated answer, not even one that
  validation itself fails on.
- *Mails* that cannot be taken back, under a unique index that counts rows and
  not mails, with a provider whose reply may be lost.
- *Policies that change* while an analysis reads them.
- *Files as they come*: a type that is judged by the first bytes, limits of size,
  length, pages and expansion, several decodings.
- *Questions* whose sources are read in five statements while the document is
  stored, analyzed, reviewed and deleted.
- *Cutting*: a document is cut into clauses, what is too small is merged, what is
  too large is cut at sentences and then at characters; every quote that is
  verified later is an offset into the result.
- *People who edit the same records*: reviews of a finding, edits of an action
  item that may be generated again meanwhile, versions and the default among the
  policies. These are transactions, with the row locks, unique indexes, lock
  queues and deadlocks of Postgres in READ COMMITTED mode.

`PROJECT.json` lists each hazard at its line.

### What makes each part correct

- *Jobs*: at most one live analysis per document and policy; attempts are
  counted truly; one runner at a time while heartbeats are in time; an outcome
  is final; a job in hand survives its worker; every analysis ends.
- *Extraction*: within budget; a flag is heeded; only validated answers count;
  it ends with an explicit outcome or fails the attempt.
- *Pipeline*: an attempt that finishes has reviewed its whole plan; recorded
  work is not repeated; nothing is stored twice; the counts are those of stored
  findings; the progress goes back only after the policy was edited; the
  conclusion follows from what is recorded; the analysis ends unless an attempt dies.
- *Reports*: what is offered or mailed is stored; one automatic mail per
  recipient; what is recorded as sent was sent, to whom is another question; what was
  sent is recorded; nothing is left undecided.
- *Finding reviews and action items*: what a record says now is what its history
  adds up to, whoever edits at the same time; a generation of items that reports
  success leaves no verified finding without its item, never overwrites an edit,
  and ends, although it waits for other transactions.
- *Policies*: one version of a name, one default, which is only lost to a request
  that takes it away; the rules of a policy come from one request; a draft can be
  saved as it is.
- *Documents*: a file or a paste is accepted exactly if it can be read and
  analyzed; the chunks of a text are in order, disjoint and complete, and none
  is larger than the model is given; cutting ends. An analysis works with the whole
  text, all of it indexed, whoever stores or indexes it at the same time.
- *Retrieval*: what both searches found precedes what one of them found, and an
  order on which both agree is kept.
- *Verification*: the offsets of verified evidence address what was quoted, and no
  genuine quote is refused.
- *Scoring*: neither less confidence nor worse retrieval makes a finding more
  severe or its document more risky, and no finding less makes it more risky.
- *Chat*: an answer cites what the server supplied for this question, from chunks
  that are stored and findings of one analysis, the latest when it was asked; a
  document with text is never said to have nothing to search.
- *Access*: a withdrawn signing key is not used beyond its time to live, a new one
  is found soon, and neither makes the server fetch keys all the time; a window of
  requests exceeds its limit by no more than those that are counted before others are
  added, or after what they should count is gone.


## 2. Modules

| Module | Models | Composition |
|---|---|---|
| `AnalysisLifecycle` | what the status of an analysis may do, whatever happens below | abstract specification |
| `AnalysisJobs` | API request, Redis, workers, heartbeats, sweeps | implements `AnalysisLifecycle` |
| `Extraction` | one category of one attempt | its outcome is `Answers` of `Pipeline` |
| `AnalysisReview` | what the row and its categories promise to who watches them | abstract specification |
| `Pipeline` | the attempts at one analysis | an attempt is what `AnalysisJobs` calls running; without overlap it implements `AnalysisReview` |
| `Intake` | what becomes of one file or paste | what it accepts, `Chunking` cuts and `Documents` stores |
| `Chunking` | how a text is cut into chunks | what an attempt of `Pipeline` prepares |
| `Retrieval` | one hybrid retrieval and its fallbacks | the first step of `Extraction` |
| `Evidence` | the check of one quote | the verdict on a finding in `Pipeline` |
| `Scoring` | the severity of one finding, and the band its document gets | takes the tier that `Retrieval` ended in |
| `ReportDelivery` | the report of one finished analysis | starts where `Pipeline` finishes |
| `FindingReviews` | the reviews of the findings of one analysis | |
| `ActionItems` | the items of one analysis: generations and edits | INSTANCEs `FindingReviews`: a review holds a finding that an item refers to, and changes the order of a generation |
| `PolicyDraft` | a policy as a model proposes it | its draft is what `Policies` creates |
| `Policies` | the policies of one organisation | the edits of rules that `Pipeline` meets |
| `Documents` | how one document is made, deleted and prepared by attempts | `Prepare` of `Pipeline`, statement by statement |
| `Chat` | one question about a document | runs beside `Documents` (which stores and deletes) and `FindingReviews` (which changes severities), over their variables |
| `RateWindow` | the window of the rate limiter | |
| `SigningKeys` | the cache of the identity provider's keys | |
| `Enumeration` | a finite set of numbers in order, and what a sequence has there | the normal forms of `Evidence`, the slugs of `PolicyDraft`, the citations of `Chat` |

The first specifications meet at narrow seams, so each is checked alone against
everything its neighbours may do: `Pipeline` takes any result that `Extraction`
can produce for a category; `AnalysisJobs` lets an attempt end at any moment with
any outcome and so contains every run of `Pipeline`; `Pipeline` lets attempts
overlap because `AnalysisJobs` shows that they can; `ReportDelivery` runs several
completing workers for the same reason.

### AnalysisJobs

A row of `analyses` is `status`, `owner`, `attempts` and one bit, `stale`, for a
heartbeat older than five minutes: no condition in the code asks for more. Redis
is `pending`, `processing` and `dedupe`. The `_consume` coroutine of a worker is
at `pc`, with its `job` and the attempt number its claim returned; its sweep is
at `swept` and `pushing`. Each action is one SQL statement or one Redis command:

- request: `Create` (INSERT, refused by the unique index on live rows),
  `RequestSetsKey`, `RequestPushes`; `RequestStops` anywhere in between.
- worker: `Start`, `Reserve`, `Claim` or `ClaimMisses`, `Progress`, `Complete` or
  `PipelineRaises`, then `PutBack` or `GiveUp`, and the two commands of an
  acknowledgement (`Unlist`, `Unkey`) or of a retry (`Unlist`, `Repush`).
- sweep: `RecoverStalled`, then `SweepSetsKey` and `SweepPushes` per row.
- time: `HeartbeatAges` makes a row stale that nobody refreshes; `Heartbeat`
  refreshes it; `KeyExpires` drops a dedupe key.
- faults, each kind admitted by the constant `Faults` and budgeted by
  `MaxFaults`: `WorkerDies`, `RequestStops`, `StepRaises`, `AcknowledgeRaises`,
  `SweepRaises`, `RedisFlushed`, `OwnerLapses`. That an attempt raises, or that a
  job waits long in Redis, is admitted without budget.

### Extraction

`pc` is the await that `extract` is at. A response of the model is a class of
text or a batch of tool calls; the executor serves the batch call by call. Of a
text only what validation makes of it matters: it is valid in one of four ways,
`invalid`, or `malformed`, which makes `_validate` raise where nothing catches it
(`ValidationRaises`; in a repair it is caught). Over its cap a call is refused, and
the model may answer after the refusal. What a search finds is left out.

### Pipeline

`row` is the analysis, `categoryRows` and `stored` the rows an attempt writes,
`rules` the enabled rules with an edition number that an edit raises. Per
attempt: `pc`, the snapshot `skip` of the categories done when it claimed the
row, its `plan`, the position `at`, and the `results` that only it knows. An
An attempt ends finished, raised or dead; `RetryIsLost` is one that raised and whose
worker dies, or meets another error, before its job is put back. An
outcome of a category is its status and, for each finding, whether verification
will accept it. `failed` categories count as `needs_review` and quarantined
findings as needing review, as the code treats them alike. The document's text,
the chunks and the severities do not matter to the properties; `Prepare` stands
for reading and cutting the document, which `Documents` does statement by
statement. A run of the attempts is seen from outside as `AnalysisReview`: the
mapping shows the status, the rows of the categories, which of them are done, the
progress, and whether the rules were ever edited, and hides attempts, plans,
findings and failures.

### Intake, PolicyDraft

The bytes of a text file are grouped as UTF-8 groups them: a character of one
byte, one of two, or a byte that belongs to none; so it is decided where the cut
after the first `SNIFFED` bytes falls and which decodings are possible. Of a PDF
or a ZIP only what the readers say of it is kept: whether it opens, its password,
pages, characters and sizes. Each refusal is an exception of `parsing.py`, in the
order of the code; `verdict` is the first that applies.

In `PolicyDraft` a category is a sequence of characters, because the property is
about what `_category_slug` and `_unique_category` make of it. Each round of the
loop over the proposed rules is `ReadRule`, `TryNextSuffix` as often as the name
is taken, and `TakeCategory`.

### Chunking

A text is its `length`, which characters are `ink`, and where the patterns see a
clause start or a sentence end; any text that normalisation returns, with any
outcome of the patterns that their anchors allow. The loops are taken one round
per action: raw spans with what is `pending` before them (`SkipBlank`, `Clause`),
pieces of an oversized clause (`TakePiece`, `CutPiece`), the tail (`EndOfText`),
and the spans tightened to their ink (`Tighten`). The code collects spans in
lists where the model consumes the first of them; the order is the same.

### Retrieval, Evidence, Scoring

`Retrieval` takes the two searches in turn, each with any ranking that a query can
return, and a search that raises as one that finds nothing. Scores are exact
fractions instead of floating-point sums. A sort is stable, so equal scores stay in
the order of first appearance (`SeenBefore`).

`Evidence` compares a quote with a chunk as the code does: as it is, and in a
normal form whose characters remember where they come from (`IndexMap`). Of all
characters it keeps letters, blanks, newlines, one that is folded into a letter
and one that is removed. Each way to return is an action. What the code builds by
appending character after character is here the enumeration of the places that stay
(`Stay`, with `InOrder` of `Enumeration`): the same sequence, of which more can be
proved than of a fold.

`Scoring` counts confidence, weight and threshold in parts of `Scale`, so that the
bands are exact. The score of a document grows with the points of its findings, so
a band begins at a number of points (`RiskBand`), and the exponential is not
needed.

### ReportDelivery

`report` is the status of the row, `file` whether the PDF is stored, `deliveries`
the delivery rows in order. A sender is a worker or a request, at `pc`, with the
`row` it took. The unique index is `LiveRow` for an INSERT, which then inserts
nothing, and `Admitted` for an UPDATE, which raises (`Refused`). A mail is
accepted, rejected, or accepted with the reply lost; the last two look the same
to the sender; `lost` counts the latter per sender, for the property. `To` is the
address a sender writes to: workers write to the requester, a request to the user who
makes it, whoever the row it takes is addressed to.

### FindingReviews, ActionItems, Policies

A transaction takes at least two steps: one that reads and locks, and one that
writes and commits, since nobody sees its writes before. A review takes three: its
transaction begins, and takes the time that the history is ordered by, before it
gets the row (`BeginReview`, `LockFinding`, `WriteReview`). `reviewing` and `editing`
hold what an open transaction has read; a row that one of them holds is locked
(`FindingLocked`, `ItemLocked`), because the code reads it FOR UPDATE.

A generation of action items inserts one row per statement. What it has inserted
and not committed is in `inserted`: another generation that comes to the same key
waits for it (`WaitsFor`), as ON CONFLICT DO NOTHING does, and so does a review
of the finding the row refers to, because of the foreign key (`ReviewBegins`); an
INSERT in turn waits for a review that holds the finding. Two generations list
the findings in different orders when a reviewer has changed a severity in
between, so they may wait for each other: `DeadlockFound` is Postgres aborting
one of a cycle.

In `Policies` each operation of several statements is a sequence of actions over
`target`, `work` (what it read), `locked` (rows it has updated) and `deleting`
(rules it has deleted). The unique constraint and the partial unique index are
`Taken` and `AnotherDefault`. `BeginReplace` and `DeleteRules` are the two moments
of one DELETE that has to wait: it sees the rules as of the first and deletes
those of them that are left at the second. `contended` remembers the policies
whose rules two requests replaced at once. A version reads the highest number in
one statement and inserts in another.

### Documents, Chat, RateWindow, SigningKeys

A document is its row, the chunks that are `stored` and those that are `indexed`.
`creating` is the next statement of whoever makes it: an upload, a paste, or the
demo seed, which marks the row ready before it stores chunk after chunk. A batch of
chunks commits at once, since `executemany` is one transaction; embeddings are
written one by one. Analyses of different policies, and successive attempts at one,
may prepare a document at once.

`Chat` is one request at `pcChat`. It finds the document, searches its chunks,
falls back to their beginning when no word matches, finds the latest finished
analysis, reads its verified findings in the order of their severity, and asks the
model, each a statement of its own. `asked` remembers what there was when it
began. The model mentions any references, those that were not supplied included.

In `RateWindow` a request reads the clock (`Arrive`), then the set (`Count`,
`Refuse`) and extends it (`Add`) in two round trips; any time may pass between them,
so that requests are counted in another order than that of their times. The set
lives until `expires`, a second longer than the window after it was extended. In `SigningKeys` a call of `get_key` is one step, because it
holds a lock and blocks the event loop; `changed`, `fetches` and `failedAt` are
history for the properties.

### Sums

`MCAttemptParts` checks seven parts that nobody interferes with in one
run, and `MCRequests` seven modules about state that requests meet in. Each is a sum:
a behaviour is one of one of the modules, chosen by `part`, and the variables of the
others stay as they are, in `MCAttemptParts` at one initial state of theirs. The part `chat` is a composition: the question runs while
`Documents` stores or deletes the document and `FindingReviews` makes a finding
critical.


## 3. Runs

| Run | Instance | Shows |
|---|---|---|
| `JobsHazards` | 2 analyses of one document and policy, 2 workers, 3 faults of any kind but raising attempts | `TypeOK`, `DistinctAttempts`, `OneActivePerTarget`, and that the jobs implement `AnalysisLifecycle` |
| `JobsTimely` | 1 analysis, 3 workers, 2 faults; attempts raise, jobs wait, processes die, Redis and SQL raise, requests stop | `SingleRunner`, `HeldJobIsListed`, `ResultIsFinal` |
| `JobsLive` | 2 analyses, 2 workers, attempts may always raise, 1 fault of processes, Redis or database | `AnalysesEndOrStrand` |
| `JobsWorkerDeath` | 1 analysis, 2 workers, 1 death | violation of `EveryAnalysisEnds`, see 6 |
| `JobsRetryDropped` | 1 analysis, 1 worker, no fault but raising attempts | violation of `DroppedJobsAreTaken`, see 6 |
| `AttemptParts` | extraction: the default budget of 5 calls and 8 iterations, 3 calls per response; cutting: every text of up to 8 characters, chunks of 2 to 4 with a target of 3; retrieval: all rankings of 4 chunks, 3 returned, `RRF_K` 60; verification: all chunks of up to 4 and quotes of up to 3 characters, a minimum of 2; scoring: all confidences and weights in twentieths, 4 thresholds, 3 documents around the finding; intake: every text of up to 6 characters, 4 of its bytes sniffed, at most 7 bytes allowed, and every PDF, ZIP and paste around the limits; drafting: 2 or 3 rules asked for, up to 4 proposed, categories of at most 4 characters | `TypeOK`, `WithinBudget`, `AnswersAreSound`; `CutRightly`; `FusionIsFair`; `VerifiedExactlyIfQuoted`; `SeverityIsMonotone`; `IntakeIsSound`; `DraftCanBeSaved`; `PartsEnd` |
| `PipelineResume` | 2 categories, 3 attempts in turn, 3 raises, 2 deaths or lost retries, 1 edit that may swap, drop or disable rules | `TypeOK`, `NoDuplicateFindings`, `AnalysisEnds`, and that the attempts implement `AnalysisReview` (`ImplementsReview`) |
| `PipelineOverlap` | 2 categories, 2 overlapping attempts, 1 edit of the same kinds | `PlanIsReviewed`, `CountsAreStored` |
| `PipelineLoses` | 1 category, 3 attempts, 1 death | violation of `FindingsAreKept`, see 6 |
| `DeliveryRaces` | 2 workers, 2 requests, 2 tries each, 1 lost reply, 1 stopped sender; one request of the requester and one of a colleague | `TypeOK`, `ReportIsStored`, `OneAutomaticMail`, `SentIsMailed`, `EverythingSettles` |
| `RequestsMeet` | reviews: 2 findings, 2 reviewers, 3 reviews; items: 2 generations, 2 editors, 1 reviewer, 1 lost connection; policies: 2 administrators, 3 requests, 2 ids, names and categories; a document of 2 chunks and 2 attempts; a question about it, 2 analyses, 2 findings, 1 source of each kind, 3 mentions, 1 review; 2 handlers with a limit of 1 in 5 units of time, and 8 units; 2 keys that live for 3 units, 3 fetches | `TypeOK`, `HistoryExplainsRecords`, `GenerationIsComplete`, `EditsSurvive`, `GenerationsEnd`, `LibraryIsConsistent`, `DefaultIsKept`; `DocumentIsTheBasis`; `WindowIsBounded`; `KeysAreCurrent`, `FetchesAreApart` |
| `PolicyRulesMix` | the policies alone | violation of `RulesAreWhole`, see 6 |

### Why the bounds are enough

*Jobs.* Every race in the code is between two parties over one row: an owner and
a claimant, a retry and a sweep, an old analysis and its successor. Two workers
with two sweeps provide them all; two analyses of one document and policy
provide the successor; three workers in `JobsTimely` allow an owner, a claimant
and a stray job's holder at once. Three faults are as many as the known failures
need (a lapse, a death, an expired key). `attempts` is bounded by the sweep's own
condition and by the budget of faults.

*Pipeline.* Three is the program's own number of attempts, with two deaths so that
the third can still finish. One edit between or within attempts meets every
statement of an attempt; a second repeats it. A skipped and an unskipped category,
in either order, are two. One finding per category is enough for a finding to be
lost, doubled or miscounted; with two, only the number of inserts grows.

*Delivery.* Two workers race for the claim, two requests for the latest row; the
default of three tries is cut to two because a third repeats the second. Two
addresses suffice for a resend that takes the row of another user.

*Extraction* runs at the program's own settings.

*Cutting.* Eight characters are two chunks of the maximum: room for a clause cut at
a sentence and again at a character, a fragment before it and a tail after it. The
sizes keep the order of the program's own (60, 400, 800 tokens of 4 characters);
the proofs are for any sizes.

*Retrieval* has the program's own constant; the theorems give the condition on the
number of candidates (24 in a review, 18 in a tool search) under which it is large
enough. Four chunks are two that agree and two that do not.

*Verification.* Three characters are a quote with a blank, a character to fold or
one to remove between two that count; four are a chunk with something before or
after what is quoted. *Scoring* is exhaustive on a grid that holds every band, cap
and threshold; around the finding its document has nothing, seven low findings (28
points, two below a band, and a critical one more is the highest) or one high
finding.

*Intake.* Four sniffed bytes and characters of one and two bytes put every kind of
character on the cut, before it and after it; each limit has a file below it, at
it and above it. *Drafting*: four proposals of a longest name of four characters
make a name, its variants, and one that ends in the number of a variant.

*Chat*: one source of either kind makes both lists overflow, with two chunks and
two findings; two analyses may finish between any two statements; three mentions
hold a repeated one, a supplied one and an invented one.

*Documents* need two chunks, so that there is a part that is not the whole, and two
attempts. *Rate limit*: the bound is reached in these runs, by two requests that are
counted at once and two that wait until the set of the first has expired; eight units
of time are a window, its expiry and what comes before. *Keys*: a stale key needs one
fetch and one time to live.

*Records.* Every conflict is between two transactions over one row or one key, and
two rows make a cycle of waiters. Three reviews are two that meet and one whose
previous values depend on both; an edit of an item that completes it and another
that meets it or opens it again are two. In three requests two administrators can
version, rename and create the same name, clear a default while another sets or
creates one, or replace rules twice and version what is left. Two rows of policies, one
of them there from the start, leave no room for two new versions of one name: for
those TLC has no example, and `LibraryStaysConsistent` is the evidence.

### Fairness

- `AnalysisJobs!FairSpec`: the two coroutines of a live worker keep running
  (asyncio schedules both, and every call they await has a timeout), a request
  that has begun to enqueue goes on, and heartbeats that nobody refreshes age.
  Nothing obliges a user to submit, a fault to happen, or a key to expire before
  the code needs it to.
- `Extraction!FairSpec`: every await returns or raises, because the model and
  the database calls have timeouts. The model may answer with tool calls for as
  long as the loop lets it.
- `MCAttemptParts!FairParts`: extraction and cutting, the parts that loop, go on. The
  others have safety properties only.
- `Pipeline!FairSpec`: an attempt that has started goes on, and after one that
  raised, and whose job was put back, a further attempt comes (`Retry`). That is what
  `JobsLive` shows while processes live: the job is claimed, or dropped together with
  its dedupe key, and then the sweep can enqueue the analysis. Nothing promises a
  further attempt after a death. The sweep makes the row queued again, but the dedupe
  key that the job has left, for an hour (`jobs/queue.py:124-128`), suppresses its
  enqueue, and no sweep looks at a queued row. Nor is a first attempt promised. Dying
  and raising are never obliged.
- `ReportDelivery!FairSpec`: a sender goes on; storage and mail calls have
  timeouts. A request need not arrive.
- `MCRequests!FairSpec`: a generation that can go on does, a review that has begun
  ends, and a deadlock is found. An INSERT that waits is served in its turn, since
  Postgres queues those that wait for a lock: strong fairness of `InsertItem`,
  which other reviews may disable again and again.


## 4. What the properties say

Safety of jobs under *every* fault: `DistinctAttempts` (two workers on one row
hold different attempt numbers, so that the third failure is recognised as the
third), `OneActivePerTarget` and `ImplementsLifecycle`. Two workers *can* run one
analysis at once when an owner lapses; `SingleRunner` and `ResultIsFinal` say
that nothing else makes them, which is what the claim's condition is for.
`ResultIsFinal` names one exception: a third attempt that has written its outcome
and meets a Redis error in its acknowledgement takes it for an error of its own and
fails the analysis.
`HeldJobIsListed` is what BRPOPLPUSH is for. `AnalysesEndOrStrand` says what one
fault may do at worst: without a fault every analysis ends, however often attempts
raise; after one it ends or waits in one of two places, queued without a job or
running its last attempt without a worker, and in no third. The first of these
also follows the death of a worker in an earlier attempt. `AnalysisEnds` says the
same from within: an attempt that has begun leads to an end of the analysis, or the
latest attempt is one that died or whose retry was lost.

`PlanIsReviewed` is the property of resumption that holds even when attempts
overlap and rules are edited: whoever finishes, finishes with its whole plan
reviewed. `NoDuplicateFindings` and `ImplementsReview` hold while attempts follow
one another and fail with overlap; `PipelineResume` is the run without it. By
`AnalysisReview` no recorded category is reviewed again, the progress shown is never
more than what is recorded and goes back only after the policy was edited, an
analysis concludes only when some edition of the policy is recorded as a whole, and
"partial" has a category that needs review. That "complete" has none is not
promised: it is false after a resumption, see 6.

`AnswersAreSound` joins `FlagIsHeeded` (a flagged category ends as needs_review) with
`OnlyValidAnswers`: only a validated answer completes a category, one that was refused
leaves it to people, and one that validation raises on leaves it to people as a
repair and fails the attempt as a first answer. A category whose tool calls are over
the cap is not promised to end as needs_review: see 6.

`CutRightly` joins `ChunksInOrder`, `NothingIsLost` and `ChunksFit`, which are what
the docstring of `chunk_document` promises and a bound it does not state: the tail
is measured with the blanks of the span it joins, so the sum cannot exceed
`MAX_TOKENS`.

`FusionIsFair` joins `AgreementIsKept` with `ConsensusWins`, which is what
`reciprocal_rank_fusion` is for, and what a smaller constant or more candidates
would break. `VerifiedExactlyIfQuoted` is `VerifiedIsQuoted` and
`GenuineIsVerified`, the two halves of the promise of `verify_evidence`: no offset
that shows other words, no genuine quote refused for its typography.
`SeverityIsMonotone` relates the severities of two findings, of which one has less
confidence or worse retrieval; it depends on the order of threshold, escalation and
cap. It carries on to the document: the band of all findings follows the severity of
each.

`IntakeIsSound` has both directions: what is accepted can be analyzed
(`AcceptedIsAnalyzable`), and well-formed text of an allowed size is accepted with
all of its characters (`TextIsReadAsItIs`), one seam excepted, see 6.
`DraftCanBeSaved` is what `normalize_policy_draft` is for: its result meets the
schema of `create_policy` and the unique constraint on a policy's categories, however
the model's names collide.

`DocumentIsTheBasis` joins `AttemptsArePrepared` of `Documents` with
`AnswersAreGrounded` of `Chat`: citations are sources that were supplied, from one
analysis, and nothing that was there when the question came is missed.
`AttemptsArePrepared` joins `ListedIsIndexed` with `WholeTextIsReviewed`, which
excepts the demo seed by name, which stores a document that is ready before its
chunks. `WindowIsBounded` gives the rate limit as the two round trips and the clock
read before them keep it. All handlers but one may be counted before the first has
added. And any that have read the clock may wait while a later request trims the set,
or the set expires, and then count nothing of their own window. So the excess is at
most twice the handlers less one, which the runs reach; nothing in the repository
says that the limit is exact.

`OneAutomaticMail` counts the mails of workers to one recipient: one, and one more for
each lost reply, said worker by worker. It names one exception, a resend request that
took over the sent row and failed, which reopens the way for a later worker.
`EverythingSettles` includes a report that nobody generates, which is left by workers
that all died between the completion and the generation, and by nothing else.
`SentIsMailed` has both directions, for senders that write to different recipients. A
row says sent only if one of those who held it had its mail accepted, and that one
wrote to the addressee of the row or was a request; the second case is what the code
does, because a resend takes the latest row whoever it is addressed to. And who has
recorded its mail as sent finds it recorded, unless a request shares the row and
another holder of it did not succeed.

`HistoryExplainsRecords` folds the history rows of findings (`HistoryExplainsReviews`)
and of action items (`HistoryExplainsItem`, `CompletionIsAttributed`) into the
state they should have left, so it catches a lost update, a row computed from a
state that was gone, and a change without a row. `GenerationIsComplete` also
speaks of generations that failed: when all of them ended well or as victims of a
deadlock, every item is there, because a deadlock has a survivor. It is false of
a lost connection, which the model contains. `LibraryIsConsistent` joins
`VersionsAndDefaultAreUnique` with `LoneReplacementsAreWhole`, which speaks of the
replacements that the violated `RulesAreWhole` leaves out. `KeysAreCurrent` joins
`WithdrawnKeysExpire` and `PublishedKeysAreFound`. `DefaultIsKept` names the one request
that loses the default by surprise: one that names a policy that does not exist.


## 5. Proofs

TLAPS proves the following for every value of the constants: any numbers of
analyses, workers, attempts, requests and tries, any policy, any faults.

| Theorem | Statement | Argument |
|---|---|---|
| `TypeCorrect` | `Spec => []TypeOK` of `AnalysisJobs` | inductive with `HandsFull`: a worker that is processing holds a job, without which the removal of its job from a list has no type |
| `AttemptsAreDistinct` | `Spec => []DistinctAttempts` | with `AttemptsExist`; only `Claim` hands out a number, one above all others of the row |
| `JobsImplementLifecycle` | `Spec => ImplementsLifecycle` | each action is `Submit`, `Attempt`, `Requeue`, `Succeed`, `Fail` or a stutter; the guards of `Succeed` and `Fail` come from `AttemptsAreDistinct` |
| `NeverTwoActive` | `Spec => []OneActivePerTarget` | inductive as it stands, given that a claim and a sweep only touch live rows |
| `AtMostOneRunner` | no `lapse` in `Faults`: `[]SingleRunner` | with `OwnersAreFresh`: a processing worker owns its row, which is running and not stale |
| `OutcomesAreFinal` | no `lapse` in `Faults`: `ResultIsFinal`, with the exception it names | with `RunnersUnfinished`: who is processing has not written the outcome, until it acknowledges |
| `HeldJobsAreListed` | no `flush` in `Faults`: `[]HeldJobIsListed` | with `AcknowledgedHasEnded` |
| `ExtractionTypes`, `ExtractionBudget`, `SoundAnswers` (from `FlagsAreHeeded`, `AnswersAreValid`) | the safety properties of `Extraction` | `BudgetInv` ties the number of requests to the place in the loop, `FlagInv` a raised flag to the batch that will see it, `AnswerInv` the result to the class it came from, an answer that validation raises on included |
| `ChunkTypes`, `ChunksAreInOrder`, `ChunksHoldTheText`, `ChunksAreBounded` | the safety properties of `Chunking` | `Held`: what is pending fits, and only blanks follow it up to the position; the clause that is split ends at the position; `Done`: chunks, spans and the rest of the text follow one another, fit, and together hold all ink |
| `RetrievalTypes` | the types of `Retrieval` | inductive; a prefix of a ranking is one |
| `ConsensusAlwaysWins` | if `Candidates <= RRF_K + 1`, the fusion puts common chunks first | `FusedInv`: what is returned is fused from the two rankings; `TwoBeatOne`: two ranks up to `RRF_K + 1` weigh more than any single one, by comparing products |
| `AgreementIsAlwaysKept` | for any `RRF_K` | `FusedInv` and `BetterTwice`: two better ranks give a larger sum |
| `FusionStaysFair` | if `Candidates <= RRF_K + 1`: `FairParts => []FusionIsFair` | from the three above |
| `TextIsCutRightly` | `FairParts => []CutRightly` | from the theorems on `Chunking` |
| `EvidenceIsQuoted` | `FairParts => []VerifiedExactlyIfQuoted` | one step decides (`EvidenceInv`). `MatchIsQuoted`: what lies between the places of the first and the last matched character has the normal form that was looked for, because a normal form never begins or ends with a blank (`EndsAreInk`), so exactly the matched places stay there too, and they are their only enumeration (`OnlyEnumeration`). In the other direction `FoldedSame` and `StrippedBoundsFlat`: a quote that is in a text as it is is its own folded form, and its normal form is no longer than what strip() leaves |
| `SeverityStaysMonotone` | `FairParts => []SeverityIsMonotone` | each stage of a score, band, reduction, escalation and cap, is monotone in the confidence (`SeverityGrows`), points are monotone in the severity, and a set of bands that is passed only grows with them (`RiskGrows`) |
| `IntakeStaysSound` | `FairParts => []IntakeIsSound` | the verdict is the first refusal that applies, by cases of the kind of file |
| `DraftsCanBeSaved` | `FairParts => []DraftCanBeSaved` | `DraftInv`: the numbers tried before are all taken, so there are fewer of them than proposals; different numbers make different names although the name is cut to make room (`CandidatesDiffer`) |
| `PlanReviewed` | `Spec => []PlanIsReviewed` of `Pipeline` | `ReviewInv`: what an attempt skips, and every category of its plan before its position, is done; what is done is recorded; nothing recorded is taken back. It holds for each attempt although the others write to the same row |
| `PipelineTypes` | `Spec => []TypeOK` of `Pipeline` | inductive with `ReviewInv`, which bounds the positions and the snapshots |
| `CountsStored` | `Spec => []CountsAreStored` | `CountsInv`: an attempt stores only what its results propose, and nothing once it is over; a finished row has the count of one that is over. It holds although attempts overlap |
| `NothingStoredTwice` | no overlap: `Spec => []NoDuplicateFindings` | `SerialInv`: only the last attempt is active; whatever is stored is of a category that is recorded, and the active attempt skips what others have stored (`StoredOnce`) |
| `ReviewImplemented` | no overlap: `Spec => ImplementsReview` | with `ProgressInv`: the progress shown is at most what is recorded, and until the rules are edited what is recorded are the first rules of the one plan there is; each action maps to a step of `AnalysisReview` or a stutter (`StepReviews`) |
| `ReportStored` | `Spec => []ReportIsStored` of `ReportDelivery` | `StoredInv`: whoever is past the generation has a stored file |
| `PolicyTypes` | `Spec => []TypeOK` of `Policies` | with `Held`: locked rows exist, and a replacement writes each category once |
| `PoliciesAreUnique` | `Spec => []VersionsAndDefaultAreUnique` | inductive with the types: constraint and index are looked up when a row is written, and what was read before does not matter |
| `DefaultIsOnlyTakenAway` | `Spec => DefaultIsKept` | with `Held`: the policy that becomes the default is not among those that are cleared |
| `DeliveryTypes` | `Spec => []TypeOK` of `ReportDelivery` | `TypeInv`: what a sender holds fits its place (`Fits`), and there are no more rows than senders that have asked, which needs that nobody asks twice |
| `LibraryStaysConsistent` (`PoliciesProofs`; for the sum `RequestsProofs`) | `Spec => []LibraryIsConsistent` | `PoliciesAreUnique` and `WholeInv`: while one request alone replaces the rules of a policy nobody else writes them, so what it has seen, and then what it deletes, is all there is |
| `DefaultStays` | `Spec => DefaultIsKept` in the sum | from `DefaultIsOnlyTakenAway` |
| `DocumentsAreTheBasis` | `Spec => []DocumentIsTheBasis` | `PreparedInv`: a document that the seed does not make is stored as a whole or not at all, and ready only as a whole; what is stored and indexed only grows; what an attempt has listed has an embedding or is pending. `ChatInv`: what is found is stored, and what is cited was supplied, once (`InOrderEnumerates`) |
| `KeysStayCurrent`, `FetchesStayApart` | `[]KeysAreCurrent`, `FetchesAreApart` | `KeysInv`: the cached keys are those of the last good fetch but for what changed since (`CacheIsAsFetched`), and the last attempt decided for as long as its interval (`AttemptDecided`) |
| `WindowStaysBounded` | `Spec => []WindowIsBounded` | `WindowInv`, for each window: either the set has all that was added of it, and then whoever is counted lacks only what the other handlers have counted and not yet added; or the window is past, and only those who have read the clock before its end and still wait (`Reading`) can come into it. The clock, the trimming and the expiry lead from the first to the second, never back |
| `HistoriesExplainRecords` | `Spec => []HistoryExplainsRecords` | for findings `ReviewInv`: a review that holds a finding has read what it says and is alone with it, and rows are dated by when they began, each by a moment of its own, and stored in the order of their commits; `Explained`: each row starts from what the rows before it left, and the last one leaves what the finding says; the list, newest first, agrees where reviews did not overlap, because those before a row in time are then those before it in commits (`AloneInOrder`, `ListExplains`). For items `HistoryInv`, which says the same of each field from the value it began with; an edit adds one row for each field that it writes (`RowsOfEdit`), and only items that exist have rows, so a generation that inserts one inserts it with an empty history |
| `GenerationsAreComplete` | `Spec => []GenerationIsComplete` | `ItemsInv`: what two open generations have inserted is apart and has no item yet (`InsertsAreApart`); of an open generation each verified finding has its item, is inserted, or is still to come (`NothingIsMissed`), and what is passed over was there, because an insert waits for whoever has inserted the key; whoever waits in a cycle waits for one that is open too, so the victims are never all (`SomeoneIsLeft`) |
| `EditsStay` | `Spec => EditsSurvive` | from `ItemsInv`: a commit writes only keys that have no item |
| `RecordsAreTyped` | `Spec => []TypeOK` of `MCRequests` | from the invariants of the parts, with `ChatTypes` and `ClocksBounded` |
| `MailedOnce` | `Spec => []OneAutomaticMail` | `OneMailInv`: a recipient has one live row, and a worker whose mail was confirmed never gives its row up, so that the row stays live unless a request that took it over failed |
| `InOrderEnumerates`, `PickedOnce`, `OnlyEnumeration`, `FirstNumbers` | of `Enumeration` | there are fewer members below a member than below a greater one (`BelowGrows`), and every number of them occurs (`EveryPlaceIsTaken`, by counting) |
| `DeliveriesMailed` | `Spec => []SentIsMailed`, for any recipients | `MailInv`: a sender keeps the row it took, a worker's is addressed to its recipient, and a row that is marked sent was marked after a mail of its holder; what was marked changes only by a request that holds the row too |

Assumed are the modules' `ASSUME`s on the constants, which TLC evaluates in every
run (for the modules in the sums, conditions of their own that the run's module
assumes), and, in the theorems on runners, outcomes and held jobs, the absence of
the faults under which they do not hold, in two on the pipeline that attempts do
not overlap, and in those on the fusion that searches return few enough chunks. Two of
the conditions on constants deserve a word. `KeysAssumption` has the refresh interval no
longer than the time to live: half a minute and an hour. `DraftAssumption` keeps the
proposals of a model below 99, because `Decimal` writes numbers of two digits: a bound of
the model, where the program has that of 2200 tokens on the reply. And `ItemsAssumption`
has edits say what the columns of the table accept (`Body`): any other is rolled back,
and changes nothing.

What the model does in the two sums is proved there too: `MCAttemptParts` and
`MCRequests` are what the runs check, so `AttemptPartsProofs` and `RequestsProofs` first
show that a behaviour of the sum is one of each part (`PartsCut`, `LibraryRuns` and
others), and then speak of the parts.

Lemmas about the list operators that the queue uses (removing the first occurrence,
pushing, popping) are proved once at the head of `AnalysisJobsProofs`.

Only model-checked: every liveness property (`AnalysesEndOrStrand`, `AnalysisEnds`,
`PartsEnd`, `EverythingSettles`, `GenerationsEnd`), since fairness and ENABLED are
beyond these provers. Every other property that a run checks and that holds is the
statement of one of the theorems above, with the conditions that the run has, too.


## 6. Disagreements between the code and what is said of it

Each is a run that TLC must find violated.

- `JobsWorkerDeath`: `jobs/queue.py:3-6` says a job is never lost if the worker
  dies between pop and completion. A worker that dies before its claim leaves a
  queued row whose job is in a processing list that nobody reads again.
- `JobsRetryDropped`: `worker.py:263` puts a failed attempt back for another
  attempt to resume. The row still says running, with a fresh heartbeat, so the
  claim misses and the job is dropped; the sweep resumes it five minutes later.
- `PipelineLoses`: `worker.py:263-264` and `analyses.py:155` let another attempt
  resume from what is recorded as complete. A category is recorded before its
  findings are stored, and an attempt that ends in between loses them.
- `PolicyRulesMix`: `db/repositories/policies.py:155` says the rules are replaced
  atomically. The DELETE of a second replacement does not see the rules that the
  first one inserts while it waits, so the rules of both remain.

Behaviour that the modules contain and a property names as an exception: a Redis
error while the finished third attempt acknowledges turns its outcome into a
failure (`ResultIsFinal`); a row that was inserted but never enqueued, whose job
was lost with Redis or between the two commands of a retry, or whose worker died in
an earlier attempt, stays queued, and a third attempt whose worker dies stays
running (`AnalysesEndOrStrand`); the progress goes back when the policy was edited
between two attempts (`ImplementsReview`); a report is never generated when the
workers die right after the completion (`EverythingSettles`); a review that met
another one may be listed out of order (`HistoryExplainsRecords`); a tool that raises,
or an answer whose findings are a number or true, over which
`services/extraction.py:334` iterates outside any try, fails the whole attempt
(`AnswersAreSound`); a resend marks the row of another user as sent, so that an
automatic mail to that user is later taken for sent already (`SentIsMailed`); a resend
that fails on a row that was sent lets a later worker send a second automatic mail,
which the comment at `backend/migrations/0011_reports_and_deliveries.sql:75-77` and
`services/report_delivery.py:17` rule out for a retry (`OneAutomaticMail`); a window of
the rate limiter has more requests than those that overlap in it explain
(`WindowIsBounded`). And
without a property: an overtaken attempt and its
successor may both store the findings of one category; a report marked ready by one
worker can be marked failed by another. Whether an analysis is partial is decided by
the categories of the last attempt alone (`services/pipeline.py:400`), so that what
an earlier one recorded as needing review is forgotten (`README.md:109` speaks of
the analysis); two resends at once both send (`docs/INFRASTRUCTURE.md:483` has one
suppressed).

Further differences, seen while modelling and left without a run of their own:

- `services/tools.py:13-14` and `README.md:290` say that exceeding the cap on tool
  calls ends a category as needs_review. A call over the cap is refused with the
  request to answer now (`tools.py:172-187`), and `extraction.py:259` leaves the loop
  only when the category was flagged: the model answers, and a valid answer completes
  the category, which is what `Extraction` does. `WithinBudget` and `PartsEnd` show the
  other half of the sentence, that it does not loop.
- `api/v1/analyses.py:159` logs that an analysis without a queue "will be picked up
  by recovery sweep"; the sweep takes rows that are running, never queued ones.
- `services/parsing.py:77` says plain text must decode as UTF-8 or Latin-1; the test
  behind it takes UTF-8 only, and of the first 8192 bytes. A well-formed text whose
  character lies across byte 8192 is refused (`Straddles` in `Intake`), and the
  branches of `parse_txt` for UTF-16 and Latin-1 are only reached when the first bad
  byte comes later; a Latin-1 text of an even number of bytes may then be read as
  UTF-16. `tests/test_parsing.py` calls `parse_txt` with Latin-1 directly.
- `services/scoring.py:163` says that many low findings do not outrank a critical
  one; nine low ones have 36 points, a critical one 32.
- `retrieval.py:15` says that every degradation is recorded and caps what is derived
  from it; the search that a tool makes for the model (`tools.py:225`) drops its mode.
- `services/chat.py`: a missing key, or an answer of the provider that is no JSON, is
  not caught and ends in status 500, where other failures of the provider are
  reported as unavailable. Findings that a reviewer has dismissed are shown to the
  model as verified ones.
- `normalize_text` folds compatibility forms before it removes invisible characters,
  so that its result may not be a normal form when removing one joins two that
  compose.
- An upload that dies leaves a document 'chunking', which `create_analysis` refuses
  for ever although the pipeline could cut it.
- When a refresh of expired keys fails, every request tries again, although
  `jwks.py:11` describes refreshes as rate-limited for unknown keys.


## 7. Plan

Done, in this order: `AnalysisJobs` with `AnalysisLifecycle`, `Extraction`,
`Pipeline`, `ReportDelivery`, with their first proofs, `FindingReviews`,
`ActionItems`, `Policies`, `Chunking`, `Retrieval`, `Evidence`, `Scoring`,
`Documents`, `RateWindow`, `SigningKeys`; then `Intake`, `PolicyDraft`, the roll-up in
`Scoring`, `AnalysisReview` with its refinement and proof, the order of the review
history, the faults of `JobsLive`, and `Chat` beside documents and reviews; then the
invariants of the two sums and of the mails, until no safety property was left
to TLC alone. What would come next:

1. *Composition*: the end of `Pipeline` with `ReportDelivery` and `ActionItems` in one
   state, where today each starts where the other ends.
2. *Preparation in the pipeline*: `Documents` as what `Prepare` stands for, with the
   embedding cache that attempts of one worker share.
3. *Proofs*: specifications in which a review or an edit is one atomic change, and that
   the transactions with their locks implement them; the same for a generation of items
   and for the mails of a report.

Runs stay few: one per question, small modules together where they share one.

### Not modelled, and why

- *Report layout, prompts, wording, e-mail bodies* (`report_generator.py`,
  `prompts.py`, `providers/email`): texts made from rows; no state depends on them.
- *Inside PDF and DOCX*: `Intake` takes what the libraries say of a file.
- *Providers of models, mail and storage*: adapters to services, of which the
  callers' view is modelled: an answer, a failure, a lost reply.
- *The checks on a token* (`core/security.py`): a library's verdict on one value; the
  keys it needs are in `SigningKeys`.
- *Row-level security and tenancy*: the queries carry the organisation everywhere
  and no state depends on it.
- *Usage, audit, health*: append-only or read-only rows that decide nothing.
- *Start-up, settings, errors, logging*: wiring; the settings that bound the modules
  are their constants.
- *Frontend, deployment and scripts*: outside the server. The demo seed is in
  `Documents`, because it stores documents beside running analyses.
