--------------------------- MODULE AnalysisReview ---------------------------
(***************************************************************************)
(* What the row of an analysis and the rows of its categories promise to   *)
(* the people who watch it (migrations/0005_analyses.sql): categories are  *)
(* reviewed, then recorded for good; the progress shown is never more than *)
(* what is recorded; and the conclusion follows from the records.          *)
(* Attempts, their plans, findings and failures are not seen.              *)
(***************************************************************************)
EXTENDS Naturals, FiniteSets

CONSTANTS
    Policies,       \* the sets of categories that the policy may ask for
    Outcomes        \* of a category

VARIABLES
    status,         \* of the analysis
    outcome,        \* of each category, or "none"
    done,           \* the categories that are recorded
    progress,       \* categories_completed, as it is shown
    edited          \* the policy is not what it was at first

vars == <<status, outcome, done, progress, edited>>

Categories == UNION Policies

Init ==
    /\ status = "queued"
    /\ outcome = [c \in Categories |-> "none"]
    /\ done = {}
    /\ progress = 0
    /\ edited = FALSE

Begin ==
    /\ status = "queued"
    /\ status' = "running"
    /\ UNCHANGED <<outcome, done, progress, edited>>

\* A category may be reviewed again until it is recorded.
Review(c) ==
    /\ status = "running"
    /\ c \notin done
    /\ \E o \in Outcomes : outcome' = [outcome EXCEPT ![c] = o]
    /\ UNCHANGED <<status, done, progress, edited>>

Record(c) ==
    /\ status = "running"
    /\ c \notin done
    /\ outcome[c] # "none"
    /\ done' = done \cup {c}
    /\ progress' = Cardinality(done')
    /\ UNCHANGED <<status, outcome, edited>>

\* Only a policy that was edited takes the progress back.
Announce ==
    /\ status = "running"
    /\ progress' \in 0 .. Cardinality(done)
    /\ progress' >= progress \/ edited
    /\ UNCHANGED <<status, outcome, done, edited>>

\* All that the policy asked for is recorded; partial means that a human is needed.
Conclude ==
    /\ status = "running"
    /\ \E wanted \in Policies : wanted # {} /\ wanted \subseteq done
    /\ \/ status' = "complete"
       \/ status' = "partial" /\ \E c \in done : outcome[c] = "needs_review"
    /\ UNCHANGED <<outcome, done, progress, edited>>

Fail ==
    /\ status = "running"
    /\ status' = "failed"
    /\ UNCHANGED <<outcome, done, progress, edited>>

Edit ==
    /\ edited' = TRUE
    /\ UNCHANGED <<status, outcome, done, progress>>

Next ==
    \/ Begin
    \/ \E c \in Categories : Review(c) \/ Record(c)
    \/ Announce
    \/ Conclude
    \/ Fail
    \/ Edit

Spec == Init /\ [][Next]_vars
=============================================================================
