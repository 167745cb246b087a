--------------------------- MODULE FindingReviews ---------------------------
(***************************************************************************)
(* The decisions of reviewers on the findings of one analysis, and their   *)
(* append-only history (api/v1/findings.py, FindingRepository.add_review). *)
(*                                                                         *)
(* A review is one transaction: SELECT ... FOR UPDATE of the finding, then *)
(* its UPDATE and the INSERT of a history row, which become visible        *)
(* together when it commits.  NOW(), the created_at of the row, is when    *)
(* the transaction began, which may be long before it got the finding; a   *)
(* time is here the number of transactions begun so far.  A severity is    *)
(* its rank, from 0 for info to 4 for critical.  Notes and reasons are     *)
(* left out.                                                               *)
(***************************************************************************)
EXTENDS Integers, Sequences, FiniteSets

CONSTANTS
    Findings,
    Machine,        \* machine_severity of each finding
    Reviewers,
    Decisions,      \* the reviews that may be asked for
    MaxReviews,     \* bound: reviews that begin
    None

Severities == 0 .. 4
Actions == {"accept", "dismiss", "escalate", "override_severity", "note"}
Statuses == {"pending", "accepted", "dismissed", "escalated"}

\* What the constants are.
ReviewsAssumption ==
    /\ Machine \in [Findings -> Severities]
    /\ None \notin Severities
    /\ Decisions \subseteq [action : Actions, severity : Severities \cup {None}]
    /\ \A d \in Decisions : d.action = "override_severity" => d.severity # None
    /\ MaxReviews \in Nat

VARIABLES
    findings,       \* override_severity and review_status of each finding
    reviews,        \* rows of finding_reviews, in the order of their commits
    reviewing,      \* the open transaction of each reviewer, or None
    begun           \* transactions begun so far: the clock

vars == <<findings, reviews, reviewing, begun>>

Times == 0 .. MaxReviews

Finding == [override : Severities \cup {None}, status : Statuses]

Review == [finding : Findings, previous_severity : Severities,
           new_severity : Severities \cup {None},
           previous_status : Statuses, new_status : Statuses,
           created_at : Times,
           committed : Times]       \* for the properties: when it ended

\* One that waits for the finding has read nothing.
Transaction == [finding : Findings, decision : Decisions, created_at : Times,
                read : Finding \cup {None}]

TypeOK ==
    /\ findings \in [Findings -> Finding]
    /\ reviews \in Seq(Review)
    /\ reviewing \in [Reviewers -> Transaction \cup {None}]
    /\ begun \in Times

Init ==
    /\ findings = [f \in Findings |-> [override |-> None, status |-> "pending"]]
    /\ reviews = <<>>
    /\ reviewing = [r \in Reviewers |-> None]
    /\ begun = 0

-----------------------------------------------------------------------------
\* COALESCE(override_severity, machine_severity)
Effective(f, row) == IF row.override = None THEN Machine[f] ELSE row.override

\* status_map.get(action, review_status)
StatusAfter(action, status) ==
    CASE action = "accept"   -> "accepted"
      [] action = "dismiss"  -> "dismissed"
      [] action = "escalate" -> "escalated"
      [] OTHER               -> status

Waiting(r) == reviewing[r] # None /\ reviewing[r].read = None
Holding(r) == reviewing[r] # None /\ reviewing[r].read # None

FindingLocked(f) == \E r \in Reviewers : Holding(r) /\ reviewing[r].finding = f

BeginReview(r, f, d) ==
    /\ reviewing[r] = None
    /\ begun < MaxReviews
    /\ begun' = begun + 1
    /\ reviewing' = [reviewing EXCEPT ![r] =
                        [finding |-> f, decision |-> d, created_at |-> begun', read |-> None]]
    /\ UNCHANGED <<findings, reviews>>

\* Faulty variant of LockFinding: the SELECT has lost its FOR UPDATE.
ReadFindingUnlocked(r) ==
    /\ Waiting(r)
    /\ reviewing' = [reviewing EXCEPT ![r].read = findings[reviewing[r].finding]]
    /\ UNCHANGED <<findings, reviews, begun>>

\* The transaction reads the finding and holds its row.
LockFinding(r) ==
    /\ Waiting(r)
    /\ ~FindingLocked(reviewing[r].finding)
    /\ reviewing' = [reviewing EXCEPT ![r].read = findings[reviewing[r].finding]]
    /\ UNCHANGED <<findings, reviews, begun>>

\* UPDATE, INSERT and COMMIT.  Any action may carry a severity.
WriteReview(r) ==
    /\ Holding(r)
    /\ LET t == reviewing[r]
           status == StatusAfter(t.decision.action, t.read.status)
       IN  /\ findings' = [findings EXCEPT ![t.finding] =
                 [override |-> IF t.decision.severity = None THEN @.override
                               ELSE t.decision.severity,
                  status   |-> status]]
           /\ reviews' = Append(reviews,
                 [finding           |-> t.finding,
                  previous_severity |-> Effective(t.finding, t.read),
                  new_severity      |-> t.decision.severity,
                  previous_status   |-> t.read.status,
                  new_status        |-> status,
                  created_at        |-> t.created_at,
                  committed         |-> begun])
    /\ reviewing' = [reviewing EXCEPT ![r] = None]
    /\ UNCHANGED begun

\* The connection or the process is lost: the transaction leaves no trace.
ReviewAborted(r) ==
    /\ reviewing[r] # None
    /\ reviewing' = [reviewing EXCEPT ![r] = None]
    /\ UNCHANGED <<findings, reviews, begun>>

RowsOf(f) == {i \in DOMAIN reviews : reviews[i].finding = f}

\* Faulty variant of ListReviews: the oldest row first.
ListReviewsUpwards(f) ==
    CHOOSE list \in [1 .. Cardinality(RowsOf(f)) -> RowsOf(f)] :
        \A m, n \in DOMAIN list :
            m < n => reviews[list[m]].created_at < reviews[list[n]].created_at

\* The rows of a finding as its page shows them: ORDER BY created_at DESC.
ListReviews(f) ==
    CHOOSE list \in [1 .. Cardinality(RowsOf(f)) -> RowsOf(f)] :
        \A m, n \in DOMAIN list :
            m < n => reviews[list[m]].created_at > reviews[list[n]].created_at

Next ==
    \E r \in Reviewers :
        \/ \E f \in Findings, d \in Decisions : BeginReview(r, f, d)
        \/ LockFinding(r)
        \/ WriteReview(r)
        \/ ReviewAborted(r)

Spec == Init /\ [][Next]_vars

-----------------------------------------------------------------------------
(* Properties.                                                             *)

\* The latest of some rows.
LastOf(S) == CHOOSE j \in S : \A k \in S : k <= j

\* The history of a finding explains it: each row starts from the severity
\* and the status that the machine and the rows before it have left, and the
\* last one leaves what the finding says now.  No review is lost or computed
\* from a state that another one has replaced.
HistoryExplainsFinding ==
    \A f \in Findings :
      LET Of(i) == reviews[i].finding = f
          \* The rows before i that decided the severity, or any row before i.
          Overrides(i) == {j \in 1 .. i - 1 : Of(j) /\ reviews[j].new_severity # None}
          Earlier(i) == {j \in 1 .. i - 1 : Of(j)}
          SeverityAt(i) == IF Overrides(i) = {} THEN Machine[f]
                           ELSE reviews[LastOf(Overrides(i))].new_severity
          StatusAt(i) == IF Earlier(i) = {} THEN "pending"
                         ELSE reviews[LastOf(Earlier(i))].new_status
      IN  /\ \A i \in DOMAIN reviews : Of(i) =>
                /\ reviews[i].previous_severity = SeverityAt(i)
                /\ reviews[i].previous_status = StatusAt(i)
          /\ Effective(f, findings[f]) = SeverityAt(Len(reviews) + 1)
          /\ findings[f].status = StatusAt(Len(reviews) + 1)

\* The history is read from its list too: a row says what the row below it has
\* left, and the top row what the finding says now, except beside a review that
\* was open together with another one of the finding.
ListExplainsFinding ==
    \A f \in Findings :
      LET list == ListReviews(f)
          Row(n) == reviews[list[n]]
          Met(n) == \E m \in DOMAIN list \ {n} :
                       /\ Row(m).created_at <= Row(n).committed
                       /\ Row(n).created_at <= Row(m).committed
          Left(n) == IF n > Len(list) THEN "pending" ELSE Row(n).new_status
      IN  /\ (list # <<>> /\ Met(1)) \/ findings[f].status = Left(1)
          /\ \A n \in DOMAIN list :
               Met(n) \/ (n < Len(list) /\ Met(n + 1)) \/ Row(n).previous_status = Left(n + 1)

\* What was decided on a finding is explained by its history, in the order of
\* the decisions and, as far as it can be, in the order of its list (add_review,
\* list_reviews).
HistoryExplainsReviews == HistoryExplainsFinding /\ ListExplainsFinding
=============================================================================
