----------------------------- MODULE ActionItems -----------------------------
(***************************************************************************)
(* The action items of one analysis (services/action_items.py,             *)
(* db/repositories/action_items.py, api/v1/action_items.py): derived from  *)
(* the verified findings, by the worker that completed the analysis and by *)
(* requests to generate them again, and edited by people meanwhile.        *)
(*                                                                         *)
(* An item's dedupe key is its finding: the category of the finding fixes  *)
(* the obligation.  A generation reads the findings, most severe first,    *)
(* then inserts the items in that order in one transaction; reviewers may  *)
(* change the severities, and with them the order, between two             *)
(* generations.  Postgres makes an INSERT wait for the end of a            *)
(* transaction that has inserted the same key, and for that of a review    *)
(* that holds the finding it refers to; it aborts a transaction of a cycle *)
(* of waiters.                                                             *)
(* Priorities are ranks: 0 low, 1 medium, 2 high, 3 urgent.                *)
(***************************************************************************)
EXTENDS Integers, Sequences, FiniteSets, SequencesExt

CONSTANTS
    Findings, Machine, Reviewers, Decisions, MaxReviews, None,
    Verified,       \* findings with a verified quote in a category that has an obligation
    Default,        \* CATEGORY_OBLIGATIONS: the priority of the category of each finding
    Generators,     \* the completing worker, and requests to generate
    Editors,        \* people who edit items
    Edits,          \* the bodies of their requests
    MaxEdits,       \* bound: history rows after which no edit begins
    MaxAborts       \* bound: generations that lose their connection

VARIABLES
    findings, reviews, reviewing, begun,   \* of FindingReviews
    items,          \* the item of each finding, or None
    itemReviews,    \* rows of action_item_reviews
    editing,        \* the open transaction of each editor, or None
    pc,             \* of each generation
    todo,           \* the derived items it has not inserted yet
    inserted,       \* the items it has inserted and not committed
    aborts

Reviewing == INSTANCE FindingReviews

genVars == <<pc, todo, inserted, aborts>>
editVars == <<itemReviews, editing>>
vars == <<findings, reviews, reviewing, begun, items, editVars, genVars>>

Priorities == 0 .. 3
Statuses == {"open", "in_progress", "completed", "dismissed"}
DateStatuses == {"unresolved", "ai_extracted", "human_set", "not_applicable"}
Editable == {"due_date", "date_status", "priority", "status"}
Recorded == Editable \ {"date_status"}

\* A row of action_items; a date is a number.
Item == [ai_priority : Priorities, priority : Priorities, due_date : Nat \cup {None},
         date_status : DateStatuses, status : Statuses, completed_by : Editors \cup {None}]

\* What a request may say that the table accepts.
Body(e) ==
    /\ DOMAIN e \subseteq Editable /\ DOMAIN e # {}
    /\ "due_date" \in DOMAIN e => e["due_date"] \in Nat \cup {None}
    /\ "date_status" \in DOMAIN e => e["date_status"] \in DateStatuses
    /\ "priority" \in DOMAIN e => e["priority"] \in Priorities
    /\ "status" \in DOMAIN e => e["status"] \in Statuses

\* What the constants are.
ItemsAssumption ==
    /\ Verified \subseteq Findings
    /\ Default \in [Findings -> Priorities]
    /\ IsFiniteSet(Findings) /\ IsFiniteSet(Generators) /\ Generators # {}
    /\ None \notin Item
    /\ \A e \in Edits : Body(e)
    /\ {MaxEdits, MaxAborts} \subseteq Nat

Derived == [finding : Findings, priority : Priorities]

TypeOK ==
    /\ Reviewing!TypeOK
    /\ items \in [Findings -> Item \cup {None}]
    /\ pc \in [Generators -> {"start", "insert", "done", "deadlock", "aborted"}]
    /\ todo \in [Generators -> Seq(Derived)]
    /\ inserted \in [Generators -> SUBSET Derived]
    /\ aborts \in 0 .. MaxAborts

NothingDerived ==
    /\ items = [f \in Findings |-> None]
    /\ itemReviews = <<>>
    /\ editing = [e \in Editors |-> None]
    /\ pc = [g \in Generators |-> "start"]
    /\ todo = [g \in Generators |-> <<>>]
    /\ inserted = [g \in Generators |-> {}]
    /\ aborts = 0

Init == Reviewing!Init /\ NothingDerived

-----------------------------------------------------------------------------
(* Generation.                                                             *)

Severity(f) == Reviewing!Effective(f, findings[f])

\* Faulty variant of SeverityPriority: the two scales are taken for one.
SameRank(s) == s

\* SEVERITY_PRIORITY: info and low give low, then one rank each.
SeverityPriority(s) == IF s = 0 THEN 0 ELSE s - 1

\* The severity raises the priority of the category and never lowers it.
DerivedItem(f) ==
    [finding  |-> f,
     priority |-> IF SeverityPriority(Severity(f)) > Default[f]
                  THEN SeverityPriority(Severity(f)) ELSE Default[f]]

\* What derive_action_items makes of the listed findings.  Findings of one
\* severity are listed by the confidence of the model, in any order here.
Derivations ==
    {[i \in DOMAIN l |-> DerivedItem(l[i])] :
        l \in {l \in SetToSeqs(Verified) :
                 \A i, j \in DOMAIN l : i < j => Severity(l[i]) >= Severity(l[j])}}

\* With nothing derived there is no transaction.
ReadFindings(g) ==
    /\ pc[g] = "start"
    /\ \E list \in Derivations :
         /\ todo' = [todo EXCEPT ![g] = list]
         /\ pc' = [pc EXCEPT ![g] = IF list = <<>> THEN "done" ELSE "insert"]
    /\ UNCHANGED <<findings, reviews, reviewing, begun, items, editVars, inserted, aborts>>

Keys(g) == {d.finding : d \in inserted[g]}

\* The generations whose transaction has inserted the key that g needs.
WaitsFor(g) ==
    {h \in Generators \ {g} : todo[g] # <<>> /\ Head(todo[g]).finding \in Keys(h)}

\* Faulty variant of InsertItem: a key that another transaction has inserted
\* is taken for one that exists.
InsertItemOrSkip(g) ==
    /\ todo[g] # <<>>
    /\ LET d == Head(todo[g]) IN
         IF items[d.finding] # None \/ WaitsFor(g) # {}
         THEN inserted' = inserted
         ELSE /\ ~Reviewing!FindingLocked(d.finding)
              /\ inserted' = [inserted EXCEPT ![g] = @ \cup {d}]
    /\ todo' = [todo EXCEPT ![g] = Tail(@)]
    /\ UNCHANGED <<findings, reviews, reviewing, begun, items, editVars, pc, aborts>>

\* Faulty variant of InsertItem: ON CONFLICT DO UPDATE.
InsertItemOver(g) ==
    /\ todo[g] # <<>>
    /\ WaitsFor(g) = {}
    /\ inserted' = [inserted EXCEPT ![g] = @ \cup {Head(todo[g])}]
    /\ todo' = [todo EXCEPT ![g] = Tail(@)]
    /\ UNCHANGED <<findings, reviews, reviewing, begun, items, editVars, pc, aborts>>

\* INSERT ... ON CONFLICT DO NOTHING.
InsertItem(g) ==
    /\ todo[g] # <<>>
    /\ WaitsFor(g) = {}
    /\ LET d == Head(todo[g]) IN
         IF items[d.finding] # None
         THEN inserted' = inserted
         ELSE /\ ~Reviewing!FindingLocked(d.finding)
              /\ inserted' = [inserted EXCEPT ![g] = @ \cup {d}]
    /\ todo' = [todo EXCEPT ![g] = Tail(@)]
    /\ UNCHANGED <<findings, reviews, reviewing, begun, items, editVars, pc, aborts>>

NewItem(d) ==
    [ai_priority |-> d.priority, priority |-> d.priority, due_date |-> None,
     date_status |-> "unresolved", status |-> "open", completed_by |-> None]

CommitItems(g) ==
    /\ pc[g] = "insert"
    /\ todo[g] = <<>>
    /\ items' = [f \in Findings |->
                   IF f \in Keys(g)
                   THEN NewItem(CHOOSE d \in inserted[g] : d.finding = f)
                   ELSE items[f]]
    /\ inserted' = [inserted EXCEPT ![g] = {}]
    /\ pc' = [pc EXCEPT ![g] = "done"]
    /\ UNCHANGED <<findings, reviews, reviewing, begun, editVars, todo, aborts>>

\* Faulty variant of RollBack: the transaction stays open.
RollBackLater(g, end) ==
    /\ pc' = [pc EXCEPT ![g] = end]
    /\ todo' = [todo EXCEPT ![g] = <<>>]
    /\ UNCHANGED <<findings, reviews, reviewing, begun, items, editVars, inserted>>

RollBack(g, end) ==
    /\ pc' = [pc EXCEPT ![g] = end]
    /\ todo' = [todo EXCEPT ![g] = <<>>]
    /\ inserted' = [inserted EXCEPT ![g] = {}]
    /\ UNCHANGED <<findings, reviews, reviewing, begun, items, editVars>>

\* Each of S waits for another of S, and every one of S is waited for.
WaitCycle(S) ==
    /\ \A g \in S : WaitsFor(g) # {}
    /\ UNION {WaitsFor(g) : g \in S} = S

\* Postgres aborts a transaction of the cycle; the worker logs the error, and
\* the request answers with it.
DeadlockFound(g) ==
    /\ \E S \in SUBSET Generators : g \in S /\ WaitCycle(S)
    /\ RollBack(g, "deadlock")
    /\ UNCHANGED aborts

GenerationAborted(g) ==
    /\ pc[g] = "insert"
    /\ aborts < MaxAborts
    /\ aborts' = aborts + 1
    /\ RollBack(g, "aborted")

-----------------------------------------------------------------------------
(* Editing.                                                                *)

ItemLocked(f) == \E e \in Editors : editing[e] # None /\ editing[e].finding = f

\* Faulty variant of LockItem: the SELECT has lost its FOR UPDATE.
ReadItemUnlocked(e, f, changes) ==
    /\ editing[e] = None
    /\ items[f] # None
    /\ Len(itemReviews) < MaxEdits
    /\ editing' = [editing EXCEPT ![e] =
                      [finding |-> f, changes |-> changes, read |-> items[f]]]
    /\ UNCHANGED <<findings, reviews, reviewing, begun, items, itemReviews, genVars>>

LockItem(e, f, changes) ==
    /\ editing[e] = None
    /\ items[f] # None
    /\ ~ItemLocked(f)
    /\ Len(itemReviews) < MaxEdits
    /\ editing' = [editing EXCEPT ![e] =
                      [finding |-> f, changes |-> changes, read |-> items[f]]]
    /\ UNCHANGED <<findings, reviews, reviewing, begun, items, itemReviews, genVars>>

\* A date that a person sets is marked as theirs unless they say otherwise; a
\* date that they clear stays as it is marked.
Updates(changes) ==
    IF "due_date" \in DOMAIN changes /\ "date_status" \notin DOMAIN changes
    THEN IF changes.due_date = None THEN changes
         ELSE [k \in DOMAIN changes \cup {"date_status"} |->
                 IF k = "date_status" THEN "human_set" ELSE changes[k]]
    ELSE changes

Completes(updates) == "status" \in DOMAIN updates /\ updates["status"] = "completed"

\* Faulty variant of Edited: reopening an item forgets who completed it.
EditedForgetting(item, updates, e) ==
    [k \in DOMAIN item |->
        IF k \in DOMAIN updates THEN updates[k]
        ELSE IF k = "completed_by" /\ "status" \in DOMAIN updates
             THEN IF Completes(updates) THEN e ELSE None
        ELSE item[k]]

Edited(item, updates, e) ==
    [k \in DOMAIN item |->
        IF k \in DOMAIN updates THEN updates[k]
        ELSE IF k = "completed_by" /\ Completes(updates) THEN e
        ELSE item[k]]

\* One history row for each updated field but date_status.
HistoryRows(t, updates, e) ==
    SetToSeq({[finding |-> t.finding, reviewer |-> e, field |-> k,
               previous |-> t.read[k], new |-> updates[k]] :
                 k \in DOMAIN updates \cap Recorded})

WriteEdit(e) ==
    /\ editing[e] # None
    /\ LET t == editing[e]
           updates == Updates(t.changes)
       IN  /\ items' = [items EXCEPT ![t.finding] = Edited(@, updates, e)]
           /\ itemReviews' = itemReviews \o HistoryRows(t, updates, e)
    /\ editing' = [editing EXCEPT ![e] = None]
    /\ UNCHANGED <<findings, reviews, reviewing, begun, genVars>>

EditAborted(e) ==
    /\ editing[e] # None
    /\ editing' = [editing EXCEPT ![e] = None]
    /\ UNCHANGED <<findings, reviews, reviewing, begun, items, itemReviews, genVars>>

-----------------------------------------------------------------------------
\* The row of a finding that a generation refers to cannot be locked until
\* that generation ends.
ReviewBegins(r) ==
    /\ \/ \E f \in Findings, d \in Decisions : Reviewing!BeginReview(r, f, d)
       \/ /\ Reviewing!LockFinding(r)
          /\ \A g \in Generators : reviewing[r].finding \notin Keys(g)
    /\ UNCHANGED <<items, editVars, genVars>>

ReviewEnds(r) ==
    /\ Reviewing!WriteReview(r) \/ Reviewing!ReviewAborted(r)
    /\ UNCHANGED <<items, editVars, genVars>>

Generate(g) ==
    \/ ReadFindings(g)
    \/ InsertItem(g)
    \/ CommitItems(g)
    \/ DeadlockFound(g)
    \/ GenerationAborted(g)

Edit(e) ==
    \/ \E f \in Findings, changes \in Edits : LockItem(e, f, changes)
    \/ WriteEdit(e)
    \/ EditAborted(e)

Next ==
    \/ \E r \in Reviewers : ReviewBegins(r) \/ ReviewEnds(r)
    \/ \E g \in Generators : Generate(g)
    \/ \E e \in Editors : Edit(e)

Spec == Init /\ [][Next]_vars

-----------------------------------------------------------------------------
(* Properties.                                                             *)

\* The latest of some rows.
LastOf(S) == CHOOSE j \in S : \A k \in S : k <= j

\* The history of an item explains its status, date and priority: every row
\* starts from what the row before it left, the first one from what the
\* machine derived, and the last one leaves what the item says now.
HistoryExplainsItem ==
    \A f \in Findings : items[f] # None =>
      \A k \in Recorded :
        LET Of(i) == itemReviews[i].finding = f /\ itemReviews[i].field = k
            Earlier(i) == {j \in 1 .. i - 1 : Of(j)}
            first == CASE k = "status" -> "open"
                       [] k = "due_date" -> None
                       [] k = "priority" -> items[f].ai_priority
            Left(i) == IF Earlier(i) = {} THEN first
                       ELSE itemReviews[LastOf(Earlier(i))].new
        IN  /\ \A i \in DOMAIN itemReviews : Of(i) => itemReviews[i].previous = Left(i)
            /\ items[f][k] = Left(Len(itemReviews) + 1)

\* completed_by is the person of the latest row that completed the item, also
\* after it was opened again, and nobody when there is no such row.
CompletionIsAttributed ==
    \A f \in Findings : items[f] # None =>
      LET done == {i \in DOMAIN itemReviews :
                      /\ itemReviews[i].finding = f
                      /\ itemReviews[i].field = "status"
                      /\ itemReviews[i].new = "completed"}
      IN  items[f].completed_by = IF done = {} THEN None
                                  ELSE itemReviews[LastOf(done)].reviewer

\* An item that exists changes only when an edit of it commits: no generation,
\* however it interleaves, takes an edit back.
EditsSurvive ==
    [][\A f \in Findings : items[f] # None /\ items'[f] # items[f] =>
         \E e \in Editors : /\ editing[e] # None
                            /\ editing[e].finding = f
                            /\ editing'[e] = None]_vars

\* Once a generation has reported success, every verified finding has its
\* item; and so it is when all that failed were victims of a deadlock.  No
\* other finding ever has one.
GenerationIsComplete ==
    /\ \/ \E g \in Generators : pc[g] = "done"
       \/ \A g \in Generators : pc[g] \in {"done", "deadlock"}
       => \A f \in Verified : items[f] # None
    /\ \A f \in Findings \ Verified : items[f] = None

\* A generation that began ends, whatever it has to wait for.
GenerationsEnd ==
    \A g \in Generators : pc[g] = "insert" ~> pc[g] \in {"done", "deadlock", "aborted"}

\* The history of an item explains everything an edit can change of it, whoever
\* edits it at once and however often it is completed (update).
HistoryExplainsEdits == HistoryExplainsItem /\ CompletionIsAttributed
=============================================================================
