----------------------------- MODULE MCRequests -----------------------------
(***************************************************************************)
(* An instance for TLC of the state that requests meet in: findings and    *)
(* action items that people edit, policies, documents, questions about     *)
(* them, the window of the rate limiter and the signing keys.  A behaviour *)
(* is one of one of these parts, and what the others have stays as it      *)
(* began.  A question is asked while its document is made and reviewed.    *)
(***************************************************************************)
EXTENDS Integers, FiniteSets

CONSTANTS
    Parts,          \* the modules to check
    Findings, Verified, Reviewers, MaxReviews, None,
    Generators, Editors, MaxEdits, MaxAborts,
    Ids, Seeded, Names, Categories, Admins, MaxRequests,
    Chunks, Attempts, MaxSources, MaxMentions,
    Handlers, limit, window_seconds, MaxWindowTime,
    Kids, ttl_seconds, MIN_REFRESH_INTERVAL_SECONDS, MaxFetches,
    MaxTime

VARIABLES
    part,
    findings, reviews, reviewing, begun,
    items, itemReviews, editing, pcItems, todo, inserted, aborts,
    policies, rules, pcPolicies, target, work, locked, deleting, contended, requests,
    document, stored, indexed, creating, pcAttempt, listed, pending,
    analysisOf, finished, pcChat, clauses, analysis, shown, citations, asked,
    clock, bucket, expires, pcCheck, at, admitted,
    now, published, changed, keys, fetchedAt, lastAttempt, answer, fetches, failedAt

\* The machine says low for one finding and high for the others.
MCLow == CHOOSE f \in Findings : TRUE
MCMachine == [f \in Findings |-> IF f = MCLow THEN 1 ELSE 3]
MCDefault == [f \in Findings |-> 1]

\* Decisions on a finding; any of them may carry a severity, one kind does.
MCDecisions ==
    [action : {"accept", "dismiss", "note"}, severity : {None}]
        \cup [action : {"accept", "override_severity"}, severity : {4}]

\* Only what reorders the findings matters to their items.
MCOverrides == {[action |-> "override_severity", severity |-> 4]}

\* One reviewer in one review suffices to hold a finding and to reorder them.
OneReviewer == {CHOOSE r \in Reviewers : TRUE}

MCEdits ==
    {[status |-> "completed"], [status |-> "open", due_date |-> None],
     [priority |-> 3, due_date |-> 30]}

Reviews == INSTANCE FindingReviews
               WITH Machine <- MCMachine, Decisions <- MCDecisions

Items == INSTANCE ActionItems
             WITH Machine <- MCMachine, Decisions <- MCOverrides, MaxReviews <- 1,
                  Reviewers <- OneReviewer,
                  Default <- MCDefault, Edits <- MCEdits, pc <- pcItems

Library == INSTANCE Policies WITH pc <- pcPolicies

Uploads == INSTANCE Documents

\* One review, that makes a finding critical.
OneReview == INSTANCE FindingReviews
                 WITH Machine <- MCMachine, Decisions <- MCOverrides, MaxReviews <- 1,
                      Reviewers <- OneReviewer

Questions == INSTANCE Chat
                 WITH Machine <- MCMachine, Analyses <- Attempts

Window == INSTANCE RateWindow WITH now <- clock, MaxTime <- MaxWindowTime

Keys == INSTANCE SigningKeys

ASSUME ConstantsAreSensible ==
    /\ Reviews!ReviewsAssumption /\ Items!ItemsAssumption /\ Library!PoliciesAssumption
    /\ Uploads!DocumentsAssumption /\ Questions!ChatAssumption
    /\ Window!WindowAssumption /\ Keys!KeysAssumption
    /\ Findings # {} /\ Reviewers # {}

reviewVars == <<findings, reviews, reviewing, begun>>
itemVars == <<items, itemReviews, editing, pcItems, todo, inserted, aborts>>
policyVars == <<policies, rules, pcPolicies, target, work, locked, deleting, contended, requests>>
documentVars == <<document, stored, indexed, creating, pcAttempt, listed, pending>>
windowVars == <<clock, bucket, expires, pcCheck, at, admitted>>
keyVars == <<now, published, changed, keys, fetchedAt, lastAttempt, answer, fetches, failedAt>>
chatVars == <<analysisOf, finished, pcChat, clauses, analysis, shown, citations, asked>>
recordVars == <<reviewVars, itemVars, policyVars>>
accessVars == <<windowVars, keyVars>>
vars == <<part, recordVars, documentVars, chatVars, accessVars>>

Init ==
    /\ part \in Parts
    /\ IF part = "items" THEN Items!Init ELSE Reviews!Init /\ Items!NothingDerived
    /\ Library!Init
    /\ part # "policies" =>
          \A p \in Seeded : policies[p].name = CHOOSE n \in Names : TRUE
    /\ Uploads!Init
    /\ Questions!Init
    /\ part # "chat" => analysisOf = [f \in Findings |-> CHOOSE a \in Attempts : TRUE]
    /\ Window!Init
    /\ Keys!Init

OfReviews(A) ==
    /\ part = "reviews" /\ A
    /\ UNCHANGED <<part, itemVars, policyVars, documentVars, chatVars, accessVars>>
OfItems(A) ==
    /\ part = "items" /\ A
    /\ UNCHANGED <<part, policyVars, documentVars, chatVars, accessVars>>
OfPolicies(A) ==
    /\ part = "policies" /\ A
    /\ UNCHANGED <<part, reviewVars, itemVars, documentVars, chatVars, accessVars>>
OfDocuments(A) ==
    /\ part = "documents" /\ A
    /\ UNCHANGED <<part, recordVars, chatVars, accessVars>>
OfWindow(A) ==
    /\ part = "window" /\ A
    /\ UNCHANGED <<part, recordVars, documentVars, chatVars, keyVars>>
OfKeys(A) ==
    /\ part = "keys" /\ A
    /\ UNCHANGED <<part, recordVars, documentVars, chatVars, windowVars>>

\* The finding of low severity becomes critical.
Raising ==
    \E r \in OneReviewer :
        \/ \E d \in MCOverrides : OneReview!BeginReview(r, MCLow, d)
        \/ OneReview!LockFinding(r)
        \/ OneReview!WriteReview(r)

\* The question, and what others do to what it reads until it has ended.
OfChat ==
    /\ part = "chat"
    /\ pcChat \notin Questions!Over
    /\ \/ Questions!Next /\ UNCHANGED <<reviewVars, documentVars>>
       \/ (Uploads!Create \/ Uploads!DeleteDocument) /\ UNCHANGED <<reviewVars, chatVars>>
       \/ Raising /\ UNCHANGED <<documentVars, chatVars>>
    /\ UNCHANGED <<part, itemVars, policyVars, accessVars>>

Next ==
    \/ OfReviews(Reviews!Next)
    \/ OfItems(Items!Next)
    \/ OfPolicies(Library!Next)
    \/ OfDocuments(Uploads!Next)
    \/ OfChat
    \/ OfWindow(Window!Next)
    \/ OfKeys(Keys!Next)

Spec == Init /\ [][Next]_vars

\* Transactions end, and Postgres serves those that wait for a lock in turn.
FairSpec ==
    /\ Spec
    /\ \A g \in Generators :
         /\ SF_vars(OfItems(Items!InsertItem(g)))
         /\ WF_vars(OfItems(Items!CommitItems(g)))
         /\ WF_vars(OfItems(Items!DeadlockFound(g)))
    /\ \A r \in OneReviewer : WF_vars(OfItems(Items!ReviewEnds(r)))

-----------------------------------------------------------------------------
(* The properties of the modules, where they are explained.                *)

\* The variables of the module that runs have their types.
TypeOK ==
    /\ part = "reviews" => Reviews!TypeOK
    /\ part = "items" => Items!TypeOK
    /\ part = "policies" => Library!TypeOK
    /\ part = "documents" => Uploads!TypeOK
    /\ part = "chat" => Questions!TypeOK
    /\ part = "window" => Window!TypeOK
    /\ part = "keys" => Keys!TypeOK

\* The reviews of a finding, and the edits of an item, chain up to what it says
\* now, and completed_by is the person of the latest completion (add_review, update).
HistoryExplainsRecords == Reviews!HistoryExplainsReviews /\ Items!HistoryExplainsEdits

\* No generation takes an edit back (bulk_upsert).
EditsSurvive == Items!EditsSurvive

\* A generation that succeeds, or loses only to a deadlock, leaves no verified
\* finding without its item (bulk_upsert).
GenerationIsComplete == Items!GenerationIsComplete

\* A generation that began ends (bulk_upsert).
GenerationsEnd == Items!GenerationsEnd

\* Versions of a name and the default are unique, and the rules of a policy come
\* from one request unless two replacements overlapped (create_version, update,
\* replace_rules).
LibraryIsConsistent == Library!LibraryIsConsistent

\* A default is lost only to the two requests that take it away (update).
DefaultIsKept == Library!DefaultIsKept

\* The rules of a policy come from one request (replace_rules).
RulesAreWhole == Library!RulesAreWhole

\* An attempt extracts from the whole text of a document, and from what is
\* indexed (upload_document, run), and an answer rests on the sources that the
\* document had (ask_clauseguard).
DocumentIsTheBasis == Uploads!AttemptsArePrepared /\ Questions!AnswersAreGrounded

\* No window has more than the limit, those that count before others add, and
\* those that count after what they should count is gone (check).
WindowIsBounded == Window!WindowIsBounded

\* A withdrawn key is dropped and a new one found, each within its time (get_key).
KeysAreCurrent == Keys!KeysAreCurrent

\* Fetches of the keys that succeed are apart (get_key).
FetchesAreApart == Keys!FetchesAreApart
=============================================================================
