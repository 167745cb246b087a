-------------------------------- MODULE Chat --------------------------------
(***************************************************************************)
(* One question about a document (api/v1/chat.py, services/chat.py).  The  *)
(* request looks for its sources in up to five statements, each of which   *)
(* commits by itself, while others store, delete and analyze the document  *)
(* and review its findings.  Then a language model answers, which may cite *)
(* whatever it likes.                                                      *)
(*                                                                         *)
(* A chunk is its ordinal, an analysis its place in the order of           *)
(* created_at, a severity its rank.  The texts of question, history and    *)
(* answer, and the usage record, which nothing reads back, are left out.   *)
(***************************************************************************)
EXTENDS Integers, Sequences, SequencesExt, FiniteSetsExt, Functions, Enumeration

CONSTANTS
    Chunks,         \* ordinals
    Analyses,       \* of the document
    Findings,
    Verified,       \* those whose evidence was verified
    Machine,        \* machine_severity of each finding
    None,           \* no override_severity
    MaxSources,     \* 6: of either kind
    MaxMentions     \* bound: references in one answer

ChatAssumption ==
    /\ Chunks \subseteq Nat
    /\ Analyses \subseteq Nat \ {0}
    /\ Verified \subseteq Findings
    /\ {MaxSources, MaxMentions} \subseteq Nat \ {0}

VARIABLES
    document, stored,   \* the document and its chunks (Documents)
    findings,           \* override_severity and review_status (FindingReviews)
    analysisOf,         \* of each finding
    finished,           \* analyses that are complete or partial
    pcChat,             \* the await that the request is at, or how it ended
    clauses,            \* chunks found
    analysis,           \* the one whose findings are shown, or 0
    shown,              \* findings, as they were read
    citations,          \* of the answer
    asked               \* for the properties: what there was when the request began

chatVars == <<analysisOf, finished, pcChat, clauses, analysis, shown, citations, asked>>

Over == {"answered", "not found", "nothing to search", "unavailable", "error"}

Ref == [kind : {"C", "F"}, nr : Nat]

TypeOK ==
    /\ analysisOf \in [Findings -> Analyses]
    /\ finished \subseteq Analyses
    /\ pcChat \in Over \cup {"document", "search", "beginning", "analysis", "findings",
                            "sources", "ask"}
    /\ clauses \in Seq(Chunks)
    /\ analysis \in Analyses \cup {0}
    /\ shown \in Seq([finding : Findings, severity : 0 .. 4])
    /\ citations \in Seq(Ref)
    /\ asked \in [text : BOOLEAN, finished : SUBSET Analyses]

Init ==
    /\ analysisOf \in [Findings -> Analyses]
    /\ finished = {}
    /\ pcChat = "document"
    /\ clauses = <<>> /\ analysis = 0 /\ shown = <<>>
    /\ citations = <<>>
    /\ asked = [text |-> FALSE, finished |-> {}]

-----------------------------------------------------------------------------
(* What others do meanwhile: an analysis has cut the document before it    *)
(* completes.                                                              *)

AnalysisFinishes(a) ==
    /\ stored # {}
    /\ a \notin finished
    /\ finished' = finished \cup {a}
    /\ UNCHANGED <<document, stored, findings, analysisOf, pcChat, clauses, analysis, shown,
                   citations, asked>>

-----------------------------------------------------------------------------
(* The request.                                                            *)

Goto(place) ==
    /\ pcChat' = place
    /\ UNCHANGED <<document, stored, findings, analysisOf, finished>>

FindDocument ==
    /\ pcChat = "document"
    /\ Goto(IF document.status # "absent" /\ ~ document.deleted THEN "search" ELSE "not found")
    /\ asked' = [text |-> stored # {}, finished |-> finished]
    /\ UNCHANGED <<clauses, analysis, shown, citations>>

\* Faulty variant of SearchChunks: no chunk is taken where no word is found.
SearchChunksOnly ==
    /\ pcChat = "search"
    /\ \E matches \in SetToAllKPermutations(stored) :
          clauses' = SubSeq(matches, 1, Min({Len(matches), MaxSources}))
    /\ Goto("analysis")
    /\ UNCHANGED <<analysis, shown, citations, asked>>

\* The words of the question match any of the chunks, in any order of their ranks.
SearchChunks ==
    /\ pcChat = "search"
    /\ \E matches \in SetToAllKPermutations(stored) :
          clauses' = SubSeq(matches, 1, Min({Len(matches), MaxSources}))
    /\ Goto(IF clauses' = <<>> THEN "beginning" ELSE "analysis")
    /\ UNCHANGED <<analysis, shown, citations, asked>>

ReadBeginning ==
    /\ pcChat = "beginning"
    /\ LET all == InOrder(stored)
       IN  clauses' = SubSeq(all, 1, Min({Len(all), MaxSources}))
    /\ Goto("analysis")
    /\ UNCHANGED <<analysis, shown, citations, asked>>

FindAnalysis ==
    /\ pcChat = "analysis"
    /\ analysis' = IF finished = {} THEN 0 ELSE Max(finished)
    /\ Goto(IF finished = {} THEN "sources" ELSE "findings")
    /\ UNCHANGED <<clauses, shown, citations, asked>>

\* COALESCE(override_severity, machine_severity)
Severity(f) == IF findings[f].override = None THEN Machine[f] ELSE findings[f].override

VerifiedOf(a) == {f \in Verified : analysisOf[f] = a}

\* Faulty variant of ReadFindings: those of every analysis of the document.
ReadFindingsOfDocument ==
    /\ pcChat = "findings"
    /\ \E list \in SetToSeqs(Verified) :
         /\ \A i, j \in DOMAIN list : i < j => Severity(list[i]) >= Severity(list[j])
         /\ shown' = [i \in 1 .. Min({Len(list), MaxSources}) |->
                        [finding |-> list[i], severity |-> Severity(list[i])]]
    /\ Goto("sources")
    /\ UNCHANGED <<clauses, analysis, citations, asked>>

\* The most severe first; the rest of the order is abstracted.
ReadFindings ==
    /\ pcChat = "findings"
    /\ \E list \in SetToSeqs(VerifiedOf(analysis)) :
         /\ \A i, j \in DOMAIN list : i < j => Severity(list[i]) >= Severity(list[j])
         /\ shown' = [i \in 1 .. Min({Len(list), MaxSources}) |->
                        [finding |-> list[i], severity |-> Severity(list[i])]]
    /\ Goto("sources")
    /\ UNCHANGED <<clauses, analysis, citations, asked>>

CheckSources ==
    /\ pcChat = "sources"
    /\ Goto(IF clauses = <<>> /\ shown = <<>> THEN "nothing to search" ELSE "ask")
    /\ UNCHANGED <<clauses, analysis, shown, citations, asked>>

\* The provider is out of reach, has reached its limit, or answers an error or
\* nothing; or, which is not caught, there is no key or the answer is no JSON.
ProviderFails ==
    /\ pcChat = "ask"
    /\ \E how \in {"unavailable", "error"} : Goto(how)
    /\ UNCHANGED <<clauses, analysis, shown, citations, asked>>

\* source_by_ref
Supplied ==
    [kind : {"C"}, nr : DOMAIN clauses] \cup [kind : {"F"}, nr : DOMAIN shown]

\* A reference to a source that is not there.
Invented == [kind |-> "F", nr |-> MaxSources + 1]

\* extract_citation_refs: each reference once, where it is first mentioned.
CitedOnce(mentions) ==
    Picked(mentions, {i \in DOMAIN mentions : \A j \in 1 .. i - 1 : mentions[j] # mentions[i]})

\* Faulty variant of Cited: what the model says is trusted.
CitedTrustingly(mentions) == CitedOnce(mentions)

\* Never a reference that the server has not supplied in this request.
Cited(mentions) ==
    LET once == CitedOnce(mentions)
    IN  Picked(once, {i \in DOMAIN once : once[i] \in Supplied})

Answer ==
    /\ pcChat = "ask"
    /\ \E mentions \in BoundedSeq(Supplied \cup {Invented}, MaxMentions) :
          citations' = Cited(mentions)
    /\ Goto("answered")
    /\ UNCHANGED <<clauses, analysis, shown, asked>>

Ask ==
    \/ FindDocument
    \/ SearchChunks
    \/ ReadBeginning
    \/ FindAnalysis
    \/ ReadFindings
    \/ CheckSources
    \/ ProviderFails
    \/ Answer

Next == Ask \/ \E a \in Analyses : AnalysisFinishes(a)

-----------------------------------------------------------------------------
(* Properties.                                                             *)

\* Whatever the model mentions, each citation of an answer is another source of
\* this request: a stored chunk, or a verified finding of the one analysis that
\* the request chose, although others finish while it looks (extract_citation_refs).
CitationsAreSources ==
    /\ IsInjective(citations)
    /\ Range(citations) \subseteq Supplied
    /\ \A i \in DOMAIN citations :
         IF citations[i].kind = "C" THEN clauses[citations[i].nr] \in stored
         ELSE /\ shown[citations[i].nr].finding \in VerifiedOf(analysis)
              /\ analysis \in finished

\* A document that had text when the question came is not refused for want of
\* it, whatever words the question has; and an answer is never from an older
\* analysis than the latest that had finished by then.
NothingThereIsMissed ==
    /\ pcChat = "nothing to search" => ~ asked.text
    /\ pcChat \in {"findings", "sources", "ask", "answered"} =>
          \A a \in asked.finished : a <= analysis

\* An answer rests on what is known of the document (ask_clauseguard).
AnswersAreGrounded == CitationsAreSources /\ NothingThereIsMissed
=============================================================================
