-------------------------- MODULE MCAttemptParts --------------------------
(***************************************************************************)
(* An instance for TLC of what nobody interferes with, from the file to    *)
(* the score: a policy is drafted, a file is taken in, the text is cut,    *)
(* clauses are retrieved, a category is extracted, its evidence is         *)
(* verified, a finding is scored.  A behaviour is one of one of these      *)
(* parts; the others do not begin.                                         *)
(***************************************************************************)
EXTENDS Extraction

CONSTANTS
    TARGET_TOKENS, MIN_TOKENS, MAX_TOKENS, CharsPerToken, MaxLength,
    Chunks, TopK, Candidates, RRF_K,
    Letters, Blank, Newline, Hidden, Typographic, MIN_QUOTE_CHARS, MaxText, MaxQuote,
    Scale, Thresholds,
    max_bytes, max_pages, SNIFFED, MIN_TOTAL_CHARS, MIN_CHARS_PER_PAGE, CHARS_PER_PAGE,
    MAX_DECOMPRESSED_BYTES, MAX_DECOMPRESSION_RATIO, MaxUnits, MaxChars,
    MaxSlug, MinRules, MaxRules, MaxProposed

VARIABLES
    part,
    length, ink, starts, sentences, pcCut, at, pending, segment, piece, merged, chunks,
    pcFind, dense, keyword, mode, found,
    cited, text, quote, status, from, to,
    confidence, tier, weight, threshold, escalate, severity, source, others, band,
    file, type, parsed, verdict,
    requested, pcDraft, proposed, base, suffix, whole, used, rules

Cutting == INSTANCE Chunking WITH pc <- pcCut

Finding == INSTANCE Retrieval WITH pc <- pcFind

\* The typographic apostrophe is folded into the other.
MCFold == [c \in Typographic |-> CHOOSE l \in Letters : l = "'"]

Verifying == INSTANCE Evidence
                 WITH Fold <- MCFold, Start <- 3

\* No other findings, many of low severity, and one of high.
MCOtherFindings ==
    {[level \in 0 .. 4 |-> 0], [level \in 0 .. 4 |-> IF level = 1 THEN 7 ELSE 0],
     [level \in 0 .. 4 |-> IF level = 3 THEN 1 ELSE 0]}

Scored == INSTANCE Scoring
              WITH OtherFindings <- MCOtherFindings

TakingIn == INSTANCE Intake

\* Categories that become empty, begin with a digit, are too long, are numbered
\* already, or would end in an underscore where they are cut.
MCTexts == {<<>>, <<"-", "1">>, <<"a", "a">>, <<"a", "a", "a", "a", "a">>,
            <<"a", "a", "-", "2">>, <<"a", "-", "a", "a">>}

\* The fixed names, shortened like the longest one.
MCDefaultSlug == <<"a", "b">>
MCRiskPrefix == <<"b", "_">>

MCLetters == {"a", "b"}

Drafting == INSTANCE PolicyDraft
                WITH Letters <- MCLetters, Texts <- MCTexts, pc <- pcDraft,
                     DefaultSlug <- MCDefaultSlug, RiskPrefix <- MCRiskPrefix,
                     ShortSlug <- MCDefaultSlug

ASSUME ConstantsAreSensible ==
    /\ Cutting!SizesAssumption /\ Finding!RetrievalAssumption
    /\ Verifying!EvidenceAssumption /\ Scored!ScoringAssumption
    /\ TakingIn!IntakeAssumption /\ Drafting!DraftAssumption

cutVars == <<length, ink, starts, sentences, pcCut, at, pending, segment, piece, merged, chunks>>
findVars == <<pcFind, dense, keyword, mode, found>>
verifyVars == <<cited, text, quote, status, from, to>>
scoreVars == <<confidence, tier, weight, threshold, escalate, severity, source, others, band>>
intakeVars == <<file, type, parsed, verdict>>
draftVars == <<requested, pcDraft, proposed, base, suffix, whole, used, rules>>
beginVars == <<intakeVars, draftVars>>
partVars == <<part, vars, cutVars, findVars, verifyVars, scoreVars, beginVars>>

-----------------------------------------------------------------------------
(* What a part that does not run would have begun with: one letter to cut,  *)
(* nothing quoted, no confidence, an empty paste.                           *)

InitParts ==
    /\ part \in {"extraction", "cutting", "retrieval", "verification", "scoring",
                 "intake", "drafting"}
    /\ Init
    /\ part = "cutting" \/ length = 1
    /\ Cutting!Init
    /\ Finding!Init
    /\ part = "verification" \/ (cited = FALSE /\ text = <<"w">> /\ quote = <<>>)
    /\ Verifying!Init
    /\ \/ part = "scoring"
       \/ /\ confidence = 0 /\ tier = "hybrid"
          /\ weight = 0 /\ threshold = 0 /\ escalate = FALSE
    /\ Scored!Init
    /\ part = "intake" \/ file = [kind |-> "paste", chars |-> 0]
    /\ TakingIn!Init
    /\ part = "drafting" \/ requested = MinRules
    /\ Drafting!Init

Extract ==
    /\ part = "extraction" /\ Next
    /\ UNCHANGED <<part, cutVars, findVars, verifyVars, scoreVars, beginVars>>
Cut ==
    /\ part = "cutting" /\ Cutting!Next
    /\ UNCHANGED <<part, vars, findVars, verifyVars, scoreVars, beginVars>>
Find ==
    /\ part = "retrieval" /\ Finding!Next
    /\ UNCHANGED <<part, vars, cutVars, verifyVars, scoreVars, beginVars>>
Verify ==
    /\ part = "verification" /\ Verifying!Next
    /\ UNCHANGED <<part, vars, cutVars, findVars, scoreVars, beginVars>>
Score ==
    /\ part = "scoring" /\ Scored!Next
    /\ UNCHANGED <<part, vars, cutVars, findVars, verifyVars, beginVars>>
TakeIn ==
    /\ part = "intake" /\ TakingIn!Next
    /\ UNCHANGED <<part, vars, cutVars, findVars, verifyVars, scoreVars, draftVars>>
Draft ==
    /\ part = "drafting" /\ Drafting!Next
    /\ UNCHANGED <<part, vars, cutVars, findVars, verifyVars, scoreVars, intakeVars>>

NextParts == Extract \/ Cut \/ Find \/ Verify \/ Score \/ TakeIn \/ Draft

\* The two parts that loop go on while they can.
FairParts ==
    InitParts /\ [][NextParts]_partVars /\ WF_partVars(Extract) /\ WF_partVars(Cut)

-----------------------------------------------------------------------------
(* The properties of the modules, where they are explained.                *)

\* The text is cut in order, without overlap and without loss, and into chunks
\* that fit (chunk_document).
CutRightly == Cutting!TypeOK /\ Cutting!CutRightly

\* What both searches say of the clauses is kept (reciprocal_rank_fusion).
FusionIsFair == Finding!TypeOK /\ Finding!FusionIsFair

\* Evidence is verified exactly if it is quoted (verify_evidence).
VerifiedExactlyIfQuoted == Verifying!TypeOK /\ Verifying!VerifiedExactlyIfQuoted

\* Neither less confidence nor worse retrieval makes anything more severe
\* (score_finding), nor more findings a lower score (score_analysis).
SeverityIsMonotone == Scored!TypeOK /\ Scored!SeverityIsMonotone

\* A file is accepted exactly if it can be read and analyzed (parse_upload).
IntakeIsSound == TakingIn!TypeOK /\ TakingIn!IntakeIsSound

\* Any draft can be saved as it is (normalize_policy_draft).
DraftCanBeSaved == Drafting!TypeOK /\ Drafting!DraftCanBeSaved

\* Every category ends with an explicit result (extract_category), and cutting
\* ends whatever the text is (chunk_document, _split_oversized).
PartsEnd ==
    /\ part = "extraction" => CategoryEnds
    /\ part = "cutting" => Cutting!CuttingEnds
=============================================================================
