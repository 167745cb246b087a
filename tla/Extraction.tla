----------------------------- MODULE Extraction -----------------------------
(***************************************************************************)
(* One category of an analysis: retrieve clauses, let the model use tools  *)
(* within a budget, validate its answer, repair it once, and end with an   *)
(* explicit result (services/extraction.py, services/tools.py).            *)
(*                                                                         *)
(* The model may answer anything, so each of its responses is a choice: a  *)
(* final text, or a batch of tool calls which the executor serves in turn. *)
(* Of a final text only its validation class matters:                      *)
(*   invalid   not JSON, or rejected by the schema                         *)
(*   malformed an object on which _validate itself raises: findings is a   *)
(*             number or true, and the loop over them comes before the     *)
(*             schema                                                      *)
(*   findings  findings, no needs_review_reason                            *)
(*   doubtful  findings and a needs_review_reason                          *)
(*   nothing   abstained or no findings, no needs_review_reason            *)
(*   unsure    no findings, but a needs_review_reason                      *)
(***************************************************************************)
EXTENDS Naturals

CONSTANTS
    MaxToolCalls,       \* settings.max_tool_calls_per_category
    MaxToolIterations,  \* MAX_TOOL_ITERATIONS
    MaxBatch            \* bound: tool calls in one response

ASSUME BudgetAssumption ==
    /\ MaxToolCalls \in Nat
    /\ MaxToolIterations \in Nat \ {0}
    /\ MaxBatch \in Nat \ {0}

VARIABLES
    pc,          \* the await that extract is at
    asked,       \* calls of llm.complete
    callCount,   \* ToolContext.call_count
    batch,       \* tool calls of this response still to execute
    stop,        \* a call of this batch set stop_category
    flagged,     \* ToolContext.flagged_reason is set
    answer,      \* class of the text last validated
    result       \* CategoryResult.status

vars == <<pc, asked, callCount, batch, stop, flagged, answer, result>>

Unusable == {"invalid", "malformed"}
Answers == Unusable \cup {"findings", "doubtful", "nothing", "unsure"}
Results == {"completed", "abstained", "needs_review", "failed"}

TypeOK ==
    /\ pc \in {"retrieve", "ask", "tools", "validate", "repair", "end"}
    /\ asked \in Nat
    /\ callCount \in Nat
    /\ batch \in 0 .. MaxBatch
    /\ stop \in BOOLEAN
    /\ flagged \in BOOLEAN
    /\ answer \in Answers \cup {"none"}
    /\ result \in Results \cup {"none", "raised"}

Init ==
    /\ pc = "retrieve"
    /\ asked = 0
    /\ callCount = 0
    /\ batch = 0
    /\ stop = FALSE
    /\ flagged = FALSE
    /\ answer = "none"
    /\ result = "none"

Finish(status) ==
    /\ pc' = "end"
    /\ result' = status

-----------------------------------------------------------------------------
(* Retrieval and the model's responses.                                    *)

Retrieve ==
    /\ pc = "retrieve"
    /\ pc' = "ask"
    /\ UNCHANGED <<asked, callCount, batch, stop, flagged, answer, result>>

\* Retrieval raised, or found no clause at all.
NothingRetrieved ==
    /\ pc = "retrieve"
    /\ Finish("needs_review")
    /\ UNCHANGED <<asked, callCount, batch, stop, flagged, answer>>

\* llm.complete raises: the provider is unavailable, or anything else.
ProviderFails ==
    /\ pc = "ask" /\ asked < MaxToolIterations
    /\ asked' = asked + 1
    /\ \E status \in {"needs_review", "failed"} : Finish(status)
    /\ UNCHANGED <<callCount, batch, stop, flagged, answer>>

ModelAnswers ==
    /\ pc = "ask" /\ asked < MaxToolIterations
    /\ asked' = asked + 1
    /\ answer' \in Answers
    /\ pc' = "validate"
    /\ UNCHANGED <<callCount, batch, stop, flagged, result>>

ModelCallsTools ==
    /\ pc = "ask" /\ asked < MaxToolIterations
    /\ asked' = asked + 1
    /\ batch' \in 1 .. MaxBatch
    /\ stop' = FALSE
    /\ pc' = "tools"
    /\ UNCHANGED <<callCount, flagged, answer, result>>

\* Faulty variant of LoopExhausted: a bound that is never met.
LoopNeverExhausted ==
    /\ pc = "ask" /\ asked > MaxToolIterations
    /\ Finish("needs_review")
    /\ UNCHANGED <<asked, callCount, batch, stop, flagged, answer>>

\* The else clause of the loop: TOOL_LOOP_EXHAUSTED.
LoopExhausted ==
    /\ pc = "ask" /\ asked = MaxToolIterations
    /\ Finish("needs_review")
    /\ UNCHANGED <<asked, callCount, batch, stop, flagged, answer>>

-----------------------------------------------------------------------------
(* ToolExecutor.execute, one call of the batch at a time.                  *)

\* Faulty variant of LimitReached: off by one.
LimitReachedLate == callCount > MaxToolCalls

LimitReached == callCount >= MaxToolCalls

\* Faulty variant of RefuseCall: goes on past the last call of the batch.
RefuseCallUnbatched ==
    /\ pc = "tools"
    /\ batch' = batch - 1
    /\ UNCHANGED <<pc, asked, callCount, stop, flagged, answer, result>>

\* Unknown name or malformed input: refused before the limit is looked at.
RefuseCall ==
    /\ pc = "tools" /\ batch > 0
    /\ batch' = batch - 1
    /\ UNCHANGED <<pc, asked, callCount, stop, flagged, answer, result>>

RefuseOverLimit ==
    /\ pc = "tools" /\ batch > 0
    /\ LimitReached
    /\ batch' = batch - 1
    /\ stop' = TRUE
    /\ UNCHANGED <<pc, asked, callCount, flagged, answer, result>>

\* search_document or get_neighboring_chunks answers or refuses its
\* arguments; so does flag_for_review without a reason.
ServeCall ==
    /\ pc = "tools" /\ batch > 0
    /\ ~ LimitReached
    /\ batch' = batch - 1
    /\ callCount' = callCount + 1
    /\ UNCHANGED <<pc, asked, stop, flagged, answer, result>>

\* flag_for_review with a reason.
FlagCategory ==
    /\ pc = "tools" /\ batch > 0
    /\ ~ LimitReached
    /\ batch' = batch - 1
    /\ callCount' = callCount + 1
    /\ stop' = TRUE
    /\ flagged' = TRUE
    /\ UNCHANGED <<pc, asked, answer, result>>

\* A tool raises: the ordinal scan of a search, or the lookup of a chunk id
\* that the model made up and the database cannot read as a UUID.
ToolRaises ==
    /\ pc = "tools" /\ batch > 0
    /\ ~ LimitReached
    /\ callCount' = callCount + 1
    /\ Finish("raised")
    /\ UNCHANGED <<asked, batch, stop, flagged, answer>>

\* Faulty variant of BatchServed: a flag does not end the category.
BatchServedUnflagged ==
    /\ pc = "tools" /\ batch = 0
    /\ pc' = "ask"
    /\ UNCHANGED <<asked, callCount, batch, stop, flagged, answer, result>>

\* The batch is served: end a flagged category, else ask again.
BatchServed ==
    /\ pc = "tools" /\ batch = 0
    /\ IF stop /\ flagged THEN Finish("needs_review")
                          ELSE pc' = "ask" /\ UNCHANGED result
    /\ UNCHANGED <<asked, callCount, batch, stop, flagged, answer>>

-----------------------------------------------------------------------------
(* Validation and the single repair.                                       *)

ResultOf(a) == CASE a \in {"nothing", "unsure"} -> "abstained"
                 [] a = "findings"              -> "completed"
                 [] OTHER                       -> "needs_review"

\* Faulty variant of Accept: an invalid text is taken as it is.
AcceptAnything ==
    /\ pc = "validate"
    /\ answer # "malformed"
    /\ Finish(IF answer = "invalid" THEN "completed" ELSE ResultOf(answer))
    /\ UNCHANGED <<asked, callCount, batch, stop, flagged, answer>>

Accept ==
    /\ pc = "validate"
    /\ answer \notin Unusable
    /\ Finish(ResultOf(answer))
    /\ UNCHANGED <<asked, callCount, batch, stop, flagged, answer>>

\* The loop over the findings is outside any try: what it raises leaves extract.
ValidationRaises ==
    /\ pc = "validate"
    /\ answer = "malformed"
    /\ Finish("raised")
    /\ UNCHANGED <<asked, callCount, batch, stop, flagged, answer>>

AskForRepair ==
    /\ pc = "validate"
    /\ answer = "invalid"
    /\ pc' = "repair"
    /\ UNCHANGED <<asked, callCount, batch, stop, flagged, answer, result>>

\* The repaired text is validated and not repaired again; a text whose tool
\* calls are ignored, or a provider that raises, counts as invalid.  What
\* validation raises here is caught.
Repaired ==
    /\ pc = "repair"
    /\ asked' = asked + 1
    /\ answer' \in Answers
    /\ Finish(ResultOf(answer'))
    /\ UNCHANGED <<callCount, batch, stop, flagged>>

-----------------------------------------------------------------------------
Next ==
    \/ Retrieve
    \/ NothingRetrieved
    \/ ProviderFails
    \/ ModelAnswers
    \/ ModelCallsTools
    \/ LoopExhausted
    \/ RefuseCall
    \/ RefuseOverLimit
    \/ ServeCall
    \/ FlagCategory
    \/ ToolRaises
    \/ BatchServed
    \/ Accept
    \/ ValidationRaises
    \/ AskForRepair
    \/ Repaired

Spec == Init /\ [][Next]_vars

\* Every await of extract returns or raises: the provider and the database
\* calls have timeouts.
FairSpec == Spec /\ WF_vars(Next)

-----------------------------------------------------------------------------
(* Properties.                                                             *)

\* However the model behaves, a category costs at most MaxToolIterations
\* requests and one for the repair, and at most MaxToolCalls tool calls.
WithinBudget ==
    /\ asked <= MaxToolIterations + 1
    /\ callCount <= MaxToolCalls

\* A category the model has flagged ends as needs_review, whatever else the
\* model asked for in the same response: unless a tool raises.
FlagIsHeeded ==
    pc = "end" /\ flagged => result \in {"needs_review", "raised"}

\* A category is completed only by an answer that passed validation.  One that
\* failed it, twice or with no second, is left to a human; one that validation
\* itself fails on is left to a human as a repair, and as the first answer it
\* fails the attempt.  Neither abstains or completes.
OnlyValidAnswers ==
    /\ result = "completed" => answer = "findings"
    /\ pc = "end" /\ answer = "invalid" => result = "needs_review"
    /\ pc = "end" /\ answer = "malformed" => result \in {"needs_review", "raised"}

\* What is taken from a model is sound, and its doubts count.
AnswersAreSound == FlagIsHeeded /\ OnlyValidAnswers

\* Every category ends with an explicit result.
CategoryEnds == <>(pc = "end")
=============================================================================
