------------------------- MODULE AttemptPartsProofs -------------------------
(***************************************************************************)
(* What nobody interferes with, proved for any sizes, texts and answers:   *)
(* the extraction of a category, the cut of a document, retrieval, intake, *)
(* the draft of a policy, the score of a finding, and the check of its     *)
(* evidence.                                                               *)
(***************************************************************************)
EXTENDS MCAttemptParts, Sequences, EnumerationProofs, FiniteSetTheorems, TLAPS

-----------------------------------------------------------------------------
(* A category: Extraction by itself.                                       *)

\* In every reachable state the variables have their types.
THEOREM ExtractionTypes == Spec => []TypeOK
<1> USE BudgetAssumption DEF BudgetAssumption, TypeOK, Finish
<1>1. Init => TypeOK
  <2>1. 0 \in Nat /\ 0 \in 0 .. MaxBatch  OBVIOUS
  <2> QED  BY <2>1, Zenon DEF Init
<1>2. ASSUME TypeOK, [Next]_vars
      PROVE  TypeOK'
  <2> USE <1>2
  <2>1. CASE Retrieve            BY <2>1 DEF Retrieve
  <2>2. CASE NothingRetrieved    BY <2>2 DEF NothingRetrieved, Results
  <2>3. CASE ProviderFails       BY <2>3 DEF ProviderFails, Results
  <2>4. CASE ModelAnswers        BY <2>4 DEF ModelAnswers
  <2>5. CASE ModelCallsTools
    <3>1. asked' \in Nat /\ batch' \in 0 .. MaxBatch  BY <2>5 DEF ModelCallsTools
    <3> QED  BY <2>5, <3>1, Zenon DEF ModelCallsTools
  <2>6. CASE LoopExhausted       BY <2>6 DEF LoopExhausted, Results
  <2>7. CASE RefuseCall          BY <2>7 DEF RefuseCall
  <2>8. CASE RefuseOverLimit     BY <2>8 DEF RefuseOverLimit
  <2>9. CASE ServeCall           BY <2>9 DEF ServeCall
  <2>10. CASE FlagCategory       BY <2>10 DEF FlagCategory
  <2>11. CASE ToolRaises         BY <2>11 DEF ToolRaises
  <2>12. CASE BatchServed        BY <2>12 DEF BatchServed, Results
  <2>13. CASE Accept
    <3>1. result' \in Results
      BY <2>13 DEF Accept, ResultOf, Answers, Unusable, Results
    <3> QED  BY <2>13, <3>1 DEF Accept
  <2>14. CASE AskForRepair       BY <2>14 DEF AskForRepair
  <2>15. CASE Repaired           BY <2>15 DEF Repaired, ResultOf, Answers, Unusable, Results
  <2>16. CASE UNCHANGED vars     BY <2>16 DEF vars
  <2>17. CASE ValidationRaises   BY <2>17 DEF ValidationRaises
  <2> QED
    BY <1>2, <2>1, <2>2, <2>3, <2>4, <2>5, <2>6, <2>7, <2>8, <2>9, <2>10, <2>11,
       <2>12, <2>13, <2>14, <2>15, <2>16, <2>17 DEF Next
<1> QED
  BY <1>1, <1>2, PTL DEF Spec

(* The inductive invariant behind the budget: the repair, reached once and   *)
(* only after a final text, is the only request beyond the loop's.           *)
BudgetInv ==
    /\ callCount <= MaxToolCalls
    /\ asked <= MaxToolIterations + 1
    /\ pc # "end" => asked <= MaxToolIterations

\* However the model behaves, a category costs at most MaxToolIterations + 1
\* requests to the provider and MaxToolCalls tool calls.
THEOREM ExtractionBudget == Spec => []WithinBudget
<1>1. Init => BudgetInv
  BY BudgetAssumption DEF Init, BudgetInv
<1>2. TypeOK /\ BudgetInv /\ [Next]_vars => BudgetInv'
  BY BudgetAssumption DEF TypeOK, BudgetInv, Next, vars, Retrieve, NothingRetrieved,
     ProviderFails, ModelAnswers, ModelCallsTools, LoopExhausted, RefuseCall,
     RefuseOverLimit, ServeCall, FlagCategory, ToolRaises, BatchServed, Accept,
     ValidationRaises, AskForRepair, Repaired, Finish, LimitReached
<1>3. BudgetInv => WithinBudget
  BY DEF BudgetInv, WithinBudget
<1> QED
  BY <1>1, <1>2, <1>3, ExtractionTypes, PTL DEF Spec

(* A flag is pending only while its batch is served.                         *)
FlagInv ==
    /\ flagged => pc \in {"tools", "end"}
    /\ pc = "tools" /\ flagged => stop
    /\ pc = "end" /\ flagged => result \in {"needs_review", "raised"}

\* A category that the model has flagged ends as needs_review unless a tool
\* raises, whatever else is in the same response.
LEMMA FlagsAreHeeded == Spec => []FlagIsHeeded
<1>1. Init => FlagInv
  BY DEF Init, FlagInv
<1>2. FlagInv /\ [Next]_vars => FlagInv'
  BY DEF FlagInv, Next, vars, Retrieve, NothingRetrieved,
     ProviderFails, ModelAnswers, ModelCallsTools, LoopExhausted, RefuseCall,
     RefuseOverLimit, ServeCall, FlagCategory, ToolRaises, BatchServed, Accept,
     ValidationRaises, AskForRepair, Repaired, Finish
<1>3. FlagInv => FlagIsHeeded
  BY DEF FlagInv, FlagIsHeeded
<1> QED
  BY <1>1, <1>2, <1>3, PTL DEF Spec

(* No text has been validated before the model gives its final one, and there *)
(* is no result before the end.                                               *)
AnswerInv ==
    /\ pc \in {"retrieve", "ask", "tools"} => answer = "none"
    /\ pc # "end" => result = "none"
    /\ OnlyValidAnswers

\* A category is completed only by an answer that passed validation, the first
\* or the repaired one.  An invalid one is left to a human, and one on which
\* validation itself raises is left to a human or fails the attempt.
LEMMA AnswersAreValid == Spec => []OnlyValidAnswers
<1>1. Init => AnswerInv
  BY DEF Init, AnswerInv, OnlyValidAnswers
<1>2. AnswerInv /\ [Next]_vars => AnswerInv'
  BY DEF AnswerInv, OnlyValidAnswers, Next, vars, Retrieve, NothingRetrieved,
     ProviderFails, ModelAnswers, ModelCallsTools, LoopExhausted, RefuseCall,
     RefuseOverLimit, ServeCall, FlagCategory, ToolRaises, BatchServed, Accept,
     ValidationRaises, AskForRepair, Repaired, Finish, ResultOf, Unusable
<1>3. AnswerInv => OnlyValidAnswers
  BY DEF AnswerInv
<1> QED
  BY <1>1, <1>2, <1>3, PTL DEF Spec

\* Whatever the model answers and for any budget: a flagged category ends as
\* needs_review unless a tool raises, only a validated answer completes one, and
\* one that was never validated goes to a human, unless validation itself raises
\* on the first answer and the attempt fails.
THEOREM SoundAnswers == Spec => []AnswersAreSound
BY FlagsAreHeeded, AnswersAreValid, PTL DEF AnswersAreSound

\* The two searches return fewer chunks than twice the damping constant bears.
CandidatesAreFew == Candidates <= RRF_K + 1

-----------------------------------------------------------------------------
(* Types.                                                                  *)

\* What a search may return is a ranking, and not longer than asked for.
LEMMA RankingsAreRankings ==
    ASSUME NEW n \in Nat, NEW s \in Finding!Rankings(n)
    PROVE  s \in Seq(Chunks) /\ Finding!IsRanking(s) /\ Len(s) <= n
<1>1. PICK k \in {m \in 0 .. n : m <= Finding!Cardinality(Chunks)} :
             s \in [1 .. k -> Chunks] /\ Finding!IsRanking(s)
  BY DEF Finding!Rankings
<1>2. k \in Nat /\ k <= n
  BY <1>1
<1>3. s \in Seq(Chunks) /\ Len(s) = k
  BY <1>1, <1>2
<1> QED
  BY <1>1, <1>2, <1>3

\* The beginning of a ranking is one.
LEMMA FirstIsRanking ==
    ASSUME NEW n \in Nat, NEW s \in Seq(Chunks), Finding!IsRanking(s)
    PROVE  /\ Finding!First(n, s) \in Seq(Chunks) /\ Finding!IsRanking(Finding!First(n, s))
           /\ Len(Finding!First(n, s)) <= n
<1> DEFINE m == IF n < Len(s) THEN n ELSE Len(s)
<1>1. m \in Nat /\ m <= n /\ m <= Len(s)
  OBVIOUS
<1>2. /\ Finding!First(n, s) = SubSeq(s, 1, m)
      /\ Len(Finding!First(n, s)) = m
      /\ Finding!First(n, s) \in Seq(Chunks)
      /\ \A i \in 1 .. m : Finding!First(n, s)[i] = s[i]
  BY <1>1 DEF Finding!First
<1>3. Finding!IsRanking(Finding!First(n, s))
  BY <1>1, <1>2 DEF Finding!IsRanking
<1> QED
  BY <1>1, <1>2, <1>3

\* The state of a retrieval keeps its types (RetrievedChunk, RetrievalResult).
THEOREM RetrievalTypes ==
    ASSUME Finding!RetrievalAssumption
    PROVE  Finding!Spec => []Finding!TypeOK
<1> USE DEF Finding!RetrievalAssumption
<1>1. Finding!Init => Finding!TypeOK
  BY DEF Finding!Init, Finding!TypeOK, Finding!IsRanking, Finding!Modes
<1>2. ASSUME Finding!TypeOK, [Finding!Next]_Finding!vars
      PROVE  Finding!TypeOK'
  <2> USE <1>2 DEF Finding!TypeOK, Finding!Modes
  <2>1. CASE Finding!DenseSearch
    BY <2>1, RankingsAreRankings DEF Finding!DenseSearch
  <2>2. CASE Finding!KeywordSearch
    BY <2>2, RankingsAreRankings DEF Finding!KeywordSearch
  <2>3. CASE Finding!Fuse
    BY <2>3, RankingsAreRankings DEF Finding!Fuse, Finding!Return
  <2>4. CASE Finding!FallBackToDense
    BY <2>4, FirstIsRanking DEF Finding!FallBackToDense, Finding!Return
  <2>5. CASE Finding!FallBackToKeyword
    BY <2>5, FirstIsRanking DEF Finding!FallBackToKeyword, Finding!Return
  <2>6. CASE Finding!OrdinalScan
    BY <2>6, RankingsAreRankings DEF Finding!OrdinalScan, Finding!Return
  <2>7. CASE Finding!ScanRaises
    BY <2>7 DEF Finding!ScanRaises, Finding!Return, Finding!IsRanking
  <2>8. CASE UNCHANGED Finding!vars
    BY <2>8 DEF Finding!vars, Finding!IsRanking
  <2> QED
    BY <1>2, <2>1, <2>2, <2>3, <2>4, <2>5, <2>6, <2>7, <2>8 DEF Finding!Next
<1> QED
  BY <1>1, <1>2, PTL DEF Finding!Spec

-----------------------------------------------------------------------------
(* The order of the fusion.                                                *)

\* Two ranks that are few beat one that is best.
LEMMA TwoBeatOne ==
    ASSUME NEW k \in Nat, NEW x \in Nat, NEW y \in Nat, NEW z \in Nat,
           k < x, k < y, k < z, x <= 2 * k + 1, y <= 2 * k + 1
    PROVE  (x + y) * z > x * y
<1>1. x * y <= x * (2 * k + 1)
  OBVIOUS
<1>2. x * y <= y * (2 * k + 1)
  OBVIOUS
<1>3. 2 * (x * y) <= (x + y) * (2 * k + 1)
  BY <1>1, <1>2
<1>4. (x + y) * (2 * k + 1) < (x + y) * (2 * k + 2)
  OBVIOUS
<1>5. (x + y) * (2 * k + 2) = 2 * ((x + y) * (k + 1))
  OBVIOUS
<1>6. (x + y) * (k + 1) <= (x + y) * z
  OBVIOUS
<1>7. /\ x * y \in Int /\ (x + y) * (2 * k + 1) \in Int
      /\ (x + y) * (k + 1) \in Int /\ (x + y) * z \in Int
  OBVIOUS
<1> QED
  BY <1>3, <1>4, <1>5, <1>6, <1>7

\* Two ranks that are both better make the larger sum.
LEMMA BetterTwice ==
    ASSUME NEW a \in Nat, NEW b \in Nat, NEW x \in Nat, NEW y \in Nat,
           0 < a, 0 < b, a < x, b < y
    PROVE  (a + b) * (x * y) > (x + y) * (a * b)
<1>1. (a * x) * (y - b) > 0
  <2>1. a * x > 0
    OBVIOUS
  <2>2. a * x \in Int /\ y - b \in Int /\ y - b > 0
    OBVIOUS
  <2> QED
    BY <2>1, <2>2
<1>2. (b * y) * (x - a) > 0
  <2>1. b * y > 0
    OBVIOUS
  <2>2. b * y \in Int /\ x - a \in Int /\ x - a > 0
    OBVIOUS
  <2> QED
    BY <2>1, <2>2
<1>3. (a + b) * (x * y) - (x + y) * (a * b) = (a * x) * (y - b) + (b * y) * (x - a)
  OBVIOUS
<1>4. (a + b) * (x * y) \in Int /\ (x + y) * (a * b) \in Int
  OBVIOUS
<1>5. (a * x) * (y - b) \in Int /\ (b * y) * (x - a) \in Int
  OBVIOUS
<1> QED
  BY <1>1, <1>2, <1>3, <1>4, <1>5

\* A rank is a place of the ranking.
LEMMA RankIsPlace ==
    ASSUME NEW s \in Seq(Chunks), NEW c, Finding!IsIn(c, s)
    PROVE  Finding!RankIn(c, s) \in Nat /\ 1 <= Finding!RankIn(c, s)
           /\ Finding!RankIn(c, s) <= Len(s)
<1>1. Finding!RankIn(c, s) \in DOMAIN s
  BY DEF Finding!IsIn, Finding!RankIn
<1> QED
  BY <1>1

\* What only one search found does not precede what both found.
LEMMA OneBehindTwo ==
    ASSUME Finding!RetrievalAssumption, CandidatesAreFew, Finding!TypeOK,
           NEW c, NEW d, Finding!Both(c), Finding!Either(d), ~ Finding!Both(d)
    PROVE  ~ Finding!Precedes(d, c)
<1> DEFINE x == RRF_K + Finding!RankIn(c, dense)
           y == RRF_K + Finding!RankIn(c, keyword)
           z == RRF_K +
                IF Finding!IsIn(d, dense) THEN Finding!RankIn(d, dense)
                ELSE Finding!RankIn(d, keyword)
<1>1. /\ RRF_K \in Nat /\ Candidates \in Nat
      /\ dense \in Seq(Chunks) /\ Len(dense) <= Candidates
      /\ keyword \in Seq(Chunks) /\ Len(keyword) <= Candidates
  BY DEF Finding!RetrievalAssumption, Finding!TypeOK
<1>2. x \in Nat /\ RRF_K < x /\ x <= 2 * RRF_K + 1
  BY <1>1, RankIsPlace DEF Finding!Both, CandidatesAreFew
<1>3. y \in Nat /\ RRF_K < y /\ y <= 2 * RRF_K + 1
  BY <1>1, RankIsPlace DEF Finding!Both, CandidatesAreFew
<1>4. z \in Nat /\ RRF_K < z
  BY <1>1, RankIsPlace DEF Finding!Either
<1>5. (x + y) * z > x * y
  BY <1>1, <1>2, <1>3, <1>4, TwoBeatOne
<1>6. Finding!Score(c) = [num |-> x + y, den |-> x * y]
  BY DEF Finding!Score
<1>7. Finding!Score(d) = [num |-> 1, den |-> z]
  BY DEF Finding!Score
<1> HIDE DEF x, y, z
<1>8. /\ x + y \in Int /\ x * y \in Int /\ (x + y) * z \in Int
      /\ 1 * (x * y) = x * y
  BY <1>2, <1>3, <1>4
<1>9. Finding!Higher(c, d) /\ ~ Finding!Higher(d, c)
  BY <1>5, <1>6, <1>7, <1>8 DEF Finding!Higher
<1> QED
  BY <1>9 DEF Finding!Precedes

\* What both searches ranked lower does not precede.
LEMMA LowerBehind ==
    ASSUME Finding!RetrievalAssumption, Finding!TypeOK, NEW c, NEW d, Finding!Both(c),
           Finding!Both(d),
           Finding!RankIn(c, dense) < Finding!RankIn(d, dense),
              Finding!RankIn(c, keyword) < Finding!RankIn(d, keyword)
    PROVE  ~ Finding!Precedes(d, c)
<1> DEFINE a == RRF_K + Finding!RankIn(c, dense)
           b == RRF_K + Finding!RankIn(c, keyword)
           x == RRF_K + Finding!RankIn(d, dense)
           y == RRF_K + Finding!RankIn(d, keyword)
<1>1. RRF_K \in Nat /\ dense \in Seq(Chunks) /\ keyword \in Seq(Chunks)
  BY DEF Finding!RetrievalAssumption, Finding!TypeOK
<1>2. /\ a \in Nat /\ b \in Nat /\ x \in Nat /\ y \in Nat
      /\ 0 < a /\ 0 < b /\ a < x /\ b < y
  BY <1>1, RankIsPlace DEF Finding!Both
<1>3. (a + b) * (x * y) > (x + y) * (a * b)
  BY <1>2, BetterTwice
<1>4. Finding!Score(c) = [num |-> a + b, den |-> a * b]
      /\ Finding!Score(d) = [num |-> x + y, den |-> x * y]
  BY DEF Finding!Score
<1> HIDE DEF a, b, x, y
<1>5. (a + b) * (x * y) \in Int /\ (x + y) * (a * b) \in Int
  BY <1>2
<1>6. Finding!Higher(c, d) /\ ~ Finding!Higher(d, c)
  BY <1>3, <1>4, <1>5 DEF Finding!Higher
<1> QED
  BY <1>6 DEF Finding!Precedes

\* A chunk that may not come after the one at place j is before it.
LEMMA NotAfter ==
    ASSUME Finding!TypeOK, Finding!IsFused(found), NEW c \in Chunks, Finding!Either(c),
           NEW j \in DOMAIN found, c # found[j], ~ Finding!Precedes(found[j], c)
    PROVE  Finding!ReturnedBefore(c, j)
<1>1. Finding!IsIn(c, found)
  BY DEF Finding!IsFused
<1>2. PICK i \in DOMAIN found : found[i] = c
  BY <1>1 DEF Finding!IsIn
<1>3. i \in Int /\ j \in Int /\ 1 <= i
  BY DEF Finding!TypeOK
<1>4. ~ (j < i)
  BY <1>2 DEF Finding!IsFused
<1>5. i # j
  BY <1>2
<1> QED
  BY <1>2, <1>3, <1>4, <1>5 DEF Finding!ReturnedBefore

\* The order of the fusion depends on the two searches alone.
LEMMA OrderStays ==
    ASSUME dense' = dense, keyword' = keyword, NEW s, NEW t, t = s, Finding!IsFused(s)
    PROVE  Finding!IsFused(t)'
<1>1. \A c : Finding!IsIn(c, dense)' = Finding!IsIn(c, dense)
      /\ Finding!IsIn(c, keyword)' = Finding!IsIn(c, keyword)
  BY DEF Finding!IsIn
<1>2. \A c : Finding!RankIn(c, dense)' = Finding!RankIn(c, dense)
      /\ Finding!RankIn(c, keyword)' = Finding!RankIn(c, keyword)
  BY DEF Finding!RankIn
<1>3. \A c : Finding!Either(c)' = Finding!Either(c) /\ Finding!Both(c)' = Finding!Both(c)
  BY <1>1 DEF Finding!Either, Finding!Both
<1>4. \A c : Finding!Score(c)' = Finding!Score(c)
  BY <1>1, <1>2, <1>3 DEF Finding!Score
<1>5. \A c, d : Finding!Precedes(c, d)' = Finding!Precedes(c, d)
  BY <1>1, <1>2, <1>4 DEF Finding!Precedes, Finding!Higher, Finding!SeenBefore
<1> QED
  BY <1>3, <1>5 DEF Finding!IsFused, Finding!IsIn, Finding!IsRanking

\* What is returned as hybrid is the best of the fused ranking.
FusedInv == /\ mode # "none" => pcFind = "end"
            /\ mode = "hybrid" => Finding!IsFused(found)

\* It is so in every reachable state.
LEMMA FusedInvHolds ==
    ASSUME Finding!RetrievalAssumption
    PROVE  Finding!Spec => []FusedInv
<1>1. Finding!Init => FusedInv
  BY DEF Finding!Init, FusedInv
<1>2. ASSUME FusedInv, [Finding!Next]_Finding!vars
      PROVE  FusedInv'
  <2> USE <1>2 DEF FusedInv
  <2>1. CASE Finding!DenseSearch
    BY <2>1 DEF Finding!DenseSearch
  <2>2. CASE Finding!KeywordSearch
    BY <2>2 DEF Finding!KeywordSearch
  <2>3. CASE Finding!Fuse
    <3>1. PICK s \in {r \in Finding!Rankings(TopK) : Finding!IsFused(r)} :
            Finding!Return("hybrid", s)
      BY <2>3 DEF Finding!Fuse
    <3>2. Finding!IsFused(s)'
      BY <3>1, OrderStays DEF Finding!Return
    <3> QED
      BY <3>1, <3>2 DEF Finding!Return
  <2>4. CASE Finding!FallBackToDense
    BY <2>4 DEF Finding!FallBackToDense, Finding!Return
  <2>5. CASE Finding!FallBackToKeyword
    BY <2>5 DEF Finding!FallBackToKeyword, Finding!Return
  <2>6. CASE Finding!OrdinalScan
    BY <2>6 DEF Finding!OrdinalScan, Finding!Return
  <2>7. CASE Finding!ScanRaises
    BY <2>7 DEF Finding!ScanRaises, Finding!Return
  <2>8. CASE UNCHANGED Finding!vars
    BY <2>8, OrderStays DEF Finding!vars
  <2> QED
    BY <1>2, <2>1, <2>2, <2>3, <2>4, <2>5, <2>6, <2>7, <2>8 DEF Finding!Next
<1> QED
  BY <1>1, <1>2, PTL DEF Finding!Spec

\* A chunk that both searches found precedes one that only one of them found:
\* what reciprocal_rank_fusion promises, and why RRF_K has to be large.
THEOREM ConsensusAlwaysWins ==
    ASSUME Finding!RetrievalAssumption, CandidatesAreFew
    PROVE  Finding!Spec => []Finding!ConsensusWins
<1>1. Finding!TypeOK /\ FusedInv => Finding!ConsensusWins
  <2> SUFFICES ASSUME Finding!TypeOK, FusedInv, mode = "hybrid",
                      NEW j \in DOMAIN found, NEW c \in Chunks, Finding!Both(c),
                         ~ Finding!Both(found[j])
               PROVE  Finding!ReturnedBefore(c, j)
    BY DEF Finding!ConsensusWins
  <2>1. Finding!IsFused(found)
    BY DEF FusedInv
  <2>2. Finding!Either(found[j]) /\ Finding!Either(c) /\ c # found[j]
    BY <2>1 DEF Finding!IsFused, Finding!Either, Finding!Both
  <2>3. ~ Finding!Precedes(found[j], c)
    BY <2>2, OneBehindTwo
  <2> QED
    BY <2>1, <2>2, <2>3, NotAfter
<1> QED
  BY <1>1, RetrievalTypes, FusedInvHolds, PTL

\* A chunk that both searches ranked above another precedes it
\* (reciprocal_rank_fusion), whatever RRF_K is.
THEOREM AgreementIsAlwaysKept ==
    ASSUME Finding!RetrievalAssumption
    PROVE  Finding!Spec => []Finding!AgreementIsKept
<1>1. Finding!TypeOK /\ FusedInv => Finding!AgreementIsKept
  <2> SUFFICES ASSUME Finding!TypeOK, FusedInv, mode = "hybrid",
                      NEW j \in DOMAIN found, NEW c \in Chunks, Finding!Both(c),
                         Finding!Both(found[j]),
                      Finding!RankIn(c, dense) < Finding!RankIn(found[j], dense),
                      Finding!RankIn(c, keyword) < Finding!RankIn(found[j], keyword)
               PROVE  Finding!ReturnedBefore(c, j)
    BY DEF Finding!AgreementIsKept
  <2>1. Finding!IsFused(found)
    BY DEF FusedInv
  <2>2. Finding!RankIn(c, dense) \in Nat
    BY RankIsPlace DEF Finding!TypeOK, Finding!Both
  <2>3. Finding!Either(c) /\ c # found[j]
    BY <2>2 DEF Finding!Either, Finding!Both
  <2>4. ~ Finding!Precedes(found[j], c)
    BY LowerBehind
  <2> QED
    BY <2>1, <2>3, <2>4, NotAfter
<1> QED
  BY <1>1, RetrievalTypes, FusedInvHolds, PTL

-----------------------------------------------------------------------------
(* Each part by itself is what its module says.                            *)

\* The settings of the parts.
LEMMA PartSettings ==
    /\ Cutting!SizesAssumption /\ Finding!RetrievalAssumption
    /\ Verifying!EvidenceAssumption /\ Scored!ScoringAssumption
    /\ TakingIn!IntakeAssumption /\ Drafting!DraftAssumption
BY ConstantsAreSensible

\* A retrieval is one of HybridRetriever.retrieve.
LEMMA PartsFind == FairParts => Finding!Spec
<1>1. InitParts => Finding!Init
  BY DEF InitParts
<1>2. [NextParts]_partVars => [Finding!Next]_Finding!vars
  BY DEF NextParts, partVars, findVars, Finding!vars, Extract, Cut, Find, Verify, Score, TakeIn,
         Draft
<1> QED
  BY <1>1, <1>2, PTL DEF FairParts, Finding!Spec

\* A category is extracted as extract_category does it.
LEMMA PartsExtract == FairParts => Spec
<1>1. InitParts => Init
  BY DEF InitParts
<1>2. [NextParts]_partVars => [Next]_vars
  BY DEF NextParts, partVars, Extract, Cut, Find, Verify, Score, TakeIn, Draft
<1> QED
  BY <1>1, <1>2, PTL DEF FairParts, Spec

\* A document is cut as chunk_document does it.
LEMMA PartsCut == FairParts => Cutting!Spec
<1>1. InitParts => Cutting!Init
  BY DEF InitParts
<1>2. [NextParts]_partVars => [Cutting!Next]_Cutting!vars
  BY DEF NextParts, partVars, cutVars, Cutting!vars, Extract, Cut, Find, Verify, Score, TakeIn,
         Draft
<1> QED
  BY <1>1, <1>2, PTL DEF FairParts, Cutting!Spec

\* A file is taken in as parse_upload does it.
LEMMA PartsTakeIn == FairParts => TakingIn!Spec
<1>1. InitParts => TakingIn!Init
  BY DEF InitParts
<1>2. [NextParts]_partVars => [TakingIn!Next]_TakingIn!vars
  BY DEF NextParts, partVars, beginVars, intakeVars, TakingIn!vars, Extract, Cut, Find, Verify,
         Score, TakeIn, Draft
<1> QED
  BY <1>1, <1>2, PTL DEF FairParts, TakingIn!Spec

\* A policy is drafted as normalize_policy_draft does it.
LEMMA PartsDraft == FairParts => Drafting!Spec
<1>1. InitParts => Drafting!Init
  BY DEF InitParts
<1>2. [NextParts]_partVars => [Drafting!Next]_Drafting!vars
  BY DEF NextParts, partVars, beginVars, draftVars, Drafting!vars, Extract, Cut, Find, Verify,
         Score, TakeIn, Draft
<1> QED
  BY <1>1, <1>2, PTL DEF FairParts, Drafting!Spec

\* A finding is scored as score_finding and score_analysis do it.
LEMMA PartsScore == FairParts => Scored!Spec
<1>1. InitParts => Scored!Init
  BY DEF InitParts
<1>2. [NextParts]_partVars => [Scored!Next]_Scored!vars
  BY DEF NextParts, partVars, scoreVars, Scored!vars, Extract, Cut, Find, Verify, Score, TakeIn,
         Draft
<1> QED
  BY <1>1, <1>2, PTL DEF FairParts, Scored!Spec

\* Evidence is verified as verify_evidence does it.
LEMMA PartsVerify == FairParts => Verifying!Spec
<1>1. InitParts => Verifying!Init
  BY DEF InitParts
<1>2. [NextParts]_partVars => [Verifying!Next]_Verifying!vars
  BY DEF NextParts, partVars, verifyVars, Verifying!vars, Extract, Cut, Find, Verify, Score,
         TakeIn, Draft
<1> QED
  BY <1>1, <1>2, PTL DEF FairParts, Verifying!Spec

\* The fused ranking respects both searches (reciprocal_rank_fusion).
THEOREM FusionStaysFair ==
    ASSUME CandidatesAreFew
    PROVE  FairParts => []FusionIsFair
<1>1. Finding!TypeOK /\ Finding!ConsensusWins /\ Finding!AgreementIsKept => FusionIsFair
  BY DEF FusionIsFair, Finding!FusionIsFair
<1>2. Finding!Spec => []Finding!TypeOK /\ []Finding!ConsensusWins /\ []Finding!AgreementIsKept
  BY PartSettings, RetrievalTypes, ConsensusAlwaysWins, AgreementIsAlwaysKept
<1> QED
  BY <1>1, <1>2, PartsFind, PTL

-----------------------------------------------------------------------------
(* Cutting: what ChunkingProofs proves of it alone.                        *)

CuttingProofs == INSTANCE ChunkingProofs WITH pc <- pcCut

\* The text is cut in order, without overlap, without loss and into chunks that
\* fit, whatever the text and the sizes (chunk_document).
THEOREM TextIsCutRightly == FairParts => []CutRightly
<1> DEFINE P == CuttingProofs!TypeOK /\ CuttingProofs!CutRightly
<1>1. CuttingProofs!Spec => []P
  <2>1. CuttingProofs!SizesAssumption
    BY PartSettings DEF Cutting!SizesAssumption, CuttingProofs!SizesAssumption
  <2>2. CuttingProofs!TypeOK /\ CuttingProofs!ChunksInOrder /\ CuttingProofs!NothingIsLost
        /\ CuttingProofs!ChunksFit => P
    BY DEF CuttingProofs!CutRightly
  <2>3. /\ CuttingProofs!Spec => []CuttingProofs!TypeOK
        /\ CuttingProofs!Spec => []CuttingProofs!ChunksInOrder
        /\ CuttingProofs!Spec => []CuttingProofs!NothingIsLost
        /\ CuttingProofs!Spec => []CuttingProofs!ChunksFit
    BY <2>1, CuttingProofs!ChunkTypes, CuttingProofs!ChunksAreInOrder,
       CuttingProofs!ChunksHoldTheText, CuttingProofs!ChunksAreBounded
  <2> HIDE DEF P
  <2> QED
    BY <2>2, <2>3, PTL
<1>2. CuttingProofs!Init <=> Cutting!Init
  BY Zenon
  DEF CuttingProofs!Init, Cutting!Init, CuttingProofs!NoSpan, Cutting!NoSpan
<1>3. CuttingProofs!vars = Cutting!vars
  BY Zenon
  DEF CuttingProofs!vars, Cutting!vars, CuttingProofs!text, Cutting!text
<1>4. CuttingProofs!Next <=> Cutting!Next
  BY Zenon
  DEF CuttingProofs!Next, Cutting!Next, CuttingProofs!SkipBlank, Cutting!SkipBlank,
      CuttingProofs!Clause, Cutting!Clause, CuttingProofs!TakePiece, Cutting!TakePiece,
      CuttingProofs!CutPiece, Cutting!CutPiece, CuttingProofs!EndOfText, Cutting!EndOfText,
      CuttingProofs!Tighten, Cutting!Tighten, CuttingProofs!Return, Cutting!Return,
      CuttingProofs!JoinTail, Cutting!JoinTail, CuttingProofs!Last, Cutting!Last,
      CuttingProofs!NextStart, Cutting!NextStart, CuttingProofs!InkIn, Cutting!InkIn,
      CuttingProofs!Least, Cutting!Least, CuttingProofs!Greatest, Cutting!Greatest,
      CuttingProofs!Stripped, Cutting!Stripped, CuttingProofs!Tokens, Cutting!Tokens,
      CuttingProofs!text, Cutting!text, CuttingProofs!NoSpan, Cutting!NoSpan
<1>5. [Cutting!Next]_Cutting!vars => [CuttingProofs!Next]_CuttingProofs!vars
  BY <1>3, <1>4
  DEF CuttingProofs!vars, Cutting!vars, CuttingProofs!text, Cutting!text
<1>6. P => CutRightly
  BY Zenon
  DEF CutRightly, CuttingProofs!TypeOK, Cutting!TypeOK, CuttingProofs!CutRightly,
      Cutting!CutRightly, CuttingProofs!Span, Cutting!Span, CuttingProofs!ChunksInOrder,
      Cutting!ChunksInOrder, CuttingProofs!NothingIsLost, Cutting!NothingIsLost,
      CuttingProofs!ChunksFit, Cutting!ChunksFit, CuttingProofs!Tokens, Cutting!Tokens
<1> HIDE DEF P
<1> QED
  BY <1>1, <1>2, <1>5, <1>6, PartsCut, PTL DEF Cutting!Spec, CuttingProofs!Spec

-----------------------------------------------------------------------------
(* Intake: what a verdict says of the file.                                *)

\* The bytes of a text are a number, and no more than two for each character.
LEMMA TextIsMeasured ==
    ASSUME NEW t \in Seq(TakingIn!Units)
    PROVE  TakingIn!Bytes(t) \in Len(t) .. 2 * Len(t)
<1> DEFINE W == {i \in DOMAIN t : t[i] = "wide"}
<1>1. TakingIn!Cardinality(W) = Cardinality(W)
  BY Zenon DEF TakingIn!Cardinality, Cardinality, TakingIn!IsFiniteSet, IsFiniteSet
<1>2. Len(t) \in Nat /\ W \in SUBSET (1 .. Len(t))
  OBVIOUS
<1>3. IsFiniteSet(1 .. Len(t)) /\ Cardinality(1 .. Len(t)) = Len(t)
  <2>1. IsFiniteSet(1 .. Len(t))
        /\ Cardinality(1 .. Len(t)) = IF 1 > Len(t) THEN 0 ELSE Len(t) - 1 + 1
    BY <1>2, FS_Interval
  <2> QED
    BY <1>2, <2>1
<1> HIDE DEF W
<1>4. Cardinality(W) \in Nat /\ Cardinality(W) <= Len(t)
  BY <1>2, <1>3, FS_Subset, FS_CardinalityType
<1>5. TakingIn!Bytes(t) = Len(t) + Cardinality(W)
  BY <1>1 DEF TakingIn!Bytes, W
<1> QED
  BY <1>2, <1>4, <1>5

\* The lengths of a text and of its beginnings, and what it can be read as.
LEMMA TextSizes ==
    ASSUME NEW t \in TakingIn!BoundedSeq(TakingIn!Units, MaxUnits)
    PROVE  /\ t \in Seq(TakingIn!Units) /\ Len(t) \in 0 .. MaxUnits
           /\ TakingIn!Bytes(t) \in 0 .. 2 * MaxUnits
           /\ \A i \in DOMAIN t : TakingIn!Offset(t, i) \in Nat
           /\ TakingIn!Decodings(t) \subseteq 0 .. 2 * MaxUnits
<1>1. MaxUnits \in Nat
  BY PartSettings DEF TakingIn!IntakeAssumption
<1>2. PICK m \in 0 .. MaxUnits : t \in [1 .. m -> TakingIn!Units]
  BY DEF TakingIn!BoundedSeq, TakingIn!SeqOf
<1>3. t \in Seq(TakingIn!Units) /\ Len(t) = m
  BY <1>1, <1>2
<1>4. TakingIn!Bytes(t) \in m .. 2 * m
  BY <1>3, TextIsMeasured
<1>5. ASSUME NEW i \in DOMAIN t
      PROVE  TakingIn!Offset(t, i) \in Nat
  <2> DEFINE s == SubSeq(t, 1, i - 1)
  <2>1. s \in Seq(TakingIn!Units)
    BY <1>3
  <2> HIDE DEF s
  <2>2. TakingIn!Bytes(s) \in Len(s) .. 2 * Len(s) /\ Len(s) \in Nat
    BY <2>1, TextIsMeasured
  <2>3. TakingIn!Bytes(s) \in Nat
    BY <2>2
  <2> QED
    BY <2>3 DEF TakingIn!Offset, s
<1>6. ASSUME NEW c \in TakingIn!Decodings(t)
      PROVE  c \in 0 .. 2 * MaxUnits
  <2> DEFINE b == TakingIn!Bytes(t)
  <2>1. c \in {m, b, b \div 2}
    BY <1>3 DEF TakingIn!Decodings
  <2> HIDE DEF b
  <2>2. b \in m .. 2 * m
    BY <1>4 DEF b
  <2> QED
    BY <1>1, <1>2, <2>1, <2>2
<1> QED
  BY <1>1, <1>2, <1>3, <1>4, <1>5, <1>6

\* What is long enough and not too long has at least one page.
LEMMA PagesAreSome ==
    ASSUME NEW c \in Nat
    PROVE  /\ TakingIn!Estimated(c) \in Nat /\ 1 <= TakingIn!Estimated(c)
           /\ TakingIn!LengthError(c) \in {"EmptyDocument", "TOO_MANY_PAGES", "accepted"}
           /\ TakingIn!LengthError(c) = "accepted" =>
                MIN_TOTAL_CHARS <= c /\ TakingIn!Estimated(c) <= max_pages
<1> DEFINE d == CHARS_PER_PAGE
           q == c \div d
<1>1. d \in Nat /\ d > 0 /\ max_pages \in Nat /\ MIN_TOTAL_CHARS \in Nat
  BY PartSettings DEF TakingIn!IntakeAssumption
<1>2. q \in Int /\ q * d <= c /\ c < q * d + d
  BY <1>1
<1> HIDE DEF q
<1>3. q <= 0 => q * d <= 0
  BY <1>1, <1>2
<1>4. c >= d => q >= 1
  BY <1>1, <1>2, <1>3
<1>5. TakingIn!Estimated(c) = IF c < d THEN 1 ELSE q
  BY DEF TakingIn!Estimated, q
<1>6. TakingIn!Estimated(c) \in Nat /\ 1 <= TakingIn!Estimated(c)
  BY <1>1, <1>2, <1>4, <1>5
<1>7. /\ TakingIn!LengthError(c) \in {"EmptyDocument", "TOO_MANY_PAGES", "accepted"}
      /\ TakingIn!LengthError(c) = "accepted" =>
            ~ (c < MIN_TOTAL_CHARS) /\ ~ (TakingIn!Estimated(c) > max_pages)
  BY Zenon DEF TakingIn!LengthError
<1> QED
  BY <1>1, <1>6, <1>7

\* So much text was read, and the verdict is that of its length.
ReadAs(chars) ==
    /\ verdict = TakingIn!LengthError(chars)
    /\ verdict = "accepted" => parsed = [chars |-> chars, pages |-> TakingIn!Estimated(chars)]

\* Why a file was refused before its type was known.
RefusedUnread ==
    /\ verdict \in {"open", "FileTooLarge", "EmptyDocument", "UnsupportedMediaType"}
    /\ verdict \in {"FileTooLarge", "EmptyDocument"} => ~ TakingIn!InSize
    /\ verdict = "UnsupportedMediaType" => TakingIn!SniffedAs = "unknown"

\* What the type says of the file, and the verdict of what was read as that type.
IntakeInv ==
    /\ verdict # "accepted" => parsed = TakingIn!Nothing
    /\ type = "unknown" => file.kind # "paste" /\ RefusedUnread
    /\ type \in {"pdf", "docx", "txt"} => TakingIn!InSize
    /\ type = "paste" => file.kind = "paste" /\ (verdict # "open" => ReadAs(file.chars))
    /\ type = "txt" =>
          /\ file.kind = "text" /\ TakingIn!HeadIsText(file.text)
          /\ verdict # "open" => \E chars \in TakingIn!Decodings(file.text) : ReadAs(chars)
    /\ type = "docx" =>
          /\ file.kind = "zip"
          /\ verdict # "open" => verdict = TakingIn!DocxError
          /\ verdict = "accepted" =>
                parsed = [chars |-> file.chars, pages |-> TakingIn!Estimated(file.chars)]
    /\ type = "pdf" =>
          /\ file.kind = "pdf"
          /\ verdict # "open" => verdict = TakingIn!PdfError
          /\ verdict = "accepted" => parsed = [chars |-> file.chars, pages |-> file.pages]

\* What is read of a file does not change.
LEMMA FileStays ==
    ASSUME file' = file
    PROVE  /\ TakingIn!InSize' = TakingIn!InSize
           /\ TakingIn!SniffedAs' = TakingIn!SniffedAs
           /\ TakingIn!PdfError' = TakingIn!PdfError
           /\ TakingIn!DocxError' = TakingIn!DocxError
<1>1. TakingIn!Size' = TakingIn!Size
  BY Zenon DEF TakingIn!Size
<1>2. TakingIn!InSize' = TakingIn!InSize
  BY <1>1, Zenon DEF TakingIn!InSize
<1>3. TakingIn!SniffedAs' = TakingIn!SniffedAs
  BY Zenon DEF TakingIn!SniffedAs
<1>4. TakingIn!PdfError' = TakingIn!PdfError
  BY Zenon DEF TakingIn!PdfError
<1>5. TakingIn!DocxError' = TakingIn!DocxError
  BY Zenon DEF TakingIn!DocxError
<1> QED
  BY <1>2, <1>3, <1>4, <1>5

\* The verdicts on what is read.
LEMMA Verdicts ==
    /\ TakingIn!PdfError \in {"Unprocessable", "EncryptedDocument", "error", "EmptyDocument",
                             "TOO_MANY_PAGES", "ScannedDocument", "accepted"}
    /\ TakingIn!DocxError \in
         {"SUSPICIOUS_ARCHIVE", "Unprocessable", TakingIn!LengthError(file.chars)}
<1>1. TakingIn!PdfError \in {"Unprocessable", "EncryptedDocument", "error", "EmptyDocument",
                             "TOO_MANY_PAGES", "ScannedDocument", "accepted"}
  BY Zenon DEF TakingIn!PdfError
<1>2. TakingIn!DocxError \in
        {"SUSPICIOUS_ARCHIVE", "Unprocessable", TakingIn!LengthError(file.chars)}
  BY Zenon DEF TakingIn!DocxError
<1> QED
  BY <1>1, <1>2

\* What a file is.
LEMMA FileKinds ==
    ASSUME TakingIn!TypeOK
    PROVE  /\ file.kind \in {"text", "paste", "pdf", "zip"}
           /\ file.kind = "text" => file.text \in TakingIn!BoundedSeq(TakingIn!Units, MaxUnits)
           /\ file.kind \in {"paste", "pdf", "zip"} => file.chars \in 0 .. MaxChars
           /\ file.kind = "pdf" => file.pages \in 0 .. max_pages + 1
           /\ file.kind = "zip" => /\ file.compressed \in 1 .. 2
                                   /\ file.decompressed \in 0 .. MAX_DECOMPRESSED_BYTES + 1
<1>1. \/ file \in TakingIn!TextFiles \/ file \in TakingIn!Pastes
      \/ file \in TakingIn!PdfFiles \/ file \in TakingIn!ZipFiles
  BY DEF TakingIn!TypeOK
<1>2. CASE file \in TakingIn!TextFiles
  BY <1>2 DEF TakingIn!TextFiles
<1>3. CASE file \in TakingIn!Pastes
  BY <1>3 DEF TakingIn!Pastes
<1>4. CASE file \in TakingIn!PdfFiles
  BY <1>4 DEF TakingIn!PdfFiles
<1>5. CASE file \in TakingIn!ZipFiles
  BY <1>5 DEF TakingIn!ZipFiles
<1> QED
  BY <1>1, <1>2, <1>3, <1>4, <1>5

\* What a file is taken for is what its content says.
LEMMA SniffedRightly ==
    ASSUME TakingIn!TypeOK, file.kind # "paste"
    PROVE  /\ TakingIn!SniffedAs \in {"unknown", "pdf", "docx", "txt"}
           /\ TakingIn!SniffedAs = "pdf" => file.kind = "pdf"
           /\ TakingIn!SniffedAs = "docx" => file.kind = "zip"
           /\ TakingIn!SniffedAs = "txt" => file.kind = "text" /\ TakingIn!HeadIsText(file.text)
           /\ TakingIn!SniffedAs = "unknown" /\ file.kind = "text" =>
                ~ TakingIn!HeadIsText(file.text)
<1>1. file.kind \in {"text", "pdf", "zip"}
  BY FileKinds
<1>2. CASE file.kind = "text"
  <2>1. TakingIn!SniffedAs = IF TakingIn!HeadIsText(file.text) THEN "txt" ELSE "unknown"
    BY <1>2 DEF TakingIn!SniffedAs
  <2> QED
    BY <1>2, <2>1
<1>3. CASE file.kind = "pdf"
  BY <1>3 DEF TakingIn!SniffedAs
<1>4. CASE file.kind = "zip"
  <2>1. TakingIn!SniffedAs = IF file.whole /\ file.word THEN "docx" ELSE "unknown"
    BY <1>4 DEF TakingIn!SniffedAs
  <2> QED
    BY <1>4, <2>1
<1> QED
  BY <1>1, <1>2, <1>3, <1>4

\* What is decided of a text of some length keeps the types, and is final.
LEMMA DecidedTypes ==
    ASSUME TakingIn!TypeOK, NEW e, NEW c \in Nat, c <= 2 * MaxUnits + MaxChars, NEW p \in Nat,
           e \in {"accepted", "FileTooLarge", "EmptyDocument", "UnsupportedMediaType",
                  "Unprocessable", "EncryptedDocument", "ScannedDocument", "SUSPICIOUS_ARCHIVE",
                  "TOO_MANY_PAGES", "error"},
           TakingIn!Decided(e, c, p)
    PROVE  TakingIn!TypeOK' /\ verdict' # "open"
<1> DEFINE N == 2 * MaxUnits + MaxChars
<1>1. c \in 0 .. N
  BY PartSettings DEF TakingIn!IntakeAssumption
<1> HIDE DEF N
<1>2. parsed'.chars \in 0 .. N /\ parsed'.pages \in Nat
  <2>1. parsed' = [chars |-> c, pages |-> p] \/ parsed' = parsed
    BY DEF TakingIn!Decided
  <2>2. parsed.chars \in 0 .. N /\ parsed.pages \in Nat
    BY DEF TakingIn!TypeOK, N
  <2> QED
    BY <1>1, <2>1, <2>2
<1>3. verdict' = e /\ file' = file /\ type' = type
  BY DEF TakingIn!Decided
<1>4. TakingIn!TypeOK'
  BY <1>2, <1>3, Zenon DEF TakingIn!TypeOK, N
<1> QED
  BY <1>3, <1>4

\* Every step of the intake keeps the types and the invariant.
LEMMA IntakeStep ==
    ASSUME TakingIn!TypeOK, IntakeInv, TakingIn!Next
    PROVE  TakingIn!TypeOK' /\ IntakeInv'
<1>1. MaxUnits \in Nat /\ MaxChars \in Nat /\ max_pages \in Nat
  BY PartSettings DEF TakingIn!IntakeAssumption
<1>2. file' = file
  BY DEF TakingIn!Next, TakingIn!RefuseSize, TakingIn!SniffFileType, TakingIn!Refuse,
         TakingIn!ParsePdf, TakingIn!ParseDocx, TakingIn!ParseTxt, TakingIn!ParsePlainText,
         TakingIn!Decided
<1>3. CASE TakingIn!RefuseSize
  <2>1. /\ type = "unknown" /\ type' = type /\ parsed' = parsed
        /\ verdict = "open" /\ verdict' \in {"FileTooLarge", "EmptyDocument"}
    BY <1>3 DEF TakingIn!RefuseSize, TakingIn!Refuse
  <2>2. ~ TakingIn!InSize
    BY <1>3, PartSettings
    DEF TakingIn!RefuseSize, TakingIn!InSize, TakingIn!IntakeAssumption
  <2>3. TakingIn!TypeOK'
    BY <1>2, <2>1, Zenon DEF TakingIn!TypeOK
  <2>4. IntakeInv'
    BY <1>2, <2>1, <2>2, FileStays DEF IntakeInv, RefusedUnread, TakingIn!Nothing
  <2> QED
    BY <2>3, <2>4
<1>4. CASE TakingIn!SniffFileType
  <2>1. /\ type = "unknown" /\ verdict = "open" /\ TakingIn!InSize /\ file.kind # "paste"
        /\ parsed' = parsed /\ parsed = TakingIn!Nothing
    BY <1>4 DEF TakingIn!SniffFileType, TakingIn!Refuse, IntakeInv
  <2>2. CASE TakingIn!SniffedAs = "unknown"
    <3>1. type' = type /\ verdict' = "UnsupportedMediaType"
      BY <1>4, <2>2 DEF TakingIn!SniffFileType, TakingIn!Refuse
    <3>2. TakingIn!TypeOK'
      BY <1>2, <2>1, <3>1, Zenon DEF TakingIn!TypeOK
    <3>3. IntakeInv'
      BY <1>2, <2>1, <2>2, <3>1, FileStays DEF IntakeInv, RefusedUnread, TakingIn!Nothing
    <3> QED
      BY <3>2, <3>3
  <2>3. CASE TakingIn!SniffedAs # "unknown"
    <3>1. type' = TakingIn!SniffedAs /\ verdict' = verdict
      BY <1>4, <2>3 DEF TakingIn!SniffFileType
    <3>2. type' \in {"pdf", "docx", "txt"}
      BY <2>1, <2>3, <3>1, SniffedRightly
    <3>3. TakingIn!TypeOK'
      BY <1>2, <2>1, <3>1, <3>2, Zenon DEF TakingIn!TypeOK
    <3>4. IntakeInv'
      BY <1>2, <2>1, <3>1, <3>2, FileStays, SniffedRightly DEF IntakeInv, TakingIn!Nothing
    <3> QED
      BY <3>3, <3>4
  <2> QED
    BY <2>2, <2>3
<1>5. CASE TakingIn!ParsePdf
  <2> DEFINE e == TakingIn!PdfError
             c == file.chars
             p == file.pages
  <2>1. type = "pdf" /\ TakingIn!Decided(e, c, p) /\ file.kind = "pdf" /\ TakingIn!InSize
    BY <1>5 DEF TakingIn!ParsePdf, IntakeInv
  <2>2. c \in Nat /\ c <= 2 * MaxUnits + MaxChars /\ p \in Nat
    BY <1>1, <2>1, FileKinds
  <2>3. TakingIn!TypeOK' /\ verdict' # "open"
    BY <2>1, <2>2, Verdicts, DecidedTypes
  <2>4. /\ type' = type /\ verdict' = e
        /\ parsed' = IF e = "accepted" THEN [chars |-> c, pages |-> p] ELSE parsed
        /\ parsed = TakingIn!Nothing
    BY <1>5, <2>1 DEF TakingIn!Decided, TakingIn!ParsePdf, IntakeInv
  <2>5. IntakeInv'
    BY <1>2, <2>1, <2>4, FileStays DEF IntakeInv, TakingIn!Nothing
  <2> QED
    BY <2>3, <2>5
<1>6. CASE TakingIn!ParseDocx
  <2> DEFINE e == TakingIn!DocxError
             c == file.chars
             p == TakingIn!Estimated(file.chars)
  <2>1. type = "docx" /\ TakingIn!Decided(e, c, p) /\ file.kind = "zip" /\ TakingIn!InSize
    BY <1>6 DEF TakingIn!ParseDocx, IntakeInv
  <2>2. c \in Nat /\ c <= 2 * MaxUnits + MaxChars
    BY <1>1, <2>1, FileKinds
  <2>3. p \in Nat /\ TakingIn!LengthError(c) \in {"EmptyDocument", "TOO_MANY_PAGES", "accepted"}
    BY <2>2, PagesAreSome
  <2>4. e \in {"SUSPICIOUS_ARCHIVE", "Unprocessable", "EmptyDocument", "TOO_MANY_PAGES", "accepted"}
    BY <2>3, Verdicts
  <2> HIDE DEF e, p
  <2>5. TakingIn!TypeOK' /\ verdict' # "open"
    BY <2>1, <2>2, <2>3, <2>4, DecidedTypes
  <2>6. /\ type' = type /\ verdict' = e
        /\ parsed' = IF e = "accepted" THEN [chars |-> c, pages |-> p] ELSE parsed
        /\ parsed = TakingIn!Nothing
    BY <1>6, <2>1 DEF TakingIn!Decided, TakingIn!ParseDocx, IntakeInv
  <2>7. p' = p
    BY <1>2 DEF p, TakingIn!Estimated
  <2>8. IntakeInv'
    BY <1>2, <2>1, <2>6, <2>7, FileStays DEF IntakeInv, TakingIn!Nothing, e, p
  <2> QED
    BY <2>5, <2>8
<1>7. ASSUME NEW c \in Nat, c <= 2 * MaxUnits + MaxChars, type \in {"txt", "paste"},
             verdict = "open",
             TakingIn!Decided(TakingIn!LengthError(c), c, TakingIn!Estimated(c))
      PROVE  TakingIn!TypeOK' /\ type' = type /\ ReadAs(c)' /\ verdict' # "open"
             /\ (verdict' # "accepted" => parsed' = TakingIn!Nothing')
  <2> DEFINE e == TakingIn!LengthError(c)
             p == TakingIn!Estimated(c)
  <2>1. p \in Nat /\ e \in {"EmptyDocument", "TOO_MANY_PAGES", "accepted"}
    BY PagesAreSome
  <2>2. TakingIn!TypeOK' /\ verdict' # "open"
    BY <1>7, <2>1, DecidedTypes
  <2>3. e' = e /\ p' = p
    BY DEF TakingIn!LengthError, TakingIn!Estimated
  <2>4. /\ type' = type /\ verdict' = e
        /\ parsed' = IF e = "accepted" THEN [chars |-> c, pages |-> p] ELSE parsed
        /\ parsed = TakingIn!Nothing
    BY <1>7 DEF TakingIn!Decided, IntakeInv
  <2> HIDE DEF e, p
  <2>5. ReadAs(c)'
    BY <2>3, <2>4 DEF ReadAs, e, p
  <2> QED
    BY <2>2, <2>4, <2>5 DEF TakingIn!Nothing
<1>8. CASE TakingIn!ParseTxt
  <2>1. PICK c \in TakingIn!Decodings(file.text) :
               TakingIn!Decided(TakingIn!LengthError(c), c, TakingIn!Estimated(c))
    BY <1>8 DEF TakingIn!ParseTxt
  <2>2. /\ type = "txt" /\ verdict = "open" /\ file.kind = "text" /\ TakingIn!InSize
        /\ TakingIn!HeadIsText(file.text)
    BY <1>8 DEF TakingIn!ParseTxt, IntakeInv
  <2>3. c \in Nat /\ c <= 2 * MaxUnits + MaxChars
    BY <1>1, <2>2, FileKinds, TextSizes
  <2>4. /\ TakingIn!TypeOK' /\ type' = type /\ ReadAs(c)' /\ verdict' # "open"
        /\ verdict' # "accepted" => parsed' = TakingIn!Nothing'
    BY <1>7, <2>1, <2>2, <2>3
  <2>5. c \in TakingIn!Decodings(file.text)' /\ TakingIn!HeadIsText(file.text)'
    BY <1>2, <2>2, Zenon
  <2>6. IntakeInv'
    BY <1>2, <2>2, <2>4, <2>5, FileStays DEF IntakeInv
  <2> QED
    BY <2>4, <2>6
<1>9. CASE TakingIn!ParsePlainText
  <2>1. type = "paste" /\ verdict = "open" /\ file.kind = "paste"
    BY <1>9 DEF TakingIn!ParsePlainText, IntakeInv
  <2>2. file.chars \in 0 .. MaxChars
    BY <2>1, FileKinds
  <2>3. PICK c \in 0 .. MaxChars : c = file.chars
    BY <2>2
  <2>4. TakingIn!Decided(TakingIn!LengthError(c), c, TakingIn!Estimated(c))
    BY <1>9, <2>3 DEF TakingIn!ParsePlainText
  <2>5. /\ TakingIn!TypeOK' /\ type' = type /\ ReadAs(c)' /\ verdict' # "open"
        /\ verdict' # "accepted" => parsed' = TakingIn!Nothing'
    BY <1>1, <1>7, <2>1, <2>4
  <2>6. IntakeInv'
    BY <1>2, <2>1, <2>3, <2>5 DEF IntakeInv
  <2> QED
    BY <2>5, <2>6
<1> QED
  BY <1>3, <1>4, <1>5, <1>6, <1>8, <1>9 DEF TakingIn!Next

\* It holds before anything is read, and ever after.
LEMMA IntakeInvHolds == TakingIn!Spec => [](TakingIn!TypeOK /\ IntakeInv)
<1>1. TakingIn!Init => TakingIn!TypeOK /\ IntakeInv
  <2> SUFFICES ASSUME TakingIn!Init
               PROVE  TakingIn!TypeOK /\ IntakeInv
    OBVIOUS
  <2>1. MaxUnits \in Nat /\ MaxChars \in Nat
    BY PartSettings DEF TakingIn!IntakeAssumption
  <2>2. parsed.chars = 0 /\ parsed.pages = 0 /\ parsed = TakingIn!Nothing /\ verdict = "open"
    BY DEF TakingIn!Init, TakingIn!Nothing
  <2>3. 0 \in 0 .. 2 * MaxUnits + MaxChars /\ 0 \in Nat
    BY <2>1
  <2>4. TakingIn!TypeOK
    BY <2>2, <2>3, Zenon DEF TakingIn!Init, TakingIn!TypeOK
  <2>5. \/ type = "unknown" /\ file.kind # "paste"
        \/ type = "paste" /\ file.kind = "paste"
    BY DEF TakingIn!Init, TakingIn!TextFiles, TakingIn!Pastes, TakingIn!PdfFiles, TakingIn!ZipFiles
  <2>6. IntakeInv
    BY <2>2, <2>5 DEF IntakeInv, RefusedUnread
  <2> QED
    BY <2>4, <2>6
<1>2. TakingIn!TypeOK /\ IntakeInv /\ [TakingIn!Next]_TakingIn!vars =>
        TakingIn!TypeOK' /\ IntakeInv'
  <2>1. ASSUME TakingIn!TypeOK, IntakeInv, UNCHANGED TakingIn!vars
        PROVE  TakingIn!TypeOK' /\ IntakeInv'
    <3>1. file' = file /\ type' = type /\ parsed' = parsed /\ verdict' = verdict
      BY <2>1 DEF TakingIn!vars
    <3>2. TakingIn!TypeOK'
      BY <2>1, <3>1, Zenon DEF TakingIn!TypeOK
    <3>3. IntakeInv'
      BY <2>1, <3>1, FileStays DEF IntakeInv, RefusedUnread, ReadAs, TakingIn!Nothing
    <3> QED
      BY <3>2, <3>3
  <2> QED
    BY <2>1, IntakeStep
<1> QED
  BY <1>1, <1>2, PTL DEF TakingIn!Spec

\* What is accepted can be analyzed.
LEMMA AcceptedCanBeAnalyzed ==
    ASSUME TakingIn!TypeOK, IntakeInv
    PROVE  TakingIn!AcceptedIsAnalyzable
<1> SUFFICES ASSUME verdict = "accepted"
             PROVE  /\ parsed.chars >= MIN_TOTAL_CHARS /\ parsed.pages \in 1 .. max_pages
                    /\ type # "paste" => TakingIn!InSize
                    /\ type = "pdf" => parsed.chars >= MIN_CHARS_PER_PAGE * parsed.pages
                    /\ type = "docx" =>
                         file.decompressed <= MAX_DECOMPRESSION_RATIO * file.compressed
  BY DEF TakingIn!AcceptedIsAnalyzable
<1>1. /\ max_pages \in Nat /\ MIN_TOTAL_CHARS \in Nat /\ MIN_CHARS_PER_PAGE \in Nat
      /\ MAX_DECOMPRESSION_RATIO \in Nat /\ MAX_DECOMPRESSED_BYTES \in Nat
      /\ MaxUnits \in Nat /\ MaxChars \in Nat
  BY PartSettings DEF TakingIn!IntakeAssumption
<1>2. type # "unknown"
  BY DEF IntakeInv, RefusedUnread
<1>3. type \in {"pdf", "docx", "txt", "paste"}
  BY <1>2 DEF TakingIn!TypeOK
<1>4. ASSUME NEW c \in Nat, TakingIn!LengthError(c) = "accepted",
             parsed = [chars |-> c, pages |-> TakingIn!Estimated(c)]
      PROVE  parsed.chars >= MIN_TOTAL_CHARS /\ parsed.pages \in 1 .. max_pages
  BY <1>1, <1>4, PagesAreSome
<1>5. CASE type = "pdf"
  <2>1. /\ TakingIn!PdfError = "accepted" /\ file.kind = "pdf"
        /\ parsed = [chars |-> file.chars, pages |-> file.pages] /\ TakingIn!InSize
    BY <1>5 DEF IntakeInv
  <2>2. /\ file.pages # 0 /\ ~ (file.pages > max_pages) /\ ~ (file.chars < MIN_TOTAL_CHARS)
        /\ ~ (file.chars < MIN_CHARS_PER_PAGE * file.pages)
    BY <2>1, Zenon DEF TakingIn!PdfError
  <2>3. file.chars \in Nat /\ file.pages \in Nat
    BY <1>1, <2>1, FileKinds
  <2>4. MIN_CHARS_PER_PAGE * file.pages \in Nat
    BY <1>1, <2>3
  <2> QED
    BY <1>1, <1>5, <2>1, <2>2, <2>3, <2>4
<1>6. CASE type = "docx"
  <2>1. /\ TakingIn!DocxError = "accepted" /\ file.kind = "zip" /\ TakingIn!InSize
        /\ parsed = [chars |-> file.chars, pages |-> TakingIn!Estimated(file.chars)]
    BY <1>6 DEF IntakeInv
  <2>2. /\ ~ (file.decompressed > MAX_DECOMPRESSION_RATIO * file.compressed)
        /\ TakingIn!LengthError(file.chars) = "accepted"
    BY <2>1, Zenon DEF TakingIn!DocxError
  <2>3. file.chars \in Nat /\ file.decompressed \in Nat /\ file.compressed \in Nat
    BY <1>1, <2>1, FileKinds
  <2>4. MAX_DECOMPRESSION_RATIO * file.compressed \in Nat
    BY <1>1, <2>3
  <2>5. file.decompressed <= MAX_DECOMPRESSION_RATIO * file.compressed
    BY <2>2, <2>3, <2>4
  <2> QED
    BY <1>4, <1>6, <2>1, <2>2, <2>3, <2>5
<1>7. CASE type = "txt"
  <2>1. TakingIn!InSize /\ file.kind = "text"
    BY <1>7 DEF IntakeInv
  <2>2. PICK c \in TakingIn!Decodings(file.text) : ReadAs(c)
    BY <1>7 DEF IntakeInv
  <2>3. c \in Nat
    BY <1>1, <2>1, FileKinds, TextSizes
  <2> QED
    BY <1>4, <1>7, <2>1, <2>2, <2>3 DEF ReadAs
<1>8. CASE type = "paste"
  <2>1. file.kind = "paste" /\ ReadAs(file.chars)
    BY <1>8 DEF IntakeInv
  <2>2. file.chars \in Nat
    BY <1>1, <2>1, FileKinds
  <2> QED
    BY <1>4, <1>8, <2>1, <2>2 DEF ReadAs
<1> QED
  BY <1>3, <1>5, <1>6, <1>7, <1>8

\* A well-formed text is read as it is, but for the seam of the sniffing.
LEMMA TextIsRead ==
    ASSUME TakingIn!TypeOK, IntakeInv
    PROVE  TakingIn!TextIsReadAsItIs
<1> SUFFICES ASSUME file.kind = "text", verdict # "open"
             PROVE  LET t == file.text
                        bad == {i \in DOMAIN t : t[i] = "bad"}
                    IN  /\ bad = {} /\ TakingIn!InSize /\ TakingIn!LengthError(Len(t)) = "accepted"
                             => IF TakingIn!Straddles(t) THEN verdict = "UnsupportedMediaType"
                                ELSE verdict = "accepted" /\ parsed.chars = Len(t)
                        /\ verdict = "accepted" =>
                             \A i \in bad : TakingIn!Offset(t, i) >= SNIFFED
  BY DEF TakingIn!TextIsReadAsItIs
<1> DEFINE t == file.text
           bad == {i \in DOMAIN t : t[i] = "bad"}
<1>1. SNIFFED \in Nat
  BY PartSettings DEF TakingIn!IntakeAssumption
<1>2. /\ t \in Seq(TakingIn!Units)
      /\ \A i \in DOMAIN t : TakingIn!Offset(t, i) \in Nat
  BY FileKinds, TextSizes
<1>3. type \in {"unknown", "txt"}
  BY DEF IntakeInv, TakingIn!TypeOK
<1>4. \A i \in DOMAIN t : TakingIn!Width(t[i]) \in Nat
  BY DEF TakingIn!Width
<1>5. ASSUME bad = {}, ~ TakingIn!HeadIsText(t)
      PROVE  TakingIn!Straddles(t)
  <2>1. PICK i \in DOMAIN t : /\ TakingIn!Offset(t, i) < SNIFFED
                              /\ ~ (/\ t[i] # "bad"
                                    /\ TakingIn!Offset(t, i) + TakingIn!Width(t[i]) <= SNIFFED)
    BY <1>5 DEF TakingIn!HeadIsText
  <2>2. t[i] # "bad"
    BY <1>5
  <2>3. TakingIn!Offset(t, i) + TakingIn!Width(t[i]) > SNIFFED
    BY <1>1, <1>2, <1>4, <2>1, <2>2
  <2> QED
    BY <2>1, <2>3 DEF TakingIn!Straddles
<1>6. ASSUME TakingIn!HeadIsText(t)
      PROVE  ~ TakingIn!Straddles(t)
  BY <1>1, <1>2, <1>4, <1>6 DEF TakingIn!HeadIsText, TakingIn!Straddles
<1>7. CASE type = "unknown"
  <2>1. /\ verdict \in {"FileTooLarge", "EmptyDocument", "UnsupportedMediaType"}
        /\ verdict \in {"FileTooLarge", "EmptyDocument"} => ~ TakingIn!InSize
        /\ verdict = "UnsupportedMediaType" => TakingIn!SniffedAs = "unknown"
    BY <1>7 DEF IntakeInv, RefusedUnread
  <2>2. TakingIn!SniffedAs = "unknown" => ~ TakingIn!HeadIsText(t)
    BY SniffedRightly
  <2> QED
    BY <1>5, <2>1, <2>2
<1>8. CASE type = "txt"
  <2>1. TakingIn!InSize /\ TakingIn!HeadIsText(t)
    BY <1>8 DEF IntakeInv
  <2>2. PICK c \in TakingIn!Decodings(t) : ReadAs(c)
    BY <1>8 DEF IntakeInv
  <2>3. bad = {} => c = Len(t)
    <3>1. bad = {} => \A i \in DOMAIN t : t[i] # "bad"
      OBVIOUS
    <3> QED
      BY <2>2, <3>1 DEF TakingIn!Decodings
  <2>4. bad = {} /\ TakingIn!LengthError(Len(t)) = "accepted" =>
          verdict = "accepted" /\ parsed.chars = Len(t)
    BY <2>2, <2>3 DEF ReadAs
  <2>5. \A i \in bad : TakingIn!Offset(t, i) >= SNIFFED
    BY <1>1, <1>2, <2>1 DEF TakingIn!HeadIsText
  <2> QED
    BY <1>6, <2>1, <2>4, <2>5
<1> QED
  BY <1>3, <1>7, <1>8

\* An upload or a paste is accepted exactly if there is something to analyze in it
\* that can be read, one seam of the sniffing apart (parse_upload).
THEOREM IntakeStaysSound == FairParts => []IntakeIsSound
<1>1. TakingIn!TypeOK /\ IntakeInv => IntakeIsSound
  BY AcceptedCanBeAnalyzed, TextIsRead DEF IntakeIsSound, TakingIn!IntakeIsSound
<1> QED
  BY <1>1, IntakeInvHolds, PartsTakeIn, PTL

-----------------------------------------------------------------------------
(* The draft of a policy: slugs and suffixes.                              *)

Underscore == "_"

\* What a category is, and what it is not made of.
LEMMA SlugSettings ==
    /\ MaxSlug \in Nat /\ MaxSlug > 3 /\ MinRules \in Nat /\ MaxRules \in Nat
    /\ MaxProposed \in Nat /\ MaxProposed < 99 /\ 0 < MinRules /\ MinRules <= MaxRules
    /\ Underscore \in Drafting!SlugChars /\ Underscore \notin MCLetters
    /\ Drafting!Digits \subseteq Drafting!SlugChars /\ Underscore \notin Drafting!Digits
    /\ \A t \in MCTexts : IsFiniteSet(DOMAIN t) /\ DOMAIN t \subseteq Nat
    /\ Drafting!Category(MCDefaultSlug) /\ MCDefaultSlug \in Seq(Drafting!SlugChars)
    /\ Drafting!Category(MCRiskPrefix) /\ MCRiskPrefix \in Seq(Drafting!SlugChars)
<1>1. /\ MaxSlug \in Nat /\ MaxSlug > 3 /\ MinRules \in Nat /\ MaxRules \in Nat
      /\ MaxProposed \in Nat /\ MaxProposed < 99 /\ 0 < MinRules /\ MinRules <= MaxRules
      /\ MCTexts \subseteq Seq(STRING)
      /\ Drafting!Category(MCDefaultSlug) /\ Drafting!Category(MCRiskPrefix)
  BY PartSettings DEF Drafting!DraftAssumption
<1>2. /\ Underscore \in Drafting!SlugChars /\ Underscore \notin MCLetters
      /\ Drafting!Digits \subseteq Drafting!SlugChars /\ Underscore \notin Drafting!Digits
  BY DEF Drafting!SlugChars, Drafting!Digits, MCLetters, Underscore
<1>3. ASSUME NEW t \in MCTexts
      PROVE  IsFiniteSet(DOMAIN t) /\ DOMAIN t \subseteq Nat
  <2>1. DOMAIN t = 1 .. Len(t) /\ Len(t) \in Nat
    BY <1>1
  <2>2. IsFiniteSet(1 .. Len(t))
    BY <2>1, FS_Interval
  <2> QED
    BY <2>1, <2>2
<1>4. MCDefaultSlug \in Seq(Drafting!SlugChars) /\ MCRiskPrefix \in Seq(Drafting!SlugChars)
  BY DEF MCDefaultSlug, MCRiskPrefix, Drafting!SlugChars, MCLetters
<1> QED
  BY <1>1, <1>2, <1>3, <1>4

\* What is left of the characters of a text are characters of a slug.
LEMMA UnderscoredIsSlug ==
    ASSUME NEW t \in MCTexts
    PROVE  Drafting!Underscored(t) \in Seq(Drafting!SlugChars)
<1> DEFINE chars == [i \in DOMAIN t |-> IF t[i] \in Drafting!Alphanumeric THEN t[i] ELSE Underscore]
           Joins(i) == /\ i > 1 /\ t[i - 1] \in Drafting!Alphanumeric
                       /\ \E j \in i .. Len(t) : t[j] \in Drafting!Alphanumeric
           stay == {i \in DOMAIN t : t[i] \in Drafting!Alphanumeric \/ Joins(i)}
<1>1. Drafting!Underscored(t) = Drafting!Picked(chars, stay)
  BY Zenon DEF Drafting!Underscored, Underscore
<1>2. stay \subseteq DOMAIN t
  OBVIOUS
<1>3. \A i \in DOMAIN t : chars[i] \in Drafting!SlugChars
  BY SlugSettings DEF Drafting!SlugChars, Drafting!Alphanumeric
<1> HIDE DEF chars, Joins, stay
<1>4. Drafting!Picked(chars, stay) = Picked(chars, stay)
  BY Zenon DEF Drafting!Picked, Picked, Drafting!InOrder, InOrder, Drafting!Cardinality,
               Cardinality, Drafting!IsFiniteSet, IsFiniteSet
<1>5. stay \in SUBSET Nat /\ IsFiniteSet(stay)
  BY <1>2, SlugSettings, FS_Subset
<1>6. /\ Cardinality(stay) \in Nat
      /\ Picked(chars, stay) = [k \in 1 .. Cardinality(stay) |-> chars[InOrder(stay)[k]]]
      /\ \A k \in 1 .. Cardinality(stay) : InOrder(stay)[k] \in stay
  BY <1>5, PickedOnce
<1>7. Picked(chars, stay) \in [1 .. Cardinality(stay) -> Drafting!SlugChars]
  BY <1>2, <1>3, <1>6
<1> QED
  BY <1>1, <1>4, <1>6, <1>7

\* A beginning of a slug that does not end with an underscore.
LEMMA CutIsBeginning ==
    ASSUME NEW s \in Seq(Drafting!SlugChars), NEW n \in Nat
    PROVE  \E m \in 0 .. Len(s) :
             /\ m <= n
             /\ n > 0 /\ s # <<>> /\ s[1] # Underscore => m > 0
             /\ Drafting!CutTo(s, n) = SubSeq(s, 1, m)
             /\ Drafting!CutTo(s, n) \in Seq(Drafting!SlugChars) /\ Len(Drafting!CutTo(s, n)) = m
             /\ m > 0 => Head(Drafting!CutTo(s, n)) = s[1]
<1> DEFINE S == {0} \cup {i \in DOMAIN s : i <= n /\ s[i] # Underscore}
           m == Drafting!Max(S)
<1>1. s \in Seq(Drafting!SlugChars) /\ Len(s) \in Nat /\ DOMAIN s = 1 .. Len(s)
  OBVIOUS
<1>2. S \subseteq 0 .. Len(s) /\ 0 \in S
  BY <1>1
<1> HIDE DEF S
<1>3. IsFiniteSet(S)
  <2>1. IsFiniteSet(0 .. Len(s))
    BY <1>1, FS_Interval
  <2> QED
    BY <1>2, <2>1, FS_Subset
<1>4. S \in SUBSET Nat /\ S # {}
  BY <1>1, <1>2
<1>5. \E x \in S : \A y \in S : y <= x
  BY <1>3, <1>4, GreatestExists
<1>6. \E x \in S : \A y \in S : x >= y
  BY <1>4, <1>5
<1>7. m \in S /\ \A y \in S : m >= y
  BY <1>6 DEF Drafting!Max
<1>8. m \in 0 .. Len(s)
  BY <1>2, <1>7
<1>9. m <= n
  BY <1>7, <1>1 DEF S
<1>10. n > 0 /\ s # <<>> /\ s[1] # Underscore => m > 0
  <2>1. ASSUME n > 0, s # <<>>, s[1] # Underscore
        PROVE  1 \in S
    BY <1>1, <2>1 DEF S
  <2> QED
    BY <1>7, <1>8, <1>1, <2>1
<1>11. Drafting!CutTo(s, n) = SubSeq(s, 1, m)
  BY DEF Drafting!CutTo, S, Underscore
<1> HIDE DEF m
<1>12. /\ SubSeq(s, 1, m) \in Seq(Drafting!SlugChars) /\ Len(SubSeq(s, 1, m)) = m
       /\ m > 0 => Head(SubSeq(s, 1, m)) = s[1]
  BY <1>1, <1>8
<1> QED
  BY <1>8, <1>9, <1>10, <1>11, <1>12

\* Whatever a category was, its slug is one that the schema and the table accept.
LEMMA SlugIsCategory ==
    ASSUME NEW t \in MCTexts
    PROVE  Drafting!CategorySlug(t) \in Seq(Drafting!SlugChars)
           /\ Drafting!Category(Drafting!CategorySlug(t))
<1> DEFINE slug == IF Drafting!Underscored(t) = <<>> THEN MCDefaultSlug
                   ELSE Drafting!Underscored(t)
           begun == IF Head(slug) \in MCLetters THEN slug ELSE MCRiskPrefix \o slug
           cut == Drafting!CutTo(begun, MaxSlug)
<1>1. slug \in Seq(Drafting!SlugChars) /\ slug # <<>>
  <2>1. Len(MCDefaultSlug) \in 2 .. MaxSlug
    BY SlugSettings DEF Drafting!Category
  <2> QED
    BY <2>1, SlugSettings, UnderscoredIsSlug
<1> HIDE DEF slug
<1>2. begun \in Seq(Drafting!SlugChars) /\ begun # <<>> /\ begun[1] \in MCLetters
  <2>1. CASE Head(slug) \in MCLetters
    BY <1>1, <2>1
  <2>2. CASE ~ (Head(slug) \in MCLetters)
    <3>1. /\ MCRiskPrefix \in Seq(Drafting!SlugChars) /\ slug \in Seq(Drafting!SlugChars)
          /\ Len(MCRiskPrefix) >= 2 /\ MCRiskPrefix[1] \in MCLetters
      BY <1>1, SlugSettings DEF Drafting!Category
    <3>2. /\ MCRiskPrefix \o slug \in Seq(Drafting!SlugChars)
          /\ Len(MCRiskPrefix \o slug) = Len(MCRiskPrefix) + Len(slug)
          /\ (MCRiskPrefix \o slug)[1] = MCRiskPrefix[1]
      BY <3>1
    <3> QED
      BY <2>2, <3>1, <3>2
  <2> QED
    BY <2>1, <2>2
<1> HIDE DEF begun
<1>3. PICK m \in 0 .. Len(begun) :
             /\ m <= MaxSlug
             /\ MaxSlug > 0 /\ begun # <<>> /\ begun[1] # Underscore => m > 0
             /\ cut \in Seq(Drafting!SlugChars) /\ Len(cut) = m
             /\ m > 0 => Head(cut) = begun[1]
  BY <1>2, SlugSettings, CutIsBeginning
<1>4. cut \in Seq(Drafting!SlugChars) /\ Len(cut) \in 1 .. MaxSlug /\ Head(cut) \in MCLetters
  BY <1>2, <1>3, SlugSettings
<1>5. Drafting!CategorySlug(t) = IF Len(cut) < 2 THEN MCDefaultSlug ELSE cut
  BY Zenon DEF Drafting!CategorySlug, cut, begun, slug
<1> HIDE DEF cut
<1>6. Len(cut) >= 2 => Drafting!Category(cut)
  BY <1>4, SlugSettings DEF Drafting!Category
<1> QED
  BY <1>4, <1>5, <1>6, SlugSettings

\* The digits of a number below ten are digits, and different ones differ.
LEMMA DigitsDiffer ==
    /\ \A n \in 0 .. 9 : Drafting!Digit(n) \in Drafting!Digits
    /\ \A n, k \in 0 .. 9 : Drafting!Digit(n) = Drafting!Digit(k) => n = k
<1>1. /\ Drafting!Digit(0) = "0" /\ Drafting!Digit(1) = "1" /\ Drafting!Digit(2) = "2"
      /\ Drafting!Digit(3) = "3" /\ Drafting!Digit(4) = "4" /\ Drafting!Digit(5) = "5"
      /\ Drafting!Digit(6) = "6" /\ Drafting!Digit(7) = "7" /\ Drafting!Digit(8) = "8"
      /\ Drafting!Digit(9) = "9"
  BY DEF Drafting!Digit
<1>2. \A n \in 0 .. 9 : n = 0 \/ n = 1 \/ n = 2 \/ n = 3 \/ n = 4 \/ n = 5 \/ n = 6 \/ n = 7
                        \/ n = 8 \/ n = 9
  OBVIOUS
<1>3. \A n \in 0 .. 9 : Drafting!Digit(n) \in Drafting!Digits
  BY <1>1, <1>2, Zenon DEF Drafting!Digits
<1>4. ASSUME NEW n \in 0 .. 9, NEW k \in 0 .. 9, Drafting!Digit(n) = Drafting!Digit(k)
      PROVE  n = k
  BY <1>1, <1>2, <1>4
<1> QED
  BY <1>3, <1>4

\* Two sequences after each other.
LEMMA Joined ==
    ASSUME NEW S, NEW a \in Seq(S), NEW b \in Seq(S), Len(a) > 0, Len(b) > 0
    PROVE  /\ a \o b \in Seq(S) /\ Len(a \o b) = Len(a) + Len(b)
           /\ (a \o b)[1] = a[1]
           /\ (a \o b)[Len(a \o b)] = b[Len(b)]
           /\ (a \o b)[Len(a \o b) - 1] = IF Len(b) > 1 THEN b[Len(b) - 1] ELSE a[Len(a)]
<1>1. /\ a \o b \in Seq(S) /\ Len(a \o b) = Len(a) + Len(b)
      /\ Len(a) \in Nat /\ Len(b) \in Nat
  OBVIOUS
<1>2. \A i \in 1 .. Len(a) + Len(b) :
        (a \o b)[i] = IF i <= Len(a) THEN a[i] ELSE b[i - Len(a)]
  OBVIOUS
<1> QED
  BY <1>1, <1>2

\* What a category becomes when it is varied: one that is accepted, and that ends
\* with the number.
LEMMA CandidateEnds ==
    ASSUME NEW s \in Seq(Drafting!SlugChars), Drafting!Category(s), NEW n \in 2 .. 99
    PROVE  LET c == Drafting!Candidate(s, n)
           IN  /\ c \in Seq(Drafting!SlugChars) /\ Drafting!Category(c)
               /\ Len(c) > 2
               /\ c[Len(c)] = Drafting!Digit(n % 10)
               /\ c[Len(c) - 1] = IF n < 10 THEN Underscore ELSE Drafting!Digit(n \div 10)
<1> DEFINE ending == <<Underscore>> \o Drafting!Decimal(n)
           room == MaxSlug - Len(ending)
           cut == Drafting!CutTo(s, room)
           c == cut \o ending
           last == Drafting!Digit(n % 10)
           first == Drafting!Digit(n \div 10)
<1>1. Drafting!Candidate(s, n) = c
  <2>1. n # 1
    OBVIOUS
  <2> QED
    BY <2>1, Zenon DEF Drafting!Candidate, Underscore
<1>2. /\ last \in Drafting!SlugChars /\ (n >= 10 => first \in Drafting!SlugChars)
      /\ Underscore \in Drafting!SlugChars
  <2>1. n % 10 \in 0 .. 9 /\ n \div 10 \in 0 .. 9
    OBVIOUS
  <2> QED
    BY <2>1, DigitsDiffer, SlugSettings
<1>3. Drafting!Decimal(n) = IF n < 10 THEN <<last>> ELSE <<first, last>>
  <2>1. n < 10 => n % 10 = n
    OBVIOUS
  <2> QED
    BY <2>1 DEF Drafting!Decimal
<1> HIDE DEF last, first
<1>4. /\ ending \in Seq(Drafting!SlugChars)
      /\ Len(ending) \in Nat /\ 2 <= Len(ending) /\ Len(ending) <= 3
      /\ ending[Len(ending)] = last
      /\ ending[Len(ending) - 1] = IF n < 10 THEN Underscore ELSE first
  <2> DEFINE d == Drafting!Decimal(n)
             u == <<Underscore>>
  <2>1. u \in Seq(Drafting!SlugChars) /\ Len(u) = 1 /\ u[1] = Underscore
    BY <1>2
  <2>2. /\ d \in Seq(Drafting!SlugChars) /\ d[Len(d)] = last
        /\ Len(d) = IF n < 10 THEN 1 ELSE 2
        /\ n >= 10 => d[1] = first
    BY <1>2, <1>3
  <2>0. ending = u \o d
    OBVIOUS
  <2> HIDE DEF d, u, ending
  <2>3. /\ ending \in Seq(Drafting!SlugChars) /\ Len(ending) = 1 + Len(d)
        /\ ending[Len(ending)] = d[Len(d)]
        /\ ending[Len(ending) - 1] = IF Len(d) > 1 THEN d[Len(d) - 1] ELSE Underscore
    <3>1. Len(u) > 0 /\ Len(d) > 0
      BY <2>1, <2>2
    <3>2. /\ u \o d \in Seq(Drafting!SlugChars) /\ Len(u \o d) = Len(u) + Len(d)
          /\ (u \o d)[Len(u \o d)] = d[Len(d)]
          /\ (u \o d)[Len(u \o d) - 1] = IF Len(d) > 1 THEN d[Len(d) - 1] ELSE u[Len(u)]
      BY <2>1, <2>2, <3>1, Joined
    <3> QED
      BY <2>0, <2>1, <3>2
  <2>4. CASE n < 10
    <3>1. Len(d) = 1
      BY <2>2, <2>4
    <3> QED
      BY <2>2, <2>3, <2>4, <3>1
  <2>5. CASE ~ (n < 10)
    <3>1. Len(d) = 2 /\ d[1] = first
      BY <2>2, <2>5
    <3>2. d[Len(d) - 1] = first
      BY <3>1
    <3> QED
      BY <2>2, <2>3, <2>5, <3>1, <3>2
  <2> QED
    BY <2>4, <2>5
<1> HIDE DEF ending
<1>5. room \in Nat /\ room > 0 /\ room + Len(ending) = MaxSlug
  <2>1. MaxSlug \in Nat /\ MaxSlug > 3
    BY SlugSettings
  <2>2. Len(ending) \in Nat /\ 2 <= Len(ending) /\ Len(ending) <= 3
    BY <1>4
  <2> QED
    BY <2>1, <2>2
<1> HIDE DEF room
<1>6. s # <<>> /\ s[1] \in MCLetters /\ s[1] # Underscore
  BY SlugSettings DEF Drafting!Category
<1>7. PICK m \in 0 .. Len(s) :
             /\ m <= room
             /\ room > 0 /\ s # <<>> /\ s[1] # Underscore => m > 0
             /\ cut \in Seq(Drafting!SlugChars) /\ Len(cut) = m
             /\ m > 0 => Head(cut) = s[1]
  BY <1>5, CutIsBeginning
<1>8. /\ cut \in Seq(Drafting!SlugChars) /\ Len(cut) > 0 /\ Len(cut) <= room
      /\ cut[1] \in MCLetters
  BY <1>5, <1>6, <1>7
<1> HIDE DEF cut
<1>9. /\ c \in Seq(Drafting!SlugChars)
      /\ Len(c) = Len(cut) + Len(ending)
      /\ c[1] = cut[1]
      /\ c[Len(c)] = ending[Len(ending)]
      /\ c[Len(c) - 1] = ending[Len(ending) - 1]
  <2>1. Len(ending) > 0 /\ Len(ending) > 1
    BY <1>4
  <2> QED
    BY <1>4, <1>8, <2>1, Joined
<1> HIDE DEF c
<1>10. Len(c) \in 2 .. MaxSlug /\ Len(c) > 2
  <2>1. Len(ending) \in Nat /\ 2 <= Len(ending) /\ Len(ending) <= 3 /\ Len(cut) \in Nat
        /\ Len(cut) > 0 /\ Len(cut) <= room
    BY <1>4, <1>8
  <2>2. Len(c) = Len(cut) + Len(ending) /\ room + Len(ending) = MaxSlug /\ room \in Nat
    BY <1>5, <1>9
  <2> QED
    BY <2>1, <2>2
<1>11. Drafting!Category(c)
  BY <1>8, <1>9, <1>10 DEF Drafting!Category
<1> QED
  BY <1>1, <1>4, <1>9, <1>10, <1>11 DEF last, first

\* Different numbers make different categories of one.
LEMMA CandidatesDiffer ==
    ASSUME NEW s \in Seq(Drafting!SlugChars), Drafting!Category(s), NEW n \in 2 .. 99,
           NEW k \in 2 .. 99, Drafting!Candidate(s, n) = Drafting!Candidate(s, k)
    PROVE  n = k
<1> DEFINE c == Drafting!Candidate(s, n)
           tens(x) == x \div 10
           ones(x) == x % 10
<1>1. \A x \in 2 .. 99 : tens(x) \in 0 .. 9 /\ ones(x) \in 0 .. 9 /\ x = 10 * tens(x) + ones(x)
                         /\ (x < 10 => tens(x) = 0)
  OBVIOUS
<1>2. /\ c[Len(c)] = Drafting!Digit(ones(n)) /\ c[Len(c)] = Drafting!Digit(ones(k))
      /\ c[Len(c) - 1] = IF n < 10 THEN Underscore ELSE Drafting!Digit(tens(n))
      /\ c[Len(c) - 1] = IF k < 10 THEN Underscore ELSE Drafting!Digit(tens(k))
  <2>1. LET d == Drafting!Candidate(s, k)
        IN  /\ d[Len(d)] = Drafting!Digit(k % 10)
            /\ d[Len(d) - 1] = IF k < 10 THEN Underscore ELSE Drafting!Digit(k \div 10)
    BY CandidateEnds
  <2>2. LET d == Drafting!Candidate(s, n)
        IN  /\ d[Len(d)] = Drafting!Digit(n % 10)
            /\ d[Len(d) - 1] = IF n < 10 THEN Underscore ELSE Drafting!Digit(n \div 10)
    BY CandidateEnds
  <2> QED
    BY <2>1, <2>2
<1> HIDE DEF c, tens, ones
<1>3. ones(n) = ones(k)
  BY <1>1, <1>2, DigitsDiffer
<1>4. tens(n) = tens(k)
  <2>1. \A x \in 0 .. 9 : Drafting!Digit(x) # Underscore
    BY DigitsDiffer, SlugSettings
  <2>2. n < 10 <=> k < 10
    BY <1>1, <1>2, <2>1
  <2>3. CASE n < 10
    BY <1>1, <2>2, <2>3
  <2>4. CASE ~ (n < 10)
    BY <1>1, <1>2, <2>2, <2>4, DigitsDiffer
  <2> QED
    BY <2>3, <2>4
<1> QED
  BY <1>1, <1>3, <1>4

-----------------------------------------------------------------------------
(* The draft of a policy: its rules.                                       *)

\* Every category that is used was proposed once, the one under way was varied
\* because all before were taken, and no rule has the category of another.
DraftInv ==
    /\ Drafting!TypeOK
    /\ IsFiniteSet(used) /\ Cardinality(used) <= proposed
    /\ pcDraft = "category" =>
          /\ base \in Seq(Drafting!SlugChars)
          /\ Cardinality(used) < proposed
          /\ \A n \in 2 .. suffix - 1 : Drafting!Candidate(base, n) \in used
    /\ \A i, j \in DOMAIN rules : rules[i] = rules[j] => i = j
    /\ pcDraft \in {"ask", "rule", "category"} => Len(rules) < requested
    /\ pcDraft = "drafted" => Len(rules) >= MinRules /\ Len(rules) <= requested

\* Whatever is tried for a category is one, and there are fewer numbers to try
\* than there were proposals.
LEMMA CandidateFits ==
    ASSUME DraftInv, pcDraft = "category"
    PROVE  /\ Drafting!Category(Drafting!Candidate(base, suffix))
           /\ Drafting!Candidate(base, suffix) \in used => suffix + 1 <= MaxProposed + 1
<1>1. /\ base \in Seq(Drafting!SlugChars) /\ Drafting!Category(base)
      /\ suffix \in Nat /\ 1 <= suffix /\ suffix <= MaxProposed + 1
      /\ proposed \in Nat /\ proposed <= MaxProposed
      /\ IsFiniteSet(used) /\ Cardinality(used) < proposed
      /\ MaxProposed \in Nat /\ MaxProposed < 99
  BY SlugSettings DEF DraftInv, Drafting!TypeOK
<1>2. suffix # 1 => suffix \in 2 .. 99
  BY <1>1
<1>3. Drafting!Category(Drafting!Candidate(base, suffix))
  <2>1. CASE suffix = 1
    BY <1>1, <2>1 DEF Drafting!Candidate
  <2>2. CASE suffix # 1
    BY <1>1, <1>2, <2>2, CandidateEnds
  <2> QED
    BY <2>1, <2>2
<1>4. ASSUME Drafting!Candidate(base, suffix) \in used
      PROVE  suffix <= MaxProposed
  <2> DEFINE N == 2 .. suffix
             f == [n \in N |-> Drafting!Candidate(base, n)]
  <2>1. \A n \in N : n \in 2 .. 99
    BY <1>1
  <2>2. ASSUME NEW n \in N
        PROVE  Drafting!Candidate(base, n) \in used
    <3>1. n = suffix \/ n \in 2 .. suffix - 1
      BY <1>1
    <3> QED
      BY <1>4, <3>1 DEF DraftInv
  <2>3. IsFiniteSet(N) /\ Cardinality(N) = IF 2 > suffix THEN 0 ELSE suffix - 2 + 1
    BY <1>1, FS_Interval
  <2> HIDE DEF N
  <2>4. ASSUME NEW n \in N, NEW k \in N, f[n] = f[k]
        PROVE  n = k
    BY <1>1, <2>1, <2>4, CandidatesDiffer
  <2>5. f \in [N -> used]
    BY <2>2
  <2> HIDE DEF f
  <2>6. f \in Injection(N, used)
    BY <2>4, <2>5 DEF Injection, IsInjective
  <2>7. Cardinality(N) <= Cardinality(used)
    BY <1>1, <2>6, FS_Injection
  <2>8. Cardinality(used) \in Nat /\ Cardinality(N) \in Nat
    BY <1>1, <2>3, FS_CardinalityType
  <2> QED
    BY <1>1, <2>3, <2>7, <2>8
<1> QED
  BY <1>1, <1>3, <1>4

\* Every step of the draft keeps the invariant.
LEMMA DraftStep ==
    ASSUME DraftInv, Drafting!Next
    PROVE  DraftInv'
<1>1. /\ MaxProposed \in Nat /\ MinRules \in Nat /\ MaxRules \in Nat
      /\ requested \in Nat /\ MinRules <= requested /\ 0 < MinRules
      /\ rules \in Seq(used) /\ Len(rules) \in Nat
      /\ proposed \in Nat /\ IsFiniteSet(used) /\ Cardinality(used) \in Nat
  BY SlugSettings, FS_CardinalityType DEF DraftInv, Drafting!TypeOK
<1>2. CASE Drafting!ProviderFails \/ Drafting!ProviderAnswers \/ Drafting!EndOfRules
  <2>1. /\ requested' = requested /\ proposed' = proposed /\ base' = base /\ suffix' = suffix
        /\ whole' = whole /\ used' = used /\ rules' = rules
        /\ pcDraft' \in {"unavailable", "rule", "drafted"}
        /\ pcDraft \in {"ask", "rule"}
        /\ pcDraft' = "drafted" => ~ (Len(rules) < MinRules)
    BY <1>2 DEF Drafting!ProviderFails, Drafting!ProviderAnswers, Drafting!EndOfRules
  <2>2. Drafting!TypeOK'
    BY <2>1, Zenon DEF DraftInv, Drafting!TypeOK
  <2>3. Len(rules) < requested
    BY <2>1 DEF DraftInv
  <2>4. pcDraft' = "drafted" => Len(rules) >= MinRules /\ Len(rules) <= requested
    BY <1>1, <2>1, <2>3
  <2>5. pcDraft' # "category" /\ (pcDraft' = "rule" => Len(rules') < requested')
    BY <2>1, <2>3
  <2> QED
    BY <2>1, <2>2, <2>3, <2>4, <2>5 DEF DraftInv
<1>3. ASSUME NEW t \in MCTexts, NEW named \in BOOLEAN, Drafting!ReadRule(t, named)
      PROVE  DraftInv'
  <2>1. /\ pcDraft = "rule" /\ pcDraft' = "category" /\ proposed < MaxProposed
        /\ proposed' = proposed + 1 /\ suffix' = 1 /\ base' = Drafting!CategorySlug(t)
        /\ whole' = named /\ requested' = requested /\ used' = used /\ rules' = rules
    BY <1>3 DEF Drafting!ReadRule
  <2>2. base' \in Seq(Drafting!SlugChars) /\ Drafting!Category(base')
    BY <2>1, SlugIsCategory
  <2>3. proposed' \in 0 .. MaxProposed /\ suffix' \in 1 .. MaxProposed + 1
    BY <1>1, <2>1
  <2>4. Drafting!TypeOK'
    BY <2>1, <2>2, <2>3, Zenon DEF DraftInv, Drafting!TypeOK
  <2>5. /\ Cardinality(used) <= proposed /\ Cardinality(used) <= proposed'
        /\ Cardinality(used) < proposed'
    BY <1>1, <2>1 DEF DraftInv
  <2>6. \A n \in 2 .. suffix' - 1 : Drafting!Candidate(base', n) \in used'
    BY <2>1
  <2> QED
    BY <2>1, <2>2, <2>4, <2>5, <2>6 DEF DraftInv
<1>4. CASE Drafting!TryNextSuffix
  <2>1. /\ pcDraft = "category" /\ Drafting!Candidate(base, suffix) \in used
        /\ suffix' = suffix + 1 /\ requested' = requested /\ pcDraft' = pcDraft
        /\ proposed' = proposed /\ base' = base /\ whole' = whole /\ used' = used
        /\ rules' = rules
    BY <1>4 DEF Drafting!TryNextSuffix
  <2>2. suffix \in Nat /\ 1 <= suffix
    BY <2>1 DEF DraftInv, Drafting!TypeOK
  <2>3. suffix' \in 1 .. MaxProposed + 1
    BY <1>1, <2>1, <2>2, CandidateFits
  <2>4. Drafting!TypeOK'
    BY <2>1, <2>3, Zenon DEF DraftInv, Drafting!TypeOK
  <2>5. ASSUME NEW n \in 2 .. suffix' - 1
        PROVE  Drafting!Candidate(base, n) \in used
    <3>1. n = suffix \/ n \in 2 .. suffix - 1
      BY <2>1, <2>2
    <3> QED
      BY <2>1, <3>1 DEF DraftInv
  <2> QED
    BY <2>1, <2>4, <2>5 DEF DraftInv
<1>5. CASE Drafting!TakeCategory
  <2> DEFINE c == Drafting!Candidate(base, suffix)
  <2>1. /\ pcDraft = "category" /\ c \notin used
        /\ used' = used \cup {c}
        /\ rules' = IF whole THEN Append(rules, c) ELSE rules
        /\ pcDraft' = IF Len(rules') >= requested THEN "drafted" ELSE "rule"
        /\ requested' = requested /\ proposed' = proposed /\ base' = base
        /\ suffix' = suffix /\ whole' = whole
    BY <1>5 DEF Drafting!TakeCategory
  <2>2. Drafting!Category(c)
    BY <2>1, CandidateFits
  <2> HIDE DEF c
  <2>3. /\ IsFiniteSet(used') /\ Cardinality(used') = Cardinality(used) + 1
        /\ Cardinality(used) < proposed
    BY <1>1, <2>1, FS_AddElement DEF DraftInv
  <2>4. Cardinality(used') <= proposed'
    BY <1>1, <2>1, <2>3
  <2>5. Len(rules) < requested /\ \A i, j \in DOMAIN rules : rules[i] = rules[j] => i = j
    BY <2>1 DEF DraftInv
  <2>6. /\ rules' \in Seq(used')
        /\ \A i, j \in DOMAIN rules' : rules'[i] = rules'[j] => i = j
        /\ Len(rules') <= Len(rules) + 1
    <3>1. CASE ~ whole
      <4>1. rules' = rules /\ used \subseteq used'
        BY <2>1, <3>1
      <4>2. rules \in Seq(used')
        BY <1>1, <4>1
      <4> QED
        BY <1>1, <2>5, <4>1, <4>2
    <3>2. CASE whole
      <4>1. rules' = Append(rules, c) /\ c \in used'
        BY <2>1, <3>2
      <4>2. \A i \in DOMAIN rules : rules[i] \in used /\ rules[i] # c
        BY <1>1, <2>1
      <4>3. rules \in Seq(used')
        BY <1>1, <2>1
      <4>4. /\ rules' \in Seq(used') /\ Len(rules') = Len(rules) + 1
            /\ DOMAIN rules' = 1 .. Len(rules) + 1
            /\ \A i \in 1 .. Len(rules) : rules'[i] = rules[i]
            /\ rules'[Len(rules) + 1] = c
        BY <1>1, <4>1, <4>3
      <4>5. ASSUME NEW i \in DOMAIN rules', NEW j \in DOMAIN rules', rules'[i] = rules'[j]
            PROVE  i = j
        <5>1. /\ i \in 1 .. Len(rules) \/ i = Len(rules) + 1
              /\ j \in 1 .. Len(rules) \/ j = Len(rules) + 1
          BY <1>1, <4>4
        <5> QED
          BY <1>1, <2>5, <4>2, <4>4, <4>5, <5>1
      <4> QED
        BY <1>1, <4>4, <4>5
    <3>3. whole \in BOOLEAN
      BY DEF DraftInv, Drafting!TypeOK
    <3> QED
      BY <3>1, <3>2
  <2>7. Len(rules') \in Nat
    BY <2>6
  <2>8. /\ pcDraft' \in {"rule", "drafted"}
        /\ pcDraft' = "rule" => Len(rules') < requested
        /\ pcDraft' = "drafted" => Len(rules') >= MinRules /\ Len(rules') <= requested
    BY <1>1, <2>1, <2>5, <2>6, <2>7
  <2>9. \A d \in used' : Drafting!Category(d)
    BY <2>1, <2>2 DEF DraftInv, Drafting!TypeOK
  <2>10. Drafting!TypeOK'
    BY <2>1, <2>6, <2>8, <2>9, Zenon DEF DraftInv, Drafting!TypeOK
  <2> QED
    BY <2>1, <2>3, <2>4, <2>6, <2>8, <2>10 DEF DraftInv
<1> QED
  BY <1>2, <1>3, <1>4, <1>5 DEF Drafting!Next

\* Any draft can be saved as it is: enough rules and no more than asked for, every
\* category one that is accepted, and none twice (normalize_policy_draft).
THEOREM DraftsCanBeSaved == FairParts => []DraftCanBeSaved
<1>1. Drafting!Init => DraftInv
  <2> SUFFICES ASSUME Drafting!Init
               PROVE  DraftInv
    OBVIOUS
  <2>1. /\ requested \in MinRules .. MaxRules /\ pcDraft = "ask" /\ proposed = 0
        /\ suffix = 1 /\ whole = FALSE /\ used = {} /\ rules = <<>>
    BY DEF Drafting!Init
  <2>2. MaxProposed \in Nat /\ MinRules \in Nat /\ 0 < MinRules
    BY SlugSettings
  <2>3. 0 \in 0 .. MaxProposed /\ 1 \in 1 .. MaxProposed + 1 /\ <<>> \in Seq({})
    BY <2>2
  <2>4. Drafting!TypeOK
    BY <2>1, <2>3, Zenon DEF Drafting!TypeOK
  <2>5. Len(rules) = 0 /\ DOMAIN rules = {}
    BY <2>1
  <2>6. Len(rules) < requested /\ IsFiniteSet(used) /\ Cardinality(used) <= proposed
    BY <2>1, <2>2, <2>5, FS_EmptySet
  <2> QED
    BY <2>1, <2>4, <2>5, <2>6 DEF DraftInv
<1>2. DraftInv /\ [Drafting!Next]_Drafting!vars => DraftInv'
  <2>1. ASSUME DraftInv, UNCHANGED Drafting!vars
        PROVE  DraftInv'
    <3>1. /\ requested' = requested /\ pcDraft' = pcDraft /\ proposed' = proposed
          /\ base' = base /\ suffix' = suffix /\ whole' = whole /\ used' = used
          /\ rules' = rules
      BY <2>1 DEF Drafting!vars
    <3> QED
      BY <2>1, <3>1, Zenon DEF DraftInv, Drafting!TypeOK
  <2> QED
    BY <2>1, DraftStep
<1>3. DraftInv => DraftCanBeSaved
  <2> SUFFICES ASSUME DraftInv
               PROVE  DraftCanBeSaved
    OBVIOUS
  <2>1. /\ MinRules \in Nat /\ requested \in Nat /\ rules \in Seq(used) /\ Len(rules) \in Nat
    BY SlugSettings DEF DraftInv, Drafting!TypeOK
  <2>2. \A i \in DOMAIN rules : Drafting!Category(rules[i])
    BY <2>1 DEF DraftInv, Drafting!TypeOK
  <2>3. pcDraft = "drafted" => Len(rules) \in MinRules .. requested
    BY <2>1 DEF DraftInv
  <2>4. Drafting!DraftCanBeSaved
    BY <2>2, <2>3 DEF Drafting!DraftCanBeSaved, DraftInv
  <2> QED
    BY <2>4 DEF DraftCanBeSaved, DraftInv
<1> QED
  BY <1>1, <1>2, <1>3, PartsDraft, PTL DEF Drafting!Spec

-----------------------------------------------------------------------------
(* Scoring.                                                                *)

\* The lowest of four bands is 0, the highest is 4.
LEMMA CountsOfBands ==
    /\ \A S \in SUBSET Scored!SEVERITY_BANDS :
          IsFiniteSet(S) /\ Cardinality(S) \in Nat /\ Cardinality(S) <= 4
    /\ \A S \in SUBSET Scored!RISK_BANDS :
          IsFiniteSet(S) /\ Cardinality(S) \in Nat /\ Cardinality(S) <= 3
    /\ \A S \in SUBSET {13, 30} : Cardinality(S) \in Nat /\ Cardinality(S) <= 2
<1>1. IsFiniteSet({13, 30}) /\ Cardinality({13, 30}) = 2
  <2>1. {13, 30} = {13} \cup {30} /\ 30 \notin {13}
    OBVIOUS
  <2>2. IsFiniteSet({13}) /\ Cardinality({13}) = 1
    BY FS_Singleton
  <2> QED
    BY <2>1, <2>2, FS_AddElement
<1>2. IsFiniteSet(Scored!RISK_BANDS) /\ Cardinality(Scored!RISK_BANDS) = 3
  <2>1. Scored!RISK_BANDS = {13, 30} \cup {60} /\ 60 \notin {13, 30}
    BY DEF Scored!RISK_BANDS
  <2> QED
    BY <1>1, <2>1, FS_AddElement
<1>3. IsFiniteSet(Scored!SEVERITY_BANDS) /\ Cardinality(Scored!SEVERITY_BANDS) = 4
  <2>1. IsFiniteSet({20}) /\ Cardinality({20}) = 1
    BY FS_Singleton
  <2>2. {20, 40} = {20} \cup {40} /\ 40 \notin {20}
    OBVIOUS
  <2>3. {20, 40, 60} = {20, 40} \cup {60} /\ 60 \notin {20, 40}
    OBVIOUS
  <2>4. Scored!SEVERITY_BANDS = {20, 40, 60} \cup {80} /\ 80 \notin {20, 40, 60}
    BY DEF Scored!SEVERITY_BANDS
  <2>5. IsFiniteSet({20, 40}) /\ Cardinality({20, 40}) = 2
    BY <2>1, <2>2, FS_AddElement
  <2>6. IsFiniteSet({20, 40, 60}) /\ Cardinality({20, 40, 60}) = 3
    BY <2>3, <2>5, FS_AddElement
  <2> QED
    BY <2>4, <2>6, FS_AddElement
<1>4. ASSUME NEW T, IsFiniteSet(T), NEW S \in SUBSET T
      PROVE  IsFiniteSet(S) /\ Cardinality(S) \in Nat /\ Cardinality(S) <= Cardinality(T)
  BY <1>4, FS_Subset, FS_CardinalityType
<1> QED
  BY <1>1, <1>2, <1>3, <1>4

\* Cardinality is the same here and there.
LEMMA ScoredCardinality == \A S : Scored!Cardinality(S) = Cardinality(S)
  BY Zenon DEF Scored!Cardinality, Cardinality, Scored!IsFiniteSet, IsFiniteSet

\* More confidence is in no lower band.
LEMMA BandGrows ==
    ASSUME NEW c \in Nat, NEW d \in Nat, c <= d, weight \in Nat, Scale \in Nat
    PROVE  /\ Scored!Band(c) \in Nat /\ Scored!Band(c) <= 4
           /\ Scored!Band(c) <= Scored!Band(d)
<1> DEFINE B(x) == {cut \in Scored!SEVERITY_BANDS : 100 * x * weight >= cut * Scale * Scale}
<1>1. Scored!Band(c) = Cardinality(B(c)) /\ Scored!Band(d) = Cardinality(B(d))
  BY ScoredCardinality DEF Scored!Band
<1>2. B(c) \subseteq B(d)
  <2>1. c * weight <= d * weight /\ c * weight \in Nat /\ d * weight \in Nat
    OBVIOUS
  <2>2. 100 * c * weight = 100 * (c * weight) /\ 100 * d * weight = 100 * (d * weight)
    OBVIOUS
  <2>3. 100 * c * weight <= 100 * d * weight /\ 100 * c * weight \in Int /\ 100 * d * weight \in Int
    BY <2>1, <2>2
  <2>4. \A cut \in Scored!SEVERITY_BANDS : cut * Scale * Scale \in Int
    <3>1. \A cut \in Scored!SEVERITY_BANDS : cut \in Nat
      BY DEF Scored!SEVERITY_BANDS
    <3> QED
      BY <3>1
  <2>5. ASSUME NEW p \in Int, NEW q \in Int, NEW r \in Int, p <= q, p >= r
        PROVE  q >= r
    BY <2>5
  <2> QED
    BY <2>3, <2>4, <2>5
<1>3. B(d) \in SUBSET Scored!SEVERITY_BANDS
  OBVIOUS
<1> HIDE DEF B
<1>4. IsFiniteSet(B(d)) /\ Cardinality(B(c)) <= Cardinality(B(d))
  BY <1>2, <1>3, CountsOfBands, FS_Subset
<1>5. Cardinality(B(c)) \in Nat /\ Cardinality(B(c)) <= 4
  BY <1>2, <1>3, CountsOfBands
<1> QED
  BY <1>1, <1>4, <1>5

\* What a tier allows grows with the confidence, and is never more than it.
LEMMA CappedGrows ==
    ASSUME NEW c \in 0 .. Scale, NEW d \in 0 .. Scale, c <= d, NEW m, Scale \in Nat
    PROVE  /\ Scored!Capped(c, m) \in Nat
           /\ Scored!Capped(c, m) <= Scored!Capped(d, m)
           /\ Scored!Capped(c, m) <= c /\ Scored!Capped(c, "hybrid") = c
<1> DEFINE k == Scored!Cap(m) * Scale
           q == k \div 100
<1>1. Scored!Cap(m) \in Nat
  BY DEF Scored!Cap
<1>2. k \in Nat
  BY <1>1
<1>3. Scored!Cap("hybrid") = 100
  BY DEF Scored!Cap
<1>4. /\ Scored!Capped(c, m) = IF 100 * c > k THEN q ELSE c
      /\ Scored!Capped(d, m) = IF 100 * d > k THEN q ELSE d
  BY DEF Scored!Capped
<1>5. Scored!Capped(c, "hybrid") = c
  <2>1. ~ (100 * c > 100 * Scale)
    OBVIOUS
  <2> QED
    BY <1>3, <2>1 DEF Scored!Capped
<1> HIDE DEF k
<1>6. q \in Nat /\ 100 * q <= k /\ k < 100 * q + 100
  BY <1>2
<1> HIDE DEF q
<1> QED
  BY <1>2, <1>4, <1>5, <1>6

\* The rule of the finding and what was said of it.
Scores ==
    /\ Scale \in Nat /\ weight \in Nat /\ threshold \in Nat /\ escalate \in BOOLEAN
    /\ confidence \in 0 .. Scale

\* Less confidence makes no finding more severe, nor does worse retrieval.
LEMMA SeverityGrows ==
    ASSUME Scores, NEW m, NEW c \in 0 .. Scale, NEW d \in 0 .. Scale, c <= d
    PROVE  /\ Scored!MachineSeverity(c, m) \in 0 .. 4
           /\ Scored!MachineSeverity(c, m) <= Scored!MachineSeverity(d, m)
           /\ Scored!MachineSeverity(c, m) <= Scored!MachineSeverity(c, "hybrid")
           /\ m # "hybrid" => Scored!MachineSeverity(c, m) <= 3
<1>1. ASSUME NEW x \in Nat, NEW y \in Nat, x <= y
      PROVE  /\ Scored!Reduced(x) \in Nat /\ Scored!Reduced(x) <= 4
             /\ Scored!Reduced(y) \in Nat /\ Scored!Reduced(y) <= 4
             /\ Scored!Reduced(x) <= Scored!Reduced(y)
  <2>1. /\ Scored!Band(x) \in Nat /\ Scored!Band(x) <= 4 /\ Scored!Band(x) <= Scored!Band(y)
        /\ Scored!Band(y) \in Nat /\ Scored!Band(y) <= 4
    BY <1>1, BandGrows DEF Scores
  <2> QED
    BY <1>1, <2>1 DEF Scored!Reduced, Scores
<1>2. ASSUME NEW x \in Nat, NEW y \in Nat, x <= y, y <= 4
      PROVE  /\ Scored!Raised(x) \in Nat /\ Scored!Raised(x) <= Scored!Raised(y)
             /\ Scored!Raised(y) \in Nat /\ Scored!Raised(y) <= 4
  BY <1>2 DEF Scored!Raised, Scored!Critical, Scores
<1> DEFINE R(x) == Scored!Raised(Scored!Reduced(x))
<1>3. ASSUME NEW x \in Nat, NEW y \in Nat, x <= y
      PROVE  R(x) \in Nat /\ R(x) <= R(y) /\ R(y) \in Nat /\ R(y) <= 4
  BY <1>1, <1>2, <1>3
<1>4. \A x, n : Scored!MachineSeverity(x, n) =
        IF n # "hybrid" /\ R(Scored!Capped(x, n)) > 3 THEN 3 ELSE R(Scored!Capped(x, n))
  BY Zenon DEF Scored!MachineSeverity, Scored!CapsAt, Scored!High
<1> HIDE DEF R
<1>5. /\ Scored!Capped(c, m) \in Nat /\ Scored!Capped(d, m) \in Nat
      /\ Scored!Capped(c, m) <= Scored!Capped(d, m)
      /\ Scored!Capped(c, m) <= c /\ Scored!Capped(c, "hybrid") = c /\ c \in Nat
  BY CappedGrows DEF Scores
<1> DEFINE u == R(Scored!Capped(c, m))
           v == R(Scored!Capped(d, m))
           w == R(c)
<1>6. u \in Nat /\ v \in Nat /\ w \in Nat /\ u <= v /\ u <= w /\ u <= 4 /\ v <= 4 /\ w <= 4
  BY <1>3, <1>5
<1>7. /\ Scored!MachineSeverity(c, m) = IF m # "hybrid" /\ u > 3 THEN 3 ELSE u
      /\ Scored!MachineSeverity(d, m) = IF m # "hybrid" /\ v > 3 THEN 3 ELSE v
      /\ Scored!MachineSeverity(c, "hybrid") = w
  BY <1>4, <1>5
<1> HIDE DEF u, v, w
<1> QED
  BY <1>6, <1>7

\* More severe findings have more points, and one has 32 at most.
LEMMA PointsGrow ==
    /\ Scored!Points(0) = 1 /\ Scored!Points(1) = 4 /\ Scored!Points(2) = 10
    /\ Scored!Points(3) = 20 /\ Scored!Points(4) = 32
    /\ \A x, y \in 0 .. 4 : x <= y => Scored!Points(x) <= Scored!Points(y)
    /\ \A x \in 0 .. 4 : Scored!Points(x) \in Nat /\ Scored!Points(x) <= 32
<1>1. /\ Scored!Points(0) = 1 /\ Scored!Points(1) = 4 /\ Scored!Points(2) = 10
      /\ Scored!Points(3) = 20 /\ Scored!Points(4) = 32
  BY DEF Scored!Points
<1>2. \A x \in 0 .. 4 : x = 0 \/ x = 1 \/ x = 2 \/ x = 3 \/ x = 4
  OBVIOUS
<1> QED
  BY <1>1, <1>2

\* A document with more points is in no lower band.
LEMMA RiskGrows ==
    ASSUME NEW f, NEW g, NEW x \in 0 .. 4, NEW y \in 0 .. 4,
           Scored!TotalPoints(f) \in Nat, Scored!TotalPoints(g) \in Nat,
           Scored!TotalPoints(f) <= Scored!TotalPoints(g), x <= y
    PROVE  /\ Scored!RiskBand(f, x) \in Nat /\ Scored!RiskBand(f, x) <= 3
           /\ Scored!RiskBand(f, x) <= Scored!RiskBand(g, y)
<1> DEFINE p == Scored!TotalPoints(f) + Scored!Points(x)
           q == Scored!TotalPoints(g) + Scored!Points(y)
           B(n) == {cut \in Scored!RISK_BANDS : n >= cut}
<1>1. p \in Int /\ q \in Int /\ p <= q
  BY PointsGrow
<1>2. Scored!RiskBand(f, x) = Cardinality(B(p)) /\ Scored!RiskBand(g, y) = Cardinality(B(q))
  BY ScoredCardinality DEF Scored!RiskBand
<1> HIDE DEF p, q
<1>3. B(p) \subseteq B(q)
  BY <1>1 DEF Scored!RISK_BANDS
<1>4. B(q) \in SUBSET Scored!RISK_BANDS
  OBVIOUS
<1> HIDE DEF B
<1>5. IsFiniteSet(B(q)) /\ Cardinality(B(p)) <= Cardinality(B(q))
  BY <1>3, <1>4, CountsOfBands, FS_Subset
<1>6. Cardinality(B(p)) \in Nat /\ Cardinality(B(p)) <= 3
  BY <1>3, <1>4, CountsOfBands
<1> QED
  BY <1>2, <1>5, <1>6

\* The points of some findings, and of these without one.
LEMMA FewerPoints ==
    ASSUME NEW f \in [0 .. 4 -> Nat]
    PROVE  /\ Scored!TotalPoints(f) \in Nat
           /\ \A level \in {l \in 0 .. 4 : f[l] > 0} :
                LET g == [f EXCEPT ![level] = @ - 1]
                IN  /\ Scored!TotalPoints(g) \in Nat
                    /\ Scored!TotalPoints(g) <= Scored!TotalPoints(f)
<1>1. ASSUME NEW g \in [0 .. 4 -> Nat]
      PROVE  /\ g[0] \in Nat /\ g[1] \in Nat /\ g[2] \in Nat /\ g[3] \in Nat /\ g[4] \in Nat
             /\ Scored!TotalPoints(g) = g[0] + 4 * g[1] + 10 * g[2] + 20 * g[3] + 32 * g[4]
  <2>1. g[0] \in Nat /\ g[1] \in Nat /\ g[2] \in Nat /\ g[3] \in Nat /\ g[4] \in Nat
    OBVIOUS
  <2>2. Scored!TotalPoints(g) = g[0] * 1 + g[1] * 4 + g[2] * 10 + g[3] * 20 + g[4] * 32
    BY PointsGrow DEF Scored!TotalPoints, Scored!High, Scored!Critical
  <2> QED
    BY <2>1, <2>2
<1>2. Scored!TotalPoints(f) \in Nat
  BY <1>1
<1>3. ASSUME NEW level \in 0 .. 4, f[level] > 0
      PROVE  LET g == [f EXCEPT ![level] = @ - 1]
             IN  /\ Scored!TotalPoints(g) \in Nat
                 /\ Scored!TotalPoints(g) <= Scored!TotalPoints(f)
  <2> DEFINE g == [f EXCEPT ![level] = @ - 1]
  <2>1. f[level] - 1 \in Nat
    BY <1>3
  <2>2. g \in [0 .. 4 -> Nat]
    BY <2>1
  <2>3. \A l \in 0 .. 4 : g[l] <= f[l]
    BY <2>1
  <2> HIDE DEF g
  <2>4. g[0] <= f[0] /\ g[1] <= f[1] /\ g[2] <= f[2] /\ g[3] <= f[3] /\ g[4] <= f[4]
    BY <2>3
  <2>5. /\ g[0] \in Nat /\ g[1] \in Nat /\ g[2] \in Nat /\ g[3] \in Nat /\ g[4] \in Nat
        /\ Scored!TotalPoints(g) = g[0] + 4 * g[1] + 10 * g[2] + 20 * g[3] + 32 * g[4]
    BY <1>1, <2>2
  <2>6. /\ f[0] \in Nat /\ f[1] \in Nat /\ f[2] \in Nat /\ f[3] \in Nat /\ f[4] \in Nat
        /\ Scored!TotalPoints(f) = f[0] + 4 * f[1] + 10 * f[2] + 20 * f[3] + 32 * f[4]
    BY <1>1
  <2>7. Scored!TotalPoints(g) \in Nat /\ Scored!TotalPoints(g) <= Scored!TotalPoints(f)
    BY <2>4, <2>5, <2>6
  <2> QED
    BY <2>7 DEF g
<1> QED
  BY <1>2, <1>3

\* The severity and the band are those of the functions of the same name.
ScoreInv ==
    /\ Scored!TypeOK /\ Scores /\ others \in [0 .. 4 -> Nat]
    /\ source # "none" => severity = Scored!MachineSeverity(confidence, tier)
    /\ band # 4 => source # "none" /\ band = Scored!RiskBand(others, severity)

\* They are in every reachable state.
LEMMA ScoresAreComputed == Scored!Spec => []ScoreInv
<1>1. /\ Scale \in Nat /\ Thresholds \subseteq 0 .. Scale
      /\ MCOtherFindings \subseteq [0 .. 4 -> Nat] /\ Scored!NoOthers \in [0 .. 4 -> Nat]
  BY PartSettings DEF Scored!ScoringAssumption, Scored!NoOthers, Scored!Critical
<1>2. Scored!Init => ScoreInv
  <2> SUFFICES ASSUME Scored!Init
               PROVE  ScoreInv
    OBVIOUS
  <2>1. Scores /\ others \in [0 .. 4 -> Nat] /\ source = "none" /\ band = 4
    BY <1>1 DEF Scored!Init, Scores, Scored!Unscored
  <2>2. 0 \in 0 .. 4 /\ 4 \in 0 .. 4
    OBVIOUS
  <2>3. Scored!TypeOK
    BY <2>2, Zenon DEF Scored!Init, Scored!TypeOK, Scored!Critical, Scored!Unscored
  <2> QED
    BY <2>1, <2>3 DEF ScoreInv
<1>3. ScoreInv /\ [Scored!Next]_Scored!vars => ScoreInv'
  <2> SUFFICES ASSUME ScoreInv, [Scored!Next]_Scored!vars
               PROVE  ScoreInv'
    OBVIOUS
  <2>1. ASSUME weight' = weight, threshold' = threshold, escalate' = escalate
        PROVE  \A c, m : Scored!MachineSeverity(c, m)' = Scored!MachineSeverity(c, m)
    <3>1. \A c : Scored!Band(c)' = Scored!Band(c)
      BY <2>1 DEF Scored!Band
    <3>2. \A c : Scored!Reduced(c)' = Scored!Reduced(c)
      BY <2>1, <3>1 DEF Scored!Reduced
    <3>3. \A level : Scored!Raised(level)' = Scored!Raised(level)
      BY <2>1 DEF Scored!Raised
    <3>4. \A c, m : Scored!Raised(Scored!Reduced(Scored!Capped(c, m)))' =
                      Scored!Raised(Scored!Reduced(Scored!Capped(c, m)))
      BY <3>2, <3>3
    <3> QED
      BY <3>4 DEF Scored!MachineSeverity
  <2>2. Scored!MachineSeverity(confidence, tier) \in 0 .. 4
    BY SeverityGrows DEF ScoreInv, Scores
  <2>3. CASE Scored!ScoreFinding
    <3>1. /\ confidence' = confidence /\ tier' = tier /\ weight' = weight
          /\ threshold' = threshold /\ escalate' = escalate /\ others' = others
          /\ band' = band /\ source = "none" /\ source' \in {"deterministic", "degraded_cap"}
          /\ severity' = Scored!MachineSeverity(confidence, tier)
      BY <2>3 DEF Scored!ScoreFinding
    <3>2. severity' \in 0 .. 4 /\ band = 4
      BY <2>2, <3>1 DEF ScoreInv
    <3>3. Scored!TypeOK'
      BY <3>1, <3>2, Zenon DEF ScoreInv, Scored!TypeOK, Scored!Critical, Scored!Unscored
    <3>4. severity' = Scored!MachineSeverity(confidence, tier)'
      BY <2>1, <3>1, Zenon
    <3> QED
      BY <3>1, <3>2, <3>3, <3>4 DEF ScoreInv, Scores
  <2>4. CASE Scored!ScoreAnalysis
    <3>1. /\ confidence' = confidence /\ tier' = tier /\ weight' = weight
          /\ threshold' = threshold /\ escalate' = escalate /\ severity' = severity
          /\ source' = source /\ source # "none"
          /\ others' \in MCOtherFindings /\ band' = Scored!RiskBand(others', severity)
      BY <2>4 DEF Scored!ScoreAnalysis
    <3>2. others' \in [0 .. 4 -> Nat] /\ severity \in 0 .. 4
      BY <1>1, <3>1 DEF ScoreInv, Scored!TypeOK, Scored!Critical
    <3>3. Scored!RiskBand(others', severity) \in Nat /\ Scored!RiskBand(others', severity) <= 3
      <4>1. PICK f \in [0 .. 4 -> Nat] : f = others'
        BY <3>2
      <4>2. Scored!TotalPoints(f) \in Nat
        BY FewerPoints
      <4>3. Scored!RiskBand(f, severity) \in Nat /\ Scored!RiskBand(f, severity) <= 3
        BY <3>2, <4>2, RiskGrows
      <4> QED
        BY <4>1, <4>3
    <3>4. band' \in 0 .. 4
      BY <3>1, <3>3
    <3>5. Scored!TypeOK'
      BY <3>1, <3>4, Zenon DEF ScoreInv, Scored!TypeOK, Scored!Critical, Scored!Unscored
    <3>6. severity' = Scored!MachineSeverity(confidence, tier)'
      <4>1. severity = Scored!MachineSeverity(confidence, tier)
        BY <3>1 DEF ScoreInv
      <4> QED
        BY <2>1, <3>1, <4>1, Zenon
    <3>7. band' = Scored!RiskBand(others, severity)'
      BY <3>1, Zenon
    <3> QED
      BY <3>1, <3>2, <3>5, <3>6, <3>7 DEF ScoreInv, Scores
  <2>5. CASE UNCHANGED Scored!vars
    <3>1. /\ confidence' = confidence /\ tier' = tier /\ weight' = weight
          /\ threshold' = threshold /\ escalate' = escalate /\ severity' = severity
          /\ source' = source /\ others' = others /\ band' = band
      BY <2>5 DEF Scored!vars
    <3>2. Scored!TypeOK' /\ Scores'
      BY <3>1, Zenon DEF ScoreInv, Scored!TypeOK, Scores
    <3>3. Scored!MachineSeverity(confidence, tier)' = Scored!MachineSeverity(confidence, tier)
      BY <2>1, <3>1, Zenon
    <3>4. Scored!RiskBand(others, severity)' = Scored!RiskBand(others, severity)
      BY <3>1, Zenon
    <3> QED
      BY <3>1, <3>2, <3>3, <3>4 DEF ScoreInv
  <2> QED
    BY <2>3, <2>4, <2>5 DEF Scored!Next
<1> QED
  BY <1>2, <1>3, PTL DEF Scored!Spec

\* Neither less confidence nor worse retrieval makes a finding more severe
\* (score_finding) or its document more risky, nor one finding less (score_analysis).
THEOREM SeverityStaysMonotone == FairParts => []SeverityIsMonotone
<1>1. ASSUME ScoreInv
      PROVE  SeverityIsMonotone
  <2> DEFINE M(c, m) == Scored!MachineSeverity(c, m)
  <2>1. /\ Scores /\ confidence \in 0 .. Scale /\ severity \in 0 .. 4
        /\ \A c \in 0 .. confidence : c \in 0 .. Scale /\ c <= confidence
    BY <1>1 DEF ScoreInv, Scores, Scored!TypeOK, Scored!Critical
  <2>2. ASSUME NEW c \in 0 .. confidence
        PROVE  M(c, tier) \in 0 .. 4 /\ M(c, tier) <= M(confidence, tier)
    BY <2>1, SeverityGrows
  <2>3. /\ M(confidence, tier) <= M(confidence, "hybrid")
        /\ M(confidence, "hybrid") \in 0 .. 4
        /\ tier # "hybrid" => M(confidence, tier) <= 3
    BY <2>1, SeverityGrows
  <2> HIDE DEF M
  <2>4. source # "none" => severity = M(confidence, tier)
    BY <1>1 DEF ScoreInv, M
  <2>5. Scored!LessConfidenceIsNoWorse
    BY <2>2, <2>4 DEF Scored!LessConfidenceIsNoWorse, M
  <2>6. Scored!DegradedIsNoWorse
    BY <2>3, <2>4 DEF Scored!DegradedIsNoWorse, Scored!High, M
  <2>7. ASSUME band # 4
        PROVE  /\ \A c \in 0 .. confidence : Scored!RiskBand(others, M(c, tier)) <= band
               /\ band <= Scored!RiskBand(others, M(confidence, "hybrid"))
               /\ \A level \in {l \in 0 .. 4 : others[l] > 0} :
                     Scored!RiskBand([others EXCEPT ![level] = @ - 1], severity) <= band
               /\ others = Scored!NoOthers => band < 3
    <3>1. /\ severity = M(confidence, tier) /\ band = Scored!RiskBand(others, severity)
          /\ others \in [0 .. 4 -> Nat]
      BY <1>1, <2>4, <2>7 DEF ScoreInv
    <3>2. Scored!TotalPoints(others) \in Nat
          /\ Scored!TotalPoints(others) <= Scored!TotalPoints(others)
      BY <3>1, FewerPoints
    <3>3. ASSUME NEW c \in 0 .. confidence
          PROVE  Scored!RiskBand(others, M(c, tier)) <= band
      BY <2>1, <2>2, <3>1, <3>2, RiskGrows
    <3>4. band <= Scored!RiskBand(others, M(confidence, "hybrid"))
      BY <2>1, <2>3, <3>1, <3>2, RiskGrows
    <3>5. ASSUME NEW level \in {l \in 0 .. 4 : others[l] > 0}
          PROVE  Scored!RiskBand([others EXCEPT ![level] = @ - 1], severity) <= band
      <4> DEFINE g == [others EXCEPT ![level] = @ - 1]
      <4>1. Scored!TotalPoints(g) \in Nat /\ Scored!TotalPoints(g) <= Scored!TotalPoints(others)
        BY <3>1, FewerPoints
      <4> HIDE DEF g
      <4>2. Scored!RiskBand(g, severity) <= Scored!RiskBand(others, severity)
        BY <2>1, <3>2, <4>1, RiskGrows
      <4> QED
        BY <3>1, <4>2 DEF g
    <3>6. ASSUME others = Scored!NoOthers
          PROVE  band < 3
      <4> DEFINE B == {cut \in Scored!RISK_BANDS :
                         Scored!TotalPoints(others) + Scored!Points(severity) >= cut}
      <4>1. Scored!TotalPoints(others) = 0
        BY <3>6, PointsGrow
        DEF Scored!TotalPoints, Scored!NoOthers, Scored!High, Scored!Critical
      <4>2. Scored!Points(severity) \in Nat /\ Scored!Points(severity) <= 32
        BY <2>1, PointsGrow
      <4>3. B \in SUBSET {13, 30}
        BY <4>1, <4>2 DEF Scored!RISK_BANDS
      <4>4. band = Cardinality(B)
        BY <3>1, ScoredCardinality DEF Scored!RiskBand
      <4> HIDE DEF B
      <4> QED
        BY <4>3, <4>4, CountsOfBands
    <3> QED
      BY <3>3, <3>4, <3>5, <3>6
  <2>8. Scored!DocumentIsNoWorse
    BY <2>7 DEF Scored!DocumentIsNoWorse, Scored!Unscored, Scored!Critical, M
  <2> QED
    BY <1>1, <2>5, <2>6, <2>8 DEF SeverityIsMonotone, Scored!SeverityIsMonotone, ScoreInv
<1> QED
  BY <1>1, ScoresAreComputed, PartsScore, PTL

-----------------------------------------------------------------------------
(* Evidence: what is found in the normal form of a text is the quote, and a  *)
(* quote that is there is found.                                             *)

\* Its settings.
LEMMA EvidenceSettings == Verifying!EvidenceAssumption
BY PartSettings

\* Its places are in the order that InOrderEnumerates is about.
LEMMA EvidenceOrder ==
    ASSUME NEW t
    PROVE  Verifying!IndexMap(t) = InOrder(Verifying!Stay(t))
BY Zenon DEF Verifying!IndexMap, Verifying!InOrder, InOrder, Verifying!Cardinality, Cardinality,
             Verifying!IsFiniteSet, IsFiniteSet

\* What a quote is folded to is what PickedOnce is about.
LEMMA EvidenceFold ==
    ASSUME NEW t
    PROVE  Verifying!Folded(t) =
             LET visible == Picked(t, {i \in DOMAIN t : t[i] # Hidden})
             IN  [i \in DOMAIN visible |->
                     IF visible[i] \in Typographic THEN MCFold[visible[i]] ELSE visible[i]]
BY Zenon DEF Verifying!Folded, Verifying!Picked, Picked, Verifying!InOrder, InOrder,
             Verifying!Cardinality, Cardinality, Verifying!IsFiniteSet, IsFiniteSet

\* The length after strip() is the cardinality that FS_Subset is about.
LEMMA EvidenceStripped ==
    ASSUME NEW t
    PROVE  Verifying!Stripped(t) =
             Cardinality({i \in DOMAIN t : /\ \E j \in 1 .. i : t[j] \notin Verifying!Spaces
                                          /\ \E j \in i .. Len(t) : t[j] \notin Verifying!Spaces})
BY Zenon DEF Verifying!Stripped, Verifying!Cardinality, Cardinality, Verifying!IsFiniteSet,
   IsFiniteSet

\* The places that stay, in their order.
LEMMA MapIsOrdered ==
    ASSUME NEW X, NEW t \in Seq(X)
    PROVE  /\ Verifying!Stay(t) \in SUBSET (1 .. Len(t)) /\ Verifying!Stay(t) \in SUBSET Nat
           /\ IsFiniteSet(Verifying!Stay(t))
           /\ Cardinality(Verifying!Stay(t)) \in Nat
           /\ Verifying!IndexMap(t) \in [1 .. Cardinality(Verifying!Stay(t)) -> Verifying!Stay(t)]
           /\ \A k, l \in 1 .. Cardinality(Verifying!Stay(t)) :
                k < l <=> Verifying!IndexMap(t)[k] < Verifying!IndexMap(t)[l]
           /\ \A i \in Verifying!Stay(t) :
                \E k \in 1 .. Cardinality(Verifying!Stay(t)) : Verifying!IndexMap(t)[k] = i
<1> DEFINE S == Verifying!Stay(t)
<1>1. S \in SUBSET (1 .. Len(t))
  BY DEF Verifying!Stay
<1>2. IsFiniteSet(1 .. Len(t))
  BY FS_Interval
<1>3. S \in SUBSET Nat
  BY <1>1
<1> HIDE DEF S
<1>4. IsFiniteSet(S)
  BY <1>1, <1>2, FS_Subset
<1>5. Cardinality(S) \in Nat
  BY <1>4, FS_CardinalityType
<1>6. /\ InOrder(S) \in [1 .. Cardinality(S) -> S]
      /\ \A k, l \in 1 .. Cardinality(S) : k < l <=> InOrder(S)[k] < InOrder(S)[l]
  BY <1>3, <1>4, InOrderEnumerates
<1>7. ASSUME NEW i \in S
      PROVE  \E k \in 1 .. Cardinality(S) : InOrder(S)[k] = i
  <2>1. Below(S, i) + 1 \in 1 .. Cardinality(S) /\ InOrder(S)[Below(S, i) + 1] = i
    BY <1>3, <1>4, InOrderEnumerates
  <2> QED
    BY <2>1
<1>8. Verifying!IndexMap(t) = InOrder(S)
  BY EvidenceOrder DEF S
<1> QED
  BY <1>1, <1>3, <1>4, <1>5, <1>6, <1>7, <1>8 DEF S

\* A normal form has a character for each place that stays.
LEMMA FlatIsMapped ==
    ASSUME NEW X, NEW t \in Seq(X)
    PROVE  LET n == Cardinality(Verifying!Stay(t))
           IN  /\ n \in Nat /\ Len(Verifying!IndexMap(t)) = n /\ Len(Verifying!Flat(t)) = n
               /\ DOMAIN Verifying!Flat(t) = 1 .. n
               /\ Verifying!Flat(t) = [k \in 1 .. n |->
                               IF t[Verifying!IndexMap(t)[k]] \in Verifying!Spaces THEN Blank
                               ELSE t[Verifying!IndexMap(t)[k]]]
<1> DEFINE n == Cardinality(Verifying!Stay(t))
           map == Verifying!IndexMap(t)
<1>1. n \in Nat /\ map \in [1 .. n -> Verifying!Stay(t)]
  BY MapIsOrdered
<1>2. Verifying!Flat(t) =
        [k \in DOMAIN map |-> IF t[map[k]] \in Verifying!Spaces THEN Blank ELSE t[map[k]]]
  BY DEF Verifying!Flat
<1> HIDE DEF n, map
<1>3. DOMAIN map = 1 .. n
  BY <1>1
<1>4. Verifying!Flat(t) =
        [k \in 1 .. n |-> IF t[map[k]] \in Verifying!Spaces THEN Blank ELSE t[map[k]]]
  BY <1>2, <1>3
<1>5. Len(map) = n /\ DOMAIN Verifying!Flat(t) = 1 .. n /\ Len(Verifying!Flat(t)) = n
  BY <1>1, <1>3, <1>4
<1> QED
  BY <1>1, <1>4, <1>5 DEF n, map

\* A normal form begins and ends with a character that is no space.
LEMMA EndsAreInk ==
    ASSUME NEW X, NEW t \in Seq(X), Len(Verifying!Flat(t)) > 0
    PROVE  Verifying!Flat(t)[1] \notin Verifying!Spaces
           /\ Verifying!Flat(t)[Len(Verifying!Flat(t))] \notin Verifying!Spaces
<1> DEFINE n == Cardinality(Verifying!Stay(t))
           map == Verifying!IndexMap(t)
<1>1. /\ n \in Nat /\ n > 0 /\ n = Len(Verifying!Flat(t))
      /\ Verifying!Flat(t) =
           [k \in 1 .. n |-> IF t[map[k]] \in Verifying!Spaces THEN Blank ELSE t[map[k]]]
  BY FlatIsMapped
<1>2. /\ Verifying!Stay(t) \in SUBSET (1 .. Len(t))
      /\ map \in [1 .. n -> Verifying!Stay(t)]
      /\ \A k, l \in 1 .. n : k < l <=> map[k] < map[l]
      /\ \A i \in Verifying!Stay(t) : \E k \in 1 .. n : map[k] = i
  BY MapIsOrdered
<1> HIDE DEF n, map
<1>3. \A i \in 1 .. Len(t) : t[i] \notin Verifying!Spaces => i \in Verifying!Stay(t)
  BY DEF Verifying!Stay
<1>4. \A i \in Verifying!Stay(t) : t[i] \in Verifying!Spaces =>
        /\ i > 1 /\ i - 1 \in 1 .. Len(t) /\ t[i - 1] \notin Verifying!Spaces
        /\ \E j \in i .. Len(t) : t[j] \notin Verifying!Spaces
  BY DEF Verifying!Stay
<1>5. t[map[1]] \notin Verifying!Spaces
  <2> SUFFICES ASSUME t[map[1]] \in Verifying!Spaces
               PROVE  FALSE
    OBVIOUS
  <2> DEFINE i == map[1]
  <2>1. 1 \in 1 .. n /\ i \in Verifying!Stay(t) /\ i \in Nat
    BY <1>1, <1>2
  <2>2. i - 1 \in Verifying!Stay(t)
    BY <2>1, <1>3, <1>4
  <2>3. PICK k \in 1 .. n : map[k] = i - 1
    BY <2>2, <1>2
  <2>4. map[k] < map[1]
    BY <2>1, <2>3
  <2>5. k < 1
    BY <2>1, <2>4, <1>2
  <2> QED
    BY <2>5
<1>6. t[map[n]] \notin Verifying!Spaces
  <2> SUFFICES ASSUME t[map[n]] \in Verifying!Spaces
               PROVE  FALSE
    OBVIOUS
  <2> DEFINE i == map[n]
  <2>1. n \in 1 .. n /\ i \in Verifying!Stay(t) /\ i \in 1 .. Len(t)
    BY <1>1, <1>2
  <2>2. PICK j \in i .. Len(t) : t[j] \notin Verifying!Spaces
    BY <2>1, <1>4
  <2>3. j # i /\ j > i /\ j \in 1 .. Len(t)
    BY <2>1, <2>2
  <2>4. PICK k \in 1 .. n : map[k] = j
    BY <2>2, <2>3, <1>2, <1>3
  <2>5. map[n] < map[k]
    BY <2>3, <2>4
  <2>6. n < k
    BY <2>1, <2>5, <1>2
  <2> QED
    BY <2>6, <1>1
<1>7. Verifying!Flat(t)[1] = t[map[1]] /\ Verifying!Flat(t)[n] = t[map[n]]
  <2>1. 1 \in 1 .. n /\ n \in 1 .. n
    BY <1>1
  <2> QED
    BY <1>1, <1>5, <1>6, <2>1
<1> QED
  BY <1>1, <1>5, <1>6, <1>7

\* What a normal form is found in, the characters from that of its first to that
\* of its last, has this normal form.
LEMMA MatchIsQuoted ==
    ASSUME NEW X, NEW t \in Seq(X), NEW Y, NEW s \in Seq(Y), NEW i \in Nat,
           Len(Verifying!Flat(s)) > 0, Verifying!Occurs(Verifying!Flat(s), Verifying!Flat(t), i)
    PROVE  LET a == Verifying!IndexMap(t)[i + 1]
               b == Verifying!IndexMap(t)[i + Len(Verifying!Flat(s))]
           IN  a \in 1 .. Len(t) /\ b \in a .. Len(t)
              /\ Verifying!Flat(SubSeq(t, a, b)) = Verifying!Flat(s)
<1> DEFINE target == Verifying!Flat(s)
           L == Len(target)
           flat == Verifying!Flat(t)
           map == Verifying!IndexMap(t)
           n == Cardinality(Verifying!Stay(t))
           a == map[i + 1]
           b == map[i + L]
           u == SubSeq(t, a, b)
<1>1. L \in Nat /\ L > 0 /\ DOMAIN target = 1 .. L /\ target = [k \in 1 .. L |-> target[k]]
  BY FlatIsMapped
<1>2. target[1] \notin Verifying!Spaces /\ target[L] \notin Verifying!Spaces
  BY EndsAreInk
<1>3. /\ n \in Nat /\ Len(flat) = n /\ DOMAIN flat = 1 .. n
      /\ flat = [k \in 1 .. n |-> IF t[map[k]] \in Verifying!Spaces THEN Blank ELSE t[map[k]]]
  BY FlatIsMapped
<1>4. /\ Verifying!Stay(t) \in SUBSET (1 .. Len(t))
      /\ map \in [1 .. n -> Verifying!Stay(t)]
      /\ \A k, l \in 1 .. n : k < l <=> map[k] < map[l]
      /\ \A j \in Verifying!Stay(t) : \E k \in 1 .. n : map[k] = j
  BY MapIsOrdered
<1>5. i + L <= n /\ SubSeq(flat, i + 1, i + L) = target
  <2>1. i \in 0 .. Len(flat) - L /\ SubSeq(flat, i + 1, i + L) = target
    BY DEF Verifying!Occurs
  <2> QED
    BY <1>1, <1>3, <2>1
<1> HIDE DEF target, L, flat, map, n
<1>6. \A k \in 1 .. L : i + k \in 1 .. n /\ target[k] = flat[i + k]
  <2> SUFFICES ASSUME NEW k \in 1 .. L
               PROVE  i + k \in 1 .. n /\ target[k] = flat[i + k]
    OBVIOUS
  <2>1. i + k \in 1 .. n
    BY <1>1, <1>3, <1>5
  <2>2. flat \in Seq({flat[j] : j \in 1 .. n})
    <3> DEFINE Z == {flat[j] : j \in 1 .. n}
    <3>1. flat \in [1 .. n -> Z]
      BY <1>3
    <3> QED
      BY <1>3, <3>1
  <2> DEFINE Z == {flat[j] : j \in 1 .. n}
  <2> HIDE DEF Z
  <2>3. SubSeq(flat, i + 1, i + L)[k] = flat[i + k]
    <3>1. flat \in Seq(Z)
      BY <2>2 DEF Z
    <3>2. \A q \in 1 .. L : SubSeq(flat, i + 1, i + L)[q] = flat[(i + 1) + q - 1]
      BY SMTT(40), <1>1, <1>3, <1>5, <3>1
    <3>3. (i + 1) + k - 1 = i + k
      BY <1>1
    <3> QED
      BY <3>2, <3>3
  <2> QED
    BY <1>5, <2>1, <2>3
<1>7. \A k \in 1 .. L : /\ map[i + k] \in Verifying!Stay(t)
                        /\ target[k] =
                             IF t[map[i + k]] \in Verifying!Spaces THEN Blank ELSE t[map[i + k]]
  BY SMTT(40), <1>3, <1>4, <1>6
<1>8. Blank \in Verifying!Spaces
  BY DEF Verifying!Spaces
<1>9. 1 \in 1 .. L /\ L \in 1 .. L
  BY <1>1
<1>10. t[a] \notin Verifying!Spaces /\ t[b] \notin Verifying!Spaces
  BY <1>2, <1>7, <1>8, <1>9
<1>11. a \in 1 .. Len(t) /\ b \in a .. Len(t)
  <2>1. a \in 1 .. Len(t) /\ b \in 1 .. Len(t)
    BY <1>4, <1>7, <1>9
  <2>2. i + 1 \in 1 .. n /\ i + L \in 1 .. n
    BY <1>6, <1>9
  <2>3. ~ (map[i + L] < map[i + 1])
    BY <1>1, <1>4, <2>2
  <2> QED
    BY <2>1, <2>3
<1> HIDE DEF a, b
<1>12. u \in Seq(X) /\ Len(u) = b - a + 1 /\ DOMAIN u = 1 .. (b - a + 1)
  BY <1>11
<1>13. \A p \in 1 .. (b - a + 1) : u[p] = t[a + p - 1]
  BY <1>11
<1> HIDE DEF u
<1>14. ASSUME NEW p \in 1 .. (b - a + 1)
       PROVE  p \in Verifying!Stay(u) <=> a + p - 1 \in Verifying!Stay(t)
  <2>1. u[p] = t[a + p - 1] /\ a + p - 1 \in 1 .. Len(t) /\ p \in DOMAIN u
    BY <1>11, <1>12, <1>13
  <2>2. CASE u[p] \notin Verifying!Spaces
    BY <2>1, <2>2 DEF Verifying!Stay
  <2>3. CASE u[p] \in Verifying!Spaces
    <3>1. p # 1 /\ p > 1 /\ p - 1 \in 1 .. (b - a + 1) /\ p # b - a + 1
      <4>1. p # 1
        BY <1>10, <1>11, <2>1, <2>3
      <4>2. a + (b - a + 1) - 1 = b
        BY <1>11
      <4>3. p # b - a + 1
        BY <1>10, <2>1, <2>3, <4>2
      <4> QED
        BY <1>11, <4>1, <4>3
    <3>2. u[p - 1] = t[a + p - 2]
      <4>1. u[p - 1] = t[a + (p - 1) - 1]
        BY <3>1, <1>13
      <4>2. a + (p - 1) - 1 = a + p - 2
        BY <1>11
      <4> QED
        BY <4>1, <4>2
    <3>3. \E j \in p .. Len(u) : u[j] \notin Verifying!Spaces
      <4>1. u[b - a + 1] = t[b]
        <5>1. b - a + 1 \in 1 .. (b - a + 1) /\ a + (b - a + 1) - 1 = b
          BY <1>11
        <5>2. u[b - a + 1] = t[a + (b - a + 1) - 1]
          BY <5>1, <1>13
        <5> QED
          BY <5>1, <5>2
      <4>2. b - a + 1 \in p .. Len(u)
        BY <1>11, <1>12
      <4> QED
        BY <4>1, <4>2, <1>10
    <3>4. \E j \in a + p - 1 .. Len(t) : t[j] \notin Verifying!Spaces
      <4>1. b \in a + p - 1 .. Len(t)
        BY <1>11
      <4> QED
        BY <4>1, <1>10
    <3>5. p \in Verifying!Stay(u) <=> u[p - 1] \notin Verifying!Spaces
      BY <2>1, <2>3, <3>1, <3>3 DEF Verifying!Stay
    <3>6. (a + p - 1) - 1 = a + p - 2 /\ a + p - 1 > 1 /\ DOMAIN t = 1 .. Len(t)
      BY <1>11, <3>1
    <3>7. a + p - 1 \in Verifying!Stay(t) <=> t[a + p - 2] \notin Verifying!Spaces
      BY <2>1, <2>3, <3>6, <3>4 DEF Verifying!Stay
    <3> QED
      BY <3>2, <3>5, <3>7
  <2> QED
    BY <2>2, <2>3
<1> DEFINE f == [k \in 1 .. L |-> map[i + k] - a + 1]
<1>15. ASSUME NEW k \in 1 .. L
       PROVE  /\ map[i + k] \in 1 .. Len(t) /\ a <= map[i + k] /\ map[i + k] <= b
              /\ f[k] \in 1 .. (b - a + 1) /\ a + f[k] - 1 = map[i + k]
                 /\ f[k] \in Verifying!Stay(u)
  <2>1. map[i + k] \in Verifying!Stay(t) /\ map[i + k] \in 1 .. Len(t)
    BY <1>4, <1>7
  <2>2. i + 1 \in 1 .. n /\ i + L \in 1 .. n /\ i + k \in 1 .. n
    BY <1>6, <1>9
  <2>3. ~ (map[i + k] < map[i + 1]) /\ ~ (map[i + L] < map[i + k])
    BY SMTT(40), <1>1, <1>4, <2>2
  <2>4. a <= map[i + k] /\ map[i + k] <= b
    BY <1>11, <2>1, <2>3 DEF a, b
  <2>5. f[k] \in 1 .. (b - a + 1) /\ a + f[k] - 1 = map[i + k]
    BY <1>11, <2>1, <2>4
  <2>6. f[k] \in Verifying!Stay(u)
    BY <2>1, <2>5, <1>14
  <2> QED
    BY <2>1, <2>4, <2>5, <2>6
<1>16. \A k, l \in 1 .. L : k < l => f[k] < f[l]
  <2> SUFFICES ASSUME NEW k \in 1 .. L, NEW l \in 1 .. L, k < l
               PROVE  f[k] < f[l]
    OBVIOUS
  <2>1. i + k \in 1 .. n /\ i + l \in 1 .. n /\ i + k < i + l
    BY <1>6
  <2>2. map[i + k] < map[i + l]
    BY <2>1, <1>4
  <2>3. map[i + k] \in Int /\ map[i + l] \in Int
    BY <1>15
  <2> QED
    BY SMTT(40), <1>11, <2>2, <2>3
<1>17. Verifying!Stay(u) \in SUBSET (1 .. (b - a + 1)) /\ Verifying!Stay(u) \in SUBSET Nat
  BY <1>12, MapIsOrdered
<1>18. ASSUME NEW p \in Verifying!Stay(u)
       PROVE  \E k \in 1 .. L : f[k] = p
  <2>1. p \in 1 .. (b - a + 1) /\ a + p - 1 \in Verifying!Stay(t)
    BY <1>14, <1>17
  <2>2. PICK l \in 1 .. n : map[l] = a + p - 1
    BY <2>1, <1>4
  <2>3. i + 1 \in 1 .. n /\ i + L \in 1 .. n
    BY <1>6, <1>9
  <2>4. map[i + 1] = a /\ map[i + L] = b
    BY DEF a, b
  <2>5. ~ (map[l] < map[i + 1]) /\ ~ (map[i + L] < map[l])
    BY <1>11, <2>1, <2>2, <2>4
  <2>6. ~ (l < i + 1) /\ ~ (i + L < l)
    BY <2>3, <2>5, <1>4
  <2>7. l - i \in 1 .. L /\ i + (l - i) = l
    BY <1>1, <2>6
  <2>8. f[l - i] = map[i + (l - i)] - a + 1
    BY <2>7
  <2>9. f[l - i] = (a + p - 1) - a + 1
    BY <2>2, <2>7, <2>8
  <2>10. f[l - i] = p
    BY <2>1, <2>9, <1>11
  <2> QED
    BY <2>7, <2>10
<1>19. f \in [1 .. L -> Verifying!Stay(u)]
  BY <1>15
<1>20. \A k \in 1 .. L : u[f[k]] = t[map[i + k]]
  BY <1>13, <1>15
<1> HIDE DEF f
<1>21. Cardinality(Verifying!Stay(u)) = L /\ InOrder(Verifying!Stay(u)) = f
  BY ZenonT(40), <1>1, <1>16, <1>17, <1>18, <1>19, OnlyEnumeration
<1>22. Verifying!IndexMap(u) = f
  BY <1>21, EvidenceOrder
<1>23. Verifying!Flat(u) =
         [k \in 1 .. L |-> IF u[f[k]] \in Verifying!Spaces THEN Blank ELSE u[f[k]]]
  BY <1>12, <1>21, <1>22, FlatIsMapped
<1>24. Verifying!Flat(u) = [k \in 1 .. L |-> target[k]]
  BY <1>7, <1>20, <1>23
<1> QED
  BY <1>1, <1>11, <1>24 DEF a, b, u, target, L, map

\* Characters that the text of a chunk can have are not folded.
LEMMA FoldedSame ==
    ASSUME NEW t \in Seq(Verifying!TextChars)
    PROVE  Verifying!Folded(t) = t
<1> DEFINE n == Len(t)
           keep == {i \in DOMAIN t : t[i] # Hidden}
<1>1. n \in Nat /\ DOMAIN t = 1 .. n /\ t = [i \in 1 .. n |-> t[i]]
  OBVIOUS
<1>2. \A i \in 1 .. n : t[i] # Hidden /\ t[i] \notin Typographic
  <2>1. \A i \in 1 .. n : t[i] \in Letters \/ t[i] = Blank \/ t[i] = Newline
    BY <1>1 DEF Verifying!TextChars, Verifying!Spaces
  <2> QED
    BY <2>1, EvidenceSettings DEF Verifying!EvidenceAssumption
<1>3. keep = 1 .. n
  BY <1>1, <1>2
<1> HIDE DEF n
<1>4. Picked(t, 1 .. n) = t
  BY <1>1, FirstNumbers
<1> HIDE DEF keep
<1>5. Verifying!Folded(t) = [i \in DOMAIN t |-> IF t[i] \in Typographic THEN MCFold[t[i]] ELSE t[i]]
  BY <1>3, <1>4, EvidenceFold DEF keep
<1> QED
  BY <1>1, <1>2, <1>5

\* A folded quote is a text.
LEMMA FoldedIsText ==
    ASSUME NEW t \in Seq(Verifying!QuoteChars)
    PROVE  Verifying!Folded(t) \in Seq(Verifying!TextChars)
<1> DEFINE keep == {i \in DOMAIN t : t[i] # Hidden}
           n == Cardinality(keep)
           visible == Picked(t, keep)
<1>1. keep \in SUBSET (1 .. Len(t)) /\ keep \in SUBSET Nat
  OBVIOUS
<1>2. IsFiniteSet(keep)
  BY <1>1, FS_Interval, FS_Subset
<1>3. \A i \in keep : t[i] \in Verifying!QuoteChars \ {Hidden}
  OBVIOUS
<1>4. Verifying!Folded(t) = [i \in DOMAIN visible |->
                     IF visible[i] \in Typographic THEN MCFold[visible[i]] ELSE visible[i]]
  BY EvidenceFold
<1> HIDE DEF keep
<1>5. n \in Nat /\ DOMAIN visible = 1 .. n
  BY <1>1, <1>2, PickedOnce
<1>6. \A k \in 1 .. n : visible[k] \in Verifying!QuoteChars \ {Hidden}
  <2>1. \A k \in 1 .. n : InOrder(keep)[k] \in keep /\ visible[k] = t[InOrder(keep)[k]]
    <3>1. InOrder(keep) \in [1 .. n -> keep]
      BY <1>1, <1>2, InOrderEnumerates
    <3>2. visible = [k \in 1 .. n |-> t[InOrder(keep)[k]]]
      BY <3>1 DEF Picked
    <3> QED
      BY <3>1, <3>2
  <2> QED
    BY <2>1, <1>3
<1> HIDE DEF n, visible
<1>7. \A c \in Verifying!QuoteChars \ {Hidden} :
        (IF c \in Typographic THEN MCFold[c] ELSE c) \in Verifying!TextChars
  BY EvidenceSettings DEF Verifying!EvidenceAssumption, Verifying!QuoteChars, Verifying!TextChars
<1> QED
  BY <1>4, <1>5, <1>6, <1>7

\* The places of a quote that strip() leaves.
Kept(t) == {i \in DOMAIN t : /\ \E j \in 1 .. i : t[j] \notin Verifying!Spaces
                             /\ \E j \in i .. Len(t) : t[j] \notin Verifying!Spaces}

\* strip() leaves at least what the normal form has.
LEMMA StrippedBoundsFlat ==
    ASSUME NEW X, NEW t \in Seq(X)
    PROVE  Verifying!Stripped(t) \in Nat /\ Len(Verifying!Flat(t)) <= Verifying!Stripped(t)
           /\ Verifying!Stripped(t) <= Len(t)
<1>1. Verifying!Stripped(t) = Cardinality(Kept(t))
  BY EvidenceStripped DEF Kept
<1>2. Kept(t) \in SUBSET (1 .. Len(t))
  BY DEF Kept
<1>3. IsFiniteSet(1 .. Len(t)) /\ Cardinality(1 .. Len(t)) = Len(t)
  <2>1. /\ IsFiniteSet(1 .. Len(t))
        /\ Cardinality(1 .. Len(t)) = IF 1 > Len(t) THEN 0 ELSE Len(t) - 1 + 1
    BY FS_Interval
  <2> QED
    BY <2>1
<1>4. IsFiniteSet(Kept(t)) /\ Cardinality(Kept(t)) <= Len(t)
  BY <1>2, <1>3, FS_Subset
<1>5. Verifying!Stay(t) \in SUBSET Kept(t)
  <2>1. DOMAIN t = 1 .. Len(t)
    OBVIOUS
  <2>2. ASSUME NEW i \in 1 .. Len(t), t[i] \notin Verifying!Spaces
        PROVE  i \in Kept(t)
    <3>1. i \in 1 .. i /\ i \in i .. Len(t)
      OBVIOUS
    <3> QED
      BY <2>1, <2>2, <3>1 DEF Kept
  <2>3. ASSUME NEW i \in 1 .. Len(t), i > 1, t[i - 1] \notin Verifying!Spaces,
               \E j \in i .. Len(t) : t[j] \notin Verifying!Spaces
        PROVE  i \in Kept(t)
    <3>1. i - 1 \in 1 .. i
      BY <2>3
    <3> QED
      BY <2>1, <2>3, <3>1 DEF Kept
  <2> QED
    BY <2>1, <2>2, <2>3 DEF Verifying!Stay
<1>6. Cardinality(Verifying!Stay(t)) <= Cardinality(Kept(t)) /\ Cardinality(Kept(t)) \in Nat
  BY <1>4, <1>5, FS_Subset, FS_CardinalityType
<1>7. Len(Verifying!Flat(t)) = Cardinality(Verifying!Stay(t))
  BY FlatIsMapped
<1> QED
  BY <1>1, <1>4, <1>6, <1>7

\* A quote of white space has an empty normal form.
LEMMA NothingIsFlat ==
    ASSUME NEW t \in Seq(Verifying!QuoteChars), Verifying!Stripped(t) = 0
    PROVE  Len(Verifying!normalize_quote(t)) = 0
<1>1. Kept(t) = {}
  <2>1. Kept(t) \in SUBSET (1 .. Len(t))
    BY DEF Kept
  <2>2. IsFiniteSet(Kept(t))
    <3>1. IsFiniteSet(1 .. Len(t))
      BY FS_Interval
    <3> QED
      BY <2>1, <3>1, FS_Subset
  <2>3. Cardinality(Kept(t)) = 0
    BY EvidenceStripped DEF Kept
  <2> QED
    BY <2>2, <2>3, FS_EmptySet
<1>2. ASSUME NEW i \in 1 .. Len(t)
      PROVE  t[i] \in Verifying!Spaces
  <2>1. i \in 1 .. i /\ i \in i .. Len(t) /\ i \in DOMAIN t
    OBVIOUS
  <2> QED
    BY <1>1, <2>1 DEF Kept
<1>3. t \in Seq(Verifying!TextChars)
  BY <1>2 DEF Verifying!TextChars
<1>4. Verifying!normalize_quote(t) = Verifying!Flat(t)
  BY <1>3, FoldedSame DEF Verifying!normalize_quote
<1>5. Len(Verifying!Flat(t)) \in Nat /\ Len(Verifying!Flat(t)) <= 0
  BY StrippedBoundsFlat, FlatIsMapped
<1> QED
  BY <1>4, <1>5

\* A quote that is in a text as it is reads as it.
LEMMA ExactIsQuoted ==
    ASSUME NEW t \in Seq(Verifying!TextChars), NEW s \in Seq(Verifying!QuoteChars), NEW i \in Nat,
           Verifying!Occurs(s, t, i)
    PROVE  /\ i + Len(s) <= Len(t) /\ SubSeq(t, i + 1, i + Len(s)) = s
           /\ Verifying!normalize_quote(s) = Verifying!Flat(s)
<1>1. i + Len(s) <= Len(t) /\ SubSeq(t, i + 1, i + Len(s)) = s
  BY DEF Verifying!Occurs
<1>2. SubSeq(t, i + 1, i + Len(s)) \in Seq(Verifying!TextChars)
  BY <1>1
<1>3. Verifying!Folded(s) = s
  BY <1>1, <1>2, FoldedSame
<1> QED
  BY <1>1, <1>3 DEF Verifying!normalize_quote

-----------------------------------------------------------------------------

(* The inductive invariant: until verify_evidence returns nothing is         *)
(* promised, and it returns once.                                            *)
EvidenceInv == Verifying!TypeOK /\ (status = "none" \/ Verifying!VerifiedExactlyIfQuoted)

\* Whatever is called verified has the place of the quote in the text, with the
\* quote neither empty nor beyond the chunk.
LEMMA VerifiedKeeps ==
    ASSUME EvidenceInv, Verifying!Return("verified"), cited,
           NEW a \in 1 .. Len(text), NEW b \in a .. Len(text),
           from' = 3 + a - 1, to' = 3 + b,
           Verifying!Flat(SubSeq(text, a, b)) = Verifying!normalize_quote(quote)
    PROVE  EvidenceInv'
<1>1. /\ cited' = cited /\ text' = text /\ quote' = quote /\ status' = "verified"
      /\ Verifying!TypeOK
  BY DEF Verifying!Return, EvidenceInv
<1>2. 3 \in Nat
  BY EvidenceSettings DEF Verifying!EvidenceAssumption
<1>3. /\ from' \in Nat /\ to' \in Nat /\ from' < to' /\ 3 <= from'
      /\ Len(text) \in Nat /\ to' <= 3 + Len(text)
      /\ from' - 3 + 1 = a /\ to' - 3 = b
  BY <1>1, <1>2 DEF Verifying!TypeOK
<1>4. Verifying!TypeOK'
  BY <1>1, <1>3, Zenon DEF Verifying!TypeOK, Verifying!Statuses
<1>5. Verifying!VerifiedIsQuoted'
  <2>1. Verifying!Flat(SubSeq(text', from' - 3 + 1, to' - 3)) = Verifying!normalize_quote(quote')
    BY <1>1, <1>3
  <2> QED
    BY <1>1, <1>3, <2>1 DEF Verifying!VerifiedIsQuoted
<1>6. Verifying!GenuineIsVerified'
  BY <1>1, Zenon DEF Verifying!GenuineIsVerified
<1> QED
  BY <1>4, <1>5, <1>6 DEF EvidenceInv, Verifying!VerifiedExactlyIfQuoted

\* Whatever is refused or left to a human is not cited, too short, or not there.
LEMMA RefusedKeeps ==
    ASSUME EvidenceInv, NEW s \in {"needs_review", "quarantined"}, Verifying!Return(s),
           UNCHANGED <<from, to>>,
           \/ ~ cited
           \/ Len(Verifying!normalize_quote(quote)) < MIN_QUOTE_CHARS
           \/ ~ Verifying!IsIn(Verifying!normalize_quote(quote), Verifying!Flat(text))
    PROVE  EvidenceInv'
<1>1. /\ cited' = cited /\ text' = text /\ quote' = quote /\ status' = s
      /\ from' = from /\ to' = to /\ Verifying!TypeOK
  BY Zenon DEF Verifying!Return, EvidenceInv
<1>2. s # "verified" /\ s \in Verifying!Statuses
  BY DEF Verifying!Statuses
<1>3. Verifying!TypeOK'
  BY <1>1, <1>2, Zenon DEF Verifying!TypeOK
<1>4. Verifying!VerifiedIsQuoted'
  BY <1>1, <1>2, Zenon DEF Verifying!VerifiedIsQuoted
<1>5. Verifying!GenuineIsVerified'
  BY <1>1, Zenon DEF Verifying!GenuineIsVerified
<1> QED
  BY <1>3, <1>4, <1>5, Zenon DEF EvidenceInv, Verifying!VerifiedExactlyIfQuoted

\* What is in a text begins at some place in it.
LEMMA FoundIsThere ==
    ASSUME NEW s, NEW t, NEW i, Verifying!Find(s, t, i)
    PROVE  Verifying!Occurs(s, t, i)
BY DEF Verifying!Find

\* Every way to return keeps the invariant.
LEMMA EvidenceStep == EvidenceInv /\ [Verifying!Next]_Verifying!vars => EvidenceInv'
<1> SUFFICES ASSUME EvidenceInv, [Verifying!Next]_Verifying!vars
             PROVE  EvidenceInv'
  OBVIOUS
<1> DEFINE target == Verifying!normalize_quote(quote)
<1>1. text \in Seq(Verifying!TextChars) /\ quote \in Seq(Verifying!QuoteChars)
  BY DEF EvidenceInv, Verifying!TypeOK
<1>2. MIN_QUOTE_CHARS \in Nat /\ MIN_QUOTE_CHARS > 0 /\ 3 \in Nat
  BY EvidenceSettings DEF Verifying!EvidenceAssumption
<1>3. Verifying!Folded(quote) \in Seq(Verifying!TextChars)
      /\ target = Verifying!Flat(Verifying!Folded(quote))
  BY <1>1, FoldedIsText DEF Verifying!normalize_quote
<1>4. CASE Verifying!NothingQuoted
  <2>1. Verifying!Stripped(quote) = 0 => Len(target) < MIN_QUOTE_CHARS
    BY <1>1, <1>2, NothingIsFlat
  <2> QED
    BY <1>4, <2>1, RefusedKeeps DEF Verifying!NothingQuoted, Verifying!Quarantine
<1>5. CASE Verifying!MatchesExactly
  <2>1. PICK i \in 0 .. Len(text) : /\ Verifying!Find(quote, text, i)
                                    /\ from' = 3 + i
                                    /\ to' = 3 + i + Len(quote)
    BY <1>5 DEF Verifying!MatchesExactly
  <2>2. /\ i \in Nat /\ i + Len(quote) <= Len(text)
        /\ SubSeq(text, i + 1, i + Len(quote)) = quote /\ target = Verifying!Flat(quote)
    BY <1>1, <2>1, FoundIsThere, ExactIsQuoted
  <2>3. Len(quote) \in Nat /\ Len(quote) > 0
    BY <1>1, <1>5, StrippedBoundsFlat DEF Verifying!MatchesExactly, Verifying!Comparable
  <2> DEFINE a == i + 1
             b == i + Len(quote)
  <2>4. /\ a \in 1 .. Len(text) /\ b \in a .. Len(text)
        /\ from' = 3 + a - 1 /\ to' = 3 + b
    BY <1>1, <1>2, <2>1, <2>2, <2>3
  <2>5. Verifying!Flat(SubSeq(text, a, b)) = target
    BY <2>2
  <2>6. Verifying!Return("verified") /\ cited
    BY <1>5 DEF Verifying!MatchesExactly, Verifying!Comparable
  <2> HIDE DEF a, b, target
  <2> QED
    BY <2>4, <2>5, <2>6, VerifiedKeeps DEF target
<1>6. CASE Verifying!MatchesNormalized
  <2> DEFINE map == Verifying!IndexMap(text)
  <2>1. Len(target) >= MIN_QUOTE_CHARS
    BY <1>6 DEF Verifying!MatchesNormalized
  <2>2. PICK i \in 0 .. Len(map) : /\ Verifying!Find(target, Verifying!Flat(text), i)
                                   /\ from' = 3 + map[i + 1] - 1
                                   /\ to' = 3 + map[i + Len(target)]
    BY <1>6 DEF Verifying!MatchesNormalized
  <2>3. Len(target) \in Nat /\ Len(target) > 0 /\ Len(map) \in Nat
    BY <1>1, <1>2, <1>3, <2>1, FlatIsMapped
  <2>4. i \in Nat /\ Verifying!Occurs(target, Verifying!Flat(text), i)
    BY <2>2, <2>3, FoundIsThere
  <2> DEFINE a == map[i + 1]
             b == map[i + Len(target)]
  <2>5. a \in 1 .. Len(text) /\ b \in a .. Len(text) /\ Verifying!Flat(SubSeq(text, a, b)) = target
    BY <1>1, <1>3, <2>3, <2>4, MatchIsQuoted
  <2>6. Verifying!Return("verified") /\ cited
    BY <1>6 DEF Verifying!MatchesNormalized, Verifying!Comparable
  <2>7. from' = 3 + a - 1 /\ to' = 3 + b
    BY <2>2
  <2> HIDE DEF a, b, target
  <2> QED
    BY <2>5, <2>6, <2>7, VerifiedKeeps DEF target
<1>7. CASE Verifying!MatchesTooLittle
  <2>1. CASE Verifying!IsIn(quote, text)
    <3>1. PICK i \in 0 .. Len(text) : Verifying!Occurs(quote, text, i)
      BY <2>1 DEF Verifying!IsIn
    <3>2. target = Verifying!Flat(quote)
      BY <1>1, <3>1, ExactIsQuoted
    <3>3. Len(Verifying!Flat(quote)) \in Nat /\ Verifying!Stripped(quote) \in Nat
          /\ Len(Verifying!Flat(quote)) <= Verifying!Stripped(quote)
      BY <1>1, StrippedBoundsFlat, FlatIsMapped
    <3>4. Verifying!Stripped(quote) < MIN_QUOTE_CHARS
      BY <1>7, <2>1 DEF Verifying!MatchesTooLittle
    <3>5. Len(target) < MIN_QUOTE_CHARS
      BY <1>2, <3>2, <3>3, <3>4
    <3> QED
      BY <1>7, <3>5, RefusedKeeps DEF Verifying!MatchesTooLittle
  <2>2. CASE ~ Verifying!IsIn(quote, text)
    <3>1. Len(target) < MIN_QUOTE_CHARS
      BY <1>2, <1>7, <2>2 DEF Verifying!MatchesTooLittle
    <3> QED
      BY <1>7, <3>1, RefusedKeeps DEF Verifying!MatchesTooLittle
  <2> QED
    BY <2>1, <2>2
<1>8. CASE Verifying!NoMatch
  <2>1. target = <<>> => Len(target) < MIN_QUOTE_CHARS
    BY <1>2
  <2> QED
    BY <1>8, <2>1, RefusedKeeps DEF Verifying!NoMatch, Verifying!Quarantine
<1>9. CASE UNCHANGED Verifying!vars
  <2>1. cited' = cited /\ text' = text /\ quote' = quote /\ status' = status
        /\ from' = from /\ to' = to
    BY <1>9 DEF Verifying!vars
  <2>2. Verifying!TypeOK' = Verifying!TypeOK
    BY <2>1 DEF Verifying!TypeOK
  <2>3. Verifying!VerifiedIsQuoted' = Verifying!VerifiedIsQuoted
    BY <2>1 DEF Verifying!VerifiedIsQuoted
  <2>4. Verifying!GenuineIsVerified' = Verifying!GenuineIsVerified
    BY <2>1 DEF Verifying!GenuineIsVerified
  <2> QED
    BY <2>1, <2>2, <2>3, <2>4 DEF EvidenceInv, Verifying!VerifiedExactlyIfQuoted
<1> QED
  BY <1>4, <1>5, <1>6, <1>7, <1>8, <1>9 DEF Verifying!Next

\* A quote begins unchecked.
LEMMA EvidenceBegins == Verifying!Init => EvidenceInv
<1> SUFFICES ASSUME Verifying!Init
             PROVE  EvidenceInv
  OBVIOUS
<1>1. \A S : \A n \in Nat : \A t \in Verifying!SeqUpTo(S, n) : t \in Seq(S)
  BY DEF Verifying!SeqUpTo
<1>2. MaxText \in Nat /\ MaxQuote \in Nat
  BY EvidenceSettings DEF Verifying!EvidenceAssumption
<1>3. text \in Verifying!SeqUpTo(Verifying!TextChars, MaxText)
      /\ quote \in Verifying!SeqUpTo(Verifying!QuoteChars, MaxQuote)
  BY DEF Verifying!Init
<1>4. text \in Seq(Verifying!TextChars) /\ quote \in Seq(Verifying!QuoteChars)
  BY <1>1, <1>2, <1>3
<1>5. cited \in BOOLEAN /\ status = "none" /\ from = 0 /\ to = 0
  BY DEF Verifying!Init
<1>6. 0 \in Nat
  OBVIOUS
<1> QED
  BY <1>4, <1>5, <1>6, Zenon DEF EvidenceInv, Verifying!TypeOK, Verifying!Statuses

\* A quote is checked as verify_evidence does it, and keeps what it promises.
LEMMA EvidenceHolds == Verifying!Spec => []EvidenceInv
BY EvidenceBegins, EvidenceStep, PTL DEF Verifying!Spec

\* Evidence is verified exactly if it is quoted: what is stored with verified
\* evidence addresses the quote in the cited chunk, up to white space and
\* typography, and no quote that is there and long enough is refused
\* (verify_evidence).
THEOREM EvidenceIsQuoted == FairParts => []VerifiedExactlyIfQuoted
<1>1. EvidenceInv => VerifiedExactlyIfQuoted
  <2>1. Verifying!TypeOK /\ status = "none" => Verifying!VerifiedExactlyIfQuoted
    BY Zenon DEF Verifying!VerifiedExactlyIfQuoted, Verifying!VerifiedIsQuoted,
                 Verifying!GenuineIsVerified
  <2> QED
    BY <2>1 DEF EvidenceInv, VerifiedExactlyIfQuoted
<1> QED
  BY <1>1, EvidenceHolds, PartsVerify, PTL
=============================================================================
