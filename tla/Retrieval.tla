----------------------------- MODULE Retrieval -----------------------------
(***************************************************************************)
(* HybridRetriever.retrieve: search by meaning and by words, fuse the two  *)
(* rankings by reciprocal rank, and fall back tier by tier                 *)
(* (services/retrieval.py).                                                *)
(*                                                                         *)
(* The scores that the fusion compares are exact fractions here.           *)
(***************************************************************************)
EXTENDS Integers, Sequences, FiniteSets

CONSTANTS
    Chunks,         \* of the document
    TopK,           \* chunks to return
    Candidates,     \* chunks that each search is asked for
    RRF_K

\* What the constants are.
RetrievalAssumption ==
    /\ IsFiniteSet(Chunks)
    /\ {TopK, Candidates, RRF_K} \subseteq Nat \ {0}

VARIABLES
    pc,         \* the await that retrieve is at
    dense,      \* chunks that the search by meaning found, best first
    keyword,    \* chunks that the search by words found, best first
    mode,       \* RetrievalMode
    found       \* the chunks returned

vars == <<pc, dense, keyword, mode, found>>

IsRanking(s) == \A i, j \in DOMAIN s : s[i] = s[j] => i = j

Modes == {"hybrid", "dense", "keyword", "ordinal_scan"}

TypeOK ==
    /\ pc \in {"dense", "keyword", "fuse", "scan", "end"}
    /\ dense \in Seq(Chunks) /\ IsRanking(dense) /\ Len(dense) <= Candidates
    /\ keyword \in Seq(Chunks) /\ IsRanking(keyword) /\ Len(keyword) <= Candidates
    /\ mode \in Modes \cup {"none", "raised"}
    /\ found \in Seq(Chunks) /\ IsRanking(found) /\ Len(found) <= TopK

Init ==
    /\ pc = "dense"
    /\ dense = <<>>
    /\ keyword = <<>>
    /\ mode = "none"
    /\ found = <<>>

\* What a search that may return so many chunks can return.
Rankings(n) ==
    UNION {{s \in [1 .. k -> Chunks] : IsRanking(s)} :
             k \in {m \in 0 .. n : m <= Cardinality(Chunks)}}

First(n, s) == SubSeq(s, 1, IF n < Len(s) THEN n ELSE Len(s))

-----------------------------------------------------------------------------
\* A search that raises, and an embedding that cannot be computed, count as a
\* search that finds nothing.
DenseSearch ==
    /\ pc = "dense"
    /\ dense' \in Rankings(Candidates)
    /\ pc' = "keyword"
    /\ UNCHANGED <<keyword, mode, found>>

KeywordSearch ==
    /\ pc = "keyword"
    /\ keyword' \in Rankings(Candidates)
    /\ pc' = IF dense = <<>> /\ keyword' = <<>> THEN "scan" ELSE "fuse"
    /\ UNCHANGED <<dense, mode, found>>

Return(m, s) ==
    /\ pc' = "end"
    /\ mode' = m
    /\ found' = s
    /\ UNCHANGED <<dense, keyword>>

IsIn(c, s) == \E i \in DOMAIN s : s[i] = c
RankIn(c, s) == CHOOSE i \in DOMAIN s : s[i] = c
Either(c) == IsIn(c, dense) \/ IsIn(c, keyword)
Both(c) == IsIn(c, dense) /\ IsIn(c, keyword)

\* Faulty variant of Score: the later ranking replaces the score of the first.
ScoreOfLast(c) ==
    [num |-> 1,
     den |-> RRF_K + IF IsIn(c, keyword) THEN RankIn(c, keyword) ELSE RankIn(c, dense)]

\* Faulty variant of Score: ranks count the wrong way.
ScoreOfWorst(c) ==
    IF Both(c)
    THEN [num |-> (RRF_K - RankIn(c, dense)) + (RRF_K - RankIn(c, keyword)),
          den |-> (RRF_K - RankIn(c, dense)) * (RRF_K - RankIn(c, keyword))]
    ELSE [num |-> 1,
          den |-> RRF_K - IF IsIn(c, dense) THEN RankIn(c, dense) ELSE RankIn(c, keyword)]

\* The sum of 1 / (RRF_K + rank) over the rankings that have the chunk.
Score(c) ==
    IF Both(c)
    THEN [num |-> (RRF_K + RankIn(c, dense)) + (RRF_K + RankIn(c, keyword)),
          den |-> (RRF_K + RankIn(c, dense)) * (RRF_K + RankIn(c, keyword))]
    ELSE [num |-> 1,
          den |-> RRF_K + IF IsIn(c, dense) THEN RankIn(c, dense) ELSE RankIn(c, keyword)]

Higher(c, d) == Score(c).num * Score(d).den > Score(d).num * Score(c).den

\* In the order of first appearance, the chunks of the search by meaning first.
SeenBefore(c, d) ==
    IF IsIn(c, dense) THEN ~ IsIn(d, dense) \/ RankIn(c, dense) < RankIn(d, dense)
                      ELSE ~ IsIn(d, dense) /\ RankIn(c, keyword) < RankIn(d, keyword)

Precedes(c, d) == Higher(c, d) \/ (~ Higher(d, c) /\ SeenBefore(c, d))

\* The best of the fused ranking, in its order.
IsFused(s) ==
    /\ IsRanking(s)
    /\ Len(s) <= TopK
    /\ \A i \in DOMAIN s : Either(s[i])
    /\ \A i, j \in DOMAIN s : i < j => Precedes(s[i], s[j])
    /\ \A c \in Chunks : Either(c) /\ ~ IsIn(c, s) =>
          Len(s) = TopK /\ \A i \in DOMAIN s : Precedes(s[i], c)

Fuse ==
    /\ pc = "fuse"
    /\ dense # <<>> /\ keyword # <<>>
    /\ \E s \in {r \in Rankings(TopK) : IsFused(r)} : Return("hybrid", s)

FallBackToDense ==
    /\ pc = "fuse"
    /\ keyword = <<>>
    /\ Return("dense", First(TopK, dense))

FallBackToKeyword ==
    /\ pc = "fuse"
    /\ dense = <<>>
    /\ Return("keyword", First(TopK, keyword))

\* The first chunks of the document, whatever they say.
OrdinalScan ==
    /\ pc = "scan"
    /\ \E s \in Rankings(TopK) : Return("ordinal_scan", s)

ScanRaises ==
    /\ pc = "scan"
    /\ Return("raised", <<>>)

Next ==
    \/ DenseSearch
    \/ KeywordSearch
    \/ Fuse
    \/ FallBackToDense
    \/ FallBackToKeyword
    \/ OrdinalScan
    \/ ScanRaises

Spec == Init /\ [][Next]_vars

-----------------------------------------------------------------------------
(* Properties.                                                             *)

\* c is returned, and before the chunk at place j.
ReturnedBefore(c, j) == \E i \in 1 .. j - 1 : found[i] = c

\* A chunk that both searches found precedes one that only one of them found,
\* however well the one ranked it.
ConsensusWins ==
    mode = "hybrid" =>
        \A j \in DOMAIN found, c \in Chunks :
            Both(c) /\ ~ Both(found[j]) => ReturnedBefore(c, j)

\* A chunk that both searches ranked above another precedes it.
AgreementIsKept ==
    mode = "hybrid" =>
        \A j \in DOMAIN found, c \in Chunks :
            /\ Both(c) /\ Both(found[j])
            /\ RankIn(c, dense) < RankIn(found[j], dense)
            /\ RankIn(c, keyword) < RankIn(found[j], keyword)
            => ReturnedBefore(c, j)

\* The fused ranking respects both searches: what both found precedes what one
\* found, and an order on which they agree is kept (reciprocal_rank_fusion).
FusionIsFair == ConsensusWins /\ AgreementIsKept
=============================================================================
