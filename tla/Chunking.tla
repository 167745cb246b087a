----------------------------- MODULE Chunking -----------------------------
(***************************************************************************)
(* How a document is cut into chunks (services/chunking.py).               *)
(*                                                                         *)
(* Of a text only this matters: which characters are not blank (ink),      *)
(* where the patterns for headings and paragraphs see a clause begin       *)
(* (starts), and where a sentence ends before a blank (sentences).  It is  *)
(* any text that normalize_text returns, so it neither begins nor ends     *)
(* with a blank; a clause begins after a blank.  A span is [from, to), and  *)
(* a loop of the code is an action per round.                              *)
(***************************************************************************)
EXTENDS Integers, Sequences

CONSTANTS
    TARGET_TOKENS, MIN_TOKENS, MAX_TOKENS,
    CharsPerToken,
    MaxLength       \* bound: characters of a text

\* What the constants are.
SizesAssumption ==
    /\ {TARGET_TOKENS, MIN_TOKENS, MAX_TOKENS, CharsPerToken, MaxLength} \subseteq Nat \ {0}
    /\ MIN_TOKENS <= MAX_TOKENS

VARIABLES
    length, ink, starts, sentences,     \* the text
    pc,
    at,         \* where the next raw span begins
    pending,    \* what is too small to be a chunk, or NoSpan
    segment,    \* what is left of an oversized clause
    piece,      \* what is left of a piece of it
    merged,
    chunks

text == <<length, ink, starts, sentences>>
vars == <<length, ink, starts, sentences, pc, at, pending, segment, piece, merged, chunks>>

Span == [from : Nat, to : Nat]
NoSpan == [from |-> 0, to |-> 0]

TypeOK ==
    /\ length \in 1 .. MaxLength
    /\ ink \subseteq 0 .. length - 1
    /\ starts \subseteq 0 .. length
    /\ sentences \subseteq 1 .. length - 1
    /\ pc \in {"clauses", "split", "cut", "tighten", "done"}
    /\ at \in 0 .. length
    /\ {pending, segment, piece} \subseteq Span
    /\ merged \in Seq(Span)
    /\ chunks \in Seq(Span)

Init ==
    /\ length \in 1 .. MaxLength
    /\ ink \in {i \in SUBSET (0 .. length - 1) : {0, length - 1} \subseteq i}
    /\ starts \in {b \in SUBSET (0 .. length) :
                    {0, length} \subseteq b /\ \A s \in b \ {0, length} : s - 1 \notin ink}
    /\ sentences \in SUBSET {p \in 1 .. length - 1 : p \notin ink /\ p - 1 \in ink}
    /\ pc = "clauses"
    /\ at = 0
    /\ pending = NoSpan
    /\ segment = NoSpan
    /\ piece = NoSpan
    /\ merged = <<>>
    /\ chunks = <<>>

-----------------------------------------------------------------------------
Least(x, S) == x \in S /\ \A y \in S : x <= y
Greatest(x, S) == x \in S /\ \A y \in S : x >= y

\* estimate_tokens of so many characters.
Tokens(n) == (n + CharsPerToken - 1) \div CharsPerToken

InkIn(from, to) == {p \in ink : from <= p /\ p < to}

\* The first and the last character of a span that are left by strip().
Stripped(from, to, first, last) ==
    Least(first, InkIn(from, to)) /\ Greatest(last, InkIn(from, to))

NextStart(e) == Least(e, {s \in starts : at < s})

SkipBlank ==
    /\ pc = "clauses"
    /\ \E e \in starts :
         /\ NextStart(e)
         /\ InkIn(at, e) = {}
         /\ at' = e
    /\ UNCHANGED <<text, pc, pending, segment, piece, merged, chunks>>

\* A raw span with what is pending before it: too small, of the right size,
\* or oversized.
Clause(e, first, last) ==
    /\ pc = "clauses"
    /\ NextStart(e)
    /\ InkIn(at, e) # {}
    /\ Stripped(IF pending = NoSpan THEN at ELSE pending.from, e, first, last)
    /\ LET current == [from |-> IF pending = NoSpan THEN at ELSE pending.from, to |-> e]
           tokens == Tokens(last + 1 - first)
       IN  /\ pending' = IF tokens < MIN_TOKENS THEN current ELSE NoSpan
           /\ merged' = IF tokens \in MIN_TOKENS .. MAX_TOKENS
                        THEN Append(merged, current) ELSE merged
           /\ IF tokens > MAX_TOKENS
              THEN pc' = "split" /\ segment' = current
              ELSE UNCHANGED <<pc, segment>>
    /\ at' = e
    /\ UNCHANGED <<text, piece, chunks>>

\* Faulty variant of TakePiece: the end of the clause is no boundary.
TakeSentence ==
    /\ pc = "split"
    /\ \E e \in sentences :
         /\ Least(e, {p \in sentences : /\ p - segment.from >= TARGET_TOKENS * CharsPerToken
                                       /\ InkIn(p, segment.to) # {}})
         /\ piece' = [from |-> segment.from, to |-> e]
         /\ segment' = [from |-> e, to |-> segment.to]
    /\ pc' = "cut"
    /\ UNCHANGED <<text, at, pending, merged, chunks>>

\* _split_oversized: a piece ends at the first end of a sentence that makes it
\* large enough, or with the clause.
TakePiece ==
    /\ pc = "split"
    /\ \E e \in sentences \cup {segment.to} :
         /\ Least(e, {segment.to} \cup
                     {p \in sentences : /\ p - segment.from >= TARGET_TOKENS * CharsPerToken
                                        /\ InkIn(p, segment.to) # {}})
         /\ piece' = [from |-> segment.from, to |-> e]
         /\ segment' = [from |-> e, to |-> segment.to]
    /\ pc' = "cut"
    /\ UNCHANGED <<text, at, pending, merged, chunks>>

\* Faulty variant of CutPiece: a cut begins before the last one ended.
CutWithOverlap ==
    LET most == MAX_TOKENS * CharsPerToken
    IN  /\ pc = "cut"
        /\ IF piece.to - piece.from > most
           THEN /\ merged' = Append(merged, [from |-> piece.from, to |-> piece.from + most])
                /\ piece' = [from |-> piece.from + most - 1, to |-> piece.to]
                /\ UNCHANGED pc
           ELSE /\ merged' = Append(merged, piece)
                /\ piece' = NoSpan
                /\ pc' = IF segment.from < segment.to THEN "split" ELSE "clauses"
        /\ UNCHANGED <<text, at, pending, segment, chunks>>

\* A piece that is still oversized is cut where it must be.
CutPiece ==
    LET most == MAX_TOKENS * CharsPerToken
    IN  /\ pc = "cut"
        /\ IF piece.to - piece.from > most
           THEN /\ merged' = Append(merged, [from |-> piece.from, to |-> piece.from + most])
                /\ piece' = [from |-> piece.from + most, to |-> piece.to]
                /\ UNCHANGED pc
           ELSE /\ merged' = Append(merged, piece)
                /\ piece' = NoSpan
                /\ pc' = IF segment.from < segment.to THEN "split" ELSE "clauses"
        /\ UNCHANGED <<text, at, pending, segment, chunks>>

Last == merged[Len(merged)]

\* Faulty variant of JoinTail: the tail always joins the last chunk.
AlwaysJoinTail ==
    IF pending = NoSpan THEN merged
    ELSE IF merged # <<>>
         THEN [merged EXCEPT ![Len(merged)] = [from |-> Last.from, to |-> pending.to]]
         ELSE Append(merged, pending)

\* Faulty variant of JoinTail: the tail is dropped.
DropTail == merged

\* What is still pending at the end joins the last chunk if it fits.
JoinTail ==
    IF pending = NoSpan THEN merged
    ELSE IF merged # <<>> /\ Tokens(pending.to - Last.from) <= MAX_TOKENS
         THEN [merged EXCEPT ![Len(merged)] = [from |-> Last.from, to |-> pending.to]]
         ELSE Append(merged, pending)

EndOfText ==
    /\ pc = "clauses"
    /\ at = length
    /\ merged' = JoinTail
    /\ pending' = NoSpan
    /\ pc' = "tighten"
    /\ UNCHANGED <<text, at, segment, piece, chunks>>

\* Chunk begins and ends with ink; one that has none is dropped.
Tighten ==
    /\ pc = "tighten"
    /\ merged # <<>>
    /\ LET s == Head(merged)
       IN  IF InkIn(s.from, s.to) = {} THEN UNCHANGED chunks
           ELSE \E first, last \in ink :
                  /\ Stripped(s.from, s.to, first, last)
                  /\ chunks' = Append(chunks, [from |-> first, to |-> last + 1])
    /\ merged' = Tail(merged)
    /\ UNCHANGED <<text, pc, at, pending, segment, piece>>

Return ==
    /\ pc = "tighten"
    /\ merged = <<>>
    /\ pc' = "done"
    /\ UNCHANGED <<text, at, pending, segment, piece, merged, chunks>>

Next ==
    \/ SkipBlank
    \/ \E e \in starts, first, last \in ink : Clause(e, first, last)
    \/ TakePiece \/ CutPiece \/ EndOfText \/ Tighten \/ Return

Spec == Init /\ [][Next]_vars

FairSpec == Spec /\ WF_vars(Next)

-----------------------------------------------------------------------------
(* Properties.                                                             *)

\* Chunks are in the order of the text and do not overlap.
ChunksInOrder ==
    \A i, j \in DOMAIN chunks : i < j => chunks[i].to <= chunks[j].from

\* Every character that is not blank is in a chunk.
NothingIsLost ==
    pc = "done" => \A p \in ink : \E i \in DOMAIN chunks :
                      chunks[i].from <= p /\ p < chunks[i].to

\* No chunk is larger than the model is given, and each begins and ends with
\* ink, so that its offsets address exactly its text.
ChunksFit ==
    \A i \in DOMAIN chunks :
        /\ Tokens(chunks[i].to - chunks[i].from) <= MAX_TOKENS
        /\ chunks[i].from \in ink /\ chunks[i].to - 1 \in ink

\* The text is cut rightly: in order, without overlap, without loss, and into
\* chunks that are neither too large nor begin or end with a blank (chunk_document).
CutRightly == ChunksInOrder /\ NothingIsLost /\ ChunksFit

\* Cutting ends, whatever the text.
CuttingEnds == <>(pc = "done")
=============================================================================
