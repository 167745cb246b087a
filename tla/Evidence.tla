----------------------------- MODULE Evidence -----------------------------
(***************************************************************************)
(* How a quote is checked against the chunk that the model cites           *)
(* (services/verification.py), and where it is found in the document.      *)
(*                                                                         *)
(* A character is a letter, Blank, Newline, one of Typographic, which      *)
(* normalisation folds into a letter, or Hidden, which it removes.  The    *)
(* text of a chunk is normalised already and has none of the last two.     *)
(* The pipeline looks the chunk up among those of the document, so that a   *)
(* chunk of another document or organisation is one that does not exist.   *)
(***************************************************************************)
EXTENDS Integers, Sequences, FiniteSets, Enumeration

CONSTANTS
    Letters, Blank, Newline, Hidden,
    Typographic,
    Fold,               \* the letter that a typographic character stands for
    MIN_QUOTE_CHARS,
    Start,              \* start_offset of the chunk
    MaxText, MaxQuote   \* bounds: characters of a chunk and of a quote

EvidenceAssumption ==
    /\ {Blank, Newline, Hidden} \cap (Letters \cup Typographic) = {}
    /\ Letters \cap Typographic = {} /\ Hidden \notin {Blank, Newline}
    /\ Fold \in [Typographic -> Letters]
    /\ {MIN_QUOTE_CHARS, MaxText, MaxQuote} \subseteq Nat \ {0}
    /\ Start \in Nat

VARIABLES
    cited,      \* whether the chunk id of the finding is one of the document
    text,       \* its text
    quote,      \* what the model says it quotes
    status,     \* VerificationStatus
    from, to    \* doc_start_offset, doc_end_offset

vars == <<cited, text, quote, status, from, to>>

Spaces == {Blank, Newline}
TextChars == Letters \cup Spaces
QuoteChars == TextChars \cup Typographic \cup {Hidden}
SeqUpTo(S, n) == UNION {[1 .. k -> S] : k \in 0 .. n}

Statuses == {"none", "verified", "needs_review", "quarantined"}

TypeOK ==
    /\ cited \in BOOLEAN
    /\ text \in Seq(TextChars)
    /\ quote \in Seq(QuoteChars)
    /\ status \in Statuses
    /\ from \in Nat /\ to \in Nat
    /\ status = "verified" => from < to

\* A stored chunk: what normalize_text and the tightening of chunks leave.
IsChunk(t) ==
    /\ t # <<>> /\ t[1] \notin Spaces /\ t[Len(t)] \notin Spaces
    /\ \A i \in 1 .. Len(t) - 1 : t[i] = Blank => t[i + 1] \in Letters
    /\ \A i \in 1 .. Len(t) - 1 : t[i] = Newline => t[i + 1] # Blank
    /\ \A i \in 1 .. Len(t) - 2 : {t[i], t[i + 1], t[i + 2]} # {Newline}

Init ==
    /\ cited \in BOOLEAN
    /\ text \in {t \in SeqUpTo(TextChars, MaxText) : IsChunk(t)}
    /\ quote \in SeqUpTo(QuoteChars, MaxQuote)
    /\ status = "none"
    /\ from = 0
    /\ to = 0

-----------------------------------------------------------------------------
(* Normal forms.                                                           *)

\* The positions that stay when runs of spaces become one and none is left at
\* either end.
Stay(t) ==
    {i \in DOMAIN t :
        \/ t[i] \notin Spaces
        \/ /\ i > 1 /\ t[i - 1] \notin Spaces
           /\ \E j \in i .. Len(t) : t[j] \notin Spaces}

IndexMap(t) == InOrder(Stay(t))

Flat(t) ==
    LET map == IndexMap(t)
    IN  [k \in DOMAIN map |-> IF t[map[k]] \in Spaces THEN Blank ELSE t[map[k]]]

Folded(t) ==
    LET visible == Picked(t, {i \in DOMAIN t : t[i] # Hidden})
    IN  [i \in DOMAIN visible |->
            IF visible[i] \in Typographic THEN Fold[visible[i]] ELSE visible[i]]

normalize_quote(t) == Flat(Folded(t))

\* str.find: the least i such that s occurs in t after i characters.
Occurs(s, t, i) == /\ i \in 0 .. Len(t) - Len(s)
                   /\ SubSeq(t, i + 1, i + Len(s)) = s
Find(s, t, i) == Occurs(s, t, i) /\ \A j \in 0 .. i - 1 : ~ Occurs(s, t, j)
IsIn(s, t) == \E i \in 0 .. Len(t) : Occurs(s, t, i)

\* The length of a quote after strip().
Stripped(t) ==
    Cardinality({i \in DOMAIN t : /\ \E j \in 1 .. i : t[j] \notin Spaces
                                 /\ \E j \in i .. Len(t) : t[j] \notin Spaces})

-----------------------------------------------------------------------------
(* verify_evidence, one action per way to return.                          *)

Return(s) ==
    /\ status = "none"
    /\ status' = s
    /\ UNCHANGED <<cited, text, quote>>

Quarantine == Return("quarantined") /\ UNCHANGED <<from, to>>

NothingQuoted ==
    /\ ~ cited \/ Stripped(quote) = 0
    /\ Quarantine

Comparable == cited /\ Stripped(quote) > 0

MatchesExactly ==
    /\ Comparable
    /\ Stripped(quote) >= MIN_QUOTE_CHARS
    /\ \E i \in 0 .. Len(text) :
         /\ Find(quote, text, i)
         /\ from' = Start + i
         /\ to' = Start + i + Len(quote)
    /\ Return("verified")

\* Faulty variant of MatchesNormalized: the end is the place of the next
\* character that counts.
MatchesUpToNext ==
    /\ Comparable
    /\ ~ IsIn(quote, text)
    /\ LET target == normalize_quote(quote)
           map == IndexMap(text)
       IN  /\ Len(target) >= MIN_QUOTE_CHARS
           /\ \E i \in 0 .. Len(map) :
                /\ Find(target, Flat(text), i)
                /\ from' = Start + map[i + 1] - 1
                /\ to' = Start + (IF i + Len(target) < Len(map)
                                  THEN map[i + Len(target) + 1] ELSE Len(text))
    /\ Return("verified")

\* The offsets are those of the first and the last character of the match.
MatchesNormalized ==
    /\ Comparable
    /\ ~ IsIn(quote, text)
    /\ LET target == normalize_quote(quote)
           map == IndexMap(text)
       IN  /\ Len(target) >= MIN_QUOTE_CHARS
           /\ \E i \in 0 .. Len(map) :
                /\ Find(target, Flat(text), i)
                /\ from' = Start + map[i + 1] - 1
                /\ to' = Start + map[i + Len(target)]
    /\ Return("verified")

MatchesTooLittle ==
    /\ Comparable
    /\ IF IsIn(quote, text) THEN Stripped(quote) < MIN_QUOTE_CHARS
       ELSE LET target == normalize_quote(quote)
            IN  IsIn(target, Flat(text)) /\ Len(target) \in 1 .. MIN_QUOTE_CHARS - 1
    /\ Return("needs_review")
    /\ UNCHANGED <<from, to>>

\* Faulty variant of NoMatch: the normal form of the quote is looked for in the
\* text as it is.
NoMatchInText ==
    /\ Comparable
    /\ ~ IsIn(quote, text)
    /\ LET target == normalize_quote(quote)
       IN  target = <<>> \/ ~ IsIn(target, text)
    /\ Quarantine

NoMatch ==
    /\ Comparable
    /\ ~ IsIn(quote, text)
    /\ LET target == normalize_quote(quote)
       IN  target = <<>> \/ ~ IsIn(target, Flat(text))
    /\ Quarantine

Next ==
    \/ NothingQuoted
    \/ MatchesExactly
    \/ MatchesNormalized
    \/ MatchesTooLittle
    \/ NoMatch

Spec == Init /\ [][Next]_vars

-----------------------------------------------------------------------------
(* Properties.                                                             *)

\* What the offsets of verified evidence address is in the cited chunk and
\* reads as the quote does, up to white space and typography.
VerifiedIsQuoted ==
    status = "verified" =>
        /\ cited
        /\ Start <= from /\ from < to /\ to <= Start + Len(text)
        /\ Flat(SubSeq(text, from - Start + 1, to - Start)) = normalize_quote(quote)

\* A quote that is in the chunk up to white space and typography, and not too
\* short, is never quarantined or left to a human.
GenuineIsVerified ==
    /\ status \notin {"none", "verified"}
    /\ cited
    => \/ Len(normalize_quote(quote)) < MIN_QUOTE_CHARS
       \/ ~ IsIn(normalize_quote(quote), Flat(text))

\* Evidence is verified exactly if it is quoted: nothing that is verified is
\* anything but the quote, and no genuine quote is refused (verify_evidence).
VerifiedExactlyIfQuoted == VerifiedIsQuoted /\ GenuineIsVerified
=============================================================================
