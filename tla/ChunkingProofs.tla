-------------------------- MODULE ChunkingProofs --------------------------
(***************************************************************************)
(* What Chunking guarantees for any text and any sizes, proved.            *)
(***************************************************************************)
EXTENDS Chunking, TLAPS

\* No more than MAX_TOKENS are no more characters than they hold.
LEMMA TokensFit ==
    ASSUME SizesAssumption, NEW n \in Nat
    PROVE  Tokens(n) <= MAX_TOKENS <=> n <= MAX_TOKENS * CharsPerToken
<1> DEFINE c == CharsPerToken
           m == MAX_TOKENS
           q == (n + c - 1) \div c
<1>1. c \in Nat /\ c > 0 /\ m \in Nat  BY DEF SizesAssumption
<1>2. q \in Int /\ q * c <= n + c - 1 /\ n + c - 1 < q * c + c
  BY <1>1
<1> HIDE DEF q
<1>3. ASSUME q <= m PROVE q * c <= m * c
  BY <1>1, <1>2, <1>3
<1>4. ASSUME q >= m + 1 PROVE q * c >= m * c + c
  BY <1>1, <1>2, <1>4
<1>5. m * c \in Int /\ q * c \in Int
  BY <1>1, <1>2
<1> HIDE DEF c, m
<1>6. q <= m <=> n <= m * c
  BY <1>1, <1>2, <1>3, <1>4, <1>5
<1> QED
  BY <1>6 DEF q, m, c, Tokens

Inside(p, s) == s.from <= p /\ p < s.to

\* What is left of a span by strip() is not oversized.
Fits(s) ==
    \A p, q \in ink : Inside(p, s) /\ Inside(q, s) /\ p <= q => Tokens(q + 1 - p) <= MAX_TOKENS

\* The spans m are in order, end before f, fit, and hold all ink before f.
Cuts(m, f) ==
    /\ m \in Seq(Span)
    /\ \A i \in DOMAIN m : m[i].from < m[i].to /\ m[i].to <= f /\ Fits(m[i])
    /\ \A i, j \in DOMAIN m : i < j => m[i].to <= m[j].from
    /\ \A p \in ink : p < f => \E i \in DOMAIN m : Inside(p, m[i])

LEMMA CutsMore ==
    ASSUME TypeOK, NEW m, NEW f \in Nat, NEW g \in Nat, NEW s \in Span,
           Cuts(m, f), f <= s.from, s.from < s.to, s.to <= g, Fits(s),
           \A p \in ink : f <= p /\ p < g => Inside(p, s)
    PROVE  Cuts(Append(m, s), g)
<1>1. /\ Append(m, s) \in Seq(Span) /\ Len(m) \in Nat
      /\ DOMAIN m = 1 .. Len(m) /\ DOMAIN Append(m, s) = 1 .. Len(m) + 1
      /\ \A i \in 1 .. Len(m) : Append(m, s)[i] = m[i] /\ m[i] \in Span
      /\ Append(m, s)[Len(m) + 1] = s
  BY DEF Cuts
<1>2. \A i \in 1 .. Len(m) : m[i].from \in Nat /\ m[i].to \in Nat
  BY <1>1 DEF Span
<1>3. s.from \in Nat /\ s.to \in Nat
  BY DEF Span
<1>4. \A i \in 1 .. Len(m) + 1 :
        /\ Append(m, s)[i].from < Append(m, s)[i].to /\ Append(m, s)[i].to <= g
        /\ Fits(Append(m, s)[i])
  <2>1. \A i \in 1 .. Len(m) : m[i].from < m[i].to /\ m[i].to <= f /\ Fits(m[i])
    BY DEF Cuts
  <2>2. ASSUME NEW i \in 1 .. Len(m)
        PROVE  /\ Append(m, s)[i] = m[i] /\ m[i].from < m[i].to
               /\ m[i].to <= g /\ Fits(m[i])
    <3>1. m[i].to \in Nat /\ m[i].to <= f
      BY <1>2, <2>1
    <3>2. m[i].to <= g
      BY <1>3, <3>1
    <3> QED
      BY <1>1, <2>1, <3>2
  <2>3. ASSUME NEW i \in 1 .. Len(m) + 1
        PROVE  i \in 1 .. Len(m) \/ i = Len(m) + 1
    BY <1>1
  <2> QED
    BY <1>1, <2>2, <2>3
<1>5. ASSUME NEW i \in 1 .. Len(m) + 1, NEW j \in 1 .. Len(m) + 1, i < j
      PROVE  Append(m, s)[i].to <= Append(m, s)[j].from
  <2>1. i \in 1 .. Len(m) /\ Append(m, s)[i] = m[i] /\ m[i].to <= f
    BY <1>1, <1>5 DEF Cuts
  <2>2. CASE j \in 1 .. Len(m)
    BY <1>1, <1>5, <2>1, <2>2 DEF Cuts
  <2>3. CASE j = Len(m) + 1
    BY <1>1, <1>2, <1>3, <2>1, <2>3
  <2> QED
    BY <1>1, <2>2, <2>3
<1>6. ASSUME NEW p \in ink, p < g
      PROVE  \E i \in 1 .. Len(m) + 1 : Inside(p, Append(m, s)[i])
  <2>1. p \in Int
    BY DEF TypeOK
  <2>2. CASE p < f
    BY <1>1, <2>2 DEF Cuts
  <2>3. CASE f <= p
    BY <1>1, <1>6, <2>3
  <2> QED
    BY <2>1, <2>2, <2>3
<1> QED
  BY <1>1, <1>4, <1>5, <1>6 DEF Cuts

\* Blanks need not be in a span.
LEMMA CutsPastBlanks ==
    ASSUME TypeOK, NEW m, NEW f \in Nat, NEW g \in Nat,
           Cuts(m, f), f <= g, \A p \in ink : ~(f <= p /\ p < g)
    PROVE  Cuts(m, g)
<1>1. \A i \in DOMAIN m : m[i].to \in Nat
  <2>1. m \in Seq(Span)
    BY DEF Cuts
  <2>2. \A i \in DOMAIN m : m[i] \in Span
    BY <2>1
  <2> QED
    BY <2>2 DEF Span
<1>2. \A p \in ink : p \in Int
  BY DEF TypeOK
<1> QED
  BY <1>1, <1>2 DEF Cuts

\* The last span may grow over blanks and ink as long as it fits.
LEMMA CutsWider ==
    ASSUME TypeOK, NEW m, NEW f \in Nat, NEW g \in Nat, NEW t \in Nat, NEW s \in Span,
           Cuts(m, f), m # <<>>, f <= t, t <= g,
           s = [from |-> m[Len(m)].from, to |-> t], Fits(s),
           \A p \in ink : ~(t <= p /\ p < g)
    PROVE  Cuts([m EXCEPT ![Len(m)] = s], g)
<1> DEFINE w == [m EXCEPT ![Len(m)] = s]
           n == Len(m)
<1>1. /\ m \in Seq(Span) /\ n \in Nat /\ n > 0 /\ DOMAIN m = 1 .. n
      /\ \A i \in 1 .. n : m[i] \in Span
  <2>1. m \in Seq(Span)
    BY DEF Cuts
  <2> QED
    BY <2>1
<1>2. /\ w \in Seq(Span) /\ DOMAIN w = 1 .. n /\ w[n] = s
      /\ \A i \in 1 .. n : i # n => w[i] = m[i]
  BY <1>1
<1>3. \A i \in 1 .. n : m[i].from \in Nat /\ m[i].to \in Nat
  BY <1>1 DEF Span
<1>4. s.from = m[n].from /\ s.to = t
  OBVIOUS
<1>5. /\ \A i \in 1 .. n : m[i].from < m[i].to /\ m[i].to <= f /\ Fits(m[i])
      /\ \A i, j \in 1 .. n : i < j => m[i].to <= m[j].from
      /\ \A p \in ink : p < f => \E i \in 1 .. n : Inside(p, m[i])
  BY <1>1 DEF Cuts
<1> HIDE DEF w, n
<1>6. ASSUME NEW i \in 1 .. n
      PROVE  w[i].from < w[i].to /\ w[i].to <= g /\ Fits(w[i])
  <2>1. CASE i = n
    <3>1. m[n].from < m[n].to /\ m[n].to <= f
      BY <1>1, <1>5
    <3> QED
      BY <1>1, <1>2, <1>3, <1>4, <2>1, <3>1
  <2>2. CASE i # n
    BY <1>2, <1>3, <1>5, <2>2
  <2> QED
    BY <2>1, <2>2
<1>7. ASSUME NEW i \in 1 .. n, NEW j \in 1 .. n, i < j
      PROVE  w[i].to <= w[j].from
  <2>1. i # n /\ w[i] = m[i] /\ m[i].to <= m[j].from
    BY <1>1, <1>2, <1>7, <1>5
  <2>2. w[j].from = m[j].from
    BY <1>2, <1>4
  <2> QED
    BY <2>1, <2>2
<1>8. ASSUME NEW p \in ink, p < g
      PROVE  \E i \in 1 .. n : Inside(p, w[i])
  <2>1. p \in Int
    BY DEF TypeOK
  <2>2. CASE p < f
    <3>1. PICK i \in 1 .. n : Inside(p, m[i])
      BY <1>5, <2>2
    <3>2. CASE i = n
      <4>1. s.from <= p /\ p < s.to
        BY <1>4, <2>1, <2>2, <3>1, <3>2 DEF Inside
      <4> QED
        BY <1>1, <1>2, <4>1 DEF Inside
    <3> QED
      BY <1>2, <3>1, <3>2
  <2>3. CASE f <= p
    <3>1. p < t
      BY <1>8, <2>1
    <3>2. m[n].from <= p
      <4>1. m[n].from < m[n].to /\ m[n].to <= f
        BY <1>1, <1>5
      <4> QED
        BY <1>1, <1>3, <2>1, <2>3, <4>1
    <3>3. s.from <= p /\ p < s.to
      BY <1>4, <3>1, <3>2
    <3> QED
      BY <1>1, <1>2, <3>3 DEF Inside
  <2> QED
    BY <2>1, <2>2, <2>3
<1> QED
  BY <1>2, <1>6, <1>7, <1>8 DEF Cuts, w, n

-----------------------------------------------------------------------------
\* Up to where the text is in the merged spans, and what is still held.
Frontier ==
    IF pc = "split" THEN segment.from
    ELSE IF pc = "cut" THEN piece.from
    ELSE IF pc = "clauses" THEN (IF pending = NoSpan THEN at ELSE pending.from)
    ELSE length

Held ==
    /\ pc = "clauses" => \/ pending = NoSpan
                         \/ /\ pending.from < pending.to /\ pending.to <= at
                            /\ InkIn(pending.to, at) = {}
                            /\ Fits(pending)
    /\ pc # "clauses" => pending = NoSpan
    /\ pc \in {"split", "cut"} => segment.from <= segment.to /\ segment.to = at
    /\ pc = "split" => segment.from < segment.to
    /\ pc = "cut" => piece.from < piece.to /\ piece.to = segment.from
    /\ pc \in {"tighten", "done"} => at = length

\* Chunks come before the spans that are left, fit, and begin and end with ink.
Done ==
    /\ pc \notin {"tighten", "done"} => chunks = <<>> /\ Cuts(merged, Frontier)
    /\ pc = "done" => merged = <<>>
    /\ \A i \in DOMAIN chunks :
         /\ chunks[i].from \in ink /\ chunks[i].to - 1 \in ink
         /\ chunks[i].from < chunks[i].to
         /\ Tokens(chunks[i].to - chunks[i].from) <= MAX_TOKENS
    /\ \A i, j \in DOMAIN chunks : i < j => chunks[i].to <= chunks[j].from
    /\ \A i \in DOMAIN merged : merged[i].from < merged[i].to /\ Fits(merged[i])
    /\ \A i, j \in DOMAIN merged : i < j => merged[i].to <= merged[j].from
    /\ \A i \in DOMAIN chunks, j \in DOMAIN merged : chunks[i].to <= merged[j].from
    /\ pc \in {"tighten", "done"} => \A p \in ink :
         \/ \E i \in DOMAIN merged : Inside(p, merged[i])
         \/ \E i \in DOMAIN chunks : Inside(p, chunks[i])

Inv == TypeOK /\ Held /\ Done

LEMMA StillCutting ==
    ASSUME ink' = ink, pc' \notin {"tighten", "done"}, chunks' = <<>>,
           Cuts(merged', Frontier')
    PROVE  Done'
  BY DEF Done, Cuts, Fits, Inside, Tokens

\* Characters that MAX_TOKENS hold fit, whichever of them are blank.
LEMMA FewFit ==
    ASSUME SizesAssumption, TypeOK, NEW a \in Nat, NEW b \in Nat,
           b - a <= MAX_TOKENS * CharsPerToken
    PROVE  Fits([from |-> a, to |-> b])
<1> SUFFICES ASSUME NEW p \in ink, NEW q \in ink, a <= p, q < b, p <= q
             PROVE  Tokens(q + 1 - p) <= MAX_TOKENS
  BY DEF Fits, Inside
<1>1. p \in Int /\ q \in Int /\ q + 1 - p \in Nat
  BY DEF TypeOK
<1>2. MAX_TOKENS * CharsPerToken \in Int
  BY DEF SizesAssumption
<1>3. q + 1 - p <= MAX_TOKENS * CharsPerToken
  BY <1>1, <1>2
<1> QED
  BY <1>1, <1>3, TokensFit

LEMMA SkipBlankKeeps ==
    ASSUME Inv, SkipBlank
    PROVE  Inv'
<1>1. PICK e \in starts : NextStart(e) /\ InkIn(at, e) = {} /\ at' = e
  BY DEF SkipBlank
<1>2. e \in Nat /\ at \in Nat /\ at < e /\ e \in 0 .. length /\ \A p \in ink : p \in Int
  BY <1>1 DEF NextStart, Least, Inv, TypeOK
<1>3. /\ UNCHANGED <<length, ink, starts, sentences, pc, pending, segment, piece, merged, chunks>>
      /\ pc = "clauses"
  BY DEF SkipBlank, text
<1>4. TypeOK'
  BY <1>1, <1>2, <1>3 DEF Inv, TypeOK
<1>5. Held'
  <2>1. CASE pending = NoSpan
    BY <1>3, <2>1 DEF Held
  <2>2. CASE pending # NoSpan
    <3>1. pending.to \in Nat /\ pending.from < pending.to /\ pending.to <= at
          /\ InkIn(pending.to, at) = {} /\ Fits(pending)
      BY <1>3, <2>2 DEF Inv, Held, TypeOK, Span
    <3>2. pending.to <= at' /\ InkIn(pending.to, at') = {}
      BY <1>1, <1>2, <3>1 DEF InkIn
    <3> QED
      BY <1>3, <3>1, <3>2 DEF Held, Fits, Inside, InkIn, Tokens
  <2> QED
    BY <2>1, <2>2
<1>6. Cuts(merged, Frontier')
  <2>1. Cuts(merged, Frontier)
    BY <1>3 DEF Inv, Done
  <2>2. CASE pending = NoSpan
    <3>1. Frontier = at /\ Frontier' = e
      BY <1>1, <1>3, <2>2 DEF Frontier
    <3>2. \A p \in ink : ~(at <= p /\ p < e)
      BY <1>1 DEF InkIn
    <3> QED
      BY <1>2, <2>1, <3>1, <3>2, CutsPastBlanks DEF Inv
  <2>3. CASE pending # NoSpan
    BY <1>3, <2>1, <2>3 DEF Frontier
  <2> QED
    BY <2>2, <2>3
<1>7. Done'
  BY <1>3, <1>6, StillCutting DEF Inv, Done
<1> QED
  BY <1>4, <1>5, <1>7 DEF Inv

LEMMA ClauseKeeps ==
    ASSUME SizesAssumption, Inv, NEW e \in starts, NEW first \in ink, NEW last \in ink,
           Clause(e, first, last)
    PROVE  Inv'
<1> DEFINE begin == IF pending = NoSpan THEN at ELSE pending.from
           current == [from |-> begin, to |-> e]
           tokens == Tokens(last + 1 - first)
<1>1. /\ pc = "clauses" /\ NextStart(e) /\ Stripped(begin, e, first, last)
      /\ pending' = IF tokens < MIN_TOKENS THEN current ELSE NoSpan
      /\ merged' = IF tokens \in MIN_TOKENS .. MAX_TOKENS THEN Append(merged, current) ELSE merged
      /\ tokens > MAX_TOKENS => pc' = "split" /\ segment' = current
      /\ ~(tokens > MAX_TOKENS) => UNCHANGED <<pc, segment>>
      /\ at' = e
      /\ UNCHANGED <<length, ink, starts, sentences, piece, chunks>>
  BY DEF Clause, text
<1>2. at \in Nat /\ e \in 0 .. length /\ at < e /\ \A p \in ink : p \in Nat
  BY <1>1 DEF NextStart, Least, Inv, TypeOK
<1>3. begin \in Nat /\ begin <= at /\ begin = Frontier
  <2>1. pending \in Span
    BY DEF Inv, TypeOK
  <2>2. pending # NoSpan => pending.from < pending.to /\ pending.to <= at
    BY <1>1 DEF Inv, Held
  <2> QED
    BY <1>1, <1>2, <2>1, <2>2 DEF Frontier, Span
<1>4. current \in Span /\ current.from = begin /\ current.to = e
  BY <1>2, <1>3 DEF Span
<1>5. Cuts(merged, Frontier) /\ chunks = <<>> /\ merged \in Seq(Span)
  BY <1>1 DEF Inv, Done, TypeOK
<1>6. tokens \in Int /\ MIN_TOKENS \in Nat /\ MAX_TOKENS \in Nat /\ MIN_TOKENS <= MAX_TOKENS
  <2>1. CharsPerToken \in Nat /\ CharsPerToken > 0 /\ first \in Nat /\ last \in Nat
    BY <1>2 DEF SizesAssumption
  <2> QED
    BY <2>1 DEF Tokens, SizesAssumption
<1>7. \A p \in ink : begin <= p /\ p < e => first <= p /\ p <= last
  BY <1>1 DEF Stripped, Least, Greatest, InkIn
<1>8. first <= last /\ begin <= first /\ last < e
  BY <1>1, <1>7 DEF Stripped, Least, Greatest, InkIn
<1>9. ASSUME tokens <= MAX_TOKENS
      PROVE  Fits(current)
  <2>1. last + 1 - first \in Nat
    BY <1>2, <1>8
  <2>2. last + 1 - first <= MAX_TOKENS * CharsPerToken
    BY <1>9, <2>1, TokensFit
  <2> SUFFICES ASSUME NEW p \in ink, NEW q \in ink, begin <= p, q < e, p <= q
               PROVE  Tokens(q + 1 - p) <= MAX_TOKENS
    BY <1>4 DEF Fits, Inside
  <2>3. first <= p /\ q <= last
    BY <1>2, <1>3, <1>7
  <2>4. q + 1 - p \in Nat /\ q + 1 - p <= last + 1 - first
    BY <1>2, <2>3
  <2>5. MAX_TOKENS * CharsPerToken \in Int
    BY DEF SizesAssumption
  <2>6. q + 1 - p <= MAX_TOKENS * CharsPerToken
    BY <2>1, <2>2, <2>4, <2>5
  <2> QED
    BY <2>4, <2>6, TokensFit
<1>10. current # NoSpan
  BY <1>2, <1>3, <1>4 DEF NoSpan
<1> HIDE DEF current, tokens
<1>11. TypeOK'
  <2>1. NoSpan \in Span
    BY DEF NoSpan, Span
  <2>2. pending' \in Span /\ segment' \in Span /\ piece' \in Span
    BY <1>1, <1>4, <2>1 DEF Inv, TypeOK
  <2>3. merged' \in Seq(Span)
    BY <1>1, <1>4, <1>5
  <2>4. at' \in 0 .. length' /\ pc' \in {"clauses", "split", "cut", "tighten", "done"}
    BY <1>1, <1>2
  <2> QED
    BY <1>1, <2>2, <2>3, <2>4 DEF Inv, TypeOK
<1>12. CASE tokens < MIN_TOKENS
  <2>1. pending' = current /\ merged' = merged /\ pc' = "clauses"
    BY <1>1, <1>6, <1>12
  <2>2. Fits(current)
    BY <1>6, <1>9, <1>12
  <2>3. InkIn(current.to, at') = {}
    BY <1>1, <1>2, <1>4 DEF InkIn
  <2>4. current.from < current.to /\ current.to <= at'
    BY <1>1, <1>2, <1>3, <1>4
  <2>5. Held'
    BY <1>1, <2>1, <2>2, <2>3, <2>4 DEF Held, Fits, Inside, InkIn, Tokens
  <2>6. Frontier' = begin
    BY <1>4, <1>10, <2>1 DEF Frontier
  <2>7. Done'
    BY <1>1, <1>3, <1>5, <2>1, <2>6, StillCutting
  <2> QED
    BY <1>11, <2>5, <2>7 DEF Inv
<1>13. CASE tokens \in MIN_TOKENS .. MAX_TOKENS
  <2>1. pending' = NoSpan /\ merged' = Append(merged, current) /\ pc' = "clauses"
    BY <1>1, <1>6, <1>13
  <2>2. Held'
    BY <2>1 DEF Held
  <2>3. Frontier' = e
    BY <1>1, <2>1 DEF Frontier
  <2>4. \A p \in ink : begin <= p /\ p < e => Inside(p, current)
    BY <1>4 DEF Inside
  <2>5. Cuts(merged', e)
    BY SMTT(40), <1>2, <1>3, <1>4, <1>5, <1>6, <1>9, <1>13, <2>1, <2>4, CutsMore DEF Inv
  <2>6. Done'
    BY <1>1, <1>5, <2>1, <2>3, <2>5, StillCutting
  <2> QED
    BY <1>11, <2>2, <2>6 DEF Inv
<1>14. CASE tokens > MAX_TOKENS
  <2>1. pending' = NoSpan /\ merged' = merged /\ pc' = "split" /\ segment' = current
    BY <1>1, <1>6, <1>14
  <2>2. Held'
    BY <1>1, <1>2, <1>3, <1>4, <2>1 DEF Held
  <2>3. Frontier' = begin
    BY <1>4, <2>1 DEF Frontier
  <2>4. Done'
    BY <1>1, <1>3, <1>5, <2>1, <2>3, StillCutting
  <2> QED
    BY <1>11, <2>2, <2>4 DEF Inv
<1> QED
  BY <1>6, <1>12, <1>13, <1>14

LEMMA TakePieceKeeps ==
    ASSUME SizesAssumption, Inv, TakePiece
    PROVE  Inv'
<1>1. PICK e \in sentences \cup {segment.to} :
        /\ Least(e, {segment.to} \cup
                    {p \in sentences : /\ p - segment.from >= TARGET_TOKENS * CharsPerToken
                                       /\ InkIn(p, segment.to) # {}})
        /\ piece' = [from |-> segment.from, to |-> e]
        /\ segment' = [from |-> e, to |-> segment.to]
  BY DEF TakePiece
<1>2. /\ pc = "split" /\ pc' = "cut"
      /\ UNCHANGED <<length, ink, starts, sentences, at, pending, merged, chunks>>
  BY DEF TakePiece, text
<1>3. /\ segment.from \in Nat /\ segment.to \in Nat /\ segment.from < segment.to
      /\ segment.to = at /\ pending = NoSpan
  BY <1>2 DEF Inv, Held, TypeOK, Span
<1>4. e \in Nat /\ e <= segment.to
  <2>1. \A p \in sentences : p \in Nat
    BY DEF Inv, TypeOK
  <2>2. e <= segment.to
    BY <1>1 DEF Least
  <2> QED
    BY <1>3, <2>1, <2>2
<1>5. segment.from < e
  <2>1. TARGET_TOKENS \in Nat \ {0} /\ CharsPerToken \in Nat \ {0}
    BY DEF SizesAssumption
  <2>2. TARGET_TOKENS * CharsPerToken \in Int /\ TARGET_TOKENS * CharsPerToken > 0
    BY <2>1
  <2>3. CASE e = segment.to
    BY <1>3, <2>3
  <2>4. CASE e - segment.from >= TARGET_TOKENS * CharsPerToken
    BY <1>3, <1>4, <2>2, <2>4
  <2> QED
    BY <1>1, <2>3, <2>4 DEF Least
<1>6. piece' \in Span /\ segment' \in Span /\ piece'.from = segment.from /\ piece'.to = e
      /\ segment'.from = e /\ segment'.to = segment.to
  BY <1>1, <1>3, <1>4 DEF Span
<1>7. TypeOK'
  BY <1>2, <1>6 DEF Inv, TypeOK
<1>8. Held'
  BY <1>2, <1>3, <1>4, <1>5, <1>6 DEF Held
<1>9. Frontier' = Frontier
  BY <1>2, <1>6 DEF Frontier
<1>10. Done'
  BY <1>2, <1>9, StillCutting DEF Inv, Done
<1> QED
  BY <1>7, <1>8, <1>10 DEF Inv

LEMMA CutPieceKeeps ==
    ASSUME SizesAssumption, Inv, CutPiece
    PROVE  Inv'
<1> DEFINE most == MAX_TOKENS * CharsPerToken
<1>1. /\ pc = "cut"
      /\ UNCHANGED <<length, ink, starts, sentences, at, pending, segment, chunks>>
  BY DEF CutPiece, text
<1>2. /\ piece \in Span /\ piece.from \in Nat /\ piece.to \in Nat /\ piece.from < piece.to
      /\ piece.to = segment.from /\ segment.from <= segment.to /\ segment.to = at
      /\ pending = NoSpan
  BY <1>1 DEF Inv, Held, TypeOK, Span
<1>3. Cuts(merged, piece.from) /\ chunks = <<>> /\ merged \in Seq(Span)
  BY <1>1 DEF Inv, Done, TypeOK, Frontier
<1>4. most \in Nat /\ most > 0
  BY DEF SizesAssumption
<1>5. CASE piece.to - piece.from > most
  <2> DEFINE s == [from |-> piece.from, to |-> piece.from + most]
  <2>1. merged' = Append(merged, s) /\ pc' = "cut"
        /\ piece' = [from |-> piece.from + most, to |-> piece.to]
    BY <1>1, <1>5 DEF CutPiece
  <2>2. s \in Span /\ s.from = piece.from /\ s.to = piece.from + most
    BY <1>2, <1>4 DEF Span
  <2>3. piece' \in Span /\ piece'.from = piece.from + most /\ piece'.to = piece.to
    BY <1>2, <1>4, <2>1 DEF Span
  <2>4. Fits(s)
    BY <1>2, <1>4, FewFit DEF Inv
  <2> HIDE DEF s, most
  <2>5. \A p \in ink : piece.from <= p /\ p < piece.from + most => Inside(p, s)
    BY <2>2 DEF Inside
  <2>6. Cuts(merged', piece.from + most)
    BY <1>2, <1>3, <1>4, <2>1, <2>2, <2>4, <2>5, CutsMore DEF Inv
  <2>7. Done'
    BY <1>1, <1>3, <2>1, <2>3, <2>6, StillCutting DEF Frontier
  <2>8. Held'
    BY <1>1, <1>2, <1>4, <1>5, <2>1, <2>3 DEF Held
  <2>9. TypeOK'
    BY <1>1, <1>3, <2>1, <2>2, <2>3 DEF Inv, TypeOK
  <2> QED
    BY <2>7, <2>8, <2>9 DEF Inv
<1>6. CASE ~(piece.to - piece.from > most)
  <2>1. merged' = Append(merged, piece) /\ piece' = NoSpan
        /\ pc' = IF segment.from < segment.to THEN "split" ELSE "clauses"
    BY <1>6 DEF CutPiece
  <2>2. piece = [from |-> piece.from, to |-> piece.to]
    BY <1>2 DEF Span
  <2>3. Fits(piece)
    BY <1>2, <1>4, <1>6, <2>2, FewFit DEF Inv
  <2>4. \A p \in ink : piece.from <= p /\ p < piece.to => Inside(p, piece)
    BY DEF Inside
  <2>5. Cuts(merged', piece.to)
    BY <1>2, <1>3, <2>1, <2>3, <2>4, CutsMore DEF Inv
  <2>6. segment.from \in Nat /\ segment.to \in Nat
    BY DEF Inv, TypeOK, Span
  <2>7. Frontier' = piece.to
    BY <1>1, <1>2, <2>1, <2>6 DEF Frontier
  <2>8. Done'
    BY <1>1, <1>3, <2>1, <2>5, <2>7, StillCutting
  <2>9. Held'
    BY <1>1, <1>2, <2>1, <2>6 DEF Held
  <2>10. TypeOK'
    BY <1>1, <1>2, <1>3, <2>1 DEF Inv, TypeOK, NoSpan, Span
  <2> QED
    BY <2>8, <2>9, <2>10 DEF Inv
<1> QED
  BY <1>5, <1>6

LEMMA EndOfTextKeeps ==
    ASSUME SizesAssumption, Inv, EndOfText
    PROVE  Inv'
<1>1. /\ pc = "clauses" /\ pc' = "tighten" /\ at = length
      /\ merged' = JoinTail /\ pending' = NoSpan
      /\ UNCHANGED <<length, ink, starts, sentences, at, segment, piece, chunks>>
  BY DEF EndOfText, text
<1>2. /\ merged \in Seq(Span) /\ pending \in Span /\ chunks = <<>> /\ Cuts(merged, Frontier)
      /\ length \in Nat /\ \A p \in ink : p \in Nat /\ p < length
  BY <1>1 DEF Inv, Done, TypeOK
<1>3. Cuts(merged', length)
  <2>1. CASE pending = NoSpan
    BY <1>1, <1>2, <2>1 DEF JoinTail, Frontier
  <2>2. CASE pending # NoSpan
    <3>1. /\ pending.from \in Nat /\ pending.to \in Nat
          /\ pending.from < pending.to /\ pending.to <= length
          /\ InkIn(pending.to, length) = {} /\ Fits(pending)
          /\ Frontier = pending.from
      BY <1>1, <1>2, <2>2 DEF Inv, Held, Frontier, Span
    <3>2. \A p \in ink : ~(pending.to <= p /\ p < length)
      BY <3>1 DEF InkIn
    <3>3. CASE merged # <<>> /\ Tokens(pending.to - Last.from) <= MAX_TOKENS
      <4> DEFINE s == [from |-> Last.from, to |-> pending.to]
      <4>1. merged' = [merged EXCEPT ![Len(merged)] = s]
        BY <1>1, <2>2, <3>3 DEF JoinTail
      <4>2. Len(merged) \in DOMAIN merged /\ Last \in Span
        BY <1>2, <3>3 DEF Last
      <4>3. Last.from \in Nat /\ Last.to \in Nat /\ Last.from < Last.to /\ Last.to <= pending.from
        BY <1>2, <3>1, <4>2 DEF Cuts, Last, Span
      <4>4. pending.to - Last.from \in Nat
        BY <3>1, <4>3
      <4>5. Fits(s)
        BY <3>1, <3>3, <4>3, <4>4, TokensFit, FewFit DEF Inv
      <4>6. s \in Span /\ s = [from |-> merged[Len(merged)].from, to |-> pending.to]
        BY <3>1, <4>3 DEF Span, Last
      <4>7. Cuts(merged, pending.from) /\ TypeOK
        BY <1>2, <3>1 DEF Inv
      <4>8. pending.from <= pending.to
        BY <3>1
      <4> HIDE DEF s
      <4>9. Cuts([merged EXCEPT ![Len(merged)] = s], length)
        BY <1>2, <3>1, <3>2, <3>3, <4>5, <4>6, <4>7, <4>8, CutsWider
      <4> QED
        BY <4>1, <4>9
    <3>4. CASE ~(merged # <<>> /\ Tokens(pending.to - Last.from) <= MAX_TOKENS)
      <4>1. merged' = Append(merged, pending)
        BY <1>1, <2>2, <3>4 DEF JoinTail
      <4>2. \A p \in ink : pending.from <= p /\ p < length => Inside(p, pending)
        BY <1>2, <3>1, <3>2 DEF Inside
      <4> QED
        BY <1>2, <3>1, <4>1, <4>2, CutsMore DEF Inv
    <3> QED
      BY <3>3, <3>4
  <2> QED
    BY <2>1, <2>2
<1>4. TypeOK'
  BY <1>1, <1>3 DEF Inv, TypeOK, Cuts, NoSpan, Span
<1>5. Held'
  BY <1>1 DEF Held
<1>6. Done'
  <2>1. /\ \A i \in DOMAIN merged' : merged'[i].from < merged'[i].to /\ Fits(merged'[i])
        /\ \A i, j \in DOMAIN merged' : i < j => merged'[i].to <= merged'[j].from
        /\ \A p \in ink : \E i \in DOMAIN merged' : Inside(p, merged'[i])
    BY <1>2, <1>3 DEF Cuts
  <2>2. DOMAIN chunks' = {}
    BY <1>1, <1>2
  <2> QED
    BY <1>1, <2>1, <2>2 DEF Done, Fits, Inside, Tokens
<1> QED
  BY <1>4, <1>5, <1>6 DEF Inv

LEMMA TightenKeeps ==
    ASSUME SizesAssumption, Inv, Tighten
    PROVE  Inv'
<1> DEFINE s == Head(merged)
<1>1. /\ pc = "tighten" /\ merged # <<>> /\ merged' = Tail(merged)
      /\ UNCHANGED <<length, ink, starts, sentences, pc, at, pending, segment, piece>>
  BY DEF Tighten, text
<1>2. /\ merged \in Seq(Span) /\ chunks \in Seq(Span) /\ Len(merged) \in Nat \ {0}
      /\ DOMAIN merged = 1 .. Len(merged) /\ Len(chunks) \in Nat
      /\ DOMAIN chunks = 1 .. Len(chunks) /\ s = merged[1]
  BY <1>1 DEF Inv, TypeOK
<1>3. /\ merged' \in Seq(Span) /\ DOMAIN merged' = 1 .. Len(merged) - 1
      /\ \A i \in 1 .. Len(merged) - 1 : merged'[i] = merged[i + 1]
  BY <1>1, <1>2
<1>4. /\ \A i \in 1 .. Len(merged) : merged[i].from \in Nat /\ merged[i].to \in Nat
      /\ \A i \in 1 .. Len(chunks) : chunks[i].from \in Nat /\ chunks[i].to \in Nat
      /\ \A p \in ink : p \in Nat
  <2>1. /\ \A i \in 1 .. Len(merged) : merged[i] \in Span
        /\ \A i \in 1 .. Len(chunks) : chunks[i] \in Span
    BY <1>2
  <2>2. \A p \in ink : p \in Nat
    BY DEF Inv, TypeOK
  <2> QED
    BY <2>1, <2>2 DEF Span
<1>5. /\ \A i \in DOMAIN merged' : merged'[i].from < merged'[i].to /\ Fits(merged'[i])
      /\ \A i, j \in DOMAIN merged' : i < j => merged'[i].to <= merged'[j].from
      /\ \A j \in DOMAIN merged' : s.to <= merged'[j].from
  <2>1. \A i \in 1 .. Len(merged) - 1 : i + 1 \in 1 .. Len(merged) /\ 1 < i + 1
    BY <1>2
  <2>2. 1 \in 1 .. Len(merged)
    BY <1>2
  <2>3. /\ \A i \in 1 .. Len(merged) : merged[i].from < merged[i].to /\ Fits(merged[i])
        /\ \A i, j \in 1 .. Len(merged) : i < j => merged[i].to <= merged[j].from
    BY <1>2 DEF Inv, Done
  <2>4. \A i, j \in 1 .. Len(merged) - 1 : i < j => i + 1 < j + 1
    BY <1>2
  <2> QED
    BY <1>2, <1>3, <2>1, <2>2, <2>3, <2>4
<1>6. \A i \in DOMAIN chunks : chunks[i].to <= s.from
  BY <1>2 DEF Inv, Done
<1>7. \A j \in DOMAIN merged' : merged'[j].from \in Nat /\ s.to <= merged'[j].from
  <2>1. \A j \in DOMAIN merged' : merged'[j] \in Span
    BY <1>3
  <2> QED
    BY <1>5, <2>1 DEF Span
<1>8. s.from < s.to /\ Fits(s) /\ s.from \in Nat /\ s.to \in Nat
  BY <1>2, <1>4 DEF Inv, Done
<1>9. ASSUME NEW p \in ink
      PROVE  \/ Inside(p, s)
             \/ \E i \in DOMAIN merged' : Inside(p, merged'[i])
             \/ \E i \in DOMAIN chunks : Inside(p, chunks[i])
  <2>1. ASSUME NEW i \in 1 .. Len(merged), Inside(p, merged[i]), i # 1
        PROVE  \E j \in DOMAIN merged' : Inside(p, merged'[j])
    <3>1. i - 1 \in 1 .. Len(merged) - 1 /\ merged'[i - 1] = merged[i]
      BY <1>2, <1>3, <2>1
    <3> QED
      BY <1>3, <2>1, <3>1
  <2> QED
    BY <1>1, <1>2, <2>1 DEF Inv, Done
<1> HIDE DEF s
<1>10. Held'
  BY <1>1 DEF Inv, Held
<1>11. CASE InkIn(s.from, s.to) = {}
  <2>1. chunks' = chunks
    BY <1>11 DEF Tighten, s
  <2>2. \A p \in ink : ~Inside(p, s)
    BY <1>11 DEF InkIn, Inside
  <2>3. TypeOK'
    BY <1>1, <1>3, <2>1 DEF Inv, TypeOK
  <2>4. \A i \in DOMAIN chunks, j \in DOMAIN merged' : chunks[i].to <= merged'[j].from
    BY <1>2, <1>4, <1>6, <1>8, <1>7
  <2>5. Done'
    BY <1>1, <1>5, <1>9, <2>1, <2>2, <2>4 DEF Inv, Done, Fits, Inside, Tokens
  <2> QED
    BY <1>10, <2>3, <2>5 DEF Inv
<1>12. CASE InkIn(s.from, s.to) # {}
  <2>1. PICK first \in ink, last \in ink :
          /\ Stripped(s.from, s.to, first, last)
          /\ chunks' = Append(chunks, [from |-> first, to |-> last + 1])
    BY <1>12 DEF Tighten, s
  <2> DEFINE c == [from |-> first, to |-> last + 1]
             n == Len(chunks)
  <2>2. /\ first \in Nat /\ last \in Nat /\ first <= last
        /\ s.from <= first /\ last < s.to
        /\ \A p \in ink : Inside(p, s) => first <= p /\ p <= last
    BY <1>4, <2>1 DEF Stripped, Least, Greatest, InkIn, Inside
  <2>3. c \in Span /\ c.from = first /\ c.to = last + 1
    BY <2>2 DEF Span
  <2>4. /\ chunks' \in Seq(Span) /\ DOMAIN chunks' = 1 .. n + 1 /\ chunks'[n + 1] = c
        /\ \A i \in 1 .. n : chunks'[i] = chunks[i]
    BY <1>2, <2>1, <2>3
  <2> HIDE DEF c, n
  <2>5. Tokens(c.to - c.from) <= MAX_TOKENS
    <3>1. Inside(first, s) /\ Inside(last, s)
      BY <1>8, <2>2 DEF Inside
    <3> QED
      BY <1>8, <2>2, <2>3, <3>1 DEF Fits
  <2>6. ASSUME NEW i \in 1 .. n + 1
        PROVE  /\ chunks'[i].from \in ink /\ chunks'[i].to - 1 \in ink
               /\ chunks'[i].from < chunks'[i].to
               /\ Tokens(chunks'[i].to - chunks'[i].from) <= MAX_TOKENS
    <3>1. CASE i \in 1 .. n
      BY <1>2, <2>4, <3>1 DEF Inv, Done, n
    <3>2. CASE i = n + 1
      BY <2>1, <2>2, <2>3, <2>4, <2>5, <3>2
    <3> QED
      BY <1>2, <3>1, <3>2 DEF n
  <2>7. ASSUME NEW i \in 1 .. n + 1, NEW j \in 1 .. n + 1, i < j
        PROVE  chunks'[i].to <= chunks'[j].from
    <3>1. i \in 1 .. n /\ chunks'[i] = chunks[i]
      BY <1>2, <2>4, <2>7 DEF n
    <3>2. CASE j \in 1 .. n
      BY <1>2, <2>4, <2>7, <3>1, <3>2 DEF Inv, Done, n
    <3>3. CASE j = n + 1
      BY <1>2, <1>4, <1>6, <1>8, <2>2, <2>3, <2>4, <3>1, <3>3 DEF n
    <3> QED
      BY <1>2, <3>2, <3>3 DEF n
  <2>8. ASSUME NEW i \in 1 .. n + 1, NEW j \in DOMAIN merged'
        PROVE  chunks'[i].to <= merged'[j].from
    <3>1. merged'[j].from \in Nat /\ s.to <= merged'[j].from
      BY <1>7
    <3>2. CASE i \in 1 .. n
      <4>1. chunks[i].to \in Nat /\ chunks[i].to <= s.from /\ chunks'[i] = chunks[i]
        BY <1>2, <1>4, <1>6, <2>4, <3>2 DEF n
      <4> QED
        BY <1>8, <3>1, <4>1
    <3>3. CASE i = n + 1
      BY <1>8, <2>2, <2>3, <2>4, <3>1, <3>3
    <3> QED
      BY <1>2, <3>2, <3>3 DEF n
  <2>9. ASSUME NEW p \in ink
        PROVE  \/ \E i \in DOMAIN merged' : Inside(p, merged'[i])
               \/ \E i \in 1 .. n + 1 : Inside(p, chunks'[i])
    <3>1. CASE Inside(p, s)
      <4>1. Inside(p, c)
        BY <1>4, <2>2, <2>3, <3>1 DEF Inside
      <4> QED
        BY <1>2, <2>4, <4>1 DEF n
    <3>2. ASSUME NEW i \in DOMAIN chunks, Inside(p, chunks[i])
          PROVE  \E j \in 1 .. n + 1 : Inside(p, chunks'[j])
      BY <1>2, <2>4, <3>2 DEF n
    <3> QED
      BY <1>9, <3>1, <3>2
  <2>10. TypeOK'
    BY <1>1, <1>3, <2>4 DEF Inv, TypeOK
  <2>11. Done'
    BY <1>1, <1>5, <2>4, <2>6, <2>7, <2>8, <2>9 DEF Done, Fits, Inside, Tokens
  <2> QED
    BY <1>10, <2>10, <2>11 DEF Inv
<1> QED
  BY <1>11, <1>12

LEMMA Step == ASSUME SizesAssumption, Inv, [Next]_vars PROVE Inv'
<1>1. CASE Return
  <2>1. /\ pc = "tighten" /\ merged = <<>> /\ pc' = "done"
        /\ UNCHANGED <<length, ink, starts, sentences, at, pending, segment, piece, merged, chunks>>
    BY <1>1 DEF Return, text
  <2> QED
    BY <2>1 DEF Inv, TypeOK, Held, Done, Fits, Inside, Tokens
<1>2. CASE UNCHANGED vars
  BY <1>2 DEF vars, Inv, TypeOK, Held, Done, Cuts, Fits, Inside, InkIn, Tokens, Frontier
<1> QED
  BY <1>1, <1>2, SkipBlankKeeps, ClauseKeeps, TakePieceKeeps, CutPieceKeeps, EndOfTextKeeps,
     TightenKeeps DEF Next

LEMMA Start == ASSUME SizesAssumption, Init PROVE Inv
<1>1. TypeOK
  BY DEF Init, TypeOK, NoSpan, Span, SizesAssumption
<1>2. Held
  BY DEF Init, Held
<1>3. \A p \in ink : ~(p < 0)
  BY <1>1 DEF TypeOK
<1>4. Cuts(merged, Frontier)
  <2>1. Frontier = 0 /\ merged = <<>>
    BY DEF Init, Frontier
  <2> QED
    BY <1>3, <2>1 DEF Cuts
<1>5. Done
  BY <1>4 DEF Init, Done
<1> QED
  BY <1>1, <1>2, <1>5 DEF Inv

\* The variables of the cutting keep their types, for any text and any sizes.
THEOREM ChunkTypes ==
    ASSUME SizesAssumption
    PROVE  Spec => []TypeOK
<1>1. Inv => TypeOK                 BY DEF Inv
<1> QED
  BY <1>1, Start, Step, PTL DEF Spec

\* Chunks are in order and disjoint, for any text and any sizes.
THEOREM ChunksAreInOrder ==
    ASSUME SizesAssumption
    PROVE  Spec => []ChunksInOrder
<1>1. Inv => ChunksInOrder          BY DEF Inv, Done, ChunksInOrder
<1> QED
  BY <1>1, Start, Step, PTL DEF Spec

\* Chunks hold every character that is not blank, for any text and any sizes.
THEOREM ChunksHoldTheText ==
    ASSUME SizesAssumption
    PROVE  Spec => []NothingIsLost
<1>1. Inv => NothingIsLost          BY DEF Inv, Done, NothingIsLost, Inside
<1> QED
  BY <1>1, Start, Step, PTL DEF Spec

\* No chunk is oversized, and each begins and ends with ink, for any text and
\* any sizes.
THEOREM ChunksAreBounded ==
    ASSUME SizesAssumption
    PROVE  Spec => []ChunksFit
<1>1. Inv => ChunksFit              BY DEF Inv, Done, ChunksFit
<1> QED
  BY <1>1, Start, Step, PTL DEF Spec
=============================================================================
