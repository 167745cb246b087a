----------------------------- MODULE Enumeration -----------------------------
(***************************************************************************)
(* A finite set of numbers as a sequence, without recursion, so that what  *)
(* is computed with it can be reasoned about (EnumerationProofs), and what *)
(* a sequence has at such places.                                          *)
(***************************************************************************)
EXTENDS Naturals, FiniteSets

\* The members of S, the least first: the k-th is the one with k - 1 below it.
InOrder(S) ==
    [k \in 1 .. Cardinality(S) |->
        CHOOSE i \in S : Cardinality({j \in S : j < i}) = k - 1]

\* What s has at these places, in their order.
Picked(s, places) == [k \in DOMAIN InOrder(places) |-> s[InOrder(places)[k]]]
=============================================================================
