-------------------------- MODULE EnumerationProofs --------------------------
(***************************************************************************)
(* InOrder enumerates a finite set of naturals: each member once, the      *)
(* least first; and what it takes to list all of a set.                    *)
(***************************************************************************)
EXTENDS Enumeration, Integers, FiniteSetTheorems, TLAPS

\* How many members of S are below i.
Below(S, i) == Cardinality({j \in S : j < i})

\* There are fewer below a member than below a greater one, and than in the set.
LEMMA BelowGrows ==
    ASSUME NEW S \in SUBSET Nat, IsFiniteSet(S), NEW i \in S
    PROVE  /\ Below(S, i) \in 0 .. Cardinality(S) - 1
           /\ \A h \in S : h < i => Below(S, h) < Below(S, i)
<1> DEFINE B(k) == {j \in S : j < k}
<1>1. \A k \in S : IsFiniteSet(B(k)) /\ Cardinality(B(k)) \in Nat
  BY FS_Subset, FS_CardinalityType
<1>2. Cardinality(S) \in Nat
  BY FS_CardinalityType
<1>3. Cardinality(B(i)) < Cardinality(S)
  <2>1. B(i) \subseteq S /\ i \notin B(i)
    OBVIOUS
  <2>2. B(i) # S
    BY <2>1
  <2>3. Cardinality(B(i)) <= Cardinality(S) /\ Cardinality(B(i)) # Cardinality(S)
    BY <2>1, <2>2, FS_Subset
  <2> QED
    BY <1>1, <1>2, <2>3
<1>4. ASSUME NEW h \in S, h < i
      PROVE  Cardinality(B(h)) < Cardinality(B(i))
  <2>1. B(h) \subseteq B(i)
    <3>1. \A j \in S : j < h => j < i
      BY <1>4
    <3> QED
      BY <3>1
  <2>2. h \in B(i) /\ h \notin B(h)
    BY <1>4
  <2>3. B(h) # B(i)
    BY <2>2
  <2> QED
    BY <1>1, <2>1, <2>3, FS_Subset
<1> QED
  BY <1>1, <1>3, <1>4, <1>2 DEF Below

\* Every place up to the number of members is that of some member.
LEMMA EveryPlaceIsTaken ==
    ASSUME NEW S \in SUBSET Nat, IsFiniteSet(S), NEW n \in 0 .. Cardinality(S) - 1
    PROVE  \E i \in S : Below(S, i) = n
<1> DEFINE f == [i \in S |-> Below(S, i)]
           T == {f[i] : i \in S}
           P == 0 .. Cardinality(S) - 1
<1>1. Cardinality(S) \in Nat
  BY FS_CardinalityType
<1>2. T \subseteq P
  BY BelowGrows
<1>3. f \in Injection(S, T)
  <2>1. \A g, h \in S : g # h => Below(S, g) # Below(S, h)
    <3> SUFFICES ASSUME NEW g \in S, NEW h \in S, g < h
                 PROVE  Below(S, g) # Below(S, h)
      OBVIOUS
    <3>1. Below(S, g) < Below(S, h) /\ Below(S, g) \in Int /\ Below(S, h) \in Int
      BY BelowGrows
    <3> QED
      BY <3>1
  <2> QED
    BY <2>1 DEF Injection, IsInjective
<1>4. f \in Surjection(S, T)
  BY DEF Surjection
<1>5. f \in Bijection(S, T)
  BY <1>3, <1>4 DEF Bijection
<1>6. IsFiniteSet(T) /\ Cardinality(T) = Cardinality(S)
  <2> HIDE DEF f, T
  <2>1. ExistsBijection(S, T)
    BY <1>5 DEF ExistsBijection
  <2> QED
    BY <2>1, FS_Bijection
<1>7. IsFiniteSet(P) /\ Cardinality(P) = Cardinality(S)
  <2>1. 0 \in Int /\ Cardinality(S) - 1 \in Int
    BY <1>1
  <2>2. /\ IsFiniteSet(P)
        /\ Cardinality(P) = IF 0 > Cardinality(S) - 1 THEN 0
                            ELSE (Cardinality(S) - 1) - 0 + 1
    BY <2>1, FS_Interval
  <2> QED
    BY <1>1, <2>2
<1>8. T = P
  <2> HIDE DEF T, P
  <2> QED
    BY <1>1, <1>2, <1>6, <1>7, FS_Subset
<1> QED
  BY <1>8

\* The enumeration has each member in exactly one place, the least first.
THEOREM InOrderEnumerates ==
    ASSUME NEW S \in SUBSET Nat, IsFiniteSet(S)
    PROVE  /\ InOrder(S) \in [1 .. Cardinality(S) -> S]
           /\ \A k \in 1 .. Cardinality(S) : Below(S, InOrder(S)[k]) = k - 1
           /\ \A i \in S : /\ Below(S, i) + 1 \in 1 .. Cardinality(S)
                           /\ InOrder(S)[Below(S, i) + 1] = i
           /\ \A k, l \in 1 .. Cardinality(S) : k < l <=> InOrder(S)[k] < InOrder(S)[l]
<1> DEFINE n == Cardinality(S)
           M(k) == CHOOSE i \in S : Cardinality({j \in S : j < i}) = k - 1
<1>1. n \in Nat
  BY FS_CardinalityType
<1>2. InOrder(S) = [k \in 1 .. n |-> M(k)]
  BY DEF InOrder
<1>3. ASSUME NEW k \in 1 .. n
      PROVE  M(k) \in S /\ Below(S, M(k)) = k - 1
  <2>1. k - 1 \in 0 .. n - 1
    BY <1>1
  <2>2. \E i \in S : Below(S, i) = k - 1
    BY <2>1, EveryPlaceIsTaken
  <2> QED
    BY <2>2 DEF Below
<1> HIDE DEF n, M
<1>4. \A k \in 1 .. n : InOrder(S)[k] \in S /\ Below(S, InOrder(S)[k]) = k - 1
  BY <1>2, <1>3
<1>5. InOrder(S) \in [1 .. n -> S]
  BY <1>2, <1>3
<1>6. ASSUME NEW i \in S, NEW h \in S, Below(S, i) = Below(S, h)
      PROVE  i = h
  <2>1. /\ i < h => Below(S, i) < Below(S, h)
        /\ h < i => Below(S, h) < Below(S, i)
        /\ Below(S, i) \in Int /\ i \in Int /\ h \in Int
    BY BelowGrows
  <2> QED
    BY <1>6, <2>1
<1>7. ASSUME NEW i \in S
      PROVE  Below(S, i) + 1 \in 1 .. n /\ InOrder(S)[Below(S, i) + 1] = i
  <2> DEFINE k == Below(S, i) + 1
  <2>1. Below(S, i) \in 0 .. n - 1
    BY BelowGrows DEF n
  <2>2. k \in 1 .. n /\ k - 1 = Below(S, i)
    BY <1>1, <2>1
  <2>3. InOrder(S)[k] \in S /\ Below(S, InOrder(S)[k]) = Below(S, i)
    BY <1>4, <2>2
  <2> QED
    BY <1>6, <2>2, <2>3
<1>8. ASSUME NEW k \in 1 .. n, NEW l \in 1 .. n
      PROVE  k < l <=> InOrder(S)[k] < InOrder(S)[l]
  <2> DEFINE i == InOrder(S)[k]
             h == InOrder(S)[l]
  <2>1. i \in S /\ h \in S /\ Below(S, i) = k - 1 /\ Below(S, h) = l - 1
    BY <1>4
  <2> HIDE DEF i, h
  <2>2. /\ i < h => k - 1 < l - 1
        /\ h < i => l - 1 < k - 1
        /\ i = h => k - 1 = l - 1
    BY <2>1, BelowGrows
  <2>3. i \in Int /\ h \in Int /\ k \in Int /\ l \in Int
    BY <2>1
  <2> QED
    BY <2>2, <2>3 DEF i, h
<1> QED
  BY <1>4, <1>5, <1>7, <1>8 DEF n

\* A finite set of naturals that is not empty has a greatest member.
THEOREM GreatestExists ==
    ASSUME NEW S \in SUBSET Nat, IsFiniteSet(S), S # {}
    PROVE  \E m \in S : \A i \in S : i <= m
<1> DEFINE n == Cardinality(S)
           m == InOrder(S)[n]
<1>1. n \in Nat /\ n # 0
  BY FS_CardinalityType, FS_EmptySet
<1>2. m \in S /\ Below(S, m) = n - 1
  BY <1>1, InOrderEnumerates
<1>3. ASSUME NEW i \in S
      PROVE  i <= m
  <2>1. ~ (m < i)
    <3>1. Below(S, i) \in 0 .. n - 1 /\ (m < i => Below(S, m) < Below(S, i))
      BY <1>2, BelowGrows
    <3> QED
      BY <1>1, <1>2, <3>1
  <2> HIDE DEF m
  <2> QED
    BY <1>2, <2>1
<1> QED
  BY <1>2, <1>3

\* What is picked from a sequence is what it has at the places, each place once,
\* and in their order.
THEOREM PickedOnce ==
    ASSUME NEW s, NEW P \in SUBSET Nat, IsFiniteSet(P)
    PROVE  /\ Cardinality(P) \in Nat
           /\ DOMAIN Picked(s, P) = 1 .. Cardinality(P)
           /\ Picked(s, P) = [k \in 1 .. Cardinality(P) |-> s[InOrder(P)[k]]]
           /\ \A k \in 1 .. Cardinality(P) :
                InOrder(P)[k] \in P /\ Picked(s, P)[k] = s[InOrder(P)[k]]
           /\ \A i \in P : \E k \in 1 .. Cardinality(P) : Picked(s, P)[k] = s[i]
           /\ \A k, l \in 1 .. Cardinality(P) : k # l => InOrder(P)[k] # InOrder(P)[l]
<1> DEFINE n == Cardinality(P)
<1>1. n \in Nat
  BY FS_CardinalityType
<1>2. InOrder(P) \in [1 .. n -> P]
  BY InOrderEnumerates
<1>3. DOMAIN Picked(s, P) = 1 .. n /\ Picked(s, P) = [k \in 1 .. n |-> s[InOrder(P)[k]]]
  BY <1>2 DEF Picked
<1>4. \A k \in 1 .. n : InOrder(P)[k] \in P /\ Picked(s, P)[k] = s[InOrder(P)[k]]
  BY <1>2, <1>3
<1>5. ASSUME NEW i \in P
      PROVE  \E k \in 1 .. n : Picked(s, P)[k] = s[i]
  <2>1. Below(P, i) + 1 \in 1 .. n /\ InOrder(P)[Below(P, i) + 1] = i
    BY InOrderEnumerates
  <2> QED
    BY <1>4, <2>1
<1>6. ASSUME NEW k \in 1 .. n, NEW l \in 1 .. n, k # l
      PROVE  InOrder(P)[k] # InOrder(P)[l]
  <2>1. Below(P, InOrder(P)[k]) = k - 1 /\ Below(P, InOrder(P)[l]) = l - 1
    BY InOrderEnumerates
  <2> QED
    BY <1>6, <2>1
<1> QED
  BY <1>1, <1>3, <1>4, <1>5, <1>6

\* A list of the members of a set in their order is its enumeration.
THEOREM OnlyEnumeration ==
    ASSUME NEW S \in SUBSET Nat, NEW n \in Nat, NEW f \in [1 .. n -> S],
           \A k, l \in 1 .. n : k < l => f[k] < f[l],
           \A i \in S : \E k \in 1 .. n : f[k] = i
    PROVE  IsFiniteSet(S) /\ Cardinality(S) = n /\ InOrder(S) = f
<1>1. \A k, l \in 1 .. n : f[k] = f[l] => k = l
  <2> SUFFICES ASSUME NEW k \in 1 .. n, NEW l \in 1 .. n, f[k] = f[l]
               PROVE  k = l
    OBVIOUS
  <2>1. f[k] \in Nat /\ f[l] \in Nat
    OBVIOUS
  <2>2. ~ (k < l) /\ ~ (l < k)
    BY <2>1
  <2> QED
    BY <2>2
<1>2. IsFiniteSet(1 .. n) /\ Cardinality(1 .. n) = n
  <2>1. IsFiniteSet(1 .. n) /\ Cardinality(1 .. n) = IF 1 > n THEN 0 ELSE n - 1 + 1
    BY FS_Interval
  <2> QED
    BY <2>1
<1>3. f \in Bijection(1 .. n, S)
  BY <1>1 DEF Bijection, Injection, Surjection, IsInjective
<1>4. IsFiniteSet(S) /\ Cardinality(S) = n
  BY <1>2, <1>3, FS_Bijection DEF ExistsBijection
<1>5. ASSUME NEW k \in 1 .. n
      PROVE  Below(S, f[k]) = k - 1
  <2> DEFINE B == {j \in S : j < f[k]}
             g == [l \in 1 .. k - 1 |-> f[l]]
  <2>1. IsFiniteSet(1 .. k - 1) /\ Cardinality(1 .. k - 1) = k - 1
    <3>1. IsFiniteSet(1 .. k - 1)
          /\ Cardinality(1 .. k - 1) = IF 1 > k - 1 THEN 0 ELSE k - 1 - 1 + 1
      BY FS_Interval
    <3> QED
      BY <3>1
  <2>2. \A l \in 1 .. k - 1 : l \in 1 .. n /\ f[l] \in B
    OBVIOUS
  <2>3. ASSUME NEW i \in B
        PROVE  \E l \in 1 .. k - 1 : f[l] = i
    <3>1. PICK l \in 1 .. n : f[l] = i
      OBVIOUS
    <3>2. f[k] \in Nat /\ f[l] \in Nat /\ f[l] < f[k]
      BY <3>1
    <3>3. ~ (k < l) /\ k # l
      BY <3>2
    <3> QED
      BY <3>1, <3>3
  <2> HIDE DEF B
  <2>4. g \in [1 .. k - 1 -> B]
    BY <2>2
  <2>5. \A l, m \in 1 .. k - 1 : g[l] = g[m] => l = m
    BY <1>1, <2>2
  <2>6. \A i \in B : \E l \in 1 .. k - 1 : g[l] = i
    BY <2>3
  <2> HIDE DEF g
  <2>7. g \in Bijection(1 .. k - 1, B)
    BY <2>4, <2>5, <2>6 DEF Bijection, Injection, Surjection, IsInjective
  <2>8. Cardinality(B) = k - 1
    BY <2>1, <2>7, FS_Bijection DEF ExistsBijection
  <2> QED
    BY <2>8 DEF Below, B
<1>6. InOrder(S) \in [1 .. n -> S]
  BY <1>4, InOrderEnumerates
<1>7. ASSUME NEW k \in 1 .. n
      PROVE  InOrder(S)[k] = f[k]
  <2>1. f[k] \in S /\ Below(S, f[k]) + 1 = k
    BY <1>5
  <2>2. \A i \in S : InOrder(S)[Below(S, i) + 1] = i
    BY <1>4, InOrderEnumerates
  <2> QED
    BY <2>1, <2>2
<1> QED
  BY <1>4, <1>6, <1>7

\* The first numbers are in their places.
THEOREM FirstNumbers ==
    ASSUME NEW n \in Nat, NEW s, DOMAIN s = 1 .. n, s = [i \in 1 .. n |-> s[i]]
    PROVE  InOrder(1 .. n) = [k \in 1 .. n |-> k] /\ Picked(s, 1 .. n) = s
<1> DEFINE f == [k \in 1 .. n |-> k]
<1>1. /\ f \in [1 .. n -> 1 .. n] /\ 1 .. n \in SUBSET Nat
      /\ \A k, l \in 1 .. n : k < l => f[k] < f[l]
      /\ \A i \in 1 .. n : \E k \in 1 .. n : f[k] = i
  OBVIOUS
<1> HIDE DEF f
<1>2. InOrder(1 .. n) = f
  BY <1>1, OnlyEnumeration
<1>3. Picked(s, 1 .. n) = [k \in 1 .. n |-> s[k]]
  BY <1>2 DEF Picked, f
<1> QED
  BY <1>2, <1>3 DEF f

\* A sequence of as many different members as a set has has all of them.
LEMMA DistinctIsOnto ==
    ASSUME NEW S, IsFiniteSet(S), NEW f \in [1 .. Cardinality(S) -> S],
           \A k, l \in 1 .. Cardinality(S) : k # l => f[k] # f[l]
    PROVE  \A i \in S : \E k \in 1 .. Cardinality(S) : f[k] = i
<1> DEFINE n == Cardinality(S)
<1>1. n \in Nat
  BY FS_CardinalityType
<1>2. IsFiniteSet(1 .. n) /\ Cardinality(1 .. n) = n
  <2>1. IsFiniteSet(1 .. n) /\ Cardinality(1 .. n) = IF 1 > n THEN 0 ELSE n - 1 + 1
    BY <1>1, FS_Interval
  <2> QED
    BY <1>1, <2>1
<1>3. f \in Injection(1 .. n, S)
  BY DEF Injection, IsInjective
<1>4. f \in Surjection(1 .. n, S)
  <2> HIDE DEF n
  <2>1. Cardinality(1 .. n) = Cardinality(S)
    BY <1>2 DEF n
  <2> QED
    BY <1>3, <2>1, FS_Injection
<1> QED
  BY <1>4 DEF Surjection
=============================================================================
