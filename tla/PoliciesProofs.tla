--------------------------- MODULE PoliciesProofs ---------------------------
(***************************************************************************)
(* What Policies guarantees for any policies, administrators and requests, *)
(* proved.                                                                 *)
(***************************************************************************)
EXTENDS Policies, TLAPS

Places == {"idle", "named", "numbered", "cleared", "delete", "insert"}

\* Locked rows exist and are not the row that becomes the default, and a
\* replacement writes each category once.
Held ==
    /\ \A a \in Admins : locked[a] \subseteq Existing
    /\ \A a \in Admins : pc[a] = "cleared" => target[a] \notin locked[a]
    /\ \A a \in Admins : pc[a] \in {"delete", "insert"} =>
         \A r, s \in work[a].new : r.category = s.category => r = s

TypeInv ==
    /\ TypeOK
    /\ work = [a \in Admins |-> work[a]]
    /\ Held

\* Policies that exist have a row of the right type, and others have none.
LEMMA Rows ==
    ASSUME PoliciesAssumption, TypeOK
    PROVE  /\ \A p \in Existing : p \in Ids /\ policies[p] \in Policy
           /\ \A p \in Ids \ Existing : policies[p] = None
  BY DEF TypeOK, Existing

\* The tables have their types, and no policy is gone.
TablesKept ==
    /\ policies' \in [Ids -> Policy \cup {None}]
    /\ Existing \subseteq Existing'
    /\ rules' \in [Ids -> SUBSET Rule]
    /\ \A q \in Ids : policies'[q] = None => rules'[q] = {}
    /\ \A q \in Ids : \A r, s \in rules'[q] : r.category = s.category => r = s

\* Ending a transaction only forgets.
LEMMA EndForgets ==
    ASSUME TypeInv, NEW a \in Admins, End(a)
    PROVE  /\ pc' \in [Admins -> Places] /\ pc'[a] = "idle"
           /\ target' \in [Admins -> Ids \cup {None}]
           /\ work' = [b \in Admins |-> work'[b]]
           /\ locked' \in [Admins -> SUBSET Ids] /\ locked'[a] = {}
           /\ deleting' \in [Admins -> SUBSET Rule]
           /\ \A b \in Admins \ {a} :
                /\ pc'[b] = pc[b] /\ target'[b] = target[b] /\ work'[b] = work[b]
                /\ locked'[b] = locked[b]
  BY DEF TypeInv, TypeOK, End, Places

\* So a step that ends a transaction and keeps the tables keeps the invariant.
LEMMA EndKeeps ==
    ASSUME PoliciesAssumption, TypeInv, NEW a \in Admins, End(a),
           TablesKept, contended' \subseteq Ids, requests' = requests
    PROVE  TypeInv'
<1>1. TypeOK'
  <2>1. \A b \in Admins :
          /\ pc'[b] # "idle" => target'[b] \in Ids
          /\ pc'[b] \in {"named", "numbered"} =>
               work'[b] \in [name : Names, version : Nat \ {0}]
          /\ pc'[b] \in {"delete", "insert"} =>
               /\ target'[b] \in Existing'
               /\ work'[b] \in [seen : SUBSET Rule, new : SUBSET Rule]
    BY EndForgets DEF TypeInv, TypeOK, TablesKept
  <2> QED
    BY <2>1, EndForgets DEF TypeInv, TypeOK, Places, TablesKept
<1>2. Held'
  BY EndForgets DEF TypeInv, Held, TablesKept
<1> QED
  BY <1>1, <1>2, EndForgets DEF TypeInv

LEMMA UnchangedKeeps ==
    ASSUME TypeInv, UNCHANGED <<policies, rules>> PROVE TablesKept
  BY DEF TypeInv, TypeOK, TablesKept, Existing

\* A new row, with rules of different categories.
LEMMA AddedKeeps ==
    ASSUME PoliciesAssumption, TypeInv, NEW p \in Ids, NEW row \in Policy,
           NEW R \in SUBSET Rule, \A r, s \in R : r.category = s.category => r = s,
           policies' = [policies EXCEPT ![p] = row], rules' = [rules EXCEPT ![p] = R]
    PROVE  TablesKept
  BY DEF TypeInv, TypeOK, TablesKept, Existing, PoliciesAssumption

\* The rows, the tables and the transactions have their types in every step.
LEMMA TypeStep ==
    ASSUME PoliciesAssumption, TypeInv, [Next]_vars
    PROVE  TypeInv'
<1> USE DEF TypeInv
<1>1. CASE UNCHANGED vars
  BY <1>1 DEF TypeOK, Held, Existing, vars
<1>2. ASSUME NEW a \in Admins, NEW p \in Ids, NEW n \in Names, NEW cats \in SUBSET Categories,
             CreatePolicy(a, p, n, cats)
      PROVE  TypeInv'
  <2> DEFINE new == {[category |-> c, request |-> requests'] : c \in cats}
             row == [name |-> n, version |-> 1, is_default |-> FALSE, is_active |-> TRUE]
  <2>1. new \subseteq Rule /\ \A r, s \in new : r.category = s.category => r = s
    BY <1>2 DEF CreatePolicy, Begin, Rule, TypeOK
  <2>2. row \in Policy
    BY DEF Policy
  <2>3. \/ UNCHANGED <<policies, rules>>
        \/ policies' = [policies EXCEPT ![p] = row] /\ rules' = [rules EXCEPT ![p] = new]
    BY <1>2 DEF CreatePolicy
  <2> HIDE DEF new, row
  <2>4. TablesKept
    BY <2>1, <2>2, <2>3, UnchangedKeeps, AddedKeeps
  <2>5. requests' \in 0 .. MaxRequests /\ UNCHANGED <<pc, txnVars, contended>>
    BY <1>2 DEF CreatePolicy, Begin, TypeOK, PoliciesAssumption
  <2> QED
    BY <2>4, <2>5 DEF TablesKept, TypeOK, Held, txnVars
<1>3. ASSUME NEW a \in Admins, NEW p \in Ids, ReadPolicy(a, p)
      PROVE  TypeInv'
  <2>1. [name |-> policies[p].name, version |-> 1] \in [name : Names, version : Nat \ {0}]
    BY <1>3, Rows DEF ReadPolicy, Policy
  <2> QED
    BY <1>3, <2>1 DEF ReadPolicy, Begin, TypeOK, Held, Existing, PoliciesAssumption
<1>4. ASSUME NEW a \in Admins, ReadHighest(a)
      PROVE  TypeInv'
  <2>1. Versions(work[a].name) \cup {0} \subseteq Nat
    BY Rows DEF Versions, Policy
  <2>2. PICK v \in Nat : work' = [work EXCEPT ![a].version = v + 1]
    BY <1>4, <2>1 DEF ReadHighest
  <2>3. work[a] \in [name : Names, version : Nat \ {0}]
    BY <1>4 DEF ReadHighest, TypeOK
  <2>4. [work[a] EXCEPT !.version = v + 1] \in [name : Names, version : Nat \ {0}]
    BY <2>2, <2>3
  <2>5. work'[a] \in [name : Names, version : Nat \ {0}]
        /\ work' = [b \in Admins |-> work'[b]] /\ \A b \in Admins \ {a} : work'[b] = work[b]
    BY <2>2, <2>4
  <2> QED
    BY <1>4, <2>5 DEF ReadHighest, TypeOK, Held, Existing
<1>5. ASSUME NEW a \in Admins, NEW p \in Ids, StoreVersion(a, p)
      PROVE  TypeInv'
  <2>1. work[a] \in [name : Names, version : Nat \ {0}] /\ target[a] \in Ids
    BY <1>5 DEF StoreVersion, TypeOK
  <2> DEFINE row == [name |-> work[a].name, version |-> work[a].version,
                     is_default |-> FALSE, is_active |-> TRUE]
  <2>2. row \in Policy
    BY <2>1 DEF Policy
  <2>3. \/ UNCHANGED <<policies, rules>>
        \/ policies' = [policies EXCEPT ![p] = row] /\ rules' = [rules EXCEPT ![p] = rules[target[a]]]
    BY <1>5 DEF StoreVersion
  <2> HIDE DEF row
  <2>4. rules[target[a]] \in SUBSET Rule
        /\ \A r, s \in rules[target[a]] : r.category = s.category => r = s
    BY <2>1 DEF TypeOK
  <2>5. TablesKept
    BY <2>2, <2>3, <2>4, UnchangedKeeps, AddedKeeps
  <2>6. End(a) /\ contended' \subseteq Ids /\ requests' = requests
    BY <1>5 DEF StoreVersion, TypeOK
  <2> QED
    BY <2>5, <2>6, EndKeeps DEF TablesKept
<1>6. ASSUME NEW a \in Admins, NEW p \in Ids, ClearDefaults(a, p)
      PROVE  TypeInv'
  BY <1>6 DEF ClearDefaults, Begin, Others, TypeOK, Held, Existing, PoliciesAssumption
<1>7. ASSUME NEW a \in Admins, NEW p \in Ids, NEW n \in Names,
             NEW default \in BOOLEAN, NEW active \in BOOLEAN,
             UpdatePolicy(a, p, n, default, active)
      PROVE  TypeInv'
  <2>1. policies[p] \in Policy
    BY <1>7, Rows DEF UpdatePolicy
  <2>2. policies'[p] \in Policy
    BY <1>7, <2>1 DEF UpdatePolicy, TypeOK, Policy
  <2>3. policies' \in [Ids -> Policy \cup {None}] /\ Existing' = Existing
    BY <1>7, <2>1, <2>2 DEF UpdatePolicy, TypeOK, Existing, PoliciesAssumption
  <2>4. \A q \in Ids : policies'[q] = None => policies[q] = None
    BY <2>3 DEF Existing
  <2>5. requests' \in 0 .. MaxRequests /\ UNCHANGED <<rules, pc, txnVars, contended>>
    BY <1>7 DEF UpdatePolicy, Begin, TypeOK, PoliciesAssumption
  <2> QED
    BY <2>3, <2>4, <2>5 DEF TypeOK, Held, txnVars
<1>8. ASSUME NEW a \in Admins, NEW p \in Ids, NEW cats \in SUBSET Categories,
             BeginReplace(a, p, cats)
      PROVE  TypeInv'
  <2> DEFINE new == {[category |-> c, request |-> requests'] : c \in cats}
  <2>1. new \subseteq Rule /\ \A r, s \in new : r.category = s.category => r = s
    BY <1>8 DEF BeginReplace, Begin, Rule, TypeOK
  <2>2. work' = [work EXCEPT ![a] = [seen |-> rules[p], new |-> new]]
    BY <1>8 DEF BeginReplace
  <2>3. work'[a] \in [seen : SUBSET Rule, new : SUBSET Rule] /\ work'[a].new = new
        /\ work' = [b \in Admins |-> work'[b]] /\ \A b \in Admins \ {a} : work'[b] = work[b]
    BY <2>1, <2>2 DEF TypeOK
  <2> HIDE DEF new
  <2> QED
    BY <1>8, <2>1, <2>3 DEF BeginReplace, Begin, TypeOK, Held, Existing, PoliciesAssumption
<1>9. ASSUME NEW a \in Admins, NEW n \in Names, SetDefault(a, n)
      PROVE  TypeInv'
  <2>1. \A q \in Ids : /\ policies[q] = None => policies'[q] = None
                       /\ policies[q] # None => policies'[q] \in Policy
    <3>1. locked[a] \subseteq Existing  BY DEF Held
    <3>2. \A q \in Existing : /\ [policies[q] EXCEPT !.is_default = FALSE] \in Policy
                              /\ [policies[q] EXCEPT !.is_default = TRUE, !.name = n] \in Policy
      BY Rows DEF Policy
    <3> QED
      BY <1>9, <3>1, <3>2, Rows DEF SetDefault, Existing
  <2>2. policies' = [q \in Ids |-> policies'[q]]
    BY <1>9 DEF SetDefault, TypeOK
  <2>3. policies' \in [Ids -> Policy \cup {None}] /\ Existing' = Existing
    BY <2>1, <2>2 DEF Existing, PoliciesAssumption
  <2>4. End(a) /\ UNCHANGED <<rules, contended, requests>>
    BY <1>9 DEF SetDefault
  <2>5. \A q \in Ids : policies'[q] = None => rules'[q] = {}
    BY <2>1, <2>4 DEF TypeOK, PoliciesAssumption
  <2> QED
    BY <2>3, <2>4, <2>5, EndKeeps DEF TypeOK, TablesKept
<1>10. ASSUME NEW a \in Admins, DeleteRules(a)
       PROVE  TypeInv'
  BY <1>10 DEF DeleteRules, TypeOK, Held, Existing
<1>11. ASSUME NEW a \in Admins, StoreRules(a)
       PROVE  TypeInv'
  <2>1. /\ target[a] \in Ids /\ target[a] \in Existing /\ work[a].new \subseteq Rule
        /\ \A r, s \in work[a].new : r.category = s.category => r = s
    BY <1>11 DEF StoreRules, TypeOK, Held
  <2>2. /\ rules' \in [Ids -> SUBSET Rule]
        /\ \A q \in Ids : policies'[q] = None => rules'[q] = {}
        /\ \A q \in Ids : \A r, s \in rules'[q] : r.category = s.category => r = s
    BY <1>11, <2>1 DEF StoreRules, TypeOK, Existing
  <2>3. End(a) /\ UNCHANGED <<policies, contended, requests>>
    BY <1>11 DEF StoreRules
  <2> QED
    BY <2>2, <2>3, EndKeeps DEF TypeOK, TablesKept, Existing
<1>12. ASSUME NEW a \in Admins, Aborted(a)
       PROVE  TypeInv'
  <2>1. End(a) /\ UNCHANGED <<policies, rules, contended, requests>>
    BY <1>12 DEF Aborted
  <2> QED
    BY <2>1, UnchangedKeeps, EndKeeps DEF TypeOK
<1> QED
  BY <1>1, <1>2, <1>3, <1>4, <1>5, <1>6, <1>7, <1>8, <1>9, <1>10, <1>11, <1>12 DEF Next

LEMMA TypeInit == ASSUME PoliciesAssumption, Init PROVE TypeInv
<1>1. PICK names \in [Seeded -> Names], d \in Seeded :
        policies = [p \in Ids |-> IF p \in Seeded
                                  THEN [name |-> names[p], version |-> 1,
                                        is_default |-> p = d, is_active |-> TRUE]
                                  ELSE None]
  BY DEF Init
<1>2. policies \in [Ids -> Policy \cup {None}] /\ \A p \in Seeded : policies[p] \in Policy
  BY <1>1 DEF Policy, PoliciesAssumption
<1>3. \A c \in Categories : [category |-> c, request |-> 0] \in Rule
  BY DEF Rule
<1>4. rules \in [Ids -> SUBSET Rule]
  BY <1>3 DEF Init
<1>5. \A p \in Ids : policies[p] = None => rules[p] = {}
  <2>1. \A p \in Ids : p \notin Seeded => rules[p] = {}  BY DEF Init
  <2> QED
    BY <1>2, <2>1 DEF PoliciesAssumption
<1>6. \A p \in Ids : \A r, s \in rules[p] : r.category = s.category => r = s
  BY DEF Init
<1>7. TypeOK
  BY <1>2, <1>4, <1>5, <1>6 DEF Init, TypeOK, PoliciesAssumption
<1> QED
  BY <1>7 DEF Init, TypeInv, Held

\* Rows, tables and transactions of the policies have their types, for any
\* policies, administrators and requests.
THEOREM PolicyTypes ==
    ASSUME PoliciesAssumption
    PROVE  Spec => []TypeOK
<1>1. Init => TypeInv                   BY TypeInit
<1>2. TypeInv /\ [Next]_vars => TypeInv'  BY TypeStep
<1>3. TypeInv => TypeOK                 BY DEF TypeInv
<1> QED
  BY <1>1, <1>2, <1>3, PTL DEF Spec

-----------------------------------------------------------------------------
\* A policy that gets a name and a version which no other policy has, and
\* that is not made the default, leaves versions and the default unique.
LEMMA NamedKeeps ==
    ASSUME PoliciesAssumption, TypeOK, VersionsAndDefaultAreUnique, NEW p \in Ids,
           NEW row \in Policy, ~Taken(p, row.name, row.version),
           row.is_default => p \in Existing /\ policies[p].is_default,
           policies' = [policies EXCEPT ![p] = row]
    PROVE  VersionsAndDefaultAreUnique'
<1> SUFFICES ASSUME NEW q \in Existing', NEW r \in Existing', q # r
             PROVE  /\ <<policies'[q].name, policies'[q].version>>
                         # <<policies'[r].name, policies'[r].version>>
                    /\ ~(policies'[q].is_default /\ policies'[r].is_default)
  BY DEF VersionsAndDefaultAreUnique
<1>1. policies'[p] = row /\ \A t \in Ids \ {p} : policies'[t] = policies[t]
  BY DEF TypeOK
<1>2. q \in Ids /\ r \in Ids /\ (q # p => q \in Existing) /\ (r # p => r \in Existing)
  BY <1>1 DEF Existing
<1>3. CASE q # p /\ r # p
  BY <1>1, <1>2, <1>3 DEF VersionsAndDefaultAreUnique
<1>4. CASE q = p
  BY <1>1, <1>2, <1>4 DEF VersionsAndDefaultAreUnique, Taken
<1>5. CASE r = p
  BY <1>1, <1>2, <1>5 DEF VersionsAndDefaultAreUnique, Taken
<1> QED
  BY <1>3, <1>4, <1>5

LEMMA UniqueStep ==
    ASSUME PoliciesAssumption, TypeInv, VersionsAndDefaultAreUnique, [Next]_vars
    PROVE  VersionsAndDefaultAreUnique'
<1>1. ASSUME UNCHANGED policies
      PROVE  VersionsAndDefaultAreUnique'
  BY <1>1 DEF VersionsAndDefaultAreUnique, Existing
<1>2. ASSUME NEW a \in Admins, NEW p \in Ids, NEW n \in Names, NEW cats \in SUBSET Categories,
             CreatePolicy(a, p, n, cats)
      PROVE  VersionsAndDefaultAreUnique'
  <2> DEFINE row == [name |-> n, version |-> 1, is_default |-> FALSE, is_active |-> TRUE]
  <2>1. \/ UNCHANGED policies
        \/ ~Taken(p, n, 1) /\ policies' = [policies EXCEPT ![p] = row]
    BY <1>2 DEF CreatePolicy
  <2>2. row \in Policy /\ row.name = n /\ row.version = 1 /\ ~row.is_default
    BY DEF Policy
  <2> HIDE DEF row
  <2> QED
    BY <1>1, <2>1, <2>2, NamedKeeps DEF TypeInv
<1>3. ASSUME NEW a \in Admins, NEW p \in Ids, StoreVersion(a, p)
      PROVE  VersionsAndDefaultAreUnique'
  <2> DEFINE row == [name |-> work[a].name, version |-> work[a].version,
                     is_default |-> FALSE, is_active |-> TRUE]
  <2>1. \/ UNCHANGED policies
        \/ /\ ~Taken(p, work[a].name, work[a].version)
           /\ policies' = [policies EXCEPT ![p] = row]
    BY <1>3 DEF StoreVersion
  <2>2. work[a] \in [name : Names, version : Nat \ {0}]
    BY <1>3 DEF StoreVersion, TypeInv, TypeOK
  <2>3. row \in Policy /\ row.name = work[a].name /\ row.version = work[a].version
        /\ ~row.is_default
    BY <2>2 DEF Policy
  <2> HIDE DEF row
  <2> QED
    BY <1>1, <2>1, <2>3, NamedKeeps DEF TypeInv
<1>4. ASSUME NEW a \in Admins, NEW p \in Ids, NEW n \in Names,
             NEW default \in BOOLEAN, NEW active \in BOOLEAN,
             UpdatePolicy(a, p, n, default, active)
      PROVE  VersionsAndDefaultAreUnique'
  <2> DEFINE row == [policies[p] EXCEPT !.name = n, !.is_active = active,
                                        !.is_default = default /\ policies[p].is_default]
  <2>1. policies[p] \in Policy /\ p \in Existing
    BY <1>4, Rows DEF UpdatePolicy, TypeInv
  <2>2. \/ policies' = [policies EXCEPT ![p] = policies[p]]
        \/ /\ ~Taken(p, n, policies[p].version)
           /\ policies' = [policies EXCEPT ![p] = row]
    BY <1>4 DEF UpdatePolicy, TypeInv, TypeOK
  <2>3. row \in Policy /\ row.name = n /\ row.version = policies[p].version
        /\ (row.is_default => policies[p].is_default)
    BY <2>1 DEF Policy
  <2> HIDE DEF row
  <2>4. policies' = [policies EXCEPT ![p] = policies[p]] => UNCHANGED policies
    BY DEF TypeInv, TypeOK
  <2> QED
    BY <1>1, <2>1, <2>2, <2>3, <2>4, NamedKeeps DEF TypeInv
<1>5. ASSUME NEW a \in Admins, NEW n \in Names, SetDefault(a, n)
      PROVE  VersionsAndDefaultAreUnique'
  <2> DEFINE p == target[a]
  <2>1. p \in Ids /\ locked[a] \subseteq Existing
    BY <1>5 DEF SetDefault, TypeInv, TypeOK, Held
  <2>2. CASE UNCHANGED policies
    BY <1>1, <2>2
  <2>3. CASE p \notin Existing
    <3>1. \A q \in Ids : policies'[q] = IF q \in locked[a]
                                        THEN [policies[q] EXCEPT !.is_default = FALSE]
                                        ELSE policies[q]
      BY <1>5, <2>1, <2>3 DEF SetDefault
    <3>2. \A q \in locked[a] : /\ policies'[q].name = policies[q].name
                               /\ policies'[q].version = policies[q].version
                               /\ ~policies'[q].is_default
      BY <2>1, <3>1, Rows DEF TypeInv, Policy
    <3>3. Existing' \subseteq Existing
      BY <2>1, <3>1, Rows DEF Existing, TypeInv
    <3>4. \A q \in Existing : q \notin locked[a] => policies'[q] = policies[q]
      BY <3>1 DEF Existing
    <3> SUFFICES ASSUME NEW q \in Existing, NEW r \in Existing, q # r
                 PROVE  /\ <<policies'[q].name, policies'[q].version>>
                             # <<policies'[r].name, policies'[r].version>>
                        /\ ~(policies'[q].is_default /\ policies'[r].is_default)
      BY <3>3 DEF VersionsAndDefaultAreUnique
    <3>5. /\ policies'[q].name = policies[q].name /\ policies'[q].version = policies[q].version
          /\ policies'[r].name = policies[r].name /\ policies'[r].version = policies[r].version
      BY <3>2, <3>4
    <3>6. /\ policies'[q].is_default => policies[q].is_default
          /\ policies'[r].is_default => policies[r].is_default
      BY <3>2, <3>4
    <3> QED
      BY <3>5, <3>6 DEF VersionsAndDefaultAreUnique
  <2>4. CASE p \in Existing /\ ~UNCHANGED policies
    <3>1. /\ ~Taken(p, n, policies[p].version) /\ ~AnotherDefault(p, locked[a])
          /\ \A q \in Ids : policies'[q] =
               IF q \in locked[a] THEN [policies[q] EXCEPT !.is_default = FALSE]
               ELSE IF q = p THEN [policies[q] EXCEPT !.is_default = TRUE, !.name = n]
               ELSE policies[q]
      BY <1>5, <2>1, <2>4 DEF SetDefault
    <3>2. \A q \in Existing : /\ policies'[q].version = policies[q].version
                              /\ q # p => /\ policies'[q].name = policies[q].name
                                          /\ ~policies'[q].is_default
      BY ZenonT(60), <2>1, <3>1, Rows DEF TypeInv, Policy, AnotherDefault
    <3>3. Existing' \subseteq Existing
      BY <2>1, <2>4, <3>1, Rows DEF Existing, TypeInv
    <3>4. policies[p] \in Policy
      BY <2>4, Rows DEF TypeInv
    <3>5. p \notin locked[a]
      BY <1>5 DEF SetDefault, TypeInv, Held
    <3>6. policies'[p].name = n
      BY <2>1, <3>1, <3>4, <3>5 DEF Policy
    <3> SUFFICES ASSUME NEW q \in Existing, NEW r \in Existing, q # r
                 PROVE  /\ <<policies'[q].name, policies'[q].version>>
                             # <<policies'[r].name, policies'[r].version>>
                        /\ ~(policies'[q].is_default /\ policies'[r].is_default)
      BY <3>3 DEF VersionsAndDefaultAreUnique
    <3>7. ~(policies'[q].is_default /\ policies'[r].is_default)
      BY <3>2
    <3>8. ASSUME NEW t \in Existing, t # p
          PROVE  <<policies'[t].name, policies'[t].version>>
                   # <<policies'[p].name, policies'[p].version>>
      <4>1. /\ policies'[t].name = policies[t].name
            /\ policies'[t].version = policies[t].version
            /\ policies'[p].version = policies[p].version
        BY <2>4, <3>2, <3>8
      <4>2. ~(policies[t].name = n /\ policies[t].version = policies[p].version)
        BY <3>1, <3>8 DEF Taken
      <4> QED
        BY <3>6, <4>1, <4>2
    <3>9. CASE q # p /\ r # p
      BY <3>2, <3>7, <3>9 DEF VersionsAndDefaultAreUnique
    <3>10. CASE q = p \/ r = p
      BY <3>7, <3>8, <3>10
    <3> QED
      BY <3>9, <3>10
  <2> QED
    BY <2>2, <2>3, <2>4
<1>6. ASSUME NEW a \in Admins,
             \/ \E p \in Ids : ReadPolicy(a, p) \/ ClearDefaults(a, p)
             \/ \E p \in Ids, cats \in SUBSET Categories : BeginReplace(a, p, cats)
             \/ ReadHighest(a) \/ DeleteRules(a) \/ StoreRules(a) \/ Aborted(a)
      PROVE  VersionsAndDefaultAreUnique'
  <2>1. UNCHANGED policies
    BY <1>6 DEF ReadPolicy, ClearDefaults, BeginReplace, ReadHighest, DeleteRules,
                StoreRules, Aborted
  <2> QED
    BY <1>1, <2>1
<1>7. CASE UNCHANGED vars
  BY <1>1, <1>7 DEF vars
<1> QED
  BY <1>2, <1>3, <1>4, <1>5, <1>6, <1>7 DEF Next

\* No two policies share a name and a version, and no two are the default,
\* however the requests of any number of administrators interleave.
THEOREM PoliciesAreUnique ==
    ASSUME PoliciesAssumption
    PROVE  Spec => []VersionsAndDefaultAreUnique
<1>1. Init => TypeInv /\ VersionsAndDefaultAreUnique
  <2> SUFFICES ASSUME Init PROVE VersionsAndDefaultAreUnique
    BY TypeInit
  <2>1. PICK names \in [Seeded -> Names], d \in Seeded :
          /\ \A p, q \in Seeded : names[p] = names[q] => p = q
          /\ policies = [p \in Ids |-> IF p \in Seeded
                                       THEN [name |-> names[p], version |-> 1,
                                             is_default |-> p = d, is_active |-> TRUE]
                                       ELSE None]
    BY DEF Init
  <2>2. Existing \subseteq Seeded
    BY <2>1 DEF Existing
  <2>3. \A p \in Seeded : policies[p].name = names[p] /\ policies[p].is_default = (p = d)
    BY <2>1 DEF PoliciesAssumption
  <2> SUFFICES ASSUME NEW q \in Existing, NEW r \in Existing, q # r
               PROVE  /\ <<policies[q].name, policies[q].version>>
                           # <<policies[r].name, policies[r].version>>
                      /\ ~(policies[q].is_default /\ policies[r].is_default)
    BY DEF VersionsAndDefaultAreUnique
  <2>4. names[q] # names[r]
    BY <2>1, <2>2
  <2> QED
    BY <2>2, <2>3, <2>4
<1>2. TypeInv /\ VersionsAndDefaultAreUnique /\ [Next]_vars
        => TypeInv' /\ VersionsAndDefaultAreUnique'
  BY TypeStep, UniqueStep
<1> QED
  BY <1>1, <1>2, PTL DEF Spec

\* The default is lost only to a request that takes it away or that names a
\* policy which does not exist.
THEOREM DefaultIsOnlyTakenAway ==
    ASSUME PoliciesAssumption
    PROVE  Spec => DefaultIsKept
<1> DEFINE Lost == HasDefault /\ ~HasDefault'
           Explained ==
             \/ /\ \E p \in Existing : policies[p].is_default
                                   /\ \A q \in Ids \ {p} : policies'[q] = policies[q]
                /\ UNCHANGED pc
             \/ \E a \in Admins : pc[a] = "cleared" /\ target[a] \notin Existing
<1>1. ASSUME TypeInv, Next, Lost PROVE Explained
  <2>1. PICK d \in Existing : policies[d].is_default
    BY <1>1 DEF HasDefault
  <2>2. ASSUME NEW q \in Existing, policies'[q] # None
        PROVE  ~policies'[q].is_default
    BY <1>1, <2>2 DEF HasDefault, Existing
  <2>3. d \in Ids /\ policies[d] \in Policy
    BY <1>1, Rows DEF TypeInv
  <2>4. policies[d] # policies'[d]
    BY <1>1, <2>1, <2>2, <2>3 DEF Existing
  <2>5. ~UNCHANGED policies
    BY <2>4
  <2>6. PICK a \in Admins :
          \/ \E p \in Ids, n \in Names, cats \in SUBSET Categories : CreatePolicy(a, p, n, cats)
          \/ \E p \in Ids : StoreVersion(a, p)
          \/ \E p \in Ids, n \in Names, default, active \in BOOLEAN :
                UpdatePolicy(a, p, n, default, active)
          \/ \E n \in Names : SetDefault(a, n)
    BY <1>1, <2>5 DEF Next, ReadPolicy, ClearDefaults, BeginReplace, ReadHighest, DeleteRules,
                      StoreRules, Aborted
  <2>7. ASSUME NEW p \in Ids, NEW n \in Names, NEW cats \in SUBSET Categories,
               CreatePolicy(a, p, n, cats)
        PROVE  FALSE
    BY <1>1, <2>3, <2>4, <2>7 DEF CreatePolicy, Existing, TypeInv, TypeOK
  <2>8. ASSUME NEW p \in Ids, StoreVersion(a, p)
        PROVE  FALSE
    BY <1>1, <2>3, <2>4, <2>8 DEF StoreVersion, Existing, TypeInv, TypeOK
  <2>9. ASSUME NEW p \in Ids, NEW n \in Names, NEW default \in BOOLEAN, NEW active \in BOOLEAN,
               UpdatePolicy(a, p, n, default, active)
        PROVE  Explained
    <3>1. UNCHANGED pc /\ \A q \in Ids \ {p} : policies'[q] = policies[q]
      BY <1>1, <2>9 DEF UpdatePolicy, TypeInv, TypeOK
    <3>2. d = p
      BY <2>3, <2>4, <3>1
    <3> QED
      BY <2>1, <3>1, <3>2
  <2>10. ASSUME NEW n \in Names, SetDefault(a, n)
         PROVE  target[a] \notin Existing
    <3> DEFINE p == target[a]
    <3> SUFFICES ASSUME p \in Existing PROVE FALSE
      OBVIOUS
    <3>1. p \in Ids /\ policies[p] \in Policy
      BY <1>1, Rows DEF TypeInv
    <3>2. /\ ~AnotherDefault(p, locked[a])
          /\ \A q \in Ids : policies'[q] =
               IF q \in locked[a] THEN [policies[q] EXCEPT !.is_default = FALSE]
               ELSE IF q = p THEN [policies[q] EXCEPT !.is_default = TRUE, !.name = n]
               ELSE policies[q]
      BY <2>5, <2>10 DEF SetDefault
    <3>3. p \notin locked[a]
      BY <1>1, <2>10 DEF SetDefault, TypeInv, Held
    <3>4. policies'[p] = [policies[p] EXCEPT !.is_default = TRUE, !.name = n]
      BY <3>1, <3>2, <3>3
    <3>5. policies'[p] \in Policy /\ policies'[p].is_default
      BY <3>1, <3>4 DEF Policy
    <3> QED
      BY <2>2, <3>1, <3>5 DEF Existing, PoliciesAssumption
  <2> QED
    BY <2>6, <2>7, <2>8, <2>9, <2>10 DEF SetDefault
<1>2. TypeInv /\ [Next]_vars => [Lost => Explained]_vars
  BY <1>1
<1>3. Init => TypeInv                     BY TypeInit
<1>4. TypeInv /\ [Next]_vars => TypeInv'  BY TypeStep
<1> QED
  BY <1>2, <1>3, <1>4, PTL DEF Spec, DefaultIsKept

-----------------------------------------------------------------------------
(* Whole rules.  While only one request replaces the rules of a policy,       *)
(* nobody else writes them: what it has seen, and then what it deletes, is    *)
(* all there is.                                                              *)

Replacing == {"delete", "insert"}

\* What an administrator's replacement relies on until the policy is contended.
Alone(a) ==
    /\ pc[a] \in Replacing => \A r, s \in work[a].new : r.request = s.request
    /\ pc[a] = "delete" /\ target[a] \notin contended => work[a].seen = rules[target[a]]
    /\ pc[a] = "insert" /\ target[a] \notin contended => deleting[a] = rules[target[a]]

Contending ==
    \A a, b \in Admins :
        a # b /\ pc[a] \in Replacing /\ pc[b] \in Replacing /\ target[a] = target[b] =>
            target[a] \in contended

WholeInv ==
    /\ \A a \in Admins : Alone(a)
    /\ Contending
    /\ LoneReplacementsAreWhole

\* A step that leaves transactions that replace rules alone, and their policies'
\* rules, and makes at most rules that are whole, preserves the invariant.
LEMMA WholeKeeps ==
    ASSUME TypeInv, WholeInv,
           contended \subseteq contended',
           \A a \in Admins : pc'[a] \in Replacing =>
               /\ pc'[a] = pc[a] /\ target'[a] = target[a] /\ work'[a] = work[a]
               /\ deleting'[a] = deleting[a],
           \A p \in Existing : rules'[p] = rules[p],
           \A p \in Ids \ contended' : \A r, s \in rules'[p] : r.request = s.request
    PROVE  WholeInv'
<1>1. ASSUME NEW a \in Admins, pc'[a] \in Replacing
      PROVE  target[a] \in Existing
  BY <1>1 DEF TypeInv, TypeOK, Replacing
<1>2. ASSUME NEW a \in Admins
      PROVE  Alone(a)'
  <2>1. Alone(a)
    BY DEF WholeInv
  <2> QED
    BY <1>1, <2>1 DEF Alone, Replacing
<1>3. Contending'
  BY DEF WholeInv, Contending
<1>4. LoneReplacementsAreWhole'
  BY DEF LoneReplacementsAreWhole
<1> QED
  BY <1>2, <1>3, <1>4 DEF WholeInv

\* No step disturbs it.
LEMMA WholeStep ==
    ASSUME PoliciesAssumption, TypeInv, WholeInv, [Next]_vars
    PROVE  WholeInv'
<1>lone. \A p \in Ids \ contended : \A r, s \in rules[p] : r.request = s.request
  BY DEF WholeInv, LoneReplacementsAreWhole
<1>pcs. pc = [b \in Admins |-> pc[b]] /\ target = [b \in Admins |-> target[b]]
        /\ work = [b \in Admins |-> work[b]] /\ deleting = [b \in Admins |-> deleting[b]]
        /\ rules = [p \in Ids |-> rules[p]] /\ contended \subseteq Ids
  BY DEF TypeInv, TypeOK
<1>1. CASE UNCHANGED vars
  BY <1>1, <1>lone, WholeKeeps DEF vars
<1>2. ASSUME NEW a \in Admins, NEW p \in Ids, NEW n \in Names, NEW cats \in SUBSET Categories,
             CreatePolicy(a, p, n, cats)
      PROVE  WholeInv'
  <2> DEFINE new == {[category |-> c, request |-> requests'] : c \in cats}
  <2>1. p \notin Existing /\ UNCHANGED <<pc, txnVars, contended>>
        /\ (rules' = rules \/ rules' = [rules EXCEPT ![p] = new])
    BY <1>2 DEF CreatePolicy
  <2>2. \A r, s \in new : r.request = s.request
    OBVIOUS
  <2> HIDE DEF new
  <2>3. \A q \in Ids \ contended : \A r, s \in rules'[q] : r.request = s.request
    BY <1>lone, <1>pcs, <2>1, <2>2
  <2>4. \A q \in Existing : rules'[q] = rules[q]
    BY <1>pcs, <2>1 DEF Existing
  <2> QED
    BY <2>1, <2>3, <2>4, WholeKeeps DEF txnVars
<1>3. ASSUME NEW a \in Admins, NEW p \in Ids, ReadPolicy(a, p) \/ ClearDefaults(a, p)
      PROVE  WholeInv'
  <2>1. /\ pc' = [pc EXCEPT ![a] = "named"] \/ pc' = [pc EXCEPT ![a] = "cleared"]
        /\ \A b \in Admins \ {a} : target'[b] = target[b] /\ work'[b] = work[b]
        /\ UNCHANGED <<rules, deleting, contended>>
    BY <1>3, <1>pcs DEF ReadPolicy, ClearDefaults
  <2>2. \A b \in Admins : pc'[b] \in Replacing => b # a /\ pc'[b] = pc[b]
    BY <1>pcs, <2>1 DEF Replacing
  <2> QED
    BY <1>lone, <2>1, <2>2, WholeKeeps
<1>4. ASSUME NEW a \in Admins, ReadHighest(a)
      PROVE  WholeInv'
  <2>1. /\ pc' = [pc EXCEPT ![a] = "numbered"]
        /\ \E v : work' = [work EXCEPT ![a].version = v]
        /\ UNCHANGED <<target, rules, deleting, contended>>
    BY <1>4 DEF ReadHighest
  <2>2. \A b \in Admins \ {a} : work'[b] = work[b]
    BY <1>pcs, <2>1
  <2>3. \A b \in Admins : pc'[b] \in Replacing => b # a /\ pc'[b] = pc[b]
    BY <1>pcs, <2>1 DEF Replacing
  <2> QED
    BY <1>lone, <2>1, <2>2, <2>3, WholeKeeps
<1>ends. ASSUME NEW a \in Admins, End(a)
         PROVE  \A b \in Admins : pc'[b] \in Replacing =>
                   /\ b # a
                   /\ pc'[b] = pc[b] /\ target'[b] = target[b] /\ work'[b] = work[b]
                   /\ deleting'[b] = deleting[b]
  BY <1>ends, <1>pcs DEF End, Replacing
<1>5. ASSUME NEW a \in Admins, NEW p \in Ids, StoreVersion(a, p)
      PROVE  WholeInv'
  <2>1. End(a) /\ p \notin Existing /\ target[a] \in Ids
    BY <1>5 DEF StoreVersion, TypeInv, TypeOK
  <2>2. CASE UNCHANGED <<rules, contended>>
    BY <1>ends, <1>lone, <2>1, <2>2, WholeKeeps
  <2>3. CASE ~UNCHANGED <<rules, contended>>
    <3>1. /\ rules' = [rules EXCEPT ![p] = rules[target[a]]]
          /\ contended' = IF target[a] \in contended THEN contended \cup {p} ELSE contended
      BY <1>5, <2>3 DEF StoreVersion
    <3>2. \A q \in Existing : rules'[q] = rules[q]
      BY <1>pcs, <2>1, <3>1
    <3>3. \A q \in Ids \ contended' : \A r, s \in rules'[q] : r.request = s.request
      <4> TAKE q \in Ids \ contended'
      <4>1. CASE q = p
        BY <1>lone, <1>pcs, <2>1, <3>1, <4>1
      <4>2. CASE q # p
        BY <1>lone, <1>pcs, <3>1, <4>2
      <4> QED
        BY <4>1, <4>2
    <3> QED
      BY <1>ends, <2>1, <3>1, <3>2, <3>3, WholeKeeps
  <2> QED
    BY <2>2, <2>3
<1>6. ASSUME NEW a \in Admins, NEW p \in Ids, NEW n \in Names,
             NEW default \in BOOLEAN, NEW active \in BOOLEAN,
             UpdatePolicy(a, p, n, default, active)
      PROVE  WholeInv'
  BY <1>6, <1>lone, WholeKeeps DEF UpdatePolicy, txnVars
<1>7. ASSUME NEW a \in Admins, NEW p \in Ids, NEW cats \in SUBSET Categories,
             BeginReplace(a, p, cats)
      PROVE  WholeInv'
  <2> DEFINE new == {[category |-> c, request |-> requests'] : c \in cats}
             others == {b \in Admins \ {a} : pc[b] \in Replacing /\ target[b] = p}
  <2>1. /\ pc'[a] = "delete" /\ target'[a] = p
        /\ work'[a] = [seen |-> rules[p], new |-> new]
        /\ \A b \in Admins \ {a} : pc'[b] = pc[b] /\ target'[b] = target[b] /\ work'[b] = work[b]
        /\ UNCHANGED <<rules, deleting>>
    BY <1>7, <1>pcs DEF BeginReplace
  <2>2. contended' = IF others # {} THEN contended \cup {p} ELSE contended
    BY <1>7 DEF BeginReplace, Replacing
  <2>3. \A r, s \in new : r.request = s.request
    OBVIOUS
  <2> HIDE DEF new
  <2>4. \A b \in Admins : Alone(b)'
    <3> TAKE b \in Admins
    <3>1. CASE b = a
      BY <2>1, <2>3, <3>1 DEF Alone
    <3>2. CASE b # a
      <4>1. Alone(b)
        BY DEF WholeInv
      <4> QED
        BY <2>1, <2>2, <3>2, <4>1 DEF Alone
    <3> QED
      BY <3>1, <3>2
  <2>5. Contending'
    <3> SUFFICES ASSUME NEW b \in Admins, NEW c \in Admins, b # c,
                        pc'[b] \in Replacing, pc'[c] \in Replacing, target'[b] = target'[c]
                 PROVE  target'[b] \in contended'
      BY DEF Contending
    <3>1. CASE b # a /\ c # a
      BY <2>1, <2>2, <3>1 DEF WholeInv, Contending
    <3>2. CASE b = a
      <4>1. c \in others
        BY <2>1, <3>2
      <4> QED
        BY <2>1, <2>2, <3>2, <4>1
    <3>3. CASE c = a
      <4>1. b \in others
        BY <2>1, <3>3
      <4> QED
        BY <2>1, <2>2, <3>3, <4>1
    <3> QED
      BY <3>1, <3>2, <3>3
  <2>6. LoneReplacementsAreWhole'
    BY <1>lone, <2>1, <2>2 DEF LoneReplacementsAreWhole
  <2> QED
    BY <2>4, <2>5, <2>6 DEF WholeInv
<1>8. ASSUME NEW a \in Admins, NEW n \in Names, SetDefault(a, n)
      PROVE  WholeInv'
  <2>1. End(a) /\ UNCHANGED <<rules, contended>>
    BY <1>8 DEF SetDefault
  <2> QED
    BY <1>ends, <1>lone, <2>1, WholeKeeps
<1>9. ASSUME NEW a \in Admins, DeleteRules(a)
      PROVE  WholeInv'
  <2>1. /\ pc[a] = "delete" /\ pc'[a] = "insert"
        /\ deleting'[a] = work[a].seen \cap rules[target[a]]
        /\ \A b \in Admins \ {a} : pc'[b] = pc[b] /\ deleting'[b] = deleting[b]
        /\ UNCHANGED <<rules, target, work, contended>>
    BY <1>9, <1>pcs DEF DeleteRules
  <2>2. \A b \in Admins : pc'[b] \in Replacing <=> pc[b] \in Replacing
    BY <2>1 DEF Replacing
  <2>3. \A b \in Admins : Alone(b)'
    <3> TAKE b \in Admins
    <3>1. Alone(b)
      BY DEF WholeInv
    <3>2. CASE b = a
      BY <2>1, <2>2, <3>1, <3>2 DEF Alone
    <3>3. CASE b # a
      BY <2>1, <3>1, <3>3 DEF Alone
    <3> QED
      BY <3>2, <3>3
  <2>4. Contending'
    BY <2>1, <2>2 DEF WholeInv, Contending
  <2>5. LoneReplacementsAreWhole'
    BY <1>lone, <2>1 DEF LoneReplacementsAreWhole
  <2> QED
    BY <2>3, <2>4, <2>5 DEF WholeInv
<1>10. ASSUME NEW a \in Admins, StoreRules(a)
       PROVE  WholeInv'
  <2> DEFINE p == target[a]
  <2>1. /\ End(a) /\ pc[a] = "insert" /\ UNCHANGED <<policies, contended>>
        /\ \/ rules' = rules
           \/ rules' = [rules EXCEPT ![p] = (rules[p] \ deleting[a]) \cup work[a].new]
    BY <1>10 DEF StoreRules
  <2>2. CASE rules' = rules
    BY <1>ends, <1>lone, <2>1, <2>2, WholeKeeps
  <2>3. CASE rules' # rules
    <3>1. /\ rules'[p] = (rules[p] \ deleting[a]) \cup work[a].new
          /\ \A q \in Ids \ {p} : rules'[q] = rules[q]
          /\ p \in Ids
      BY <1>pcs, <2>1, <2>3 DEF TypeInv, TypeOK
    <3>2. ASSUME p \notin contended
          PROVE  rules'[p] = work[a].new /\ \A r, s \in work[a].new : r.request = s.request
      <4>1. Alone(a)
        BY DEF WholeInv
      <4> QED
        BY <2>1, <3>1, <3>2, <4>1 DEF Alone, Replacing
    <3>3. \A b \in Admins : Alone(b)'
      <4> TAKE b \in Admins
      <4>1. CASE pc'[b] \in Replacing
        <5>1. /\ b # a /\ pc'[b] = pc[b] /\ target'[b] = target[b] /\ work'[b] = work[b]
              /\ deleting'[b] = deleting[b]
          BY <1>ends, <2>1, <4>1
        <5>2. Alone(b) /\ target[b] \in Ids
          BY <4>1, <5>1 DEF WholeInv, TypeInv, TypeOK, Replacing
        <5>3. target[b] = p => p \in contended
          BY <2>1, <4>1, <5>1 DEF WholeInv, Contending, Replacing
        <5> QED
          BY <2>1, <3>1, <5>1, <5>2, <5>3 DEF Alone
      <4>2. CASE pc'[b] \notin Replacing
        BY <4>2 DEF Alone, Replacing
      <4> QED
        BY <4>1, <4>2
    <3>4. Contending'
      BY <1>ends, <2>1 DEF WholeInv, Contending
    <3>5. LoneReplacementsAreWhole'
      BY <1>lone, <2>1, <3>1, <3>2 DEF LoneReplacementsAreWhole
    <3> QED
      BY <3>3, <3>4, <3>5 DEF WholeInv
  <2> QED
    BY <2>2, <2>3
<1>11. ASSUME NEW a \in Admins, Aborted(a)
       PROVE  WholeInv'
  <2>1. End(a) /\ UNCHANGED <<rules, contended>>
    BY <1>11 DEF Aborted
  <2> QED
    BY <1>ends, <1>lone, <2>1, WholeKeeps
<1> QED
  BY <1>1, <1>2, <1>3, <1>4, <1>5, <1>6, <1>7, <1>8, <1>9, <1>10, <1>11 DEF Next

\* What makes the rules whole holds in the beginning.
LEMMA WholeInit ==
    ASSUME Init PROVE WholeInv
<1>1. \A p \in Ids : \A r, s \in rules[p] : r.request = s.request
  BY DEF Init
<1>2. \A a \in Admins : pc[a] = "idle"
  BY DEF Init
<1> QED
  BY <1>1, <1>2 DEF WholeInv, Alone, Contending, Replacing, LoneReplacementsAreWhole

\* Whatever requests of any number of administrators overlap: versions and the
\* default are unique, and a policy has its rules from one request unless two
\* replacements of them met.
THEOREM LibraryStaysConsistent ==
    ASSUME PoliciesAssumption
    PROVE  Spec => []LibraryIsConsistent
<1>1. Init => WholeInv
  BY WholeInit
<1>2. TypeInv /\ WholeInv /\ [Next]_vars => WholeInv'
  BY WholeStep
<1>3. WholeInv /\ VersionsAndDefaultAreUnique => LibraryIsConsistent
  BY DEF WholeInv, LibraryIsConsistent
<1>4. Init => TypeInv
  BY TypeInit
<1>5. TypeInv /\ [Next]_vars => TypeInv'
  BY TypeStep
<1> QED
  BY <1>1, <1>2, <1>3, <1>4, <1>5, PoliciesAreUnique, PTL DEF Spec
=============================================================================
