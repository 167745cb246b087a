--------------------------- MODULE PipelineProofs ---------------------------
(***************************************************************************)
(* What Pipeline guarantees for any policy, number of attempts, overlap    *)
(* and faults, proved.                                                     *)
(***************************************************************************)
EXTENDS Pipeline, FiniteSetTheorems, TLAPS

RowFields == {"status", "attempts", "done", "progress", "findings"}

Types ==
    /\ DOMAIN row = RowFields
    /\ row.attempts \in Nat
    /\ categoryRows = [c \in Categories |-> categoryRows[c]]
    /\ pc = [n \in Attempts |-> pc[n]]
    /\ skip = [n \in Attempts |-> skip[n]]
    /\ plan = [n \in Attempts |-> plan[n]]
    /\ at = [n \in Attempts |-> at[n]]
    /\ rules.list \in RuleLists

(* Whoever has recorded a category as done has recorded its outcome before.  *)
DoneIsRecorded == \A c \in row.done : categoryRows[c] # "none"

(* What attempt n knows: what it skips is done, all of its plan before its   *)
(* position is done, and before it marks a category that one is recorded.    *)
ReviewOf(n) ==
    /\ at[n] \in Nat \ {0}
    /\ plan[n].list \in RuleLists \cup {<<>>}
    /\ n > row.attempts => pc[n] = "idle"
    /\ pc[n] \in {"idle", "prepare"} => at[n] = 1
    /\ skip[n] \subseteq row.done
    /\ pc[n] \in {"next", "extract", "mark", "store"} =>
          \A i \in DOMAIN plan[n].list : i < at[n] => plan[n].list[i] \in row.done
    /\ pc[n] \in {"extract", "mark"} => at[n] \in DOMAIN plan[n].list
    /\ pc[n] = "mark" => categoryRows[Current(n)] # "none"
    /\ pc[n] = "store" => at[n] > Len(plan[n].list)
    /\ pc[n] = "finished" => Range(plan[n].list) \subseteq row.done

ReviewInv ==
    /\ Types
    /\ DoneIsRecorded
    /\ \A n \in Attempts : ReviewOf(n)

(* What is recorded is not taken back.                                       *)
Recorded ==
    /\ row.done \subseteq row'.done
    /\ row'.attempts \in Nat /\ row.attempts <= row'.attempts
    /\ \A c \in Categories : categoryRows[c] # "none" => categoryRows'[c] # "none"

\* A rule of a plan is a category of the policy.
LEMMA Lists ==
    ASSUME NEW list \in RuleLists \cup {<<>>}
    PROVE  /\ list \in Seq(Range(list)) /\ DOMAIN list = 1 .. Len(list) /\ Len(list) \in Nat
           /\ \A i \in DOMAIN list : list[i] \in Categories
           /\ Range(list) = {list[i] : i \in DOMAIN list}
<1>1. list \in Seq(Range(list))
  <2>1. CASE list \in RuleLists
    BY <2>1, PipelineAssumption
  <2>2. CASE list = <<>>
    BY <2>2
  <2> QED
    BY <2>1, <2>2
<1>2. Range(list) = {list[i] : i \in DOMAIN list}
  BY DEF Range
<1>3. ASSUME NEW i \in DOMAIN list
      PROVE  list[i] \in Categories
  <2>1. list \in RuleLists
    BY <1>3
  <2> QED
    BY <1>2, <2>1 DEF Categories
<1> QED
  BY <1>1, <1>2, <1>3

\* What an attempt knows stays true while another attempt works.
LEMMA OthersKeep ==
    ASSUME ReviewInv, Recorded, NEW n \in Attempts,
           pc'[n] = pc[n], skip'[n] = skip[n], plan'[n] = plan[n], at'[n] = at[n]
    PROVE  ReviewOf(n)'
<1>1. ReviewOf(n)
  BY DEF ReviewInv
<1>2. row.attempts \in Nat
  BY DEF ReviewInv, Types
<1>3. \A i \in DOMAIN plan[n].list : plan[n].list[i] \in Categories
  BY <1>1, Lists DEF ReviewOf
<1>4. pc[n] = "mark" => categoryRows'[Current(n)] # "none"
  BY <1>1, <1>3 DEF ReviewOf, Recorded, Current
<1>5. Current(n)' = Current(n)
  BY DEF Current
<1>6. n > row'.attempts => n > row.attempts
  BY <1>2 DEF Recorded, Attempts
<1> QED
  BY <1>1, <1>4, <1>5, <1>6 DEF ReviewOf, Recorded

\* An attempt that has started has been counted.
LEMMA Counted ==
    ASSUME ReviewInv, NEW n \in Attempts, pc[n] # "idle"
    PROVE  n <= row.attempts
<1>1. row.attempts \in Nat /\ n \in Nat
  BY PipelineAssumption DEF ReviewInv, Types, Attempts
<1>2. ~ (n > row.attempts)
  BY DEF ReviewInv, ReviewOf
<1> QED
  BY <1>1, <1>2

\* A step of one attempt preserves the invariant if it takes nothing back and
\* leaves that attempt with what it must know.
LEMMA OneWorks ==
    ASSUME ReviewInv, Recorded, Types', DoneIsRecorded', NEW n \in Attempts, ReviewOf(n)',
           \A m \in Attempts \ {n} :
              pc'[m] = pc[m] /\ skip'[m] = skip[m] /\ plan'[m] = plan[m] /\ at'[m] = at[m]
    PROVE  ReviewInv'
<1>1. ASSUME NEW m \in Attempts
      PROVE  ReviewOf(m)'
  <2>1. CASE m = n   BY <2>1
  <2>2. CASE m # n   BY <2>2, OthersKeep
  <2> QED  BY <2>1, <2>2
<1> QED
  BY <1>1 DEF ReviewInv

\* An attempt may end anywhere; to finish it must have its whole plan done.
LEMMA LeaveKeeps ==
    ASSUME ReviewInv, Recorded, NEW n \in Attempts, NEW how \in Over, pc[n] # "idle", Leave(n, how),
           DOMAIN row' = RowFields, row'.done = row.done, rules.list' \in RuleLists,
           UNCHANGED categoryRows,
           how = "finished" => Range(plan[n].list) \subseteq row.done
    PROVE  ReviewInv'
<1>1. /\ pc' = [m \in Attempts |-> IF m = n THEN how ELSE pc[m]]
      /\ skip' = [m \in Attempts |-> IF m = n THEN {} ELSE skip[m]]
      /\ at' = [m \in Attempts |-> IF m = n THEN 1 ELSE at[m]]
      /\ plan' = plan
  BY DEF Leave, ReviewInv, Types
<1>2. Types'
  BY <1>1 DEF ReviewInv, Types, Recorded
<1>3. DoneIsRecorded'
  BY DEF ReviewInv, DoneIsRecorded
<1>4. n <= row'.attempts
  BY Counted DEF Recorded, ReviewInv, Types, Attempts
<1>5. ReviewOf(n)'
  <2>1. ReviewOf(n)
    BY DEF ReviewInv
  <2> QED
    BY <1>1, <1>4, <2>1 DEF ReviewOf, Over, Recorded, Attempts
<1>6. \A m \in Attempts \ {n} :
          pc'[m] = pc[m] /\ skip'[m] = skip[m] /\ plan'[m] = plan[m] /\ at'[m] = at[m]
  BY <1>1
<1> QED
  BY <1>2, <1>3, <1>5, <1>6, OneWorks

\* The worker's except clause preserves the invariant.
LEMMA ErrorKeeps ==
    ASSUME ReviewInv, NEW n \in Attempts, pc[n] # "idle", HandleError(n)
    PROVE  ReviewInv'
<1>1. /\ DOMAIN row' = RowFields /\ row'.done = row.done /\ row'.attempts = row.attempts
      /\ row.attempts \in Nat
  BY DEF HandleError, ReviewInv, Types, RowFields
<1>2. Recorded /\ UNCHANGED <<categoryRows, rules>> /\ rules.list \in RuleLists
  BY <1>1 DEF HandleError, Recorded, ReviewInv, Types
<1> QED
  BY <1>1, <1>2, LeaveKeeps DEF HandleError, Over

-----------------------------------------------------------------------------
(* The steps of an attempt.                                                *)

LEMMA StartKeeps ==
    ASSUME ReviewInv, NEW n \in Attempts, Start(n)
    PROVE  ReviewInv'
<1>1. /\ pc' = [m \in Attempts |-> IF m = n THEN "prepare" ELSE pc[m]]
      /\ skip' = [m \in Attempts |-> IF m = n THEN row.done ELSE skip[m]]
      /\ UNCHANGED <<plan, at, rules, categoryRows>>
      /\ n = row.attempts + 1 /\ row.attempts \in Nat
  BY DEF Start, ReviewInv, Types
<1>2. DOMAIN row' = RowFields /\ row'.done = row.done /\ row'.attempts = n
  BY DEF Start, ReviewInv, Types, RowFields
<1>3. Recorded
  BY <1>1, <1>2 DEF Recorded
<1>4. Types' /\ DoneIsRecorded'
  BY <1>1, <1>2 DEF ReviewInv, Types, DoneIsRecorded
<1>5. ReviewOf(n)'
  <2>1. ReviewOf(n) /\ pc[n] = "idle"
    BY <1>1 DEF ReviewInv, ReviewOf
  <2> QED
    BY <1>1, <1>2, <2>1 DEF ReviewOf
<1> QED
  BY <1>1, <1>3, <1>4, <1>5, OneWorks

LEMMA WorkKeeps ==
    ASSUME ReviewInv, NEW n \in Attempts, Work(n)
    PROVE  ReviewInv'
<1>1. /\ ReviewOf(n) /\ row.attempts \in Nat /\ DOMAIN row = RowFields
      /\ pc = [m \in Attempts |-> pc[m]] /\ at = [m \in Attempts |-> at[m]]
      /\ plan = [m \in Attempts |-> plan[m]] /\ rules.list \in RuleLists
  BY DEF ReviewInv, Types
<1>2. /\ DOMAIN plan[n].list = 1 .. Len(plan[n].list) /\ Len(plan[n].list) \in Nat
      /\ \A i \in DOMAIN plan[n].list : plan[n].list[i] \in Categories
      /\ Range(plan[n].list) = {plan[n].list[i] : i \in DOMAIN plan[n].list}
  BY <1>1, Lists DEF ReviewOf
<1>3. pc[n] # "idle" => n <= row.attempts
  BY Counted
<1>4. CASE Prepare(n)
  <2>1. /\ pc' = [m \in Attempts |-> IF m = n THEN "next" ELSE pc[m]]
        /\ plan' = [m \in Attempts |-> IF m = n THEN rules ELSE plan[m]]
        /\ UNCHANGED <<row, categoryRows, rules, skip, at>> /\ pc[n] = "prepare"
    BY <1>1, <1>4 DEF Prepare
  <2>2. Recorded /\ Types' /\ DoneIsRecorded'
    BY <2>1 DEF ReviewInv, Recorded, Types, DoneIsRecorded
  <2>3. rules.list \in RuleLists /\ DOMAIN rules.list = 1 .. Len(rules.list) /\ Len(rules.list) \in Nat
    BY <1>1, Lists
  <2>4. ReviewOf(n)'
    BY <1>1, <1>3, <2>1, <2>3 DEF ReviewOf
  <2> QED
    BY <2>1, <2>2, <2>4, OneWorks
<1>5. CASE SkipCategory(n)
  <2>1. /\ at' = [m \in Attempts |-> IF m = n THEN at[m] + 1 ELSE at[m]]
        /\ UNCHANGED <<row, categoryRows, rules, pc, skip, plan>>
        /\ pc[n] = "next" /\ Current(n) \in row.done /\ at[n] <= Len(plan[n].list)
    BY <1>1, <1>5 DEF SkipCategory, Pending, ReviewOf
  <2>2. Recorded /\ Types' /\ DoneIsRecorded'
    BY <2>1 DEF ReviewInv, Recorded, Types, DoneIsRecorded
  <2>3. ReviewOf(n)'
    BY <1>1, <1>2, <1>3, <2>1 DEF ReviewOf, Current
  <2> QED
    BY <2>1, <2>2, <2>3, OneWorks
<1>6. CASE BeginCategory(n)
  <2>1. /\ pc' = [m \in Attempts |-> IF m = n THEN "extract" ELSE pc[m]]
        /\ DOMAIN row' = RowFields /\ row'.done = row.done /\ row'.attempts = row.attempts
        /\ UNCHANGED <<categoryRows, rules, skip, plan, at>>
        /\ pc[n] = "next" /\ at[n] <= Len(plan[n].list)
    BY <1>1, <1>6 DEF BeginCategory, Pending, RowFields
  <2>2. Recorded /\ Types' /\ DoneIsRecorded'
    BY <2>1 DEF ReviewInv, Recorded, Types, DoneIsRecorded
  <2>3. ReviewOf(n)'
    BY <1>1, <1>2, <1>3, <2>1 DEF ReviewOf
  <2> QED
    BY <2>1, <2>2, <2>3, OneWorks
<1>7. CASE Extract(n)
  <2>1. PICK a \in Answers : categoryRows' = [categoryRows EXCEPT ![Current(n)] = a.status]
    BY <1>7 DEF Extract
  <2>2. a.status # "none" /\ Current(n) \in Categories
    BY <1>1, <1>2, <1>7 DEF Answers, Statuses, Extract, Current, ReviewOf
  <2>3. /\ pc' = [m \in Attempts |-> IF m = n THEN "mark" ELSE pc[m]]
        /\ UNCHANGED <<row, rules, skip, plan, at>>
        /\ pc[n] = "extract"
    BY <1>1, <1>7 DEF Extract
  <2>4. categoryRows' = [c \in Categories |-> IF c = Current(n) THEN a.status ELSE categoryRows[c]]
    BY <2>1 DEF ReviewInv, Types
  <2>5. Recorded /\ Types'
    BY <2>2, <2>3, <2>4 DEF ReviewInv, Recorded, Types
  <2>6. ReviewOf(n)'
    BY <1>1, <1>3, <2>2, <2>3, <2>4 DEF ReviewOf, Current
  <2>7. DoneIsRecorded'
    BY <2>2, <2>3, <2>1 DEF ReviewInv, DoneIsRecorded
  <2> QED
    BY <2>3, <2>5, <2>6, <2>7, OneWorks
<1>8. CASE MarkComplete(n)
  <2>1. /\ pc' = [m \in Attempts |-> IF m = n THEN "next" ELSE pc[m]]
        /\ at' = [m \in Attempts |-> IF m = n THEN at[m] + 1 ELSE at[m]]
        /\ DOMAIN row' = RowFields /\ row'.done = row.done \cup {Current(n)}
        /\ row'.attempts = row.attempts
        /\ UNCHANGED <<categoryRows, rules, skip, plan>>
        /\ pc[n] = "mark"
    BY <1>1, <1>8 DEF MarkComplete, RowFields
  <2>2. Recorded /\ Types' /\ DoneIsRecorded'
    BY <1>1, <2>1 DEF ReviewInv, Recorded, Types, DoneIsRecorded, ReviewOf
  <2>3. ReviewOf(n)'
    BY <1>1, <1>2, <1>3, <2>1 DEF ReviewOf, Current
  <2> QED
    BY <2>1, <2>2, <2>3, OneWorks
<1>9. CASE BeginVerifying(n)
  <2>1. /\ pc' = [m \in Attempts |-> IF m = n THEN "store" ELSE pc[m]]
        /\ UNCHANGED <<row, categoryRows, rules, skip, plan, at>>
        /\ pc[n] = "next" /\ at[n] > Len(plan[n].list)
    BY <1>1, <1>9 DEF BeginVerifying
  <2>2. Recorded /\ Types' /\ DoneIsRecorded'
    BY <2>1 DEF ReviewInv, Recorded, Types, DoneIsRecorded
  <2>3. ReviewOf(n)'
    BY <1>1, <1>3, <2>1 DEF ReviewOf
  <2> QED
    BY <2>1, <2>2, <2>3, OneWorks
<1>10. CASE StoreFinding(n)
  <2>1. UNCHANGED <<row, categoryRows, rules, pc, skip, plan, at>>
    BY <1>10 DEF StoreFinding, attempt
  <2> QED
    BY <2>1 DEF ReviewInv, Types, DoneIsRecorded, ReviewOf, Current
<1>11. CASE Finish(n)
  <2>1. /\ DOMAIN row' = RowFields /\ row'.done = row.done /\ row'.attempts = row.attempts
        /\ UNCHANGED <<categoryRows, rules>> /\ pc[n] = "store"
    BY <1>1, <1>11 DEF Finish, RowFields
  <2>2. Recorded
    BY <1>1, <2>1 DEF Recorded
  <2>3. Range(plan[n].list) \subseteq row.done
    BY <1>1, <1>2, <2>1 DEF ReviewOf
  <2> QED
    BY <1>1, <1>11, <2>1, <2>2, <2>3, LeaveKeeps DEF Finish, Over
<1>12. CASE NoRulesLeft(n)   BY <1>12, ErrorKeeps DEF NoRulesLeft
<1>13. CASE RuleIsGone(n)    BY <1>13, ErrorKeeps DEF RuleIsGone
<1> QED
  BY <1>4, <1>5, <1>6, <1>7, <1>8, <1>9, <1>10, <1>11, <1>12, <1>13 DEF Work

-----------------------------------------------------------------------------
LEMMA NextKeeps ==
    ASSUME ReviewInv, [Next]_vars
    PROVE  ReviewInv'
<1>1. CASE UNCHANGED vars
  BY <1>1 DEF vars, attempt, ReviewInv, Types, DoneIsRecorded, ReviewOf, Current
<1>2. CASE ReplaceRules
  <2>1. UNCHANGED <<row, categoryRows, pc, skip, plan, at>> /\ rules.list' \in RuleLists
    BY <1>2 DEF ReplaceRules, attempt
  <2> QED
    BY <2>1 DEF ReviewInv, Types, DoneIsRecorded, ReviewOf, Current
<1>3. ASSUME NEW n \in Attempts, Start(n)
      PROVE  ReviewInv'
  BY <1>3, StartKeeps
<1>4. ASSUME NEW n \in Attempts, Work(n)
      PROVE  ReviewInv'
  BY <1>4, WorkKeeps
<1>5. ASSUME NEW n \in Attempts, Raise(n)
      PROVE  ReviewInv'
  BY <1>5, ErrorKeeps DEF Raise, Active
<1>6. ASSUME NEW n \in Attempts, Die(n)
      PROVE  ReviewInv'
  <2>1. Recorded /\ DOMAIN row' = RowFields /\ rules.list \in RuleLists
    BY <1>6 DEF Die, Recorded, ReviewInv, Types
  <2> QED
    BY <1>6, <2>1, LeaveKeeps DEF Die, Active, Over
<1>7. ASSUME NEW n \in Attempts, RetryIsLost(n)
      PROVE  ReviewInv'
  <2>1. Recorded /\ UNCHANGED <<row, categoryRows, rules, skip, plan, at>>
    BY <1>7 DEF RetryIsLost, Recorded, ReviewInv, Types
  <2>2. pc' = [m \in Attempts |-> IF m = n THEN "dead" ELSE pc[m]] /\ pc[n] = "raised"
    BY <1>7 DEF RetryIsLost, ReviewInv, Types
  <2>3. Types' /\ DoneIsRecorded'
    BY <2>1, <2>2 DEF ReviewInv, Types, DoneIsRecorded
  <2>4. ReviewOf(n)'
    BY <2>1, <2>2 DEF ReviewInv, ReviewOf
  <2> QED
    BY <2>1, <2>2, <2>3, <2>4, OneWorks
<1> QED
  BY <1>1, <1>2, <1>3, <1>4, <1>5, <1>6, <1>7 DEF Next

LEMMA ReviewBegins == Init => ReviewInv
  BY DEF Init, ReviewInv, Types, RowFields, DoneIsRecorded, ReviewOf

\* An attempt that finishes has every category of its plan done and
\* recorded, whatever it skipped and whoever overtook it, for any policy, any
\* number of attempts, and any errors, deaths and edits.
THEOREM PlanReviewed == Spec => []PlanIsReviewed
<1>1. Init => ReviewInv
  BY ReviewBegins
<1>2. ReviewInv /\ [Next]_vars => ReviewInv'
  BY NextKeeps
<1>3. ReviewInv => PlanIsReviewed
  BY DEF ReviewInv, ReviewOf, DoneIsRecorded, PlanIsReviewed
<1> QED
  BY <1>1, <1>2, <1>3, PTL DEF Spec

-----------------------------------------------------------------------------
(* Types.                                                                  *)

LEMMA Elements ==
    ASSUME NEW S, NEW s \in Seq(S), NEW k \in DOMAIN s
    PROVE  k \in Nat /\ s[k] \in S
OBVIOUS

LEMMA Appended ==
    ASSUME NEW S, NEW s \in Seq(S), NEW e \in S
    PROVE  Append(s, e) \in Seq(S)
OBVIOUS

\* A sequence has finitely many places.
LEMMA PlacesFinite ==
    ASSUME NEW S, NEW s \in Seq(S)
    PROVE  IsFiniteSet(DOMAIN s)
<1>1. DOMAIN s = 1 .. Len(s) /\ Len(s) \in Int /\ 1 \in Int
  OBVIOUS
<1>2. IsFiniteSet(1 .. Len(s))
  BY <1>1, FS_Interval
<1> QED
  BY <1>1, <1>2

\* The findings that an attempt stores are as many as the model proposed.
LEMMA ProposedFinite ==
    ASSUME TypeOK, NEW n \in Attempts
    PROVE  /\ IsFiniteSet(Proposed(n))
           /\ Proposed(n) \subseteq FindingRow
           /\ \A f \in Proposed(n) : /\ f.attempt = n
                                   /\ f.result \in DOMAIN results[n]
                                   /\ f.category = results[n][f.result].category
<1> DEFINE Row(i, j) == [attempt |-> n, result |-> i, nr |-> j, category |-> results[n][i].category,
                         verdict |-> results[n][i].verdicts[j]]
<1>1. results[n] \in Seq(CategoryResult)
  BY DEF TypeOK
<1>2. ASSUME NEW i \in DOMAIN results[n]
      PROVE  /\ IsFiniteSet(FindingsOf(n, i))
             /\ \A f \in FindingsOf(n, i) :
                   /\ f \in FindingRow /\ f.attempt = n
                   /\ f.result = i /\ f.category = results[n][i].category
  <2>1. i \in Nat /\ results[n][i] \in CategoryResult
    BY <1>1, Elements
  <2>2. results[n][i].verdicts \in Seq(Verdicts) /\ results[n][i].category \in Categories
    BY <2>1 DEF CategoryResult
  <2>4. IsFiniteSet(DOMAIN results[n][i].verdicts)
    BY <2>2, PlacesFinite
  <2> DEFINE row_of == [j \in DOMAIN results[n][i].verdicts |-> Row(i, j)]
  <2>5. row_of \in Surjection(DOMAIN results[n][i].verdicts, FindingsOf(n, i))
    BY DEF Surjection, FindingsOf
  <2>6. IsFiniteSet(FindingsOf(n, i))
    BY <2>4, <2>5, FS_Surjection
  <2>7. ASSUME NEW f \in FindingsOf(n, i)
        PROVE  /\ f \in FindingRow /\ f.attempt = n
               /\ f.result = i /\ f.category = results[n][i].category
    <3>1. PICK j \in DOMAIN results[n][i].verdicts : f = Row(i, j)
      BY DEF FindingsOf
    <3>2. j \in Nat /\ results[n][i].verdicts[j] \in Verdicts
      BY <2>2, Elements
    <3> QED
      BY <2>1, <2>2, <3>1, <3>2 DEF FindingRow
  <2> QED
    BY <2>6, <2>7
<1>4. IsFiniteSet(DOMAIN results[n])
  BY <1>1, PlacesFinite
<1> DEFINE All == {FindingsOf(n, i) : i \in DOMAIN results[n]}
           found == [i \in DOMAIN results[n] |-> FindingsOf(n, i)]
<1>5. found \in Surjection(DOMAIN results[n], All)
  BY DEF Surjection
<1>6. IsFiniteSet(All)
  BY <1>4, <1>5, FS_Surjection
<1>7. IsFiniteSet(UNION All)
  BY <1>2, <1>6, FS_UNION
<1> QED
  BY <1>2, <1>7 DEF Proposed

LEMMA Counts ==
    ASSUME TypeOK, NEW n \in Attempts
    PROVE  Cardinality(Verified(Proposed(n))) \in Nat
<1>1. Verified(Proposed(n)) \subseteq Proposed(n)
  BY DEF Verified
<1>2. IsFiniteSet(Verified(Proposed(n)))
  BY <1>1, ProposedFinite, FS_Subset
<1> QED
  BY <1>2, FS_CardinalityType

\* An attempt may end anywhere.
LEMMA LeaveTyped ==
    ASSUME TypeOK, NEW n \in Attempts, NEW how \in Over, Leave(n, how),
           plan[n].list \in RuleLists \cup {<<>>},
           UNCHANGED <<categoryRows, stored, rules>>,
           row' \in AnalysisRow, row'.done = row.done,
           raises' \in 0 .. MaxRaises, deaths' \in 0 .. MaxDeaths
    PROVE  TypeOK'
<1>1. Len(plan[n].list) \in Nat
  BY Lists
<1>2. results' \in [Attempts -> Seq(CategoryResult)]
  BY DEF Leave, TypeOK
<1> QED
  BY <1>1, <1>2 DEF Leave, TypeOK

LEMMA ErrorTyped ==
    ASSUME ReviewInv, TypeOK, NEW n \in Attempts, HandleError(n), rules' = rules,
           raises' \in 0 .. MaxRaises, deaths' \in 0 .. MaxDeaths
    PROVE  TypeOK'
<1>1. row' \in AnalysisRow /\ row'.done = row.done
  BY DEF HandleError, TypeOK, AnalysisRow
<1>2. plan[n].list \in RuleLists \cup {<<>>}
  BY DEF ReviewInv, ReviewOf
<1> QED
  BY <1>1, <1>2, LeaveTyped DEF HandleError, Over

LEMMA WorkTyped ==
    ASSUME ReviewInv, TypeOK, NEW n \in Attempts, Work(n)
    PROVE  TypeOK'
<1>1. ReviewOf(n) /\ plan[n].list \in RuleLists \cup {<<>>}
  BY DEF ReviewInv, ReviewOf
<1>2. /\ DOMAIN plan[n].list = 1 .. Len(plan[n].list) /\ Len(plan[n].list) \in Nat
      /\ \A i \in DOMAIN plan[n].list : plan[n].list[i] \in Categories
  BY <1>1, Lists
<1>3. CASE Prepare(n)
  <2>1. at[n] = 1 /\ Len(rules.list) \in Nat
    BY <1>1, <1>3, Lists DEF ReviewOf, Prepare, ReviewInv, Types
  <2>2. plan' = [m \in Attempts |-> IF m = n THEN rules ELSE plan[m]]
    BY <1>3 DEF Prepare, TypeOK
  <2> QED
    BY <1>3, <2>1, <2>2 DEF Prepare, TypeOK
<1>4. CASE SkipCategory(n)
  BY <1>2, <1>4 DEF SkipCategory, Pending, TypeOK
<1>5. CASE BeginCategory(n)
  <2> DEFINE before == at[n] - 1
  <2>1. before \in Nat /\ row' = [row EXCEPT !.progress = before]
    BY <1>5 DEF BeginCategory, TypeOK
  <2>2. row' \in AnalysisRow /\ row'.done = row.done
    <3> HIDE DEF before
    <3> QED
      BY <2>1 DEF TypeOK, AnalysisRow
  <2> QED
    BY <1>5, <2>2 DEF BeginCategory, TypeOK
<1>6. CASE Extract(n)
  <2>1. PICK a \in Answers : /\ results' = [results EXCEPT ![n] = Append(results[n], ResultOf(n, a))]
                            /\ categoryRows' = [categoryRows EXCEPT ![Current(n)] = a.status]
    BY <1>6 DEF Extract
  <2>2. Current(n) \in Categories
    BY <1>1, <1>2, <1>6 DEF ReviewOf, Extract, Current
  <2>3. a.status \in Statuses /\ a.verdicts \in Seq(Verdicts)
    <3>1. a \in [status : Statuses, verdicts : UNION {[1 .. k -> Verdicts] : k \in 0 .. MaxFindings}]
      BY DEF Answers
    <3>2. PICK k \in 0 .. MaxFindings : a.verdicts \in [1 .. k -> Verdicts]
      BY <3>1
    <3>3. k \in Nat
      BY PipelineAssumption
    <3> QED
      BY <3>1, <3>2, <3>3
  <2>4. ResultOf(n, a) \in CategoryResult
    BY <2>2, <2>3 DEF ResultOf, CategoryResult
  <2>5. Append(results[n], ResultOf(n, a)) \in Seq(CategoryResult)
    BY <2>4, Appended DEF TypeOK
  <2>6. /\ results' \in [Attempts -> Seq(CategoryResult)]
        /\ categoryRows' \in [Categories -> Statuses \cup {"none"}]
    BY <2>1, <2>2, <2>3, <2>5 DEF TypeOK
  <2> QED
    BY <1>6, <2>6 DEF Extract, TypeOK
<1>7. CASE MarkComplete(n)
  <2>1. Current(n) \in Categories /\ at[n] <= Len(plan[n].list)
    BY <1>1, <1>2, <1>7 DEF ReviewOf, MarkComplete, Current
  <2> DEFINE done == row.done \cup {Current(n)}
  <2>2. IsFiniteSet(done) /\ Cardinality(done) \in Nat
    BY FS_AddElement, FS_CardinalityType DEF TypeOK
  <2>3. done \in SUBSET Categories
    BY <2>1 DEF TypeOK, AnalysisRow
  <2>4. row' = [row EXCEPT !.done = done, !.progress = Cardinality(done)]
    BY <1>7 DEF MarkComplete
  <2>5. row' \in AnalysisRow /\ row'.done = done
    <3> HIDE DEF done
    <3> QED
      BY <2>2, <2>3, <2>4 DEF TypeOK, AnalysisRow
  <2> QED
    BY <1>2, <1>7, <2>1, <2>2, <2>5 DEF MarkComplete, TypeOK
<1>8. CASE BeginVerifying(n)
  BY <1>8 DEF BeginVerifying, TypeOK
<1>9. CASE StoreFinding(n)
  <2>1. PICK f \in Left(n) : stored' = stored \cup {f}
    BY <1>9 DEF StoreFinding
  <2>2. f \in FindingRow
    BY ProposedFinite DEF Left
  <2> QED
    BY <1>9, <2>1, <2>2 DEF StoreFinding, attempt, TypeOK
<1>10. CASE Finish(n)
  <2>1. row' \in AnalysisRow /\ row'.done = row.done
    BY <1>10, Counts DEF Finish, TypeOK, AnalysisRow
  <2>2. "finished" \in Over /\ raises' \in 0 .. MaxRaises /\ deaths' \in 0 .. MaxDeaths
    BY <1>10 DEF Over, Finish, TypeOK
  <2> QED
    BY <1>1, <1>10, <2>1, <2>2, LeaveTyped DEF Finish
<1>11. CASE NoRulesLeft(n)
  BY <1>11, ErrorTyped DEF NoRulesLeft, HandleError, TypeOK
<1>12. CASE RuleIsGone(n)
  BY <1>12, ErrorTyped DEF RuleIsGone, HandleError, TypeOK
<1> QED
  BY <1>3, <1>4, <1>5, <1>6, <1>7, <1>8, <1>9, <1>10, <1>11, <1>12 DEF Work

LEMMA NextTyped ==
    ASSUME ReviewInv, TypeOK, [Next]_vars
    PROVE  TypeOK'
<1>1. CASE UNCHANGED vars
  BY <1>1 DEF vars, attempt, TypeOK
<1>2. CASE ReplaceRules
  <2>1. rules' \in Plan
    BY <1>2, PipelineAssumption DEF ReplaceRules, Plan, TypeOK
  <2> QED
    BY <1>2, <2>1 DEF ReplaceRules, attempt, TypeOK
<1>3. ASSUME NEW n \in Attempts, Start(n)
      PROVE  TypeOK'
  <2>1. n \in 0 .. MaxAttempts
    BY PipelineAssumption DEF Attempts
  <2>2. row' \in AnalysisRow /\ row.done \in SUBSET Categories /\ row'.done = row.done
    BY <1>3, <2>1 DEF Start, TypeOK, AnalysisRow
  <2> QED
    BY <1>3, <2>2 DEF Start, TypeOK
<1>4. ASSUME NEW n \in Attempts, Work(n)
      PROVE  TypeOK'
  BY <1>4, WorkTyped
<1>5. ASSUME NEW n \in Attempts, Raise(n)
      PROVE  TypeOK'
  <2>1. raises' \in 0 .. MaxRaises /\ rules' = rules /\ deaths' \in 0 .. MaxDeaths
    BY <1>5, PipelineAssumption DEF Raise, HandleError, TypeOK
  <2> QED
    BY <1>5, <2>1, ErrorTyped DEF Raise
<1>6. ASSUME NEW n \in Attempts, Die(n)
      PROVE  TypeOK'
  <2>1. /\ raises' \in 0 .. MaxRaises /\ deaths' \in 0 .. MaxDeaths
        /\ row' \in AnalysisRow /\ row'.done = row.done
    BY <1>6, PipelineAssumption DEF Die, TypeOK
  <2>2. plan[n].list \in RuleLists \cup {<<>>} /\ "dead" \in Over
    BY DEF ReviewInv, ReviewOf, Over
  <2> QED
    BY <1>6, <2>1, <2>2, LeaveTyped DEF Die
<1>7. ASSUME NEW n \in Attempts, RetryIsLost(n)
      PROVE  TypeOK'
  BY <1>7, PipelineAssumption DEF RetryIsLost, TypeOK, Over
<1> QED
  BY <1>1, <1>2, <1>3, <1>4, <1>5, <1>6, <1>7 DEF Next

LEMMA TypesBegin == Init => TypeOK
  BY PipelineAssumption, FS_EmptySet DEF Init, TypeOK, AnalysisRow, Plan, Over

\* Every variable keeps its type, for any policy, bounds and overlap.
THEOREM PipelineTypes == Spec => []TypeOK
<1>1. Init => ReviewInv
  BY ReviewBegins
<1>2. Init => TypeOK
  BY TypesBegin
<1>3. ReviewInv /\ TypeOK /\ [Next]_vars => (ReviewInv /\ TypeOK)'
  BY NextKeeps, NextTyped
<1> QED
  BY <1>1, <1>2, <1>3, PTL DEF Spec

-----------------------------------------------------------------------------
(* Counts.                                                                 *)

(* What an attempt has stored, and whose findings a finished row counts.     *)
StoredOf(n) ==
    /\ pc[n] \notin Over \cup {"store"} => StoredBy(n) = {}
    /\ pc[n] = "store" => StoredBy(n) \subseteq Proposed(n)

CountedAre(n) == pc[n] \in Over /\ row.findings = Cardinality(Verified(StoredBy(n)))

CountsInv ==
    /\ \A n \in Attempts : StoredOf(n)
    /\ Finished => \E n \in Attempts : CountedAre(n)

\* A step of an attempt that leaves the findings alone, and does not finish
\* the row.
LEMMA CountsStay ==
    ASSUME CountsInv, NEW n \in Attempts, stored' = stored,
           pc[n] \notin Over, pc[n] # "store" \/ pc'[n] \in Over,
           \A m \in Attempts \ {n} : pc'[m] = pc[m] /\ results'[m] = results[m],
           Finished' => Finished /\ row'.findings = row.findings
    PROVE  CountsInv'
<1>1. \A m \in Attempts : StoredBy(m)' = StoredBy(m)
  BY DEF StoredBy
<1>2. ASSUME NEW m \in Attempts
      PROVE  StoredOf(m)'
  <2>1. CASE m = n
    BY <1>1, <2>1 DEF CountsInv, StoredOf
  <2>2. CASE m # n
    BY <1>1, <2>2 DEF CountsInv, StoredOf, Proposed, FindingsOf
  <2> QED
    BY <2>1, <2>2
<1>3. ASSUME NEW m \in Attempts, CountedAre(m), Finished'
      PROVE  CountedAre(m)'
  BY <1>1, <1>3 DEF CountedAre
<1> QED
  BY <1>2, <1>3 DEF CountsInv

LEMMA CountsKept ==
    ASSUME ReviewInv, TypeOK, CountsInv, [Next]_vars
    PROVE  CountsInv'
<1>1. CASE UNCHANGED vars \/ ReplaceRules
  <2>1. UNCHANGED <<row, stored, pc, results>>
    BY <1>1 DEF vars, attempt, ReplaceRules
  <2>2. \A n \in Attempts : StoredOf(n)' /\ (CountedAre(n) => CountedAre(n)')
    BY <2>1 DEF CountsInv, StoredOf, CountedAre, StoredBy, Proposed, FindingsOf
  <2> QED
    BY <2>1, <2>2 DEF CountsInv, Finished
<1>2. ASSUME NEW n \in Attempts, Start(n)
      PROVE  CountsInv'
  <2>1. pc[n] = "idle"
    <3>1. row.attempts \in Nat /\ n = row.attempts + 1 /\ ReviewOf(n)
      BY <1>2 DEF ReviewInv, Types, Start
    <3> QED
      BY <3>1 DEF ReviewOf
  <2>2. row'.status = "running"
    BY <1>2 DEF Start, TypeOK, AnalysisRow
  <2> QED
    BY <1>2, <2>1, <2>2, CountsStay DEF Start, TypeOK, Over, Finished
<1>3. ASSUME NEW n \in Attempts, HandleError(n), Active(n)
      PROVE  CountsInv'
  <2>1. Finished' => Finished /\ row'.findings = row.findings
    BY <1>3 DEF HandleError, Finished, TypeOK, AnalysisRow
  <2> QED
    BY <1>3, <2>1, CountsStay DEF HandleError, Leave, Active, TypeOK, Over
<1>4. ASSUME NEW n \in Attempts, Work(n)
      PROVE  CountsInv'
  <2>1. CASE Prepare(n) \/ SkipCategory(n) \/ BeginVerifying(n)
    BY <2>1, CountsStay DEF Prepare, SkipCategory, Pending, BeginVerifying, TypeOK, Over, Finished
  <2>2. CASE BeginCategory(n) \/ MarkComplete(n)
    <3>1. row'.status = row.status /\ row'.findings = row.findings
      BY <2>2 DEF BeginCategory, MarkComplete, TypeOK, AnalysisRow
    <3> QED
      BY <2>2, <3>1, CountsStay DEF BeginCategory, MarkComplete, Pending, TypeOK, Over, Finished
  <2>3. CASE Extract(n)
    <3>1. \A m \in Attempts \ {n} : pc'[m] = pc[m] /\ results'[m] = results[m]
      BY <2>3 DEF Extract, TypeOK
    <3> QED
      BY <2>3, <3>1, CountsStay DEF Extract, Over, Finished
  <2>4. CASE StoreFinding(n)
    <3>1. PICK f \in Left(n) : stored' = stored \cup {f}
      BY <2>4 DEF StoreFinding
    <3>2. f.attempt = n /\ f \in Proposed(n)
      BY ProposedFinite DEF Left
    <3>3. UNCHANGED <<row, pc, results>> /\ pc[n] = "store"
      BY <2>4 DEF StoreFinding, attempt
    <3>4. \A m \in Attempts : m # n => StoredBy(m)' = StoredBy(m)
      BY <3>1, <3>2 DEF StoredBy
    <3>5. StoredBy(n)' = StoredBy(n) \cup {f} /\ UNCHANGED Proposed(n)
      BY <3>1, <3>2, <3>3 DEF StoredBy, Proposed, FindingsOf
    <3>6. \A m \in Attempts : StoredOf(m)'
      BY <3>2, <3>3, <3>4, <3>5 DEF CountsInv, StoredOf, Over, Proposed, FindingsOf
    <3>7. \A m \in Attempts : CountedAre(m) => CountedAre(m)'
      BY <3>3, <3>4 DEF CountedAre, Over
    <3> QED
      BY <3>3, <3>6, <3>7 DEF CountsInv, Finished
  <2>5. CASE Finish(n)
    <3>1. pc'[n] = "finished" /\ \A m \in Attempts \ {n} : pc'[m] = pc[m] /\ results'[m] = results[m]
      BY <2>5 DEF Finish, Leave, TypeOK
    <3>2. StoredBy(n) = Proposed(n)
      BY <2>5, ProposedFinite DEF Finish, AllStored, Left, StoredBy, CountsInv, StoredOf
    <3>3. row'.findings = Cardinality(Verified(Proposed(n))) /\ stored' = stored
      BY <2>5 DEF Finish, TypeOK, AnalysisRow
    <3>4. CountedAre(n)'
      BY <3>1, <3>2, <3>3 DEF CountedAre, Over, StoredBy, Verified
    <3>5. ASSUME NEW m \in Attempts
          PROVE  StoredOf(m)'
      BY <3>1, <3>3 DEF CountsInv, StoredOf, Over, StoredBy, Proposed, FindingsOf
    <3> QED
      BY <3>4, <3>5 DEF CountsInv
  <2>6. CASE NoRulesLeft(n) \/ RuleIsGone(n)
    BY <1>3, <2>6 DEF NoRulesLeft, RuleIsGone, Active, Over
  <2> QED
    BY <1>4, <2>1, <2>2, <2>3, <2>4, <2>5, <2>6 DEF Work
<1>5. ASSUME NEW n \in Attempts, Raise(n)
      PROVE  CountsInv'
  BY <1>3, <1>5 DEF Raise
<1>6. ASSUME NEW n \in Attempts, Die(n)
      PROVE  CountsInv'
  BY <1>6, CountsStay DEF Die, Active, Leave, TypeOK, Over, Finished
<1>7. ASSUME NEW n \in Attempts, RetryIsLost(n)
      PROVE  CountsInv'
  <2>1. UNCHANGED <<row, stored, results>>
    BY <1>7 DEF RetryIsLost
  <2>2. \A m \in Attempts : pc'[m] = pc[m] \/ (pc[m] = "raised" /\ pc'[m] = "dead")
    BY <1>7 DEF RetryIsLost, TypeOK
  <2>3. \A m \in Attempts : StoredOf(m)' /\ (CountedAre(m) => CountedAre(m)')
    BY <2>1, <2>2 DEF CountsInv, StoredOf, CountedAre, StoredBy, Proposed, FindingsOf, Over
  <2> QED
    BY <2>1, <2>3 DEF CountsInv, Finished
<1> QED
  BY <1>1, <1>2, <1>4, <1>5, <1>6, <1>7 DEF Next

\* The findings counted on a finished analysis are the verified ones that one
\* of its attempts has stored, all of them, even if attempts overlap.
THEOREM CountsStored == Spec => []CountsAreStored
<1>1. Init => ReviewInv /\ CountsInv
  BY ReviewBegins DEF Init, CountsInv, StoredOf, StoredBy, Finished
<1>2. ReviewInv /\ TypeOK /\ CountsInv /\ [Next]_vars => (ReviewInv /\ CountsInv)'
  BY NextKeeps, CountsKept
<1>3. CountsInv => CountsAreStored
  BY DEF CountsInv, CountedAre, CountsAreStored
<1> QED
  BY <1>1, <1>2, <1>3, PipelineTypes, PTL DEF Spec

-----------------------------------------------------------------------------
(* If an attempt only starts when the earlier ones are over: nothing is    *)
(* stored twice, and the attempts together implement AnalysisReview.       *)


(* Only the last attempt is active, and only while the row is running.       *)
OneActive == \A n \in Attempts : Active(n) => n = row.attempts /\ row.status = "running"

Before(n) == {plan[n].list[k] : k \in 1 .. at[n] - 1}

(* What the active attempt knows: everything that is done it skips or has     *)
(* passed; what it reviews is not done; its results are those that the rows   *)
(* show, of categories that it does not skip.                                 *)
KnowsOf(n) ==
    /\ row.done \subseteq skip[n] \cup Before(n)
    /\ pc[n] \in {"extract", "mark"} => Current(n) \notin row.done
    /\ pc[n] # "prepare" => plan[n].list \in RuleLists \ {<<>>}
    /\ \A i \in DOMAIN results[n] :
          /\ results[n][i].category \notin skip[n]
          /\ categoryRows[results[n][i].category] = results[n][i].status
          /\ \/ results[n][i].category \in row.done
             \/ pc[n] = "mark" /\ results[n][i].category = Current(n)

(* What is stored is done, and the active attempt skips what others stored.   *)
StoredOnce ==
    /\ \A f \in stored : f.category \in row.done /\ f.attempt <= row.attempts
    /\ \A n \in Attempts : Active(n) => \A f \in stored : f.attempt = n \/ f.category \in skip[n]
    /\ NoDuplicateFindings

SerialInv ==
    /\ OneActive
    /\ \A n \in Attempts : IF Active(n) THEN KnowsOf(n) ELSE results[n] = <<>>
    /\ StoredOnce

AllInv == ReviewInv /\ TypeOK /\ SerialInv

\* The rules of a policy are of different categories.
LEMMA Different ==
    ASSUME NEW list \in RuleLists, NEW i \in DOMAIN list, NEW j \in DOMAIN list, list[i] = list[j]
    PROVE  i = j
BY PipelineAssumption DEF IsInjective

\* A step of the active attempt keeps the others as they are.
LEMMA OneActs ==
    ASSUME AllInv, NEW n \in Attempts, Active(n), row'.attempts = row.attempts,
           Active(n)' => row'.status = row.status,
           \A m \in Attempts \ {n} : pc'[m] = pc[m] /\ results'[m] = results[m],
           IF Active(n)' THEN KnowsOf(n)' ELSE results'[n] = <<>>,
           StoredOnce'
    PROVE  SerialInv'
<1>1. \A m \in Attempts \ {n} : ~ Active(m) /\ ~ Active(m)'
  BY DEF AllInv, SerialInv, OneActive, Active
<1>2. OneActive'
  BY <1>1 DEF AllInv, SerialInv, OneActive
<1>3. \A m \in Attempts : IF Active(m)' THEN KnowsOf(m)' ELSE results'[m] = <<>>
  BY <1>1 DEF AllInv, SerialInv
<1> QED
  BY <1>2, <1>3 DEF SerialInv

\* What is stored stays stored once if an attempt changes neither the findings
\* nor what it skips, and nothing is taken back.
LEMMA StillOnce ==
    ASSUME AllInv, NEW n \in Attempts, stored' = stored, row.done \subseteq row'.done,
           row'.attempts = row.attempts, Active(n),
           \A m \in Attempts \ {n} : pc'[m] = pc[m] /\ skip'[m] = skip[m],
           Active(n)' => skip'[n] = skip[n]
    PROVE  StoredOnce'
BY DEF AllInv, SerialInv, StoredOnce, NoDuplicateFindings, Active

LEMMA LeaveSerial ==
    ASSUME AllInv, NEW n \in Attempts, NEW how \in Over, Active(n), Leave(n, how),
           stored' = stored, row'.done = row.done, row'.attempts = row.attempts
    PROVE  SerialInv'
<1>1. /\ pc'[n] = how /\ results'[n] = <<>>
      /\ \A m \in Attempts \ {n} : pc'[m] = pc[m] /\ results'[m] = results[m] /\ skip'[m] = skip[m]
  BY DEF Leave, AllInv, TypeOK
<1>2. ~ Active(n)'
  BY <1>1 DEF Active
<1> QED
  BY <1>1, <1>2, OneActs, StillOnce

LEMMA ErrorSerial ==
    ASSUME AllInv, NEW n \in Attempts, Active(n), HandleError(n)
    PROVE  SerialInv'
<1>1. row'.done = row.done /\ row'.attempts = row.attempts /\ "raised" \in Over
  BY DEF HandleError, AllInv, TypeOK, AnalysisRow, Over
<1> QED
  BY <1>1, LeaveSerial DEF HandleError

LEMMA StartSerial ==
    ASSUME ~ Overlap, AllInv, NEW n \in Attempts, Start(n)
    PROVE  SerialInv'
<1>1. /\ row.attempts \in Nat /\ n = row.attempts + 1
      /\ \A m \in 1 .. n - 1 : pc[m] \in Over
      /\ \A m \in Attempts : m > row.attempts => pc[m] = "idle" /\ at[m] = 1
  BY DEF Start, AllInv, ReviewInv, Types, ReviewOf
<1>2. /\ row'.attempts = n /\ row'.status = "running" /\ row'.done = row.done
      /\ UNCHANGED <<categoryRows, stored, plan, at, results>>
      /\ pc'[n] = "prepare" /\ skip'[n] = row.done
      /\ \A m \in Attempts \ {n} : pc'[m] = pc[m] /\ skip'[m] = skip[m]
  BY DEF Start, AllInv, TypeOK, AnalysisRow
<1>3. \A m \in Attempts : ~ Active(m)
  <2>1. ASSUME NEW m \in Attempts
        PROVE  ~ Active(m)
    <3>1. m \in Nat /\ m >= 1
      BY PipelineAssumption DEF Attempts
    <3>2. m \in 1 .. n - 1 \/ m > row.attempts
      BY <1>1, <3>1
    <3> QED
      BY <1>1, <3>2 DEF Active
  <2> QED
    BY <2>1
<1>4. \A m \in Attempts : Active(m)' => m = n
  BY <1>2, <1>3 DEF Active
<1>5. results[n] = <<>> /\ Current(n)' = Current(n)
  BY <1>2, <1>3 DEF AllInv, SerialInv, Current
<1>6. KnowsOf(n)'
  BY <1>2, <1>5 DEF KnowsOf
<1>7. StoredOnce'
  <2>1. \A f \in stored : f.category \in row'.done /\ f.attempt <= row'.attempts
    <3>1. \A f \in stored : f.attempt \in Nat
      BY PipelineAssumption DEF AllInv, TypeOK, FindingRow, Attempts
    <3> QED
      BY <1>1, <1>2, <3>1 DEF AllInv, SerialInv, StoredOnce
  <2> QED
    BY <1>2, <1>4, <2>1 DEF AllInv, SerialInv, StoredOnce, NoDuplicateFindings
<1> QED
  BY <1>2, <1>3, <1>4, <1>6, <1>7 DEF AllInv, SerialInv, OneActive

\* A category that an attempt does not skip is not done.
LEMMA NextIsNew ==
    ASSUME AllInv, NEW n \in Attempts, Pending(n), Current(n) \notin skip[n]
    PROVE  at[n] \in DOMAIN plan[n].list /\ Current(n) \notin row.done
<1>1. /\ ReviewOf(n) /\ KnowsOf(n) /\ plan[n].list \in RuleLists
      /\ at[n] \in Nat \ {0} /\ at[n] <= Len(plan[n].list)
  BY DEF Pending, Active, Over, AllInv, SerialInv, KnowsOf, ReviewInv, ReviewOf
<1>2. DOMAIN plan[n].list = 1 .. Len(plan[n].list) /\ Len(plan[n].list) \in Nat
  BY <1>1, Lists
<1>3. Current(n) \notin Before(n)
  <2>1. ASSUME NEW k \in 1 .. at[n] - 1, Current(n) = plan[n].list[k]
        PROVE  FALSE
    <3>1. k \in DOMAIN plan[n].list /\ k # at[n] /\ at[n] \in DOMAIN plan[n].list
      BY <1>1, <1>2
    <3> QED
      BY <1>1, <2>1, <3>1, Different DEF Current
  <2> QED
    BY <2>1 DEF Before
<1> QED
  BY <1>1, <1>2, <1>3 DEF KnowsOf

LEMMA WorkSerial ==
    ASSUME AllInv, NEW n \in Attempts, Work(n)
    PROVE  SerialInv'
<1>1. ReviewOf(n) /\ plan[n].list \in RuleLists \cup {<<>>} /\ TypeOK
  BY DEF AllInv, ReviewInv, ReviewOf
<1>2. /\ DOMAIN plan[n].list = 1 .. Len(plan[n].list) /\ Len(plan[n].list) \in Nat
      /\ at[n] \in Nat \ {0}
  BY <1>1, Lists DEF ReviewOf
<1>3. CASE Prepare(n)
  <2>1. /\ Active(n) /\ KnowsOf(n) /\ Active(n)' /\ at[n] = 1 /\ at' = at
        /\ plan'[n].list \in RuleLists \ {<<>>}
        /\ \A m \in Attempts \ {n} : pc'[m] = pc[m] /\ results'[m] = results[m] /\ skip'[m] = skip[m]
        /\ UNCHANGED <<row, categoryRows, stored, results, skip>> /\ pc'[n] = "next"
    BY <1>1, <1>3 DEF Prepare, Active, Over, AllInv, SerialInv, ReviewInv, Types, TypeOK, ReviewOf
  <2>2. Before(n) = {} /\ Before(n)' = {}
    BY <2>1 DEF Before
  <2>3. KnowsOf(n)'
    BY <1>3, <2>1, <2>2 DEF KnowsOf, Prepare
  <2> QED
    BY <2>1, <2>3, OneActs, StillOnce
<1>4. CASE SkipCategory(n)
  <2>1. /\ Active(n) /\ KnowsOf(n) /\ Active(n)' /\ at'[n] = at[n] + 1
        /\ \A m \in Attempts \ {n} : pc'[m] = pc[m] /\ results'[m] = results[m] /\ skip'[m] = skip[m]
        /\ UNCHANGED <<row, categoryRows, stored, results, skip, plan, pc>> /\ pc[n] = "next"
    BY <1>1, <1>4 DEF SkipCategory, Pending, Active, Over, AllInv, SerialInv, TypeOK
  <2>2. Before(n) \subseteq Before(n)'
    BY <1>2, <2>1 DEF Before
  <2>3. KnowsOf(n)'
    BY <2>1, <2>2 DEF KnowsOf
  <2> QED
    BY <2>1, <2>3, OneActs, StillOnce
<1>5. CASE BeginCategory(n)
  <2>1. /\ Active(n) /\ KnowsOf(n) /\ Active(n)' /\ pc[n] = "next" /\ pc'[n] = "extract"
        /\ \A m \in Attempts \ {n} : pc'[m] = pc[m] /\ results'[m] = results[m] /\ skip'[m] = skip[m]
        /\ UNCHANGED <<categoryRows, stored, results, skip, plan, at>>
        /\ Current(n) \notin skip[n]
    BY <1>1, <1>5 DEF BeginCategory, Pending, Active, Over, AllInv, SerialInv, TypeOK
  <2>2. row'.attempts = row.attempts /\ row'.status = row.status /\ row'.done = row.done
    BY <1>1, <1>5 DEF BeginCategory, TypeOK, AnalysisRow
  <2>3. Current(n) \notin row.done /\ plan[n].list \in RuleLists \ {<<>>}
    BY <1>5, <2>1, NextIsNew DEF BeginCategory, KnowsOf
  <2>4. KnowsOf(n)'
    BY <2>1, <2>2, <2>3 DEF KnowsOf, Before, Current
  <2> QED
    BY <2>1, <2>2, <2>4, OneActs, StillOnce
<1>6. CASE Extract(n)
  <2>1. PICK a \in Answers : /\ results' = [results EXCEPT ![n] = Append(results[n], ResultOf(n, a))]
                            /\ categoryRows' = [categoryRows EXCEPT ![Current(n)] = a.status]
    BY <1>6 DEF Extract
  <2>2. /\ Active(n) /\ KnowsOf(n) /\ Active(n)' /\ pc[n] = "extract" /\ pc'[n] = "mark"
        /\ \A m \in Attempts \ {n} : pc'[m] = pc[m] /\ results'[m] = results[m] /\ skip'[m] = skip[m]
        /\ UNCHANGED <<row, stored, skip, plan, at>>
        /\ Current(n) \notin row.done /\ skip[n] \subseteq row.done
    BY <1>1, <1>6 DEF Extract, Active, Over, AllInv, SerialInv, TypeOK, KnowsOf, ReviewOf
  <2>3. Current(n) \in Categories
    <3>1. at[n] \in DOMAIN plan[n].list
      BY <1>1, <2>2 DEF ReviewOf
    <3> QED
      BY <1>1, <3>1, Lists DEF Current
  <2>4. /\ categoryRows'[Current(n)] = a.status
        /\ \A c \in Categories : c # Current(n) => categoryRows'[c] = categoryRows[c]
    BY <1>1, <2>1, <2>3 DEF TypeOK
  <2>5. results[n] \in Seq(CategoryResult) /\ results'[n] = Append(results[n], ResultOf(n, a))
    BY <1>1, <2>1 DEF TypeOK
  <2>6. ASSUME NEW i \in DOMAIN results'[n]
        PROVE  /\ results'[n][i].category \notin skip[n]
               /\ categoryRows'[results'[n][i].category] = results'[n][i].status
               /\ results'[n][i].category \in row.done \/ results'[n][i].category = Current(n)
    <3>1. CASE i \in DOMAIN results[n]
      <4>1. results'[n][i] = results[n][i] /\ results[n][i] \in CategoryResult
        BY <2>5, <3>1, Elements
      <4>2. results[n][i].category \in Categories /\ results[n][i].category \in row.done
        BY <2>2, <3>1, <4>1 DEF CategoryResult, KnowsOf
      <4> QED
        BY <2>2, <2>4, <3>1, <4>1, <4>2 DEF KnowsOf
    <3>2. CASE i \notin DOMAIN results[n]
      <4>1. results'[n][i] = ResultOf(n, a)
        BY <2>5, <3>2
      <4> QED
        BY <2>2, <2>4, <4>1 DEF ResultOf
    <3> QED
      BY <3>1, <3>2
  <2>7. KnowsOf(n)'
    BY <2>2, <2>6 DEF KnowsOf, Before, Current
  <2> QED
    BY <2>2, <2>7, OneActs, StillOnce
<1>7. CASE MarkComplete(n)
  <2>1. /\ Active(n) /\ KnowsOf(n) /\ Active(n)' /\ pc[n] = "mark" /\ pc'[n] = "next"
        /\ \A m \in Attempts \ {n} : pc'[m] = pc[m] /\ results'[m] = results[m] /\ skip'[m] = skip[m]
        /\ UNCHANGED <<categoryRows, stored, results, skip, plan>> /\ at'[n] = at[n] + 1
        /\ row'.attempts = row.attempts /\ row'.status = row.status
        /\ row'.done = row.done \cup {Current(n)}
    BY <1>1, <1>7 DEF MarkComplete, Active, Over, AllInv, SerialInv, TypeOK, AnalysisRow
  <2>2. Before(n)' = Before(n) \cup {Current(n)}
    BY <1>2, <2>1 DEF Before, Current
  <2>3. KnowsOf(n)'
    BY <2>1, <2>2 DEF KnowsOf
  <2> QED
    BY <2>1, <2>3, OneActs, StillOnce
<1>8. CASE BeginVerifying(n)
  <2>1. /\ Active(n) /\ KnowsOf(n) /\ Active(n)' /\ pc[n] = "next" /\ pc'[n] = "store"
        /\ \A m \in Attempts \ {n} : pc'[m] = pc[m] /\ results'[m] = results[m] /\ skip'[m] = skip[m]
        /\ UNCHANGED <<row, categoryRows, stored, results, skip, plan, at>>
    BY <1>1, <1>8 DEF BeginVerifying, Active, Over, AllInv, SerialInv, TypeOK
  <2>2. KnowsOf(n)'
    BY <2>1 DEF KnowsOf, Before
  <2> QED
    BY <2>1, <2>2, OneActs, StillOnce
<1>9. CASE StoreFinding(n)
  <2>1. PICK f \in Left(n) : stored' = stored \cup {f}
    BY <1>9 DEF StoreFinding
  <2>2. /\ f.attempt = n /\ f.result \in DOMAIN results[n]
        /\ f.category = results[n][f.result].category
    BY <1>1, ProposedFinite DEF Left
  <2>3. /\ Active(n) /\ KnowsOf(n) /\ pc[n] = "store" /\ n = row.attempts /\ n \in Nat
        /\ UNCHANGED <<row, categoryRows, results, skip, plan, at, pc>>
    BY <1>9, PipelineAssumption DEF StoreFinding, attempt, Active, Over, AllInv, SerialInv, OneActive, Attempts
  <2>4. f.category \in row.done \ skip[n]
    BY <2>2, <2>3 DEF KnowsOf
  <2>5. \A m \in Attempts : Active(m) => m = n
    BY <2>3 DEF AllInv, SerialInv, OneActive
  <2>6. \A g \in stored : g.category = f.category => g.attempt = n
    BY <2>3, <2>4 DEF AllInv, SerialInv, StoredOnce
  <2>7. NoDuplicateFindings'
    BY <2>1, <2>2, <2>6 DEF AllInv, SerialInv, StoredOnce, NoDuplicateFindings
  <2>8. StoredOnce'
    BY <2>1, <2>2, <2>3, <2>4, <2>5, <2>7 DEF AllInv, SerialInv, StoredOnce, Active
  <2>9. KnowsOf(n)' /\ Active(n)'
    BY <2>3 DEF KnowsOf, Before, Current, Active
  <2> QED
    BY <2>3, <2>8, <2>9, OneActs
<1>10. CASE Finish(n)
  <2>1. /\ row'.done = row.done /\ row'.attempts = row.attempts
        /\ stored' = stored /\ Active(n) /\ "finished" \in Over
    BY <1>1, <1>10 DEF Finish, TypeOK, AnalysisRow, Active, Over
  <2> QED
    BY <1>10, <2>1, LeaveSerial DEF Finish
<1>11. CASE NoRulesLeft(n)
  BY <1>11, ErrorSerial DEF NoRulesLeft, Active, Over
<1>12. CASE RuleIsGone(n)
  BY <1>12, ErrorSerial DEF RuleIsGone, Active, Over
<1> QED
  BY <1>3, <1>4, <1>5, <1>6, <1>7, <1>8, <1>9, <1>10, <1>11, <1>12 DEF Work

LEMMA NextSerial ==
    ASSUME ~ Overlap, AllInv, [Next]_vars
    PROVE  AllInv'
<1>1. ReviewInv' /\ TypeOK'
  BY NextKeeps, NextTyped DEF AllInv
<1>2. CASE UNCHANGED vars \/ ReplaceRules
  <2>1. UNCHANGED <<row, categoryRows, stored, pc, skip, plan, at, results>>
    BY <1>2 DEF vars, attempt, ReplaceRules
  <2>2. \A n \in Attempts : KnowsOf(n)' = KnowsOf(n) /\ Active(n)' = Active(n)
    BY <2>1 DEF KnowsOf, Before, Current, Active
  <2>3. SerialInv'
    BY <2>1, <2>2 DEF AllInv, SerialInv, OneActive, StoredOnce, NoDuplicateFindings
  <2> QED
    BY <1>1, <2>3 DEF AllInv
<1>3. ASSUME NEW n \in Attempts, Start(n)
      PROVE  SerialInv'
  BY <1>3, StartSerial
<1>4. ASSUME NEW n \in Attempts, Work(n)
      PROVE  SerialInv'
  BY <1>4, WorkSerial
<1>5. ASSUME NEW n \in Attempts, Raise(n)
      PROVE  SerialInv'
  BY <1>5, ErrorSerial DEF Raise
<1>6. ASSUME NEW n \in Attempts, Die(n)
      PROVE  SerialInv'
  BY <1>6, LeaveSerial DEF Die, Over
<1>7. ASSUME NEW n \in Attempts, RetryIsLost(n)
      PROVE  SerialInv'
  <2>1. UNCHANGED <<row, categoryRows, stored, rules, skip, plan, at, results>>
    BY <1>7 DEF RetryIsLost
  <2>2. /\ ~ Active(n) /\ ~ Active(n)'
        /\ \A m \in Attempts \ {n} : pc'[m] = pc[m]
    BY <1>7 DEF RetryIsLost, AllInv, TypeOK, Active, Over
  <2>3. \A m \in Attempts \ {n} : KnowsOf(m)' = KnowsOf(m) /\ Active(m)' = Active(m)
    BY <2>1, <2>2 DEF KnowsOf, Before, Current, Active
  <2> QED
    BY <2>1, <2>2, <2>3 DEF AllInv, SerialInv, OneActive, StoredOnce, NoDuplicateFindings
<1> QED
  BY <1>1, <1>2, <1>3, <1>4, <1>5, <1>6, <1>7 DEF Next, AllInv

LEMMA SerialBegins == Init => AllInv
<1>1. Init => ReviewInv /\ TypeOK
  BY ReviewBegins, TypesBegin
<1>2. Init => SerialInv
  BY DEF Init, SerialInv, OneActive, Active, StoredOnce, NoDuplicateFindings
<1> QED
  BY <1>1, <1>2 DEF AllInv

LEMMA SerialAlways ==
    ASSUME ~ Overlap
    PROVE  Spec => []AllInv
BY SerialBegins, NextSerial, PTL DEF Spec

\* While attempts follow one another, no category's findings are stored by two
\* of them, whatever errors, deaths and edits of the rules come between, for any
\* policy and any number of attempts.
THEOREM NothingStoredTwice ==
    ASSUME ~ Overlap
    PROVE  Spec => []NoDuplicateFindings
<1>1. AllInv => NoDuplicateFindings
  BY DEF AllInv, SerialInv, StoredOnce
<1> QED
  BY <1>1, SerialAlways, PTL

-----------------------------------------------------------------------------
(* Progress.                                                               *)

Firsts(list, d) == {list[k] : k \in 1 .. d}

(* The progress shown is never ahead of the records, and until the rules are  *)
(* edited the records are the first rules of the one plan there is.           *)
ProgressInv ==
    /\ row.progress <= Cardinality(row.done)
    /\ rules.edition = 0 =>
          /\ \E d \in 0 .. Len(rules.list) : row.done = Firsts(rules.list, d)
          /\ \A n \in Attempts : Active(n) /\ pc[n] # "prepare" => plan[n].list = rules.list

\* A policy lists as many categories as there are places in the list.
LEMMA FirstsAreMany ==
    ASSUME NEW list \in RuleLists, NEW d \in 0 .. Len(list)
    PROVE  IsFiniteSet(Firsts(list, d)) /\ Cardinality(Firsts(list, d)) = d
<1> DEFINE rule == [k \in 1 .. d |-> list[k]]
<1>1. DOMAIN list = 1 .. Len(list) /\ Len(list) \in Nat
  BY Lists
<1>2. \A j, k \in 1 .. d : list[j] = list[k] => j = k
  BY <1>1, Different
<1>3. rule \in Bijection(1 .. d, Firsts(list, d))
  BY <1>2 DEF Bijection, Injection, IsInjective, Surjection, Firsts
<1>4. IsFiniteSet(1 .. d) /\ Cardinality(1 .. d) = d
  BY <1>1, FS_Interval
<1>5. ExistsBijection(1 .. d, Firsts(list, d))
  BY <1>3 DEF ExistsBijection
<1> QED
  BY <1>4, <1>5, FS_Bijection

\* Where an attempt stands tells how many categories are recorded.
LEMMA Ranked ==
    ASSUME AllInv, ProgressInv, NEW n \in Attempts, Active(n), pc[n] # "prepare",
           at[n] \in DOMAIN plan[n].list, Current(n) \notin row.done
    PROVE  /\ at[n] - 1 \in 0 .. Cardinality(row.done)
           /\ rules.edition = 0 =>
                 /\ row.done = Firsts(rules.list, at[n] - 1) /\ Cardinality(row.done) = at[n] - 1
                 /\ plan[n].list = rules.list
<1>1. /\ plan[n].list \in RuleLists /\ IsFiniteSet(row.done)
      /\ \A i \in DOMAIN plan[n].list : i < at[n] => plan[n].list[i] \in row.done
  BY DEF AllInv, SerialInv, KnowsOf, TypeOK, ReviewInv, ReviewOf, Active, Over
<1>2. /\ DOMAIN plan[n].list = 1 .. Len(plan[n].list) /\ Len(plan[n].list) \in Nat
      /\ at[n] - 1 \in 0 .. Len(plan[n].list)
  BY <1>1, Lists
<1>3. Firsts(plan[n].list, at[n] - 1) \in SUBSET row.done
  BY <1>1, <1>2 DEF Firsts
<1>4. at[n] - 1 \in 0 .. Cardinality(row.done)
  BY <1>1, <1>2, <1>3, FirstsAreMany, FS_Subset, FS_CardinalityType
<1>5. ASSUME rules.edition = 0
      PROVE  /\ row.done = Firsts(rules.list, at[n] - 1) /\ Cardinality(row.done) = at[n] - 1
             /\ plan[n].list = rules.list
  <2>1. PICK d \in 0 .. Len(rules.list) : row.done = Firsts(rules.list, d)
    BY <1>5 DEF ProgressInv
  <2>2. plan[n].list = rules.list
    BY <1>5 DEF ProgressInv
  <2>3. d \in Nat /\ ~ (at[n] \in 1 .. d)
    BY <1>2, <2>1, <2>2 DEF Current, Firsts
  <2>4. Cardinality(row.done) = d
    BY <1>1, <2>1, <2>2, FirstsAreMany
  <2>5. at[n] - 1 = d
    BY <1>2, <1>4, <2>3, <2>4
  <2> QED
    BY <2>1, <2>2, <2>4, <2>5
<1> QED
  BY <1>4, <1>5

\* A step that neither records nor announces anything keeps the progress.
LEMMA ProgressStays ==
    ASSUME AllInv, ProgressInv, row'.progress = row.progress, row'.done = row.done, rules' = rules,
           \A m \in Attempts : Active(m)' /\ pc'[m] # "prepare" =>
              \/ Active(m) /\ pc[m] # "prepare" /\ plan'[m] = plan[m]
              \/ plan'[m] = rules
    PROVE  ProgressInv'
BY DEF ProgressInv, Firsts

LEMMA LeaveStays ==
    ASSUME AllInv, ProgressInv, NEW n \in Attempts, NEW how \in Over, Leave(n, how), rules' = rules,
           row'.progress = row.progress, row'.done = row.done
    PROVE  ProgressInv'
BY ProgressStays DEF Leave, AllInv, TypeOK, Active

LEMMA ErrorStays ==
    ASSUME AllInv, ProgressInv, NEW n \in Attempts, HandleError(n)
    PROVE  ProgressInv'
<1>1. row'.progress = row.progress /\ row'.done = row.done /\ "raised" \in Over
  BY DEF HandleError, AllInv, TypeOK, AnalysisRow, Over
<1> QED
  BY <1>1, LeaveStays DEF HandleError

LEMMA NextProgress ==
    ASSUME ~ Overlap, AllInv, ProgressInv, [Next]_vars
    PROVE  ProgressInv'
<1>1. CASE UNCHANGED vars
  BY <1>1 DEF vars, attempt, ProgressInv, Firsts, Active
<1>2. CASE ReplaceRules
  <2>1. rules'.edition # 0
    BY <1>2 DEF ReplaceRules, AllInv, TypeOK, Plan
  <2> QED
    BY <1>2, <2>1 DEF ReplaceRules, ProgressInv
<1>3. ASSUME NEW n \in Attempts, Start(n)
      PROVE  ProgressInv'
  <2>1. row'.progress = row.progress /\ row'.done = row.done /\ rules' = rules /\ plan' = plan
    BY <1>3 DEF Start, AllInv, TypeOK, AnalysisRow
  <2>2. \A m \in Attempts : pc'[m] = pc[m] \/ pc'[m] = "prepare"
    BY <1>3 DEF Start, AllInv, TypeOK
  <2> QED
    BY <2>1, <2>2, ProgressStays DEF Active
<1>4. ASSUME NEW n \in Attempts, Work(n)
      PROVE  ProgressInv'
  <2>1. ReviewOf(n) /\ plan[n].list \in RuleLists \cup {<<>>} /\ TypeOK /\ IsFiniteSet(row.done)
    BY DEF AllInv, ReviewInv, ReviewOf, TypeOK
  <2>2. CASE Prepare(n)
    <3>1. \A m \in Attempts : IF m = n THEN plan'[m] = rules
                                        ELSE pc'[m] = pc[m] /\ plan'[m] = plan[m]
      BY <2>1, <2>2 DEF Prepare, TypeOK
    <3> QED
      BY <2>2, <3>1, ProgressStays DEF Prepare, Active
  <2>3. CASE SkipCategory(n)
    BY <2>3, ProgressStays DEF SkipCategory, Active
  <2>4. CASE BeginCategory(n)
    <3>1. /\ row'.progress = at[n] - 1 /\ row'.done = row.done
          /\ UNCHANGED <<rules, plan>> /\ pc[n] = "next" /\ Active(n)
          /\ \A m \in Attempts \ {n} : pc'[m] = pc[m]
      BY <2>1, <2>4 DEF BeginCategory, Pending, Active, Over, TypeOK, AnalysisRow
    <3>2. at[n] \in DOMAIN plan[n].list /\ Current(n) \notin row.done
      BY <2>1, <2>4, NextIsNew DEF BeginCategory
    <3>3. at[n] - 1 \in 0 .. Cardinality(row.done) /\ Cardinality(row.done) \in Nat
      BY <2>1, <3>1, <3>2, Ranked, FS_CardinalityType
    <3>4. row'.progress <= Cardinality(row'.done)
      BY <3>1, <3>3
    <3> QED
      BY <3>1, <3>4 DEF ProgressInv, Firsts, Active
  <2>5. CASE Extract(n)
    <3>1. \A m \in Attempts : pc'[m] = pc[m] \/ (m = n /\ pc[m] = "extract")
      BY <2>1, <2>5 DEF Extract, TypeOK
    <3> QED
      BY <2>5, <3>1, ProgressStays DEF Extract, Active, Over
  <2>6. CASE MarkComplete(n)
    <3> DEFINE done == row.done \cup {Current(n)}
    <3>1. /\ row' = [row EXCEPT !.done = done, !.progress = Cardinality(done)]
          /\ UNCHANGED <<rules, plan>> /\ pc[n] = "mark" /\ Active(n)
          /\ \A m \in Attempts \ {n} : pc'[m] = pc[m]
      BY <2>1, <2>6 DEF MarkComplete, Active, Over, TypeOK
    <3>2. row'.done = done /\ row'.progress = Cardinality(done)
      <4> HIDE DEF done
      <4> QED
        BY <2>1, <3>1 DEF TypeOK, AnalysisRow
    <3>3. Cardinality(done) \in Nat
      BY <2>1, FS_AddElement, FS_CardinalityType
    <3>4. at[n] \in DOMAIN plan[n].list /\ Current(n) \notin row.done
      BY <2>1, <3>1 DEF ReviewOf, AllInv, SerialInv, KnowsOf
    <3>5. ASSUME rules.edition = 0
          PROVE  at[n] \in 0 .. Len(rules.list) /\ done = Firsts(rules.list, at[n])
      <4>1. row.done = Firsts(rules.list, at[n] - 1) /\ plan[n].list = rules.list
        BY <3>1, <3>4, <3>5, Ranked
      <4>2. at[n] \in 1 .. Len(rules.list) /\ Len(rules.list) \in Nat
        BY <2>1, <3>4, <4>1, Lists
      <4> QED
        BY <4>1, <4>2 DEF Firsts, Current
    <3>6. row'.progress <= Cardinality(row'.done)
      BY <3>2, <3>3
    <3>7. rules'.edition = 0 => \E d \in 0 .. Len(rules'.list) : row'.done = Firsts(rules'.list, d)
      BY <3>1, <3>2, <3>5
    <3>8. ASSUME NEW m \in Attempts, rules'.edition = 0, Active(m)', pc'[m] # "prepare"
          PROVE  plan'[m].list = rules'.list
      BY <3>1, <3>8 DEF ProgressInv, Active
    <3> QED
      BY <3>6, <3>7, <3>8 DEF ProgressInv, Firsts
  <2>7. CASE BeginVerifying(n)
    <3>1. \A m \in Attempts : pc'[m] = pc[m] \/ (m = n /\ pc[m] = "next")
      BY <2>1, <2>7 DEF BeginVerifying, TypeOK
    <3> QED
      BY <2>7, <3>1, ProgressStays DEF BeginVerifying, Active, Over
  <2>8. CASE StoreFinding(n)
    BY <2>8, ProgressStays DEF StoreFinding, attempt, Active
  <2>9. CASE Finish(n)
    <3>1. row'.progress = row.progress /\ row'.done = row.done /\ "finished" \in Over
      BY <2>1, <2>9 DEF Finish, TypeOK, AnalysisRow, Over
    <3> QED
      BY <2>9, <3>1, LeaveStays DEF Finish
  <2>10. CASE NoRulesLeft(n) \/ RuleIsGone(n)
    BY <2>10, ErrorStays DEF NoRulesLeft, RuleIsGone
  <2> QED
    BY <1>4, <2>2, <2>3, <2>4, <2>5, <2>6, <2>7, <2>8, <2>9, <2>10 DEF Work
<1>5. ASSUME NEW n \in Attempts, Raise(n)
      PROVE  ProgressInv'
  BY <1>5, ErrorStays DEF Raise
<1>6. ASSUME NEW n \in Attempts, Die(n)
      PROVE  ProgressInv'
  BY <1>6, LeaveStays DEF Die, Over
<1>7. ASSUME NEW n \in Attempts, RetryIsLost(n)
      PROVE  ProgressInv'
  <2>1. \A m \in Attempts : Active(m)' => Active(m) /\ pc'[m] = pc[m]
    BY <1>7 DEF RetryIsLost, AllInv, TypeOK, Active, Over
  <2> QED
    BY <1>7, <2>1, ProgressStays DEF RetryIsLost
<1> QED
  BY <1>1, <1>2, <1>3, <1>4, <1>5, <1>6, <1>7 DEF Next

-----------------------------------------------------------------------------
(* Refinement.                                                             *)

\* Only what the row and the categories show is seen.
LEMMA Unseen ==
    ASSUME row'.status = row.status, row'.done = row.done, row'.progress = row.progress,
           UNCHANGED <<categoryRows, rules>>
    PROVE  [Promise!Next]_Promise!vars
BY DEF Promise!vars

LEMMA ErrorReviews ==
    ASSUME AllInv, NEW n \in Attempts, Active(n), HandleError(n), rules' = rules
    PROVE  [Promise!Next]_Promise!vars
<1>1. row.status = "running" /\ UNCHANGED categoryRows
  BY DEF AllInv, SerialInv, OneActive, HandleError
<1>2. CASE row' = row
  BY <1>1, <1>2, Unseen
<1>3. CASE row' = [row EXCEPT !.status = "failed"]
  <2>1. row'.status = "failed" /\ row'.done = row.done /\ row'.progress = row.progress
    BY <1>3 DEF AllInv, TypeOK, AnalysisRow
  <2>2. Promise!Fail
    BY <1>1, <2>1 DEF Promise!Fail
  <2> QED
    BY <2>2 DEF Promise!Next
<1> QED
  BY <1>2, <1>3 DEF HandleError

LEMMA WorkReviews ==
    ASSUME AllInv, ProgressInv, NEW n \in Attempts, Work(n)
    PROVE  [Promise!Next]_Promise!vars
<1>1. ReviewOf(n) /\ TypeOK /\ Promise!Categories = Categories
  BY DEF AllInv, ReviewInv, Promise!Categories, Categories
<1>2. CASE Prepare(n) \/ SkipCategory(n) \/ BeginVerifying(n) \/ StoreFinding(n)
  BY <1>2, Unseen DEF Prepare, SkipCategory, BeginVerifying, StoreFinding
<1>3. CASE BeginCategory(n)
  <2>1. /\ row'.progress = at[n] - 1 /\ row'.done = row.done /\ row'.status = row.status
        /\ UNCHANGED <<rules, categoryRows>> /\ pc[n] = "next" /\ Active(n)
    BY <1>1, <1>3 DEF BeginCategory, Pending, Active, Over, TypeOK, AnalysisRow
  <2>2. at[n] \in DOMAIN plan[n].list /\ Current(n) \notin row.done
    BY <1>3, NextIsNew DEF BeginCategory
  <2>3. /\ at[n] - 1 \in 0 .. Cardinality(row.done)
        /\ rules.edition = 0 => Cardinality(row.done) = at[n] - 1
    BY <2>1, <2>2, Ranked
  <2>4. rules.edition \in Nat /\ row.progress <= Cardinality(row.done)
    BY <1>1 DEF TypeOK, Plan, ProgressInv
  <2>5. row'.progress >= row.progress \/ rules.edition > 0
    BY <2>1, <2>3, <2>4
  <2>6. row.status = "running"
    BY <2>1 DEF AllInv, SerialInv, OneActive
  <2>7. Promise!Announce
    BY <2>1, <2>3, <2>5, <2>6 DEF Promise!Announce, Promise!Cardinality, Cardinality
  <2> QED
    BY <2>7 DEF Promise!Next
<1>4. CASE Extract(n)
  <2>1. PICK a \in Answers : categoryRows' = [categoryRows EXCEPT ![Current(n)] = a.status]
    BY <1>4 DEF Extract
  <2>2. UNCHANGED <<row, rules>> /\ pc[n] = "extract" /\ Active(n) /\ a.status \in Statuses
    BY <1>4 DEF Extract, Active, Over, Answers
  <2>3. Current(n) \in Categories /\ Current(n) \notin row.done /\ row.status = "running"
    <3>1. at[n] \in DOMAIN plan[n].list
      BY <1>1, <2>2 DEF ReviewOf
    <3> QED
      BY <1>1, <2>2, <3>1, Lists DEF Current, ReviewOf, AllInv, SerialInv, OneActive, KnowsOf
  <2>4. Promise!Review(Current(n))
    BY <2>1, <2>2, <2>3 DEF Promise!Review
  <2> QED
    BY <1>1, <2>3, <2>4 DEF Promise!Next
<1>5. CASE MarkComplete(n)
  <2> DEFINE done == row.done \cup {Current(n)}
  <2>1. /\ row' = [row EXCEPT !.done = done, !.progress = Cardinality(done)]
        /\ UNCHANGED <<rules, categoryRows>> /\ pc[n] = "mark" /\ Active(n)
    BY <1>5 DEF MarkComplete, Active, Over
  <2>2. row'.done = done /\ row'.progress = Cardinality(done) /\ row'.status = row.status
    <3> HIDE DEF done
    <3> QED
      BY <1>1, <2>1 DEF TypeOK, AnalysisRow
  <2>3. /\ Current(n) \in Categories /\ Current(n) \notin row.done /\ row.status = "running"
        /\ categoryRows[Current(n)] # "none"
    <3>1. at[n] \in DOMAIN plan[n].list
      BY <1>1, <2>1 DEF ReviewOf
    <3> QED
      BY <1>1, <2>1, <3>1, Lists DEF Current, ReviewOf, AllInv, SerialInv, OneActive, KnowsOf
  <2>4. Promise!Record(Current(n))
    BY <2>1, <2>2, <2>3 DEF Promise!Record, Promise!Cardinality, Cardinality
  <2> QED
    BY <1>1, <2>3, <2>4 DEF Promise!Next
<1>6. CASE Finish(n)
  <2>1. /\ pc[n] = "store" /\ Active(n) /\ row.status = "running"
        /\ row'.done = row.done /\ row'.progress = row.progress /\ UNCHANGED <<rules, categoryRows>>
        /\ row'.status = IF \E i \in DOMAIN results[n] : results[n][i].status = "needs_review"
                            THEN "partial" ELSE "complete"
    BY <1>1, <1>6 DEF Finish, Active, Over, TypeOK, AnalysisRow, AllInv, SerialInv, OneActive
  <2>2. KnowsOf(n) /\ plan[n].list \in RuleLists \ {<<>>}
    BY <2>1 DEF AllInv, SerialInv, KnowsOf
  <2>3. /\ DOMAIN plan[n].list = 1 .. Len(plan[n].list) /\ Len(plan[n].list) \in Nat
        /\ Range(plan[n].list) = {plan[n].list[i] : i \in DOMAIN plan[n].list}
        /\ plan[n].list \in Seq(Range(plan[n].list))
    BY <2>2, Lists
  <2>4. Range(plan[n].list) \subseteq row.done
    BY <1>1, <2>1, <2>3 DEF ReviewOf
  <2>5. Range(plan[n].list) # {}
    <3>1. Len(plan[n].list) # 0
      BY <2>2, <2>3
    <3>2. 1 \in DOMAIN plan[n].list
      BY <2>3, <3>1
    <3> QED
      BY <2>3, <3>2
  <2>6. ASSUME row'.status = "partial"
        PROVE  \E c \in row.done : categoryRows[c] = "needs_review"
    <3>1. PICK i \in DOMAIN results[n] : results[n][i].status = "needs_review"
      BY <2>1, <2>6
    <3> QED
      BY <2>1, <2>2, <3>1 DEF KnowsOf
  <2>7. Promise!Conclude
    BY <2>1, <2>2, <2>4, <2>5, <2>6 DEF Promise!Conclude
  <2> QED
    BY <2>7 DEF Promise!Next
<1>7. CASE NoRulesLeft(n) \/ RuleIsGone(n)
  BY <1>7, ErrorReviews DEF NoRulesLeft, RuleIsGone, HandleError, Active, Over
<1> QED
  BY <1>2, <1>3, <1>4, <1>5, <1>6, <1>7 DEF Work

LEMMA StepReviews ==
    ASSUME ~ Overlap, AllInv, ProgressInv, [Next]_vars
    PROVE  [Promise!Next]_Promise!vars
<1>1. CASE UNCHANGED vars
  BY <1>1, Unseen DEF vars
<1>2. CASE ReplaceRules
  <2>1. rules'.edition > 0 /\ UNCHANGED <<row, categoryRows>>
    BY <1>2 DEF ReplaceRules, AllInv, TypeOK, Plan
  <2>2. Promise!Edit
    BY <2>1 DEF Promise!Edit
  <2> QED
    BY <2>2 DEF Promise!Next
<1>3. ASSUME NEW n \in Attempts, Start(n)
      PROVE  [Promise!Next]_Promise!vars
  <2>1. /\ row'.status = "running" /\ row'.done = row.done /\ row'.progress = row.progress
        /\ UNCHANGED <<rules, categoryRows>> /\ row.status \in {"queued", "running"}
    BY <1>3 DEF Start, AllInv, TypeOK, AnalysisRow
  <2>2. CASE row.status = "queued"
    BY <2>1, <2>2 DEF Promise!Next, Promise!Begin
  <2>3. CASE row.status = "running"
    BY <2>1, <2>3, Unseen
  <2> QED
    BY <2>1, <2>2, <2>3
<1>4. ASSUME NEW n \in Attempts, Work(n)
      PROVE  [Promise!Next]_Promise!vars
  BY <1>4, WorkReviews
<1>5. ASSUME NEW n \in Attempts, Raise(n)
      PROVE  [Promise!Next]_Promise!vars
  BY <1>5, ErrorReviews DEF Raise, HandleError
<1>6. ASSUME NEW n \in Attempts, Die(n)
      PROVE  [Promise!Next]_Promise!vars
  BY <1>6, Unseen DEF Die
<1>7. ASSUME NEW n \in Attempts, RetryIsLost(n)
      PROVE  [Promise!Next]_Promise!vars
  BY <1>7, Unseen DEF RetryIsLost
<1> QED
  BY <1>1, <1>2, <1>3, <1>4, <1>5, <1>6, <1>7 DEF Next

LEMMA BeginsReview == Init => Promise!Init /\ ProgressInv
<1> SUFFICES ASSUME Init PROVE Promise!Init /\ ProgressInv
  OBVIOUS
<1>1. /\ row.status = "queued" /\ row.done = {} /\ row.progress = 0
      /\ categoryRows = [c \in Categories |-> "none"] /\ rules.edition = 0 /\ rules.list \in RuleLists
      /\ \A n \in Attempts : ~ Active(n)
  BY DEF Init, Active
<1>2. Promise!Init
  BY <1>1 DEF Promise!Init, Promise!Categories, Categories
<1>3. 0 \in 0 .. Len(rules.list) /\ row.done = Firsts(rules.list, 0)
  BY <1>1, Lists DEF Firsts
<1>4. Cardinality(row.done) = 0
  BY <1>1, FS_EmptySet
<1> QED
  BY <1>1, <1>2, <1>3, <1>4 DEF ProgressInv

\* While attempts follow one another, they implement the review that the row
\* and its categories promise: no recorded category is reviewed again, progress
\* goes back only after the rules were edited, and the conclusion follows from
\* the records, for any policy and any errors, deaths and edits.
THEOREM ReviewImplemented ==
    ASSUME ~ Overlap
    PROVE  Spec => ImplementsReview
<1>1. AllInv /\ ProgressInv /\ [Next]_vars => ProgressInv' /\ [Promise!Next]_Promise!vars
  BY NextProgress, StepReviews
<1> QED
  BY <1>1, BeginsReview, SerialAlways, PTL DEF Spec, ImplementsReview, Promise!Spec
=============================================================================
