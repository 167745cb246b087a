--------------------------- MODULE RequestsProofs ---------------------------
(***************************************************************************)
(* What the state that requests meet in guarantees, proved for any         *)
(* policies, documents, questions, windows, keys, findings and items.      *)
(***************************************************************************)
EXTENDS MCRequests, Sequences, EnumerationProofs, FiniteSetTheorems, TLAPS

-----------------------------------------------------------------------------
(* Policies behave as their module says, whatever else happens.            *)

LibraryProofs == INSTANCE PoliciesProofs WITH pc <- pcPolicies

\* The module is the same here and where its proofs are.
LEMMA SameLibrary ==
    /\ Library!PoliciesAssumption => LibraryProofs!PoliciesAssumption
    /\ Library!vars = LibraryProofs!vars
    /\ Library!Init = LibraryProofs!Init
    /\ Library!Next = LibraryProofs!Next
<1> USE DEF
       Library!IsFiniteSet, LibraryProofs!IsFiniteSet, Library!Policy, Library!Rule,
       Library!PoliciesAssumption, Library!vars,
       Library!txnVars, Library!Existing, Library!Init, Library!Begin, Library!End,
       Library!Free, Library!Taken, Library!AnotherDefault, Library!CreatePolicy,
       Library!ReadPolicy, Library!Versions, Library!ReadHighest, Library!StoreVersion,
       Library!UpdatePolicy, Library!Others, Library!ClearDefaults, Library!SetDefault,
       Library!BeginReplace, Library!DeleteRules, Library!StoreRules, Library!Aborted,
       Library!Next,
       LibraryProofs!Policy, LibraryProofs!Rule, LibraryProofs!PoliciesAssumption,
       LibraryProofs!vars, LibraryProofs!txnVars, LibraryProofs!Existing,
       LibraryProofs!Init, LibraryProofs!Begin, LibraryProofs!End, LibraryProofs!Free,
       LibraryProofs!Taken, LibraryProofs!AnotherDefault, LibraryProofs!CreatePolicy,
       LibraryProofs!ReadPolicy, LibraryProofs!Versions, LibraryProofs!ReadHighest,
       LibraryProofs!StoreVersion, LibraryProofs!UpdatePolicy, LibraryProofs!Others,
       LibraryProofs!ClearDefaults, LibraryProofs!SetDefault,
       LibraryProofs!BeginReplace, LibraryProofs!DeleteRules, LibraryProofs!StoreRules,
       LibraryProofs!Aborted, LibraryProofs!Next
<1>1. Library!PoliciesAssumption => LibraryProofs!PoliciesAssumption  OBVIOUS
<1>2. Library!vars = LibraryProofs!vars  BY Zenon
<1>3. Library!Init = LibraryProofs!Init  BY Zenon
<1>4. Library!Next = LibraryProofs!Next  BY Zenon
<1> QED  BY ONLY <1>1, <1>2, <1>3, <1>4

\* Whatever the others do, the library takes its own steps or none.
LEMMA LibraryRuns == Spec => LibraryProofs!Spec
<1>1. Init => LibraryProofs!Init
  BY SameLibrary DEF Init
<1>2. [Next]_vars => [LibraryProofs!Next]_LibraryProofs!vars
  <2>1. ASSUME [Next]_vars
        PROVE  Library!Next \/ UNCHANGED policyVars
    BY <2>1 DEF Next, OfReviews, OfItems, OfPolicies, OfDocuments, OfChat, OfWindow, OfKeys,
                vars, recordVars
  <2>2. UNCHANGED policyVars => UNCHANGED LibraryProofs!vars
    BY DEF policyVars, LibraryProofs!vars
  <2> QED
    BY <2>1, <2>2, SameLibrary
<1> QED
  BY <1>1, <1>2, PTL DEF Spec, LibraryProofs!Spec

\* Whatever requests overlap, versions and the default are unique, and a policy
\* has its rules from one request unless two replacements of them met.
THEOREM LibraryStaysConsistent == Spec => []LibraryIsConsistent
<1>1. LibraryProofs!PoliciesAssumption
  BY ConstantsAreSensible, SameLibrary
<1>2. LibraryProofs!LibraryIsConsistent => LibraryIsConsistent
  BY DEF LibraryIsConsistent,
       Library!LibraryIsConsistent, Library!VersionsAndDefaultAreUnique, Library!Existing,
       Library!LoneReplacementsAreWhole,
       LibraryProofs!LibraryIsConsistent, LibraryProofs!VersionsAndDefaultAreUnique,
       LibraryProofs!Existing, LibraryProofs!LoneReplacementsAreWhole
<1>3. LibraryProofs!Spec => []LibraryProofs!LibraryIsConsistent
  BY <1>1, LibraryProofs!LibraryStaysConsistent
<1> QED
  BY <1>2, <1>3, LibraryRuns, PTL

\* The default policy is lost only to the two requests that take it away.
THEOREM DefaultStays == Spec => DefaultIsKept
<1>1. LibraryProofs!PoliciesAssumption
  BY ConstantsAreSensible, SameLibrary
<1>2. LibraryProofs!Spec => LibraryProofs!DefaultIsKept
  BY <1>1, LibraryProofs!DefaultIsOnlyTakenAway
<1>3. LibraryProofs!DefaultIsKept => DefaultIsKept
  BY PTL DEF DefaultIsKept, Library!DefaultIsKept, Library!HasDefault, Library!Existing,
       Library!vars, LibraryProofs!DefaultIsKept, LibraryProofs!HasDefault,
       LibraryProofs!Existing, LibraryProofs!vars
<1> QED
  BY <1>2, <1>3, LibraryRuns, PTL

-----------------------------------------------------------------------------
(* Documents: what an attempt that has prepared one may rely on, for any    *)
(* text, any attempts and whoever stops where.                              *)

\* Where an attempt has listed the chunks it works with.
Listed == {"missing", "embed", "index", "extract"}

DocumentTypes ==
    /\ document \in Uploads!Document
    /\ stored \subseteq Chunks
    /\ indexed \subseteq stored
    /\ creating \in {"create", "archive", "chunk", "ready", "seed", "end"}

\* A document that the script does not make is stored as a whole or not at all,
\* and is ready only as a whole.
StoredAsAWhole ==
    /\ creating = "create" => document.status = "absent" /\ ~ document.seeded
    /\ creating \in {"archive", "chunk", "ready"} => ~ document.seeded
    /\ creating = "ready" => stored = Chunks
    /\ creating = "seed" => document.seeded
    /\ ~ document.seeded => stored \in {{}, Chunks}
    /\ ~ document.seeded /\ document.status = "ready" => stored = Chunks

(* What attempt a knows: what it has listed is stored; what of it has no      *)
(* embedding is pending until it extracts; before it lists again what it has  *)
(* cut, the text is stored.                                                   *)
KnowsOf(a) ==
    /\ pcAttempt[a] \in Uploads!AttemptPcs
    /\ listed[a] \subseteq stored
    /\ pending[a] \subseteq stored
    /\ pcAttempt[a] # "none" /\ ~ document.seeded => stored = Chunks
    /\ pcAttempt[a] = "relist" => stored = Chunks
    /\ pcAttempt[a] \in Listed /\ ~ document.seeded => listed[a] = Chunks
    /\ pcAttempt[a] \in {"embed", "index"} => listed[a] \subseteq indexed \cup pending[a]
    /\ pcAttempt[a] = "extract" => listed[a] \subseteq indexed

AttemptTypes ==
    /\ pcAttempt = [a \in Attempts |-> pcAttempt[a]]
    /\ listed = [a \in Attempts |-> listed[a]]
    /\ pending = [a \in Attempts |-> pending[a]]

PreparedInv ==
    /\ DocumentTypes
    /\ AttemptTypes
    /\ StoredAsAWhole
    /\ \A a \in Attempts : KnowsOf(a)

\* What a step of somebody else leaves true of attempt b.
LEMMA OthersKnow ==
    ASSUME NEW b \in Attempts, KnowsOf(b),
           stored \subseteq stored', stored' \subseteq Chunks, indexed \subseteq indexed',
           document'.seeded \/ ~ document.seeded,
           pcAttempt'[b] = pcAttempt[b], listed'[b] = listed[b], pending'[b] = pending[b]
    PROVE  KnowsOf(b)'
<1>1. ~ document'.seeded => ~ document.seeded
  OBVIOUS
<1>2. stored = Chunks => stored' = Chunks
  OBVIOUS
<1> QED
  BY <1>1, <1>2 DEF KnowsOf

\* Whoever makes or deletes the document keeps the invariant.
LEMMA MakingKeeps ==
    ASSUME PreparedInv, Uploads!Create \/ Uploads!DeleteDocument
    PROVE  PreparedInv'
<1> USE DEF PreparedInv, DocumentTypes, StoredAsAWhole, Uploads!Document
<1>1. UNCHANGED <<indexed, pcAttempt, listed, pending>>
  BY DEF Uploads!Create, Uploads!CreateDocument, Uploads!Archive, Uploads!PersistChunks,
     Uploads!MarkReady, Uploads!SeedDocument, Uploads!SeedChunk, Uploads!CreatingStops,
     Uploads!DeleteDocument, Uploads!attemptVars
<1>2. /\ DocumentTypes' /\ StoredAsAWhole'
      /\ stored \subseteq stored'
      /\ document'.seeded \/ ~ document.seeded
  <2>1. CASE Uploads!CreateDocument   BY <1>1, <2>1 DEF Uploads!CreateDocument
  <2>2. CASE Uploads!Archive          BY <1>1, <2>2 DEF Uploads!Archive
  <2>3. CASE Uploads!PersistChunks    BY <1>1, <2>3 DEF Uploads!PersistChunks
  <2>4. CASE Uploads!MarkReady        BY <1>1, <2>4 DEF Uploads!MarkReady
  <2>5. CASE Uploads!SeedDocument     BY <1>1, <2>5 DEF Uploads!SeedDocument
  <2>6. CASE Uploads!SeedChunk        BY <1>1, <2>6 DEF Uploads!SeedChunk
  <2>7. CASE Uploads!CreatingStops    BY <1>1, <2>7 DEF Uploads!CreatingStops
  <2>8. CASE Uploads!DeleteDocument   BY <1>1, <2>8 DEF Uploads!DeleteDocument
  <2> QED
    BY <2>1, <2>2, <2>3, <2>4, <2>5, <2>6, <2>7, <2>8 DEF Uploads!Create
<1>3. \A a \in Attempts : KnowsOf(a)'
  BY <1>1, <1>2, OthersKnow
<1> QED
  BY <1>1, <1>2, <1>3 DEF AttemptTypes

\* A step of attempt a keeps the invariant if a knows what it is to know where
\* it goes, and what is stored and indexed only grows.
LEMMA AttemptKeeps ==
    ASSUME PreparedInv, NEW a \in Attempts, NEW place, Uploads!Goto(a, place), AttemptTypes',
           stored \subseteq stored', stored' \in {stored, Chunks},
           indexed \subseteq indexed', indexed' \subseteq stored',
           \A b \in Attempts \ {a} : listed'[b] = listed[b] /\ pending'[b] = pending[b],
           KnowsOf(a)'
    PROVE  PreparedInv'
<1>1. UNCHANGED <<document, creating>>
  BY DEF Uploads!Goto
<1>2. \A b \in Attempts \ {a} : pcAttempt'[b] = pcAttempt[b]
  BY DEF Uploads!Goto, PreparedInv, AttemptTypes
<1>3. stored' \subseteq Chunks
  BY DEF PreparedInv, DocumentTypes
<1>4. DocumentTypes' /\ StoredAsAWhole'
  BY <1>1, <1>3 DEF PreparedInv, DocumentTypes, StoredAsAWhole
<1>5. \A b \in Attempts : KnowsOf(b)'
  <2>1. ASSUME NEW b \in Attempts \ {a}
        PROVE  KnowsOf(b)'
    <3>1. document'.seeded \/ ~ document.seeded
      BY <1>1 DEF PreparedInv, DocumentTypes, Uploads!Document
    <3> QED
      BY <1>2, <1>3, <3>1, OthersKnow DEF PreparedInv
  <2> QED
    BY <2>1
<1> QED
  BY <1>4, <1>5 DEF PreparedInv

\* Every step of an attempt keeps the invariant.
LEMMA AnalyseKeeps ==
    ASSUME PreparedInv, NEW a \in Attempts, Uploads!Analyse(a)
    PROVE  PreparedInv'
<1> USE DEF Uploads!AttemptPcs, Listed
<1>1. /\ KnowsOf(a) /\ AttemptTypes
      /\ stored \subseteq Chunks /\ indexed \subseteq stored
  BY DEF PreparedInv, DocumentTypes
<1>2. ASSUME NEW place, Uploads!Goto(a, place)
      PROVE  /\ pcAttempt'[a] = place
             /\ document' = document
             /\ pcAttempt' = [b \in Attempts |-> pcAttempt'[b]]
  BY <1>1, <1>2 DEF Uploads!Goto, AttemptTypes
<1>3. CASE Uploads!RequestAccepted(a)
  <2>1. ~ document.seeded => stored = Chunks
    BY <1>3 DEF Uploads!RequestAccepted, PreparedInv, StoredAsAWhole
  <2>2. KnowsOf(a)' /\ AttemptTypes'
    BY <1>1, <1>2, <1>3, <2>1 DEF Uploads!RequestAccepted, KnowsOf, AttemptTypes
  <2> QED
    BY <1>1, <1>3, <2>2, AttemptKeeps DEF Uploads!RequestAccepted
<1>4. CASE Uploads!AttemptBegins(a)
  <2>1. KnowsOf(a)' /\ AttemptTypes'
    BY <1>1, <1>2, <1>4 DEF Uploads!AttemptBegins, KnowsOf, AttemptTypes
  <2> QED
    BY <1>1, <1>4, <2>1, AttemptKeeps DEF Uploads!AttemptBegins
<1>5. CASE Uploads!ReadDocument(a)
  <2> DEFINE place == IF Uploads!Visible THEN "list" ELSE "failed"
  <2>1. Uploads!Goto(a, place) /\ place \in {"list", "failed"} /\ pcAttempt[a] = "read"
        /\ UNCHANGED <<stored, indexed, listed, pending>>
    BY <1>5 DEF Uploads!ReadDocument
  <2> HIDE DEF place
  <2>2. KnowsOf(a)' /\ AttemptTypes'
    BY <1>1, <1>2, <2>1 DEF KnowsOf, AttemptTypes
  <2> QED
    BY <1>1, <2>1, <2>2, AttemptKeeps
<1>6. CASE Uploads!ListChunks(a)
  <2> DEFINE place == IF stored = {} /\ pcAttempt[a] = "list" THEN "cut" ELSE "missing"
  <2>1. /\ Uploads!Goto(a, place) /\ place \in {"cut", "missing"}
        /\ pcAttempt[a] \in {"list", "relist"}
        /\ UNCHANGED <<stored, indexed, pending>>
        /\ listed' = [listed EXCEPT ![a] = stored]
    BY <1>6 DEF Uploads!ListChunks
  <2> HIDE DEF place
  <2>2. /\ listed'[a] = stored
        /\ \A b \in Attempts \ {a} : listed'[b] = listed[b]
        /\ listed' = [b \in Attempts |-> listed'[b]]
    BY <1>1, <2>1 DEF AttemptTypes
  <2>3. KnowsOf(a)'
    BY <1>1, <1>2, <2>1, <2>2 DEF KnowsOf
  <2>4. AttemptTypes'
    BY <1>1, <1>2, <2>1, <2>2 DEF AttemptTypes
  <2> QED
    BY <1>1, <2>1, <2>2, <2>3, <2>4, AttemptKeeps
<1>7. CASE Uploads!CutDocument(a)
  <2>1. KnowsOf(a)' /\ AttemptTypes'
    BY <1>1, <1>2, <1>7 DEF Uploads!CutDocument, KnowsOf, AttemptTypes
  <2> QED
    BY <1>1, <1>7, <2>1, AttemptKeeps DEF Uploads!CutDocument
<1>8. CASE Uploads!MissingEmbeddings(a)
  <2> DEFINE place == IF stored \subseteq indexed THEN "extract" ELSE "embed"
  <2>1. /\ Uploads!Goto(a, place) /\ place \in {"extract", "embed"} /\ pcAttempt[a] = "missing"
        /\ place = "extract" => stored \subseteq indexed
        /\ UNCHANGED <<stored, indexed, listed>>
        /\ pending' = [pending EXCEPT ![a] = stored \ indexed]
    BY <1>8 DEF Uploads!MissingEmbeddings
  <2> HIDE DEF place
  <2>2. /\ pending'[a] = stored \ indexed
        /\ \A b \in Attempts \ {a} : pending'[b] = pending[b]
        /\ pending' = [b \in Attempts |-> pending'[b]]
    BY <1>1, <2>1 DEF AttemptTypes
  <2>3. KnowsOf(a)'
    BY <1>1, <1>2, <2>1, <2>2 DEF KnowsOf
  <2>4. AttemptTypes'
    BY <1>1, <1>2, <2>1, <2>2 DEF AttemptTypes
  <2> QED
    BY <1>1, <2>1, <2>2, <2>3, <2>4, AttemptKeeps
<1>9. CASE Uploads!Embed(a)
  <2>1. KnowsOf(a)' /\ AttemptTypes'
    BY <1>1, <1>2, <1>9 DEF Uploads!Embed, KnowsOf, AttemptTypes
  <2> QED
    BY <1>1, <1>9, <2>1, AttemptKeeps DEF Uploads!Embed
<1>10. CASE Uploads!SetEmbedding(a)
  <2> DEFINE place == IF pending'[a] = {} THEN "extract" ELSE "index"
  <2>1. PICK c \in pending[a] : /\ indexed' = indexed \cup {c}
                                /\ pending' = [pending EXCEPT ![a] = @ \ {c}]
    BY <1>10 DEF Uploads!SetEmbedding
  <2>2. /\ Uploads!Goto(a, place) /\ place \in {"extract", "index"} /\ pcAttempt[a] = "index"
        /\ place = "extract" => pending'[a] = {}
        /\ UNCHANGED <<stored, listed>>
    BY <1>10 DEF Uploads!SetEmbedding
  <2> HIDE DEF place
  <2>3. /\ pending'[a] = pending[a] \ {c}
        /\ \A b \in Attempts \ {a} : pending'[b] = pending[b]
        /\ pending' = [b \in Attempts |-> pending'[b]]
    BY <1>1, <2>1 DEF AttemptTypes
  <2>4. c \in stored /\ listed[a] \subseteq indexed' \cup pending'[a]
    BY <1>1, <2>1, <2>2, <2>3 DEF KnowsOf
  <2>5. KnowsOf(a)'
    BY <1>1, <1>2, <2>2, <2>3, <2>4 DEF KnowsOf
  <2>6. AttemptTypes'
    BY <1>1, <1>2, <2>2, <2>3 DEF AttemptTypes
  <2> QED
    BY <1>1, <2>1, <2>2, <2>3, <2>4, <2>5, <2>6, AttemptKeeps
<1>11. CASE Uploads!AttemptFails(a)
  <2>1. KnowsOf(a)' /\ AttemptTypes'
    BY <1>1, <1>2, <1>11 DEF Uploads!AttemptFails, KnowsOf, AttemptTypes
  <2> QED
    BY <1>1, <1>11, <2>1, AttemptKeeps DEF Uploads!AttemptFails
<1>12. CASE Uploads!AttemptAgain(a)
  <2>1. /\ listed'[a] = {} /\ pending'[a] = {}
        /\ \A b \in Attempts \ {a} : listed'[b] = listed[b] /\ pending'[b] = pending[b]
        /\ listed' = [b \in Attempts |-> listed'[b]]
        /\ pending' = [b \in Attempts |-> pending'[b]]
    BY <1>1, <1>12 DEF Uploads!AttemptAgain, AttemptTypes
  <2>2. KnowsOf(a)'
    BY <1>1, <1>2, <1>12, <2>1 DEF Uploads!AttemptAgain, KnowsOf
  <2>3. AttemptTypes'
    BY <1>1, <1>2, <1>12, <2>1 DEF Uploads!AttemptAgain, AttemptTypes
  <2> QED
    BY <1>1, <1>12, <2>1, <2>2, <2>3, AttemptKeeps DEF Uploads!AttemptAgain
<1> QED
  BY <1>3, <1>4, <1>5, <1>6, <1>7, <1>8, <1>9, <1>10, <1>11, <1>12 DEF Uploads!Analyse

\* The invariant holds in every reachable state, also while questions are asked.
LEMMA AlwaysPrepared == Spec => []PreparedInv
<1>1. Init => PreparedInv
  BY DEF Init, Uploads!Init, PreparedInv, DocumentTypes, AttemptTypes, StoredAsAWhole, KnowsOf,
     Uploads!Document, Uploads!AttemptPcs, Listed
<1>2. PreparedInv /\ [Next]_vars => PreparedInv'
  <2>1. ASSUME [Next]_vars
        PROVE  \/ Uploads!Next
               \/ Uploads!Create \/ Uploads!DeleteDocument
               \/ UNCHANGED documentVars
    BY <2>1 DEF Next, OfReviews, OfItems, OfPolicies, OfDocuments, OfChat, OfWindow, OfKeys, vars
  <2>2. ASSUME PreparedInv, UNCHANGED documentVars
        PROVE  PreparedInv'
    BY <2>2 DEF documentVars, PreparedInv, DocumentTypes, AttemptTypes, StoredAsAWhole, KnowsOf
  <2> QED
    BY <2>1, <2>2, MakingKeeps, AnalyseKeeps DEF Uploads!Next
<1> QED
  BY <1>1, <1>2, PTL DEF Spec

\* An attempt extracts from the whole text of a document that the script does not
\* make, and from nothing without an embedding.
LEMMA AttemptsArePrepared == Spec => []Uploads!AttemptsArePrepared
<1>1. PreparedInv => Uploads!AttemptsArePrepared
  BY DEF PreparedInv, KnowsOf, Listed, Uploads!AttemptsArePrepared, Uploads!WholeTextIsReviewed,
     Uploads!ListedIsIndexed
<1> QED
  BY <1>1, AlwaysPrepared, PTL

-----------------------------------------------------------------------------
(* Questions about a document.  What is stored only grows while one is      *)
(* asked, and the analysis that it has chosen has finished.                 *)

\* What is known of the constants of a question.
LEMMA QuestionSettings ==
    /\ Chunks \subseteq Nat /\ IsFiniteSet(Chunks)
    /\ Attempts \subseteq Nat \ {0}
    /\ Verified \subseteq Findings /\ IsFiniteSet(Findings)
    /\ MaxSources \in Nat \ {0} /\ MaxMentions \in Nat
  BY ConstantsAreSensible
  DEF Questions!ChatAssumption, Uploads!DocumentsAssumption, Items!ItemsAssumption,
      Uploads!IsFiniteSet, Items!IsFiniteSet, IsFiniteSet

\* The operators on sets and sequences are the same here and there.
LEMMA SameOperators ==
    /\ \A S : Questions!Cardinality(S) = Cardinality(S)
    /\ \A S : Questions!InOrder(S) = InOrder(S)
    /\ \A s, P : Questions!Picked(s, P) = Picked(s, P)
<1>1. \A S : Questions!Cardinality(S) = Cardinality(S)
  BY Zenon DEF Questions!Cardinality, Cardinality, Questions!IsFiniteSet, IsFiniteSet
<1>2. \A S : Questions!InOrder(S) = InOrder(S)
  BY Zenon DEF Questions!InOrder, InOrder, Questions!Cardinality, Cardinality,
               Questions!IsFiniteSet, IsFiniteSet
<1>3. \A s, P : Questions!Picked(s, P) = Picked(s, P)
  BY Zenon DEF Questions!Picked, Picked, Questions!InOrder, InOrder, Questions!Cardinality,
               Cardinality, Questions!IsFiniteSet, IsFiniteSet
<1> QED
  BY <1>1, <1>2, <1>3

\* Where the request has looked for clauses, and for findings.
Searched == {"analysis", "findings", "sources", "nothing to search"}
Chosen == {"findings", "sources", "ask", "answered"}

ChatInv ==
    /\ part # "chat" => pcChat = "document"
    /\ finished \subseteq Attempts /\ IsFiniteSet(finished)
    /\ asked.finished \subseteq finished
    /\ asked.text => stored # {}
    /\ \A i \in DOMAIN clauses : clauses[i] \in stored
    /\ pcChat \in Searched /\ asked.text => clauses # <<>>
    /\ pcChat = "nothing to search" => clauses = <<>>
    /\ pcChat = "findings" => analysis \in finished
    /\ pcChat \in {"document", "search", "beginning", "analysis"} => shown = <<>>
    /\ \A i \in DOMAIN shown :
          analysis \in finished /\ shown[i].finding \in Questions!VerifiedOf(analysis)
    /\ pcChat \in Chosen => \A a \in asked.finished : a <= analysis
    /\ pcChat # "answered" => citations = <<>>
    /\ Questions!IsInjective(citations)
    /\ Questions!Range(citations) \subseteq Questions!Supplied

\* The lesser of two numbers.
LEMMA LesserOfTwo ==
    ASSUME NEW m \in Nat, NEW n \in Nat
    PROVE  Questions!Min({m, n}) = IF m <= n THEN m ELSE n
<1> DEFINE k == IF m <= n THEN m ELSE n
<1>1. k \in {m, n} /\ \A y \in {m, n} : k =< y
  OBVIOUS
<1>2. ASSUME NEW x \in {m, n}, \A y \in {m, n} : x =< y
      PROVE  x = k
  BY <1>1, <1>2
<1> QED
  BY <1>1, <1>2 DEF Questions!Min

\* The greatest of the analyses that have finished.
LEMMA LatestFinished ==
    ASSUME NEW S \in SUBSET Nat, IsFiniteSet(S), S # {}
    PROVE  Questions!Max(S) \in S /\ \A i \in S : i <= Questions!Max(S)
<1>1. \E m \in S : \A i \in S : m >= i
  BY GreatestExists
<1> QED
  BY <1>1 DEF Questions!Max

\* A list of the members of a finite set.
LEMMA ListsAreLists ==
    ASSUME NEW S, IsFiniteSet(S), NEW list \in Questions!SetToSeqs(S)
    PROVE  /\ list \in Seq(S) /\ Len(list) = Cardinality(S)
           /\ S # {} => Len(list) # 0
<1>1. Cardinality(S) \in Nat /\ (Cardinality(S) = 0 <=> S = {})
  BY FS_CardinalityType, FS_EmptySet
<1>2. list \in [1 .. Cardinality(S) -> S]
  BY SameOperators DEF Questions!SetToSeqs
<1> QED
  BY <1>1, <1>2

\* The beginning of a list.
LEMMA Beginning ==
    ASSUME NEW S, NEW list \in Seq(S), NEW m \in Nat, m <= Len(list)
    PROVE  /\ SubSeq(list, 1, m) \in Seq(S)
           /\ Len(SubSeq(list, 1, m)) = m
           /\ \A i \in 1 .. m : SubSeq(list, 1, m)[i] = list[i] /\ list[i] \in S
  OBVIOUS

\* What the searches find is stored, and something if anything is.
LEMMA ClausesFound ==
    ASSUME NEW S, NEW list \in Seq(S)
    PROVE  LET found == SubSeq(list, 1, Questions!Min({Len(list), MaxSources}))
           IN  /\ \A i \in DOMAIN found : found[i] \in S
               /\ Len(list) # 0 => found # <<>>
<1> DEFINE m == IF Len(list) <= MaxSources THEN Len(list) ELSE MaxSources
<1>1. MaxSources \in Nat \ {0} /\ Len(list) \in Nat
  BY QuestionSettings
<1>2. Questions!Min({Len(list), MaxSources}) = m /\ m \in Nat /\ m <= Len(list)
  BY <1>1, LesserOfTwo
<1>3. Len(list) # 0 => m # 0
  BY <1>1
<1> HIDE DEF m
<1>4. /\ SubSeq(list, 1, m) \in Seq(S) /\ Len(SubSeq(list, 1, m)) = m
      /\ \A i \in 1 .. m : SubSeq(list, 1, m)[i] = list[i] /\ list[i] \in S
  BY <1>2, Beginning
<1> DEFINE found == SubSeq(list, 1, m)
<1> HIDE DEF found
<1>5. /\ \A i \in DOMAIN found : found[i] \in S
      /\ m # 0 => found # <<>>
  <2>1. found \in Seq(S) /\ Len(found) = m
    BY <1>4 DEF found
  <2> QED
    BY <2>1
<1> QED
  BY <1>2, <1>3, <1>5 DEF found

\* No citation is repeated, and each is of a source.
LEMMA CitedAreSources ==
    ASSUME NEW n \in Nat, NEW S, NEW mentions \in [1 .. n -> S]
    PROVE  /\ Questions!IsInjective(Questions!Cited(mentions))
           /\ Questions!Range(Questions!Cited(mentions)) \subseteq Questions!Supplied
<1> DEFINE P == {i \in DOMAIN mentions : \A j \in 1 .. i - 1 : mentions[j] # mentions[i]}
           once == Picked(mentions, P)
           Q == {i \in DOMAIN once : once[i] \in Questions!Supplied}
           cites == Picked(once, Q)
<1>1. IsFiniteSet(1 .. n)
  <2>1. 1 \in Int /\ n \in Int
    OBVIOUS
  <2> QED
    BY <2>1, FS_Interval
<1>2. P \in SUBSET Nat /\ IsFiniteSet(P)
  <2>1. P \subseteq 1 .. n
    OBVIOUS
  <2> HIDE DEF P
  <2>2. IsFiniteSet(P)
    BY <1>1, <2>1, FS_Subset
  <2>3. P \subseteq Nat
    BY <2>1
  <2> QED
    BY <2>2, <2>3
<1>3. \A i, j \in P : mentions[i] = mentions[j] => i = j
  <2> SUFFICES ASSUME NEW i \in P, NEW j \in P, i < j
               PROVE  mentions[i] # mentions[j]
    BY <1>2
  <2>1. i \in 1 .. j - 1
    BY <1>2
  <2> QED
    BY <2>1
<1>4. Questions!Cited(mentions) = cites
  BY SameOperators DEF Questions!Cited, Questions!CitedOnce
<1> HIDE DEF P
<1>5. /\ Cardinality(P) \in Nat
      /\ DOMAIN once = 1 .. Cardinality(P)
      /\ \A k, l \in DOMAIN once : once[k] = once[l] => k = l
  <2>1. /\ Cardinality(P) \in Nat
        /\ DOMAIN once = 1 .. Cardinality(P)
        /\ \A k \in 1 .. Cardinality(P) :
              InOrder(P)[k] \in P /\ once[k] = mentions[InOrder(P)[k]]
        /\ \A k, l \in 1 .. Cardinality(P) : k # l => InOrder(P)[k] # InOrder(P)[l]
    BY ZenonT(40), <1>2, PickedOnce
  <2> HIDE DEF once
  <2>2. ASSUME NEW k \in 1 .. Cardinality(P), NEW l \in 1 .. Cardinality(P), once[k] = once[l]
        PROVE  k = l
    <3>1. mentions[InOrder(P)[k]] = mentions[InOrder(P)[l]]
      BY <2>1, <2>2
    <3>2. InOrder(P)[k] = InOrder(P)[l]
      BY <1>3, <2>1, <3>1
    <3> QED
      BY <2>1, <3>2
  <2> QED
    BY <2>1, <2>2
<1> HIDE DEF once
<1>6. Q \in SUBSET Nat /\ IsFiniteSet(Q)
  <2>1. Q \subseteq 1 .. Cardinality(P)
    BY <1>5
  <2>2. IsFiniteSet(1 .. Cardinality(P))
    <3>1. 1 \in Int /\ Cardinality(P) \in Int
      BY <1>5
    <3> QED
      BY <3>1, FS_Interval
  <2> HIDE DEF Q
  <2>3. IsFiniteSet(Q)
    BY <2>1, <2>2, FS_Subset
  <2>4. Q \subseteq Nat
    BY <1>5, <2>1
  <2> QED
    BY <2>3, <2>4
<1>7. \A k \in Q : k \in DOMAIN once /\ once[k] \in Questions!Supplied
  OBVIOUS
<1> HIDE DEF Q
<1>8. /\ DOMAIN cites = 1 .. Cardinality(Q)
      /\ \A k \in 1 .. Cardinality(Q) :
            InOrder(Q)[k] \in Q /\ cites[k] = once[InOrder(Q)[k]]
      /\ \A k, l \in 1 .. Cardinality(Q) : k # l => InOrder(Q)[k] # InOrder(Q)[l]
  BY ZenonT(40), <1>6, PickedOnce
<1> HIDE DEF cites
<1>9. Questions!IsInjective(cites)
  BY <1>5, <1>7, <1>8 DEF Questions!IsInjective
<1>10. Questions!Range(cites) \subseteq Questions!Supplied
  BY <1>7, <1>8 DEF Questions!Range
<1> QED
  BY <1>4, <1>9, <1>10

\* What others do to the document and its findings leaves what a question found.
LEMMA OthersLeaveQuestion ==
    ASSUME ChatInv, UNCHANGED chatVars, part' = part, stored \subseteq stored'
    PROVE  ChatInv'
<1>1. /\ UNCHANGED <<analysisOf, finished, pcChat, clauses, analysis, shown, citations, asked>>
  BY DEF chatVars
<1>2. Questions!VerifiedOf(analysis)' = Questions!VerifiedOf(analysis)
  BY <1>1 DEF Questions!VerifiedOf
<1>3. Questions!Supplied' = Questions!Supplied
  BY <1>1 DEF Questions!Supplied
<1>4. /\ Questions!IsInjective(citations)' <=> Questions!IsInjective(citations)
      /\ Questions!Range(citations)' = Questions!Range(citations)
  BY <1>1 DEF Questions!IsInjective, Questions!Range
<1> QED
  BY <1>1, <1>2, <1>3, <1>4 DEF ChatInv, Searched, Chosen

\* A step of the request, or an analysis that finishes.
LEMMA QuestionStep ==
    ASSUME ChatInv, PreparedInv, part = "chat", part' = part, Questions!Next
    PROVE  ChatInv'
<1> USE DEF Searched, Chosen
<1>1. /\ stored \subseteq Nat /\ IsFiniteSet(stored)
      /\ Cardinality(stored) \in Nat /\ (stored # {} => Cardinality(stored) # 0)
  <2>1. stored \subseteq Chunks
    BY DEF PreparedInv, DocumentTypes
  <2>2. stored \subseteq Nat /\ IsFiniteSet(stored)
    BY <2>1, QuestionSettings, FS_Subset
  <2> QED
    BY <2>2, FS_CardinalityType, FS_EmptySet
<1>2. finished \subseteq Nat \ {0} /\ IsFiniteSet(finished)
  BY QuestionSettings DEF ChatInv
<1>3. stored' = stored /\ analysisOf' = analysisOf
  BY DEF Questions!Next, Questions!Ask, Questions!AnalysisFinishes, Questions!FindDocument,
     Questions!SearchChunks, Questions!ReadBeginning, Questions!FindAnalysis,
     Questions!ReadFindings, Questions!CheckSources, Questions!ProviderFails,
     Questions!Answer, Questions!Goto
<1>4. \A a : Questions!VerifiedOf(a)' = Questions!VerifiedOf(a)
  BY <1>3 DEF Questions!VerifiedOf
<1>5. ASSUME UNCHANGED citations, pcChat # "answered", pcChat' # "answered"
      PROVE  /\ pcChat' # "answered" => citations' = <<>>
             /\ Questions!IsInjective(citations)'
             /\ Questions!Range(citations)' \subseteq Questions!Supplied'
  <2>1. citations' = <<>>
    BY <1>5 DEF ChatInv
  <2> QED
    BY <2>1 DEF Questions!IsInjective, Questions!Range
<1>6. ASSUME NEW a \in Attempts, Questions!AnalysisFinishes(a)
      PROVE  ChatInv'
  <2>1. /\ finished' = finished \cup {a}
        /\ UNCHANGED <<stored, analysisOf, pcChat, clauses, analysis, shown, citations, asked>>
    BY <1>6 DEF Questions!AnalysisFinishes
  <2>2. IsFiniteSet(finished')
    BY <1>2, <2>1, FS_AddElement
  <2>3. Questions!Supplied' = Questions!Supplied
    BY <2>1 DEF Questions!Supplied
  <2>4. /\ Questions!IsInjective(citations)' <=> Questions!IsInjective(citations)
        /\ Questions!Range(citations)' = Questions!Range(citations)
    BY <2>1 DEF Questions!IsInjective, Questions!Range
  <2> QED
    BY <1>4, <2>1, <2>2, <2>3, <2>4 DEF ChatInv
<1>7. CASE Questions!FindDocument
  <2>1. /\ pcChat = "document" /\ pcChat' \in {"search", "not found"}
        /\ UNCHANGED <<stored, finished, clauses, analysis, shown, citations>>
        /\ asked'.text = (stored # {}) /\ asked'.finished = finished
    BY <1>7 DEF Questions!FindDocument, Questions!Goto
  <2>2. shown' = <<>>
    BY <2>1 DEF ChatInv
  <2>3. DOMAIN shown' = {}
    BY <2>2
  <2> QED
    BY <1>5, <2>1, <2>2, <2>3 DEF ChatInv
<1>8. CASE Questions!SearchChunks
  <2>1. /\ pcChat = "search" /\ pcChat' \in {"beginning", "analysis"}
        /\ pcChat' = "analysis" => clauses' # <<>>
        /\ UNCHANGED <<stored, finished, analysis, shown, citations, asked>>
    BY <1>8 DEF Questions!SearchChunks, Questions!Goto
  <2>2. PICK S \in SUBSET stored : \E list \in Questions!SetToSeqs(S) :
           clauses' = SubSeq(list, 1, Questions!Min({Len(list), MaxSources}))
    BY <1>8 DEF Questions!SearchChunks, Questions!SetToAllKPermutations
  <2>3. PICK list \in Questions!SetToSeqs(S) :
           clauses' = SubSeq(list, 1, Questions!Min({Len(list), MaxSources}))
    BY <2>2
  <2>4. list \in Seq(S)
    BY <1>1, FS_Subset, ListsAreLists
  <2>5. \A i \in DOMAIN clauses' : clauses'[i] \in stored
    BY <2>3, <2>4, ClausesFound
  <2>6. shown' = <<>> /\ DOMAIN shown' = {}
    BY <2>1 DEF ChatInv
  <2> QED
    BY <1>5, <2>1, <2>5, <2>6 DEF ChatInv
<1>9. CASE Questions!ReadBeginning
  <2>1. /\ pcChat = "beginning" /\ pcChat' = "analysis"
        /\ UNCHANGED <<stored, finished, analysis, shown, citations, asked>>
        /\ clauses' = SubSeq(InOrder(stored), 1,
                             Questions!Min({Len(InOrder(stored)), MaxSources}))
    BY <1>9, SameOperators DEF Questions!ReadBeginning, Questions!Goto
  <2>2. InOrder(stored) \in [1 .. Cardinality(stored) -> stored]
    BY <1>1, InOrderEnumerates
  <2>3. InOrder(stored) \in Seq(stored) /\ Len(InOrder(stored)) = Cardinality(stored)
    BY <1>1, <2>2
  <2>4. /\ \A i \in DOMAIN clauses' : clauses'[i] \in stored
        /\ stored # {} => clauses' # <<>>
    BY <1>1, <2>1, <2>3, ClausesFound
  <2>5. shown' = <<>> /\ DOMAIN shown' = {}
    BY <2>1 DEF ChatInv
  <2> QED
    BY <1>5, <2>1, <2>4, <2>5 DEF ChatInv
<1>10. CASE Questions!FindAnalysis
  <2>1. /\ pcChat = "analysis"
        /\ pcChat' = IF finished = {} THEN "sources" ELSE "findings"
        /\ analysis' = IF finished = {} THEN 0 ELSE Questions!Max(finished)
        /\ UNCHANGED <<stored, finished, clauses, shown, citations, asked>>
    BY <1>10 DEF Questions!FindAnalysis, Questions!Goto
  <2>2. finished # {} => analysis' \in finished /\ \A i \in finished : i <= analysis'
    BY <1>2, <2>1, LatestFinished
  <2>3. shown' = <<>> /\ DOMAIN shown' = {}
    BY <2>1 DEF ChatInv
  <2>4. \A a \in asked.finished : a <= analysis'
    BY <2>2 DEF ChatInv
  <2>5. pcChat' \in {"sources", "findings"}
    BY <2>1
  <2> QED
    BY <1>5, <2>1, <2>2, <2>3, <2>4, <2>5 DEF ChatInv
<1>11. CASE Questions!ReadFindings
  <2> DEFINE S == Questions!VerifiedOf(analysis)
  <2>1. /\ pcChat = "findings" /\ pcChat' = "sources"
        /\ UNCHANGED <<stored, finished, clauses, analysis, citations, asked>>
    BY <1>11 DEF Questions!ReadFindings, Questions!Goto
  <2>2. PICK list \in Questions!SetToSeqs(S) :
           shown' = [i \in 1 .. Questions!Min({Len(list), MaxSources}) |->
                        [finding |-> list[i], severity |-> Questions!Severity(list[i])]]
    BY <1>11 DEF Questions!ReadFindings
  <2>3. IsFiniteSet(S)
    <3>1. S \subseteq Findings
      BY QuestionSettings DEF Questions!VerifiedOf
    <3> QED
      BY <3>1, QuestionSettings, FS_Subset
  <2> HIDE DEF S
  <2>4. list \in Seq(S) /\ Len(list) \in Nat
    BY <2>3, ListsAreLists
  <2>5. \A i \in 1 .. Questions!Min({Len(list), MaxSources}) : list[i] \in S
    BY <2>4, QuestionSettings, LesserOfTwo
  <2>6. \A i \in DOMAIN shown' : shown'[i].finding \in S
    BY <2>2, <2>5
  <2>7. analysis \in finished
    BY <2>1 DEF ChatInv
  <2>8. S = Questions!VerifiedOf(analysis)'
    BY <1>3, <2>1 DEF S, Questions!VerifiedOf
  <2> QED
    BY <1>5, <2>1, <2>6, <2>7, <2>8 DEF ChatInv
<1>12. CASE Questions!CheckSources
  <2>1. /\ pcChat = "sources"
        /\ pcChat' = IF clauses = <<>> /\ shown = <<>> THEN "nothing to search" ELSE "ask"
        /\ UNCHANGED <<stored, finished, clauses, analysis, shown, citations, asked>>
    BY <1>12 DEF Questions!CheckSources, Questions!Goto
  <2>2. /\ pcChat' \in {"nothing to search", "ask"}
        /\ pcChat' = "nothing to search" => clauses' = <<>>
    BY <2>1
  <2> QED
    BY <1>4, <1>5, <2>1, <2>2 DEF ChatInv
<1>13. CASE Questions!ProviderFails
  <2>1. /\ pcChat = "ask" /\ pcChat' \in {"unavailable", "error"}
        /\ UNCHANGED <<stored, finished, clauses, analysis, shown, citations, asked>>
    BY <1>13 DEF Questions!ProviderFails, Questions!Goto
  <2> QED
    BY <1>4, <1>5, <2>1 DEF ChatInv
<1>14. CASE Questions!Answer
  <2>1. /\ pcChat = "ask" /\ pcChat' = "answered"
        /\ UNCHANGED <<stored, finished, clauses, analysis, shown, asked>>
    BY <1>14 DEF Questions!Answer, Questions!Goto
  <2> DEFINE S == Questions!Supplied \cup {Questions!Invented}
  <2>2. PICK n \in 0 .. MaxMentions : \E mentions \in [1 .. n -> S] :
           citations' = Questions!Cited(mentions)
    BY <1>14 DEF Questions!Answer, Questions!BoundedSeq, Questions!SeqOf
  <2>3. PICK mentions \in [1 .. n -> S] : citations' = Questions!Cited(mentions)
    BY <2>2
  <2>4. n \in Nat
    BY <2>2, QuestionSettings
  <2> HIDE DEF S
  <2>5. /\ Questions!IsInjective(Questions!Cited(mentions))
        /\ Questions!Range(Questions!Cited(mentions)) \subseteq Questions!Supplied
    BY <2>4, CitedAreSources
  <2>6. Questions!Supplied' = Questions!Supplied
    BY <2>1 DEF Questions!Supplied
  <2>7. Questions!IsInjective(citations)'
        /\ Questions!Range(citations)' \subseteq Questions!Supplied'
    BY <2>3, <2>5, <2>6 DEF Questions!IsInjective, Questions!Range
  <2> QED
    BY <1>4, <2>1, <2>7 DEF ChatInv
<1> QED
  BY <1>6, <1>7, <1>8, <1>9, <1>10, <1>11, <1>12, <1>13, <1>14 DEF Questions!Next, Questions!Ask

\* What a question has found is known in every reachable state.
LEMMA AlwaysFound == Spec => []ChatInv
<1>1. Init => ChatInv
  <2>1. IsFiniteSet({}) /\ DOMAIN <<>> = {}
    BY FS_EmptySet
  <2> QED
    BY <2>1 DEF Init, Questions!Init, ChatInv, Searched, Chosen, Questions!IsInjective,
                Questions!Range
<1>2. ASSUME PreparedInv, ChatInv, [Next]_vars
      PROVE  ChatInv'
  <2>1. CASE OfChat /\ Questions!Next
    BY <1>2, <2>1, QuestionStep DEF OfChat
  <2>2. stored \subseteq stored'
    <3>1. stored' \in {stored, Chunks} \/ stored \subseteq stored'
      BY <1>2 DEF Next, OfReviews, OfItems, OfPolicies, OfDocuments, OfChat, OfWindow, OfKeys,
           vars, documentVars, Questions!Next, Uploads!Next, Uploads!Analyse, Uploads!Create,
           Uploads!CreateDocument, Uploads!Archive, Uploads!PersistChunks, Uploads!MarkReady,
           Uploads!SeedDocument, Uploads!SeedChunk, Uploads!CreatingStops,
           Uploads!DeleteDocument, Uploads!RequestAccepted, Uploads!AttemptBegins,
           Uploads!ReadDocument, Uploads!ListChunks, Uploads!CutDocument,
           Uploads!MissingEmbeddings, Uploads!Embed, Uploads!SetEmbedding,
           Uploads!AttemptFails, Uploads!AttemptAgain
    <3> QED
      BY <1>2, <3>1 DEF PreparedInv, DocumentTypes
  <2>3. CASE ~ (OfChat /\ Questions!Next)
    <3>1. UNCHANGED chatVars /\ part' = part
      BY <1>2, <2>3 DEF Next, OfReviews, OfItems, OfPolicies, OfDocuments, OfChat, OfWindow,
           OfKeys, vars
    <3> QED
      BY <1>2, <2>2, <3>1, OthersLeaveQuestion
  <2> QED
    BY <2>1, <2>3
<1> QED
  BY <1>1, <1>2, AlwaysPrepared, PTL DEF Spec

\* An answer rests on what is known of the document, whatever others do to it while
\* the request looks for its sources.
LEMMA AnswersAreGrounded == Spec => []Questions!AnswersAreGrounded
<1>1. ASSUME ChatInv
      PROVE  Questions!CitationsAreSources
  <2>1. ASSUME NEW i \in DOMAIN citations
        PROVE  IF citations[i].kind = "C" THEN clauses[citations[i].nr] \in stored
               ELSE /\ shown[citations[i].nr].finding \in Questions!VerifiedOf(analysis)
                    /\ analysis \in finished
    <3>1. citations[i] \in Questions!Supplied
      BY <1>1 DEF ChatInv, Questions!Range
    <3>2. \/ citations[i].kind = "C" /\ citations[i].nr \in DOMAIN clauses
          \/ citations[i].kind = "F" /\ citations[i].nr \in DOMAIN shown
      BY <3>1 DEF Questions!Supplied
    <3> QED
      BY <1>1, <3>2 DEF ChatInv
  <2> QED
    BY <1>1, <2>1 DEF ChatInv, Questions!CitationsAreSources
<1>2. ChatInv => Questions!NothingThereIsMissed
  BY DEF ChatInv, Searched, Chosen, Questions!NothingThereIsMissed
<1> QED
  BY <1>1, <1>2, AlwaysFound, PTL DEF Questions!AnswersAreGrounded

\* An attempt extracts from the whole text of its document and from what is
\* indexed, and an answer rests on sources that the document had, for any text,
\* any attempts and whatever a model mentions.
THEOREM DocumentsAreTheBasis == Spec => []DocumentIsTheBasis
  BY AttemptsArePrepared, AnswersAreGrounded, PTL DEF DocumentIsTheBasis

-----------------------------------------------------------------------------
(* The signing keys.  What the cache says and the provider does not is younger *)
(* than the cache, and what the last attempt did is known from its time.       *)

KeyTypes ==
    /\ {now, fetchedAt, lastAttempt, answer.at} \subseteq Nat
    /\ published \subseteq Kids /\ keys \subseteq Kids
    /\ changed \in [Kids -> Nat]
    /\ answer \in [kid : Kids, key : {"found", "none"}, at : Nat]
    /\ failedAt \in Int /\ failedAt >= -1
    /\ fetches \in Nat

\* Nothing is from the future, and no fetch succeeds before it is attempted.
KeysPast ==
    /\ {fetchedAt, lastAttempt, answer.at} \subseteq 0 .. now
    /\ failedAt <= now
    /\ \A k \in Kids : changed[k] <= now

\* The cache differs from the provider only in what changed since it was fetched.
CacheIsAsFetched ==
    keys # {} => \A k \in Kids : (k \in keys) # (k \in published) => changed[k] >= fetchedAt

\* The last attempt has succeeded or failed, and after a success there are keys.
AttemptDecided ==
    /\ fetchedAt = lastAttempt \/ failedAt = lastAttempt
    /\ fetches > 0 /\ failedAt < lastAttempt => keys # {}

KeysInv ==
    /\ KeyTypes /\ KeysPast
    /\ CacheIsAsFetched /\ AttemptDecided
    /\ KeysAreCurrent

\* The settings of the key cache.
LEMMA KeySettings ==
    /\ Kids # {}
    /\ ttl_seconds \in Nat \ {0}
    /\ MIN_REFRESH_INTERVAL_SECONDS \in Nat \ {0}
    /\ MIN_REFRESH_INTERVAL_SECONDS <= ttl_seconds
  BY ConstantsAreSensible DEF Keys!KeysAssumption

\* It holds of an empty cache.
LEMMA KeysInit == Init => KeysInv
<1> SUFFICES ASSUME Init PROVE KeysInv
  OBVIOUS
<1>1. Keys!Init
  BY DEF Init
<1>2. \E k \in Kids : TRUE
  BY KeySettings
<1>3. (CHOOSE k \in Kids : TRUE) \in Kids
  BY <1>2, Zenon
<1>4. /\ answer.kid \in Kids /\ answer.key = "none" /\ answer.at = 0
      /\ answer \in [kid : Kids, key : {"found", "none"}, at : Nat]
  BY <1>1, <1>3 DEF Keys!Init
<1>5. KeyTypes /\ KeysPast
  BY <1>1, <1>4 DEF KeyTypes, KeysPast, Keys!Init, Keys!Never
<1>6. CacheIsAsFetched /\ AttemptDecided
  BY <1>1 DEF CacheIsAsFetched, AttemptDecided, Keys!Init
<1>7. KeysAreCurrent
  BY <1>1, <1>4, KeySettings
  DEF KeysAreCurrent, Keys!KeysAreCurrent, Keys!WithdrawnKeysExpire,
      Keys!PublishedKeysAreFound, Keys!Init
<1> QED
  BY <1>5, <1>6, <1>7 DEF KeysInv

\* A call answers for a key, at the time it is.
LEMMA Answers ==
    ASSUME KeysInv, NEW k \in Kids, NEW found \in BOOLEAN, Keys!Answer(k, found)
    PROVE  /\ answer' \in [kid : Kids, key : {"found", "none"}, at : Nat]
           /\ answer'.kid = k /\ answer'.at = now
           /\ answer'.key = "found" <=> found
  BY DEF KeysInv, KeyTypes, Keys!Answer

\* It survives every step of the cache, of the publisher and of time.
LEMMA KeysStep ==
    ASSUME KeysInv, Keys!Next
    PROVE  KeysInv'
<1> USE KeySettings DEF Keys!cache
<1>1. CASE Keys!Tick
  BY <1>1 DEF Keys!Tick, KeysInv, KeyTypes, KeysPast, CacheIsAsFetched, AttemptDecided,
              KeysAreCurrent, Keys!KeysAreCurrent, Keys!WithdrawnKeysExpire,
              Keys!PublishedKeysAreFound
<1>2. ASSUME NEW k \in Kids, Keys!Rotate(k)
      PROVE  KeysInv'
  <2>1. /\ published' \subseteq Kids
        /\ \A j \in Kids \ {k} : (j \in published') = (j \in published)
        /\ \A j \in Kids : changed'[j] = IF j = k THEN now ELSE changed[j]
        /\ changed' \in [Kids -> Nat]
        /\ UNCHANGED <<now, keys, fetchedAt, lastAttempt, answer, fetches, failedAt>>
    BY <1>2 DEF Keys!Rotate, KeysInv, KeyTypes
  <2>2. KeyTypes' /\ KeysPast'
    BY <2>1 DEF KeysInv, KeyTypes, KeysPast
  <2>3. CacheIsAsFetched' /\ AttemptDecided'
    BY <2>1 DEF KeysInv, KeysPast, CacheIsAsFetched, AttemptDecided
  <2>4. answer.kid \in Kids /\ answer.at \in Nat /\ answer.at <= now /\ now \in Nat
    BY DEF KeysInv, KeyTypes, KeysPast
  <2>5. KeysAreCurrent'
    BY <2>1, <2>4
    DEF KeysInv, KeysAreCurrent, Keys!KeysAreCurrent, Keys!WithdrawnKeysExpire,
        Keys!PublishedKeysAreFound
  <2> QED
    BY <2>2, <2>3, <2>5 DEF KeysInv
<1>3. ASSUME NEW k \in Kids, Keys!Lookup(k), ~ Keys!Expired,
             k \in keys \/ Keys!JustTried
      PROVE  KeysInv'
  <2>1. UNCHANGED <<now, published, changed, keys, fetchedAt, lastAttempt, fetches, failedAt>>
        /\ Keys!Answer(k, k \in keys)
    BY <1>3 DEF Keys!Lookup
  <2>2. /\ answer' \in [kid : Kids, key : {"found", "none"}, at : Nat]
        /\ answer'.kid = k /\ answer'.at = now
        /\ answer'.key = "found" <=> k \in keys
    <3>1. (k \in keys) \in BOOLEAN
      OBVIOUS
    <3> QED
      BY <2>1, <3>1, Answers
  <2>3. KeyTypes' /\ KeysPast'
    BY <2>1, <2>2 DEF KeysInv, KeyTypes, KeysPast
  <2>4. CacheIsAsFetched' /\ AttemptDecided'
    BY <2>1 DEF KeysInv, CacheIsAsFetched, AttemptDecided
  <2>5. keys # {} /\ now - fetchedAt <= ttl_seconds
    BY <1>3 DEF Keys!Expired, KeysInv, KeyTypes
  <2>6. Keys!WithdrawnKeysExpire'
    <3>1. k \in keys /\ k \notin published => changed[k] >= fetchedAt
      BY <2>5 DEF KeysInv, CacheIsAsFetched
    <3>2. {now, fetchedAt, changed[k]} \subseteq Nat
      BY DEF KeysInv, KeyTypes
    <3> QED
      BY <2>1, <2>2, <2>5, <3>1, <3>2 DEF Keys!WithdrawnKeysExpire
  <2>7. Keys!PublishedKeysAreFound'
    <3>1. k \in published /\ k \notin keys => changed[k] >= fetchedAt
      BY <2>5 DEF KeysInv, CacheIsAsFetched
    <3>2. {now, fetchedAt, lastAttempt, changed[k]} \subseteq Nat /\ failedAt \in Int
      BY DEF KeysInv, KeyTypes
    <3>3. k \notin keys => now - lastAttempt <= MIN_REFRESH_INTERVAL_SECONDS
      BY <1>3 DEF Keys!JustTried
    <3>4. fetchedAt = lastAttempt \/ failedAt = lastAttempt
      BY DEF KeysInv, AttemptDecided
    <3>5. ASSUME k \in published, k \notin keys,
                 now - changed[k] > MIN_REFRESH_INTERVAL_SECONDS, failedAt < changed[k]
          PROVE  FALSE
      BY <3>1, <3>2, <3>3, <3>4, <3>5
    <3> QED
      BY <2>1, <2>2, <3>5 DEF Keys!PublishedKeysAreFound
  <2> QED
    BY <2>3, <2>4, <2>6, <2>7 DEF KeysInv, KeysAreCurrent, Keys!KeysAreCurrent
<1>4. ASSUME NEW k \in Kids, Keys!Refresh(k)
      PROVE  KeysInv'
  <2>1. lastAttempt' = now /\ fetches' = fetches + 1 /\ UNCHANGED <<now, published, changed>>
    BY <1>4 DEF Keys!Refresh
  <2>2. {now, changed[k]} \subseteq Nat /\ changed[k] <= now
    BY DEF KeysInv, KeyTypes, KeysPast
  <2>3. CASE Keys!FetchSucceeds(k)
    <3>1. /\ published # {} /\ keys' = published /\ fetchedAt' = now /\ failedAt' = failedAt
          /\ Keys!Answer(k, k \in published)
      BY <2>3 DEF Keys!FetchSucceeds
    <3>2. /\ answer' \in [kid : Kids, key : {"found", "none"}, at : Nat]
          /\ answer'.kid = k /\ answer'.at = now
          /\ answer'.key = "found" <=> k \in published
      <4>1. (k \in published) \in BOOLEAN
        OBVIOUS
      <4> QED
        BY <3>1, <4>1, Answers
    <3>3. KeyTypes' /\ KeysPast'
      BY <2>1, <3>1, <3>2 DEF KeysInv, KeyTypes, KeysPast
    <3>4. CacheIsAsFetched' /\ AttemptDecided'
      BY <2>1, <3>1 DEF CacheIsAsFetched, AttemptDecided
    <3>5. KeysAreCurrent'
      BY <2>1, <3>1, <3>2
      DEF KeysAreCurrent, Keys!KeysAreCurrent, Keys!WithdrawnKeysExpire,
          Keys!PublishedKeysAreFound
    <3> QED
      BY <3>3, <3>4, <3>5 DEF KeysInv
  <2>4. CASE Keys!FetchFails(k)
    <3>1. failedAt' = now /\ UNCHANGED <<keys, fetchedAt>> /\ Keys!Answer(k, FALSE)
      BY <2>4 DEF Keys!FetchFails
    <3>2. /\ answer' \in [kid : Kids, key : {"found", "none"}, at : Nat]
          /\ answer'.kid = k /\ answer'.at = now /\ answer'.key # "found"
      BY <3>1, Answers
    <3>3. KeyTypes' /\ KeysPast'
      BY <2>1, <3>1, <3>2 DEF KeysInv, KeyTypes, KeysPast
    <3>4. CacheIsAsFetched' /\ AttemptDecided'
      BY <2>1, <2>2, <3>1 DEF KeysInv, CacheIsAsFetched, AttemptDecided
    <3>5. KeysAreCurrent'
      BY <2>1, <2>2, <3>1, <3>2
      DEF KeysAreCurrent, Keys!KeysAreCurrent, Keys!WithdrawnKeysExpire,
          Keys!PublishedKeysAreFound
    <3> QED
      BY <3>3, <3>4, <3>5 DEF KeysInv
  <2> QED
    BY <1>4, <2>3, <2>4 DEF Keys!Refresh
<1> QED
  BY <1>1, <1>2, <1>3, <1>4
  DEF Keys!Next, Keys!GetKey, Keys!RefreshExpired, Keys!ReturnCached, Keys!RefreshUnknown,
      Keys!RefuseUnknown

\* What the others do leaves the keys alone.
LEMMA KeysRun ==
    ASSUME [Next]_vars
    PROVE  Keys!Next \/ UNCHANGED keyVars
  BY DEF Next, OfReviews, OfItems, OfPolicies, OfDocuments, OfChat, OfWindow, OfKeys,
         vars, accessVars

\* It holds in every reachable state.
LEMMA AlwaysKeys == Spec => []KeysInv
<1>1. KeysInv /\ [Next]_vars => KeysInv'
  <2>1. ASSUME KeysInv, UNCHANGED keyVars
        PROVE  KeysInv'
    BY <2>1 DEF keyVars, KeysInv, KeyTypes, KeysPast, CacheIsAsFetched, AttemptDecided,
                KeysAreCurrent, Keys!KeysAreCurrent, Keys!WithdrawnKeysExpire,
                Keys!PublishedKeysAreFound
  <2> QED
    BY <2>1, KeysStep, KeysRun
<1> QED
  BY <1>1, KeysInit, PTL DEF Spec

\* A withdrawn key is accepted for its time to live at most, and a new key is
\* found after the refresh interval unless a fetch has failed since, whatever
\* tokens name and whenever the provider rotates its keys.
THEOREM KeysStayCurrent == Spec => []KeysAreCurrent
<1>1. KeysInv => KeysAreCurrent
  BY DEF KeysInv
<1> QED
  BY <1>1, AlwaysKeys, PTL

\* A call fetches once at most, and fetches that succeed are apart, whatever
\* tokens name.
THEOREM FetchesStayApart == Spec => FetchesAreApart
<1> DEFINE Apart == fetches' # fetches =>
                      /\ fetches' = fetches + 1
                      /\ fetches > 0 /\ failedAt < lastAttempt =>
                            now - lastAttempt > MIN_REFRESH_INTERVAL_SECONDS
<1>1. KeysInv /\ [Next]_vars => [Apart]_Keys!vars
  <2> SUFFICES ASSUME KeysInv, Keys!Next PROVE Apart
    BY KeysRun DEF keyVars, Keys!vars
  <2>1. ASSUME NEW k \in Kids, Keys!Refresh(k), Keys!Expired \/ ~ Keys!JustTried
        PROVE  Apart
    <3>1. fetches' = fetches + 1
      BY <2>1 DEF Keys!Refresh
    <3>2. ASSUME fetches > 0, failedAt < lastAttempt
          PROVE  now - lastAttempt > MIN_REFRESH_INTERVAL_SECONDS
      <4>1. {now, lastAttempt} \subseteq Nat
        BY DEF KeysInv, KeyTypes
      <4>2. fetchedAt = lastAttempt /\ keys # {}
        BY <3>2 DEF KeysInv, KeyTypes, AttemptDecided
      <4> QED
        BY <2>1, <4>1, <4>2, KeySettings DEF Keys!Expired, Keys!JustTried
    <3> QED
      BY <3>1, <3>2
  <2> QED
    BY <2>1 DEF Keys!Next, Keys!Tick, Keys!Rotate, Keys!GetKey, Keys!RefreshExpired,
                Keys!ReturnCached, Keys!RefreshUnknown, Keys!RefuseUnknown, Keys!Lookup
<1> QED
  BY <1>1, AlwaysKeys, PTL DEF Spec, FetchesAreApart, Keys!FetchesAreApart

-----------------------------------------------------------------------------
(* The window of the rate limiter.  While the set has all that a window    *)
(* should count, a request that is counted shares the window with live     *)
(* members and with what the other handlers have counted and not yet       *)
(* added.  Once a later request has trimmed the set, or it has expired,    *)
(* only those that have read the clock before can still come into that     *)
(* window.  So the bound holds of all requests that were counted, added or *)
(* not.                                                                    *)

Adding == {h \in Handlers : pcCheck[h] = "add"}

\* The times of the requests that were counted.
Counted == admitted \cup {at[h] : h \in Adding}

\* Those of them in the window that ends at a time.
InWindow(t) == {a \in Counted : a > t - window_seconds /\ a <= t}

\* Handlers that have read the clock by that time and wait to be counted.
Reading(t) == {h \in Handlers : pcCheck[h] = "count" /\ at[h] <= t}

\* The set has what it should count in that window.
SetKeeps(t) == \A a \in admitted : a > t - window_seconds /\ a <= t => a \in Window!Present

WindowTypes ==
    /\ clock \in Nat /\ expires \in Nat
    /\ pcCheck \in [Handlers -> {"idle", "count", "add"}]
    /\ at \in [Handlers -> Nat]
    /\ \A h \in Handlers : at[h] <= clock
    /\ \A b \in bucket : b \in Nat /\ b <= clock /\ b + window_seconds < expires
    /\ \A a \in admitted : a \in Nat /\ a <= clock
    /\ expires <= clock + window_seconds + 1

Bounded(t) ==
    \/ SetKeeps(t) /\ Cardinality(InWindow(t)) <= limit + Cardinality(Handlers) - 1
    \/ /\ clock > t
       /\ Cardinality(InWindow(t)) + Cardinality(Reading(t))
            <= limit + 2 * Cardinality(Handlers) - 1

WindowInv == WindowTypes /\ \A t \in Nat : Bounded(t)

\* Sets have the sizes that the module of the window gives them.
LEMMA WindowSizes ==
    /\ \A S : Window!Cardinality(S) = Cardinality(S)
    /\ Window!IsFiniteSet(Handlers) => IsFiniteSet(Handlers)
<1>1. \A S : Window!Cardinality(S) = Cardinality(S)
  BY DEF Window!Cardinality, Cardinality, Window!IsFiniteSet, IsFiniteSet
<1>2. Window!IsFiniteSet(Handlers) => IsFiniteSet(Handlers)
  BY DEF Window!IsFiniteSet, IsFiniteSet
<1> QED
  BY <1>1, <1>2

\* The limit and the length are positive, and handlers can be counted.
LEMMA WindowSettings ==
    /\ limit \in Nat \ {0} /\ window_seconds \in Nat \ {0}
    /\ IsFiniteSet(Handlers) /\ Cardinality(Handlers) \in Nat
  BY ConstantsAreSensible, WindowSizes, FS_CardinalityType DEF Window!WindowAssumption

\* A function has no more values than arguments.
LEMMA ValuesAreFewer ==
    ASSUME NEW S, IsFiniteSet(S), NEW f
    PROVE  /\ IsFiniteSet({f[x] : x \in S})
           /\ Cardinality({f[x] : x \in S}) <= Cardinality(S)
<1> DEFINE T == {f[x] : x \in S}
           g == [x \in S |-> f[x]]
<1>1. g \in Surjection(S, T)
  BY DEF Surjection
<1> HIDE DEF T, g
<1>2. IsFiniteSet(T) /\ Cardinality(T) <= Cardinality(S)
  BY <1>1, FS_Surjection
<1> QED
  BY <1>2 DEF T

\* A set of naturals up to a bound is finite.
LEMMA BoundedIsFinite ==
    ASSUME NEW n \in Nat, NEW S \in SUBSET (0 .. n)
    PROVE  IsFiniteSet(S) /\ Cardinality(S) \in Nat
<1>1. 0 \in Int /\ n \in Int
  OBVIOUS
<1>2. IsFiniteSet(0 .. n)
  BY <1>1, FS_Interval
<1>3. IsFiniteSet(S)
  BY <1>2, FS_Subset
<1> QED
  BY <1>3, FS_CardinalityType

\* A union has no more members than its parts together.
LEMMA UnionIsSmall ==
    ASSUME NEW S, NEW T, IsFiniteSet(S), IsFiniteSet(T)
    PROVE  /\ IsFiniteSet(S \cup T)
           /\ Cardinality(S) \in Nat /\ Cardinality(T) \in Nat /\ Cardinality(S \cup T) \in Nat
           /\ Cardinality(S \cup T) <= Cardinality(S) + Cardinality(T)
<1>1. IsFiniteSet(S \cup T)
      /\ Cardinality(S \cup T) = Cardinality(S) + Cardinality(T) - Cardinality(S \cap T)
  BY FS_Union
<1>2. Cardinality(S \cap T) \in Nat /\ Cardinality(S) \in Nat /\ Cardinality(T) \in Nat
      /\ Cardinality(S \cup T) \in Nat
  BY <1>1, FS_Subset, FS_CardinalityType
<1> QED
  BY <1>1, <1>2

\* What is counted in a window, and who waits for it, are finite.
LEMMA WindowsAreFinite ==
    ASSUME WindowTypes, NEW t \in Nat
    PROVE  /\ IsFiniteSet(InWindow(t)) /\ Cardinality(InWindow(t)) \in Nat
           /\ IsFiniteSet(Reading(t)) /\ Cardinality(Reading(t)) \in Nat
           /\ Cardinality(Reading(t)) <= Cardinality(Handlers)
<1>1. \A a \in Counted : a \in Nat /\ a <= clock
  BY DEF Counted, Adding, WindowTypes
<1>2. InWindow(t) \subseteq 0 .. clock /\ clock \in Nat
  BY <1>1 DEF InWindow, WindowTypes
<1>3. IsFiniteSet(InWindow(t)) /\ Cardinality(InWindow(t)) \in Nat
  BY <1>2, BoundedIsFinite
<1>4. Reading(t) \subseteq Handlers
  BY DEF Reading
<1>5. IsFiniteSet(Reading(t)) /\ Cardinality(Reading(t)) <= Cardinality(Handlers)
  BY <1>4, WindowSettings, FS_Subset
<1> QED
  BY <1>3, <1>5, FS_CardinalityType

\* Adding others than a handler that does not add are fewer than the handlers.
LEMMA OthersAreFewer ==
    ASSUME NEW h \in Handlers, NEW S \in SUBSET (Handlers \ {h})
    PROVE  /\ IsFiniteSet(S) /\ Cardinality(S) \in Nat
           /\ Cardinality(S) <= Cardinality(Handlers) - 1
<1>1. IsFiniteSet(Handlers \ {h}) /\ Cardinality(Handlers \ {h}) = Cardinality(Handlers) - 1
  BY WindowSettings, FS_RemoveElement
<1>2. IsFiniteSet(S) /\ Cardinality(S) <= Cardinality(Handlers \ {h})
  BY <1>1, FS_Subset
<1>3. Cardinality(S) \in Nat
  BY <1>2, FS_CardinalityType
<1> QED
  BY <1>1, <1>2, <1>3

\* Nothing comes into the window, and the set keeps what it should: the bound holds.
LEMMA QuietKept ==
    ASSUME WindowTypes, WindowTypes', NEW t \in Nat, Bounded(t),
           InWindow(t)' \subseteq InWindow(t), Reading(t)' \subseteq Reading(t),
           clock' >= clock, SetKeeps(t) => SetKeeps(t)'
    PROVE  Bounded(t)'
<1>1. /\ IsFiniteSet(InWindow(t)) /\ Cardinality(InWindow(t)) \in Nat
      /\ IsFiniteSet(Reading(t)) /\ Cardinality(Reading(t)) \in Nat
  BY WindowsAreFinite
<1>2. /\ Cardinality(InWindow(t)') <= Cardinality(InWindow(t))
      /\ Cardinality(InWindow(t)') \in Nat
      /\ Cardinality(Reading(t)') <= Cardinality(Reading(t))
      /\ Cardinality(Reading(t)') \in Nat
  BY <1>1, FS_Subset, FS_CardinalityType
<1>3. clock \in Nat /\ clock' \in Nat
  BY DEF WindowTypes
<1>4. CASE SetKeeps(t) /\ Cardinality(InWindow(t)) <= limit + Cardinality(Handlers) - 1
  <2>1. Cardinality(InWindow(t)') <= limit + Cardinality(Handlers) - 1
    BY <1>1, <1>2, <1>4, WindowSettings
  <2> QED
    BY <1>4, <2>1 DEF Bounded
<1>5. CASE /\ clock > t
           /\ Cardinality(InWindow(t)) + Cardinality(Reading(t))
                <= limit + 2 * Cardinality(Handlers) - 1
  <2>1. clock' > t
    BY <1>3, <1>5
  <2>2. Cardinality(InWindow(t)') + Cardinality(Reading(t)')
          <= limit + 2 * Cardinality(Handlers) - 1
    BY <1>1, <1>2, <1>5, WindowSettings
  <2> QED
    BY <2>1, <2>2 DEF Bounded
<1> QED
  BY <1>4, <1>5 DEF Bounded

\* Nothing comes into the window, which has ended: the bound holds whatever the
\* set has lost.
LEMMA QuietLost ==
    ASSUME WindowTypes, WindowTypes', NEW t \in Nat, Bounded(t),
           InWindow(t)' \subseteq InWindow(t), Reading(t)' \subseteq Reading(t),
           clock' >= clock, clock' > t
    PROVE  Bounded(t)'
<1>1. /\ IsFiniteSet(InWindow(t)) /\ Cardinality(InWindow(t)) \in Nat
      /\ IsFiniteSet(Reading(t)) /\ Cardinality(Reading(t)) \in Nat
      /\ Cardinality(Reading(t)) <= Cardinality(Handlers)
  BY WindowsAreFinite
<1>2. /\ Cardinality(InWindow(t)') <= Cardinality(InWindow(t))
      /\ Cardinality(InWindow(t)') \in Nat
      /\ Cardinality(Reading(t)') <= Cardinality(Reading(t))
      /\ Cardinality(Reading(t)') \in Nat
  BY <1>1, FS_Subset, FS_CardinalityType
<1>3. \/ Cardinality(InWindow(t)) <= limit + Cardinality(Handlers) - 1
      \/ Cardinality(InWindow(t)) + Cardinality(Reading(t))
            <= limit + 2 * Cardinality(Handlers) - 1
  BY DEF Bounded
<1>4. Cardinality(InWindow(t)') + Cardinality(Reading(t)')
        <= limit + 2 * Cardinality(Handlers) - 1
  BY <1>1, <1>2, <1>3, WindowSettings
<1> QED
  BY <1>4 DEF Bounded

\* A request that is counted shares its window with live members of the set and
\* with what the other handlers add later; or it was one of those awaited.
LEMMA CountBounded ==
    ASSUME WindowInv, NEW h \in Handlers, Window!Count(h), WindowTypes', NEW t \in Nat
    PROVE  Bounded(t)'
<1> DEFINE live == Window!Live(at[h])
           others == {at[g] : g \in Adding}
<1>1. /\ pcCheck[h] = "count" /\ bucket' = live
      /\ pcCheck' = [pcCheck EXCEPT ![h] = "add"]
      /\ UNCHANGED <<clock, expires, at, admitted>>
  BY DEF Window!Count
<1>2. Cardinality(live) + 1 <= limit
  BY <1>1, WindowSizes DEF Window!Count
<1>3. /\ clock \in Nat /\ at[h] \in Nat /\ at[h] <= clock /\ window_seconds \in Nat
      /\ pcCheck \in [Handlers -> {"idle", "count", "add"}]
  BY WindowSettings DEF WindowInv, WindowTypes
<1>4. h \notin Adding /\ Adding' = Adding \cup {h} /\ Adding \subseteq Handlers
  BY <1>1, <1>3 DEF Adding
<1>5. Counted' = Counted \cup {at[h]}
  BY <1>1, <1>4 DEF Counted
<1>6. Reading(t)' = Reading(t) \ {h}
  BY <1>1, <1>3 DEF Reading
<1>7. WindowTypes /\ Bounded(t)
  BY DEF WindowInv
<1>8. Window!Present' = live
  BY <1>1 DEF Window!Present, Window!Live
<1> HIDE DEF live, others
<1>9. CASE at[h] > t
  <2>1. InWindow(t)' \subseteq InWindow(t)
    BY <1>3, <1>5, <1>9 DEF InWindow
  <2>2. clock' > t /\ clock' >= clock
    BY <1>1, <1>3, <1>9
  <2> QED
    BY <1>6, <1>7, <2>1, <2>2, QuietLost
<1>10. CASE at[h] <= t
  <2>1. SetKeeps(t) => SetKeeps(t)'
    <3> SUFFICES ASSUME SetKeeps(t), NEW a \in admitted, a > t - window_seconds, a <= t
                 PROVE  a \in live
      BY <1>1, <1>8 DEF SetKeeps
    <3>1. a \in Window!Present
      BY DEF SetKeeps
    <3>2. a \in Nat
      BY <1>7 DEF WindowTypes
    <3>3. a > at[h] - window_seconds
      BY <1>3, <1>10, <3>2
    <3> QED
      BY <3>1, <3>3 DEF live, Window!Live
  <2>2. /\ IsFiniteSet(InWindow(t)) /\ Cardinality(InWindow(t)) \in Nat
        /\ IsFiniteSet(Reading(t)) /\ Cardinality(Reading(t)) \in Nat
    BY <1>7, WindowsAreFinite
  <2>3. CASE /\ clock > t
             /\ Cardinality(InWindow(t)) + Cardinality(Reading(t))
                  <= limit + 2 * Cardinality(Handlers) - 1
    <3>1. h \in Reading(t)
      BY <1>1, <1>10 DEF Reading
    <3>2. Cardinality(Reading(t) \ {h}) = Cardinality(Reading(t)) - 1
      BY <2>2, <3>1, FS_RemoveElement
    <3>3. InWindow(t)' \subseteq InWindow(t) \cup {at[h]}
      BY <1>5 DEF InWindow
    <3>4. IsFiniteSet(InWindow(t) \cup {at[h]})
          /\ Cardinality(InWindow(t) \cup {at[h]}) <= Cardinality(InWindow(t)) + 1
          /\ Cardinality(InWindow(t) \cup {at[h]}) \in Nat
      <4>1. IsFiniteSet({at[h]}) /\ Cardinality({at[h]}) = 1
        BY FS_Singleton
      <4> QED
        BY <2>2, <4>1, UnionIsSmall
    <3>5. Cardinality(InWindow(t)') <= Cardinality(InWindow(t) \cup {at[h]})
          /\ Cardinality(InWindow(t)') \in Nat
      BY <3>3, <3>4, FS_Subset, FS_CardinalityType
    <3>6. Cardinality(InWindow(t)') + Cardinality(Reading(t)')
            <= limit + 2 * Cardinality(Handlers) - 1
      BY <1>6, <2>2, <2>3, <3>2, <3>4, <3>5, WindowSettings
    <3> QED
      BY <1>1, <2>3, <3>6 DEF Bounded
  <2>4. CASE SetKeeps(t) /\ Cardinality(InWindow(t)) <= limit + Cardinality(Handlers) - 1
    <3>1. CASE at[h] <= t - window_seconds
      <4>1. InWindow(t)' \subseteq InWindow(t)
        BY <1>3, <1>5, <3>1 DEF InWindow
      <4>2. clock' >= clock /\ Reading(t)' \subseteq Reading(t)
        BY <1>1, <1>3, <1>6
      <4> QED
        BY <1>7, <2>1, <4>1, <4>2, QuietKept
    <3>2. InWindow(t)' \subseteq (live \cup others) \cup {at[h]}
      <4>1. ASSUME NEW a \in InWindow(t)', a # at[h], a \in admitted
            PROVE  a \in live
        <5>1. a > t - window_seconds /\ a <= t
          BY <4>1 DEF InWindow
        <5> QED
          BY <1>1, <1>8, <2>1, <2>4, <4>1, <5>1 DEF SetKeeps
      <4>2. ASSUME NEW a \in InWindow(t)', a # at[h], a \notin admitted
            PROVE  a \in others
        BY <1>5, <4>2 DEF InWindow, Counted, others
      <4> QED
        BY <4>1, <4>2
    <3>3. IsFiniteSet(live) /\ Cardinality(live) \in Nat
      <4>1. \A b \in bucket : b \in 0 .. clock
        BY <1>3, <1>7 DEF WindowTypes
      <4>2. live \subseteq 0 .. clock
        BY <4>1 DEF live, Window!Live, Window!Present
      <4> QED
        BY <1>3, <4>2, BoundedIsFinite
    <3>4. IsFiniteSet(others) /\ Cardinality(others) \in Nat
          /\ Cardinality(others) <= Cardinality(Handlers) - 1
      <4>1. Adding \subseteq Handlers \ {h}
        BY <1>4
      <4>2. IsFiniteSet(Adding) /\ Cardinality(Adding) \in Nat
            /\ Cardinality(Adding) <= Cardinality(Handlers) - 1
        BY <4>1, OthersAreFewer
      <4>3. IsFiniteSet(others) /\ Cardinality(others) <= Cardinality(Adding)
        BY <4>2, ValuesAreFewer DEF others
      <4>4. Cardinality(others) \in Nat
        BY <4>3, FS_CardinalityType
      <4> QED
        BY <4>2, <4>3, <4>4, WindowSettings
    <3> DEFINE both == live \cup others
               all == both \cup {at[h]}
    <3>5. IsFiniteSet(both) /\ Cardinality(both) \in Nat
          /\ Cardinality(both) <= Cardinality(live) + Cardinality(others)
      BY <3>3, <3>4, UnionIsSmall
    <3> HIDE DEF both
    <3>6. IsFiniteSet(all) /\ Cardinality(all) \in Nat
          /\ Cardinality(all) <= Cardinality(both) + 1
      <4>1. IsFiniteSet({at[h]}) /\ Cardinality({at[h]}) = 1
        BY FS_Singleton
      <4> QED
        BY <3>5, <4>1, UnionIsSmall
    <3> HIDE DEF all
    <3>7. Cardinality(InWindow(t)') <= Cardinality(all) /\ Cardinality(InWindow(t)') \in Nat
      BY <3>2, <3>6, FS_Subset, FS_CardinalityType DEF all, both
    <3>8. Cardinality(InWindow(t)') <= limit + Cardinality(Handlers) - 1
      BY <1>2, <3>3, <3>4, <3>5, <3>6, <3>7, WindowSettings
    <3> QED
      BY <2>1, <2>4, <3>8 DEF Bounded
  <2> QED
    BY <1>7, <2>3, <2>4 DEF Bounded
<1> QED
  BY <1>3, <1>9, <1>10

\* When the clock goes on, the set loses what it should count only by expiring,
\* after the windows that it belongs to.
LEMMA ClockBounded ==
    ASSUME WindowInv, WindowTypes', clock' >= clock, UNCHANGED <<bucket, expires, admitted>>,
           NEW t \in Nat, InWindow(t)' \subseteq InWindow(t),
           Reading(t)' \subseteq Reading(t)
    PROVE  Bounded(t)'
<1>1. WindowTypes /\ Bounded(t) /\ clock \in Nat /\ clock' \in Nat /\ expires \in Nat
  BY DEF WindowInv, WindowTypes
<1>2. CASE SetKeeps(t) => SetKeeps(t)'
  BY <1>1, <1>2, QuietKept
<1>3. CASE SetKeeps(t) /\ ~SetKeeps(t)'
  <2>1. PICK a \in admitted : a > t - window_seconds /\ a <= t /\ a \notin Window!Present'
    BY <1>3 DEF SetKeeps
  <2>2. a \in Window!Present
    BY <1>3, <2>1 DEF SetKeeps
  <2>3. a \in bucket /\ ~(clock' < expires)
    BY <2>1, <2>2 DEF Window!Present
  <2>4. a \in Nat /\ a + window_seconds < expires
    BY <1>1, <2>3 DEF WindowTypes
  <2>5. clock' > t
    BY <1>1, <2>1, <2>3, <2>4, WindowSettings
  <2> QED
    BY <1>1, <2>5, QuietLost
<1> QED
  BY <1>2, <1>3

\* A step of the limiter, or of the others, preserves the types.
LEMMA WindowTyped ==
    ASSUME WindowTypes, Window!Next \/ UNCHANGED windowVars
    PROVE  WindowTypes' /\ clock' >= clock
<1>1. /\ clock \in Nat /\ expires \in Nat /\ window_seconds \in Nat
      /\ pcCheck \in [Handlers -> {"idle", "count", "add"}] /\ at \in [Handlers -> Nat]
  BY WindowSettings DEF WindowTypes
<1>2. \A S \in SUBSET bucket : \A b \in S : b \in Nat /\ b <= clock /\ b + window_seconds < expires
  BY DEF WindowTypes
<1>3. CASE UNCHANGED windowVars
  BY <1>1, <1>3 DEF windowVars, WindowTypes
<1>4. CASE Window!Tick
  <2>1. clock' = clock + 1 /\ UNCHANGED <<bucket, expires, pcCheck, at, admitted>>
    BY <1>4 DEF Window!Tick
  <2> QED
    BY <1>1, <2>1 DEF WindowTypes
<1>5. ASSUME NEW h \in Handlers, Window!Arrive(h)
      PROVE  WindowTypes' /\ clock' >= clock
  <2>1. /\ clock' = clock + 1 /\ UNCHANGED <<bucket, expires, admitted>>
        /\ pcCheck' = [pcCheck EXCEPT ![h] = "count"] /\ at' = [at EXCEPT ![h] = clock']
    BY <1>5 DEF Window!Arrive
  <2>2. clock' \in Nat /\ clock' >= clock /\ clock <= clock'
    BY <1>1, <2>1
  <2>3. pcCheck' \in [Handlers -> {"idle", "count", "add"}] /\ at' \in [Handlers -> Nat]
    BY <1>1, <2>1, <2>2
  <2>4. \A g \in Handlers : at'[g] = at[g] \/ at'[g] = clock'
    BY <1>1, <2>1
  <2>5. \A g \in Handlers : at'[g] <= clock'
    BY <1>1, <2>2, <2>4 DEF WindowTypes
  <2> QED
    BY <1>1, <2>1, <2>2, <2>3, <2>5 DEF WindowTypes
<1>6. ASSUME bucket' \subseteq bucket, UNCHANGED <<clock, expires, at, admitted>>,
             pcCheck' \in [Handlers -> {"idle", "count", "add"}]
      PROVE  WindowTypes' /\ clock' >= clock
  BY <1>1, <1>2, <1>6 DEF WindowTypes
<1>7. ASSUME NEW h \in Handlers, Window!Refuse(h) \/ Window!Count(h)
      PROVE  WindowTypes' /\ clock' >= clock
  <2>1. /\ bucket' \subseteq bucket /\ UNCHANGED <<clock, expires, at, admitted>>
        /\ pcCheck' = [pcCheck EXCEPT ![h] = "idle"] \/ pcCheck' = [pcCheck EXCEPT ![h] = "add"]
    BY <1>7 DEF Window!Refuse, Window!Count, Window!Live, Window!Present
  <2>2. pcCheck' \in [Handlers -> {"idle", "count", "add"}]
    BY <1>1, <2>1
  <2> QED
    BY <1>6, <2>1, <2>2
<1>8. ASSUME NEW h \in Handlers, Window!Extend(h), UNCHANGED <<clock, at>>,
             pcCheck' = [pcCheck EXCEPT ![h] = "idle"], admitted' \subseteq admitted \cup {at[h]}
      PROVE  WindowTypes' /\ clock' >= clock
  <2>1. bucket' \subseteq bucket \cup {at[h]} /\ expires' = clock + window_seconds + 1
    BY <1>8 DEF Window!Extend, Window!Present
  <2>2. at[h] \in Nat /\ at[h] <= clock
    BY <1>1 DEF WindowTypes
  <2>3. \A b \in bucket \cup {at[h]} : b \in Nat /\ b <= clock
    BY <2>2 DEF WindowTypes
  <2>4. ASSUME NEW b \in bucket'
        PROVE  b \in Nat /\ b <= clock' /\ b + window_seconds < expires'
    <3>1. b \in Nat /\ b <= clock
      BY <2>1, <2>3
    <3> QED
      BY <1>1, <1>8, <2>1, <3>1
  <2>5. \A a \in admitted' : a \in Nat /\ a <= clock'
    BY <1>8, <2>2 DEF WindowTypes
  <2>6. /\ clock' \in Nat /\ clock' >= clock /\ expires' \in Nat
        /\ expires' <= clock' + window_seconds + 1
    BY <1>1, <1>8, <2>1
  <2>7. pcCheck' \in [Handlers -> {"idle", "count", "add"}] /\ at' \in [Handlers -> Nat]
        /\ \A g \in Handlers : at'[g] <= clock'
    BY <1>1, <1>8 DEF WindowTypes
  <2> QED
    BY <2>4, <2>5, <2>6, <2>7 DEF WindowTypes
<1>9. ASSUME NEW h \in Handlers, Window!Add(h)
      PROVE  WindowTypes' /\ clock' >= clock
  BY <1>8, <1>9 DEF Window!Add
<1>10. ASSUME NEW h \in Handlers, Window!FallsOpen(h)
       PROVE  WindowTypes' /\ clock' >= clock
  <2>1. /\ UNCHANGED <<clock, at, admitted>> /\ pcCheck' = [pcCheck EXCEPT ![h] = "idle"]
        /\ Window!Extend(h) \/ (bucket' \subseteq bucket /\ UNCHANGED expires)
    BY <1>10 DEF Window!FallsOpen, Window!Live, Window!Present
  <2>2. pcCheck' \in [Handlers -> {"idle", "count", "add"}]
    BY <1>1, <2>1
  <2> QED
    BY <1>6, <1>8, <2>1, <2>2
<1> QED
  BY <1>3, <1>4, <1>5, <1>7, <1>9, <1>10 DEF Window!Next

\* It preserves the bound of every window.
LEMMA WindowStep ==
    ASSUME WindowInv, Window!Next \/ UNCHANGED windowVars
    PROVE  WindowInv'
<1>1. WindowTypes /\ WindowTypes' /\ clock' >= clock
  BY WindowTyped DEF WindowInv
<1>2. /\ clock \in Nat /\ clock' \in Nat /\ expires \in Nat /\ window_seconds \in Nat
      /\ pcCheck \in [Handlers -> {"idle", "count", "add"}] /\ at \in [Handlers -> Nat]
  BY <1>1, WindowSettings DEF WindowTypes
<1> SUFFICES ASSUME NEW t \in Nat PROVE Bounded(t)'
  BY <1>1 DEF WindowInv
<1>3. Bounded(t)
  BY DEF WindowInv
<1>4. CASE UNCHANGED windowVars
  <2>1. Counted' = Counted /\ Reading(t)' = Reading(t)
    BY <1>4 DEF windowVars, Counted, Adding, Reading
  <2>2. InWindow(t)' = InWindow(t)
    BY <2>1 DEF InWindow
  <2> QED
    BY <1>1, <1>4, <2>1, <2>2, ClockBounded DEF windowVars
<1>5. CASE Window!Tick
  <2>1. UNCHANGED <<bucket, expires, pcCheck, at, admitted>>
    BY <1>5 DEF Window!Tick
  <2>2. Counted' = Counted /\ Reading(t)' = Reading(t)
    BY <2>1 DEF Counted, Adding, Reading
  <2>3. InWindow(t)' = InWindow(t)
    BY <2>2 DEF InWindow
  <2> QED
    BY <1>1, <2>1, <2>2, <2>3, ClockBounded
<1>6. ASSUME NEW h \in Handlers, Window!Arrive(h)
      PROVE  Bounded(t)'
  <2>1. /\ pcCheck[h] = "idle" /\ clock' = clock + 1 /\ UNCHANGED <<bucket, expires, admitted>>
        /\ pcCheck' = [pcCheck EXCEPT ![h] = "count"] /\ at' = [at EXCEPT ![h] = clock']
    BY <1>6 DEF Window!Arrive
  <2>2. Adding' = Adding /\ \A g \in Adding : at'[g] = at[g]
    BY <1>2, <2>1 DEF Adding
  <2>3. Counted' = Counted
    BY <2>1, <2>2 DEF Counted
  <2>4. InWindow(t)' = InWindow(t)
    BY <2>3 DEF InWindow
  <2>5. Reading(t)' \subseteq Reading(t) \cup {h}
    BY <1>2, <2>1 DEF Reading
  <2>6. CASE clock' > t
    <3>1. Reading(t)' \subseteq Reading(t)
      BY <1>2, <2>1, <2>5, <2>6 DEF Reading
    <3> QED
      BY <1>1, <2>1, <2>4, <3>1, ClockBounded
  <2>7. CASE clock' <= t
    <3>1. SetKeeps(t)
      BY <1>2, <1>3, <2>1, <2>7 DEF Bounded
    <3>2. Cardinality(InWindow(t)) <= limit + Cardinality(Handlers) - 1
      BY <1>2, <1>3, <2>1, <2>7 DEF Bounded
    <3>3. SetKeeps(t)'
      <4> SUFFICES ASSUME NEW a \in admitted, a > t - window_seconds, a <= t
                   PROVE  a \in Window!Present'
        BY <2>1 DEF SetKeeps
      <4>1. a \in bucket
        BY <3>1 DEF SetKeeps, Window!Present
      <4>2. a \in Nat /\ a + window_seconds < expires
        BY <1>1, <4>1 DEF WindowTypes
      <4>3. clock' < expires
        BY <1>2, <2>7, <4>2
      <4> QED
        BY <2>1, <4>1, <4>3 DEF Window!Present
    <3> QED
      BY <2>4, <3>2, <3>3 DEF Bounded
  <2> QED
    BY <1>2, <2>6, <2>7
<1>7. ASSUME NEW h \in Handlers, pcCheck[h] = "count", pcCheck' = [pcCheck EXCEPT ![h] = "idle"],
             UNCHANGED <<clock, expires, at, admitted>>, bucket' \in {bucket, Window!Live(at[h])}
      PROVE  Bounded(t)'
  <2>1. Adding' = Adding /\ Reading(t)' \subseteq Reading(t)
    BY <1>2, <1>7 DEF Adding, Reading
  <2>2. Counted' = Counted
    BY <1>7, <2>1 DEF Counted
  <2>3. InWindow(t)' \subseteq InWindow(t)
    BY <2>2 DEF InWindow
  <2>4. at[h] \in Nat /\ at[h] <= clock
    BY <1>1, <1>2 DEF WindowTypes
  <2>5. CASE at[h] > t
    <3>1. clock' > t
      BY <1>2, <1>7, <2>4, <2>5
    <3> QED
      BY <1>1, <1>3, <2>1, <2>3, <3>1, QuietLost
  <2>6. CASE at[h] <= t
    <3>1. SetKeeps(t) => SetKeeps(t)'
      <4> SUFFICES ASSUME SetKeeps(t), NEW a \in admitted, a > t - window_seconds, a <= t
                   PROVE  a \in Window!Present'
        BY <1>7 DEF SetKeeps
      <4>1. a \in Window!Present /\ a \in Nat
        BY <1>1 DEF SetKeeps, WindowTypes
      <4>2. a > at[h] - window_seconds
        BY <1>2, <2>4, <2>6, <4>1
      <4>3. a \in bucket'
        BY <1>7, <4>1, <4>2 DEF Window!Live, Window!Present
      <4> QED
        BY <1>7, <4>1, <4>3 DEF Window!Present
    <3> QED
      BY <1>1, <1>3, <2>1, <2>3, <3>1, QuietKept
  <2> QED
    BY <1>2, <2>4, <2>5, <2>6
<1>8. ASSUME NEW h \in Handlers, Window!Refuse(h)
      PROVE  Bounded(t)'
  BY <1>7, <1>8 DEF Window!Refuse
<1>9. ASSUME NEW h \in Handlers, pcCheck[h] = "add", pcCheck' = [pcCheck EXCEPT ![h] = "idle"],
             UNCHANGED <<clock, at>>,
             \/ Window!Extend(h) /\ admitted' \subseteq admitted \cup {at[h]}
             \/ UNCHANGED <<bucket, expires, admitted>>
      PROVE  Bounded(t)'
  <2>1. h \in Adding /\ Adding' \subseteq Adding /\ Reading(t)' \subseteq Reading(t)
    BY <1>2, <1>9 DEF Adding, Reading
  <2>2. Counted' \subseteq Counted
    <3>1. admitted' \subseteq admitted \cup {at[h]}
      BY <1>9
    <3> QED
      BY <1>9, <2>1, <3>1 DEF Counted
  <2>3. InWindow(t)' \subseteq InWindow(t)
    BY <2>2 DEF InWindow
  <2>4. SetKeeps(t) => SetKeeps(t)'
    <3>1. CASE Window!Extend(h) /\ admitted' \subseteq admitted \cup {at[h]}
      <4>1. bucket' = Window!Present \cup {at[h]} /\ clock' < expires'
        BY <1>2, <1>9, <3>1 DEF Window!Extend
      <4>2. Window!Present' = Window!Present \cup {at[h]}
        BY <4>1 DEF Window!Present
      <4> QED
        BY <3>1, <4>2 DEF SetKeeps
    <3>2. CASE UNCHANGED <<bucket, expires, admitted>>
      BY <1>9, <3>2 DEF SetKeeps, Window!Present
    <3> QED
      BY <1>9, <3>1, <3>2
  <2> QED
    BY <1>1, <1>3, <2>1, <2>3, <2>4, QuietKept
<1>10. ASSUME NEW h \in Handlers, Window!Add(h)
       PROVE  Bounded(t)'
  BY <1>9, <1>10 DEF Window!Add
<1>11. ASSUME NEW h \in Handlers, Window!FallsOpen(h)
       PROVE  Bounded(t)'
  BY <1>7, <1>9, <1>11 DEF Window!FallsOpen
<1>12. ASSUME NEW h \in Handlers, Window!Count(h)
       PROVE  Bounded(t)'
  BY <1>1, <1>12, CountBounded
<1> QED
  BY <1>4, <1>5, <1>6, <1>8, <1>10, <1>11, <1>12 DEF Window!Next

\* It holds in every reachable state.
LEMMA AlwaysWindow == Spec => []WindowInv
<1>1. Init => WindowInv
  <2> SUFFICES ASSUME Window!Init PROVE WindowInv
    BY DEF Init
  <2>1. Adding = {} /\ Counted = {}
    BY DEF Window!Init, Adding, Counted
  <2>2. ASSUME NEW t \in Nat
        PROVE  Bounded(t)
    <3>1. InWindow(t) = {} /\ SetKeeps(t)
      BY <2>1 DEF InWindow, SetKeeps, Window!Init
    <3>2. Cardinality(InWindow(t)) <= limit + Cardinality(Handlers) - 1
      BY <3>1, WindowSettings, FS_EmptySet
    <3> QED
      BY <3>1, <3>2 DEF Bounded
  <2> QED
    BY <2>2, WindowSettings DEF WindowInv, WindowTypes, Window!Init
<1>2. WindowInv /\ [Next]_vars => WindowInv'
  <2>1. ASSUME [Next]_vars
        PROVE  Window!Next \/ UNCHANGED windowVars
    BY <2>1 DEF Next, OfReviews, OfItems, OfPolicies, OfDocuments, OfChat, OfWindow, OfKeys,
                vars, accessVars
  <2> QED
    BY <2>1, WindowStep
<1> QED
  BY <1>1, <1>2, PTL DEF Spec

\* No window has more of the counted requests than the limit, as many more as can
\* be counted before others add, and as many as can wait until what they should
\* count is gone, for any limit, length and number of handlers.
THEOREM WindowStaysBounded == Spec => []WindowIsBounded
<1>1. WindowInv => WindowIsBounded
  <2> SUFFICES ASSUME WindowInv, NEW t \in 0 .. MaxWindowTime
               PROVE  Cardinality({a \in admitted : a > t - window_seconds /\ a <= t})
                        <= limit + (2 * Cardinality(Handlers) - 1)
    BY WindowSizes DEF WindowIsBounded, Window!WindowIsBounded, Window!Times, Window!Excess
  <2> DEFINE W == {a \in admitted : a > t - window_seconds /\ a <= t}
  <2>1. t \in Nat /\ W \subseteq InWindow(t)
    BY DEF InWindow, Counted
  <2>2. /\ IsFiniteSet(InWindow(t)) /\ Cardinality(InWindow(t)) \in Nat
        /\ Cardinality(Reading(t)) \in Nat
    BY <2>1, WindowsAreFinite DEF WindowInv
  <2>3. Cardinality(W) <= Cardinality(InWindow(t)) /\ Cardinality(W) \in Nat
    BY <2>1, <2>2, FS_Subset, FS_CardinalityType
  <2>4. Bounded(t)
    BY <2>1 DEF WindowInv
  <2>5. \/ Cardinality(InWindow(t)) <= limit + Cardinality(Handlers) - 1
        \/ Cardinality(InWindow(t)) + Cardinality(Reading(t))
              <= limit + 2 * Cardinality(Handlers) - 1
    BY <2>4 DEF Bounded
  <2> HIDE DEF W
  <2>6. Cardinality(W) <= limit + (2 * Cardinality(Handlers) - 1)
    BY <2>2, <2>3, <2>5, WindowSettings
  <2> QED
    BY <2>6 DEF W
<1> QED
  BY <1>1, AlwaysWindow, PTL

-----------------------------------------------------------------------------
(* Findings and their reviews, for any findings and reviewers, in whichever *)
(* part of the instance they are reviewed.                                  *)

ReviewersHere == IF part = "items" THEN OneReviewer ELSE Reviewers
AskedHere == IF part = "reviews" THEN MCDecisions ELSE MCOverrides
MostReviews == IF part = "reviews" THEN MaxReviews ELSE 1

ReviewRow ==
    [finding : Findings, previous_severity : Reviews!Severities,
     new_severity : Reviews!Severities \cup {None},
     previous_status : Reviews!Statuses, new_status : Reviews!Statuses,
     created_at : 0 .. MostReviews, committed : 0 .. MostReviews]

OpenReview ==
    [finding : Findings, decision : AskedHere, created_at : 0 .. MostReviews,
     read : Reviews!Finding \cup {None}]

ReviewTypes ==
    /\ findings \in [Findings -> Reviews!Finding]
    /\ reviews \in Seq(ReviewRow)
    /\ reviewing \in [ReviewersHere -> OpenReview \cup {None}]
    /\ begun \in 0 .. MostReviews
    /\ part = "chat" => \A r \in ReviewersHere \ OneReviewer : reviewing[r] = None

\* A review that holds a finding has read what it says, and holds it alone.
ReviewsHold ==
    \A r \in ReviewersHere : Reviews!Holding(r) =>
        /\ reviewing[r].read = findings[reviewing[r].finding]
        /\ \A s \in ReviewersHere \ {r} :
             Reviews!Holding(s) => reviewing[s].finding # reviewing[r].finding

\* Reviews are dated by when they began, each by a moment of its own, and stored
\* in the order of their commits.
ReviewsAreDated ==
    /\ \A i \in DOMAIN reviews :
         /\ reviews[i].created_at <= reviews[i].committed
         /\ reviews[i].committed <= begun
    /\ \A i, j \in DOMAIN reviews : i < j =>
         /\ reviews[i].committed <= reviews[j].committed
         /\ reviews[i].created_at # reviews[j].created_at
    /\ \A r \in ReviewersHere : reviewing[r] # None =>
         /\ reviewing[r].created_at <= begun
         /\ \A i \in DOMAIN reviews : reviews[i].created_at # reviewing[r].created_at
         /\ \A s \in ReviewersHere \ {r} :
              reviewing[s] # None => reviewing[s].created_at # reviewing[r].created_at

ReviewInv == ReviewTypes /\ ReviewsHold /\ ReviewsAreDated

\* What the constants are.
LEMMA RecordSettings ==
    /\ MCMachine \in [Findings -> Reviews!Severities]
    /\ MCDecisions \subseteq [action : Reviews!Actions, severity : Reviews!Severities \cup {None}]
    /\ MCOverrides \subseteq MCDecisions
    /\ None \notin Reviews!Severities
    /\ OneReviewer \subseteq Reviewers /\ MCLow \in Findings
    /\ MaxReviews \in Nat
<1>1. /\ MCMachine \in [Findings -> Reviews!Severities]
      /\ MCDecisions \subseteq [action : Reviews!Actions, severity : Reviews!Severities \cup {None}]
      /\ None \notin Reviews!Severities /\ MaxReviews \in Nat
      /\ Findings # {} /\ Reviewers # {}
  BY ConstantsAreSensible, Zenon DEF Reviews!ReviewsAssumption
<1>2. OneReviewer \subseteq Reviewers /\ MCLow \in Findings
  BY <1>1, Zenon DEF OneReviewer, MCLow
<1>3. MCOverrides \subseteq MCDecisions
  BY DEF MCDecisions, MCOverrides
<1> QED
  BY <1>1, <1>2, <1>3

\* A review begins.
Begins(r) ==
    \E f \in Findings, d \in AskedHere :
        /\ reviewing[r] = None
        /\ begun < MostReviews
        /\ begun' = begun + 1
        /\ reviewing' = [reviewing EXCEPT ![r] =
                            [finding |-> f, decision |-> d, created_at |-> begun', read |-> None]]
        /\ UNCHANGED <<findings, reviews>>

\* A review gets its finding.
Locks(r) ==
    /\ Reviews!Waiting(r)
    /\ \A s \in ReviewersHere :
         Reviews!Holding(s) => reviewing[s].finding # reviewing[r].finding
    /\ reviewing' = [reviewing EXCEPT ![r].read = findings[reviewing[r].finding]]
    /\ UNCHANGED <<findings, reviews, begun>>

ReviewStep(r) ==
    /\ part = "chat" => r \in OneReviewer
    /\ Begins(r) \/ Locks(r) \/ Reviews!WriteReview(r) \/ Reviews!ReviewAborted(r)

\* Findings change by the steps of reviews, in whichever part.
LEMMA OnlyReviews ==
    ASSUME ReviewInv, [Next]_vars
    PROVE  part' = part /\ (UNCHANGED reviewVars \/ \E r \in ReviewersHere : ReviewStep(r))
<1>1. CASE OfReviews(Reviews!Next)
  <2>1. part = "reviews" /\ part' = part
    BY <1>1 DEF OfReviews
  <2>2. ReviewersHere = Reviewers /\ AskedHere = MCDecisions /\ MostReviews = MaxReviews
    BY <2>1 DEF ReviewersHere, AskedHere, MostReviews
  <2>3. PICK r \in Reviewers :
          \/ \E f \in Findings, d \in MCDecisions : Reviews!BeginReview(r, f, d)
          \/ Reviews!LockFinding(r)
          \/ Reviews!WriteReview(r)
          \/ Reviews!ReviewAborted(r)
    BY <1>1 DEF OfReviews, Reviews!Next
  <2>4. ReviewStep(r)
    BY <2>1, <2>2, <2>3, Zenon DEF ReviewStep, Begins, Locks, Reviews!BeginReview,
       Reviews!LockFinding, Reviews!FindingLocked
  <2> QED
    BY <2>1, <2>2, <2>4
<1>2. CASE OfItems(Items!Next)
  <2>1. part = "items" /\ part' = part
    BY <1>2 DEF OfItems
  <2>2. ReviewersHere = OneReviewer /\ AskedHere = MCOverrides /\ MostReviews = 1
    BY <2>1 DEF ReviewersHere, AskedHere, MostReviews
  <2>3. CASE \E r \in OneReviewer : Items!ReviewBegins(r) \/ Items!ReviewEnds(r)
    <3>1. PICK r \in OneReviewer :
            \/ \E f \in Findings, d \in MCOverrides : Items!Reviewing!BeginReview(r, f, d)
            \/ Items!Reviewing!LockFinding(r)
            \/ Items!Reviewing!WriteReview(r)
            \/ Items!Reviewing!ReviewAborted(r)
      BY <2>3, Zenon DEF Items!ReviewBegins, Items!ReviewEnds
    <3>2. ReviewStep(r)
      BY <2>1, <2>2, <3>1, Zenon DEF ReviewStep, Begins, Locks, Items!Reviewing!BeginReview,
         Items!Reviewing!LockFinding, Items!Reviewing!FindingLocked, Items!Reviewing!Waiting,
         Items!Reviewing!Holding, Reviews!Waiting, Reviews!Holding,
         Items!Reviewing!WriteReview, Reviews!WriteReview, Items!Reviewing!ReviewAborted,
         Reviews!ReviewAborted, Items!Reviewing!StatusAfter, Reviews!StatusAfter,
         Items!Reviewing!Effective, Reviews!Effective
    <3> QED
      BY <2>1, <2>2, <3>2
  <2>4. CASE \E g \in Generators : Items!Generate(g)
    BY <2>1, <2>4 DEF Items!Generate, Items!ReadFindings, Items!InsertItem, Items!CommitItems,
       Items!DeadlockFound, Items!GenerationAborted, Items!RollBack, reviewVars
  <2>5. CASE \E e \in Editors : Items!Edit(e)
    BY <2>1, <2>5 DEF Items!Edit, Items!LockItem, Items!WriteEdit, Items!EditAborted, reviewVars
  <2> QED
    BY <1>2, <2>3, <2>4, <2>5 DEF OfItems, Items!Next
<1>3. CASE OfChat
  <2>1. part = "chat" /\ part' = part
    BY <1>3 DEF OfChat
  <2>2. ReviewersHere = Reviewers /\ AskedHere = MCOverrides /\ MostReviews = 1
    BY <2>1 DEF ReviewersHere, AskedHere, MostReviews
  <2>3. CASE Raising
    <3>1. PICK r \in OneReviewer :
            \/ \E d \in MCOverrides : OneReview!BeginReview(r, MCLow, d)
            \/ OneReview!LockFinding(r)
            \/ OneReview!WriteReview(r)
      BY <2>3 DEF Raising
    <3>2. \A s \in ReviewersHere : Reviews!Holding(s) => s \in OneReviewer
      BY <2>1 DEF ReviewInv, ReviewTypes, Reviews!Holding
    <3>3. ReviewStep(r)
      <4>1. MCLow \in Findings
        BY RecordSettings
      <4> QED
      BY <2>2, <3>1, <3>2, <4>1, Zenon DEF ReviewStep, Begins, Locks, OneReview!BeginReview,
         OneReview!LockFinding, OneReview!FindingLocked, OneReview!Waiting,
         OneReview!Holding, Reviews!Waiting, Reviews!Holding,
         OneReview!WriteReview, Reviews!WriteReview, OneReview!StatusAfter,
         Reviews!StatusAfter, OneReview!Effective, Reviews!Effective
    <3> QED
      BY <2>1, <2>2, <3>1, <3>3, RecordSettings
  <2> QED
    BY <1>3, <2>1, <2>3 DEF OfChat
<1>4. CASE OfPolicies(Library!Next) \/ OfDocuments(Uploads!Next) \/ OfWindow(Window!Next)
           \/ OfKeys(Keys!Next) \/ UNCHANGED vars
  BY <1>4 DEF OfPolicies, OfDocuments, OfWindow, OfKeys, vars, recordVars
<1> QED
  BY <1>1, <1>2, <1>3, <1>4 DEF Next

\* Nobody reviews at first.
LEMMA ReviewsInit == Init => ReviewInv
<1> SUFFICES ASSUME Init PROVE ReviewInv
  OBVIOUS
<1>1. /\ findings = [f \in Findings |-> [override |-> None, status |-> "pending"]]
      /\ reviews = <<>> /\ begun = 0
      /\ reviewing = [r \in ReviewersHere |-> None]
  <2>1. CASE part = "items"
    BY <2>1 DEF Init, Items!Init, Items!Reviewing!Init, ReviewersHere
  <2>2. CASE part # "items"
    BY <2>2 DEF Init, Reviews!Init, ReviewersHere
  <2> QED
    BY <2>1, <2>2
<1>2. MostReviews \in Nat
  BY RecordSettings DEF MostReviews
<1>3. [override |-> None, status |-> "pending"] \in Reviews!Finding
  BY Zenon DEF Reviews!Finding, Reviews!Statuses
<1>4. findings \in [Findings -> Reviews!Finding]
  BY <1>1, <1>3
<1>5. ReviewTypes
  BY <1>1, <1>2, <1>4 DEF ReviewTypes
<1>6. ReviewsHold
  BY <1>1 DEF ReviewsHold, Reviews!Holding
<1>7. ReviewsAreDated
  BY <1>1 DEF ReviewsAreDated
<1> QED
  BY <1>5, <1>6, <1>7 DEF ReviewInv

\* What is written is a decision and the row of it.
LEMMA Written ==
    ASSUME ReviewInv, NEW r \in ReviewersHere, Reviews!WriteReview(r)
    PROVE  \E f \in Findings, new \in Reviews!Finding, row \in ReviewRow :
             /\ f = reviewing[r].finding
             /\ findings' = [findings EXCEPT ![f] = new]
             /\ reviews' = Append(reviews, row)
             /\ reviewing' = [reviewing EXCEPT ![r] = None]
             /\ begun' = begun
             /\ row.finding = f
             /\ row.previous_severity = Reviews!Effective(f, findings[f])
             /\ row.previous_status = findings[f].status
             /\ row.new_status = new.status
             /\ new.override = IF row.new_severity = None THEN findings[f].override
                               ELSE row.new_severity
             /\ row.created_at = reviewing[r].created_at
             /\ row.committed = begun
<1> DEFINE t == reviewing[r]
           f == t.finding
           status == Reviews!StatusAfter(t.decision.action, t.read.status)
           new == [override |-> IF t.decision.severity = None THEN findings[f].override
                                ELSE t.decision.severity,
                   status   |-> status]
           row == [finding           |-> f,
                   previous_severity |-> Reviews!Effective(f, t.read),
                   new_severity      |-> t.decision.severity,
                   previous_status   |-> t.read.status,
                   new_status        |-> status,
                   created_at        |-> t.created_at,
                   committed         |-> begun]
<1>1. t \in OpenReview /\ t.read \in Reviews!Finding /\ t.read = findings[f]
  BY DEF ReviewInv, ReviewTypes, ReviewsHold, Reviews!WriteReview, Reviews!Holding, OpenReview
<1>2. f \in Findings /\ findings[f] \in Reviews!Finding /\ t.created_at \in 0 .. MostReviews
      /\ t.decision \in MCDecisions
  <2>1. t.decision \in AskedHere /\ AskedHere \subseteq MCDecisions
    BY <1>1, RecordSettings DEF OpenReview, AskedHere
  <2> QED
    BY <1>1, <2>1 DEF OpenReview, ReviewInv, ReviewTypes
<1>3. t.decision.severity \in Reviews!Severities \cup {None}
  BY <1>2, RecordSettings
<1>4. status \in Reviews!Statuses
  <2>1. t.read.status \in Reviews!Statuses
    BY <1>1 DEF Reviews!Finding
  <2> QED
    BY <2>1, Zenon DEF Reviews!StatusAfter, Reviews!Statuses
<1>5. Reviews!Effective(f, t.read) \in Reviews!Severities
  BY <1>1, <1>2, RecordSettings DEF Reviews!Effective, Reviews!Finding
<1>6. new \in Reviews!Finding
  BY <1>2, <1>3, <1>4 DEF Reviews!Finding
<1>7. row \in ReviewRow
  <2>1. begun \in 0 .. MostReviews /\ t.read.status \in Reviews!Statuses
    BY <1>1 DEF ReviewInv, ReviewTypes, Reviews!Finding
  <2> HIDE DEF status
  <2> QED
    BY <1>2, <1>3, <1>4, <1>5, <2>1 DEF ReviewRow
<1>8. /\ findings' = [findings EXCEPT ![f] = new]
      /\ reviews' = Append(reviews, row)
      /\ reviewing' = [reviewing EXCEPT ![r] = None]
      /\ begun' = begun
  BY DEF Reviews!WriteReview
<1>9. /\ row.finding = f
      /\ row.previous_severity = Reviews!Effective(f, findings[f])
      /\ row.previous_status = findings[f].status
      /\ row.new_status = new.status
      /\ new.override = IF row.new_severity = None THEN findings[f].override
                        ELSE row.new_severity
      /\ row.created_at = reviewing[r].created_at
      /\ row.committed = begun
  BY <1>1
<1> HIDE DEF f, new, row
<1>10. f = reviewing[r].finding
  BY DEF f
<1> QED
  BY <1>2, <1>6, <1>7, <1>8, <1>9, <1>10

\* Every step keeps the invariant of the reviews.
LEMMA ReviewsKeep ==
    ASSUME ReviewInv, [Next]_vars
    PROVE  ReviewInv'
<1>0. ReviewTypes /\ ReviewsHold /\ ReviewsAreDated
  BY DEF ReviewInv
<1> USE <1>0
<1>1. part' = part /\ ReviewersHere' = ReviewersHere /\ MostReviews' = MostReviews
      /\ AskedHere' = AskedHere /\ OpenReview' = OpenReview /\ ReviewRow' = ReviewRow
  BY OnlyReviews DEF ReviewersHere, MostReviews, AskedHere, OpenReview, ReviewRow
<1>2. CASE UNCHANGED reviewVars
  BY <1>1, <1>2 DEF ReviewInv, ReviewTypes, ReviewsHold, ReviewsAreDated, reviewVars,
     Reviews!Holding
<1>3. ASSUME NEW r \in ReviewersHere, Begins(r), part = "chat" => r \in OneReviewer
      PROVE  ReviewInv'
  <2>1. PICK f \in Findings, d \in AskedHere :
          /\ reviewing[r] = None
          /\ begun < MostReviews
          /\ begun' = begun + 1
          /\ reviewing' = [reviewing EXCEPT ![r] =
                   [finding |-> f, decision |-> d, created_at |-> begun', read |-> None]]
          /\ UNCHANGED <<findings, reviews>>
    BY <1>3 DEF Begins
  <2> DEFINE new == [finding |-> f, decision |-> d, created_at |-> begun', read |-> None]
  <2>2. begun' \in 0 .. MostReviews
    <3>1. MostReviews \in Nat
      BY RecordSettings DEF MostReviews
    <3> QED
      BY <2>1, <3>1 DEF ReviewTypes
  <2>3. new \in OpenReview /\ new.read = None /\ new.created_at = begun + 1
    BY <2>1, <2>2 DEF OpenReview
  <2> HIDE DEF new
  <2>4. \A s \in ReviewersHere : reviewing'[s] = IF s = r THEN new ELSE reviewing[s]
    BY <2>1 DEF ReviewTypes, new
  <2>5. reviewing' \in [ReviewersHere -> OpenReview \cup {None}]
    BY <2>1, <2>3 DEF ReviewTypes, new
  <2>6. ReviewTypes'
    BY <1>1, <1>3, <2>1, <2>2, <2>4, <2>5 DEF ReviewTypes
  <2>7. ReviewsHold'
    BY <1>1, <2>1, <2>3, <2>4 DEF ReviewsHold, Reviews!Holding
  <2>8. ReviewsAreDated'
    <3>1. begun \in Nat /\ \A i \in DOMAIN reviews : reviews[i] \in ReviewRow
      BY DEF ReviewTypes
    <3>2. \A i \in DOMAIN reviews :
            reviews[i].created_at \in Nat /\ reviews[i].committed \in Nat
      BY <3>1 DEF ReviewRow
    <3>3. \A s \in ReviewersHere : reviewing[s] # None => reviewing[s].created_at \in Nat
      BY DEF ReviewTypes, OpenReview
    <3> QED
      BY <1>1, <2>1, <2>3, <2>4, <3>1, <3>2, <3>3 DEF ReviewsAreDated
  <2> QED
    BY <2>6, <2>7, <2>8 DEF ReviewInv
<1>4. ASSUME NEW r \in ReviewersHere, Locks(r)
      PROVE  ReviewInv'
  <2> DEFINE f == reviewing[r].finding
             new == [reviewing[r] EXCEPT !.read = findings[f]]
  <2>1. /\ reviewing[r] \in OpenReview /\ reviewing[r] # None
        /\ \A s \in ReviewersHere : Reviews!Holding(s) => reviewing[s].finding # f
        /\ reviewing' = [reviewing EXCEPT ![r] = new]
        /\ UNCHANGED <<findings, reviews, begun>>
    BY <1>4 DEF Locks, Reviews!Waiting, ReviewTypes
  <2>2. /\ new \in OpenReview
        /\ new.finding = f /\ new.read = findings[f]
        /\ new.created_at = reviewing[r].created_at
    <3>1. f \in Findings /\ findings[f] \in Reviews!Finding
      BY <2>1 DEF OpenReview, ReviewTypes
    <3> QED
      BY <2>1, <3>1 DEF OpenReview
  <2> HIDE DEF new, f
  <2>3. \A s \in ReviewersHere : reviewing'[s] = IF s = r THEN new ELSE reviewing[s]
    BY <2>1 DEF ReviewTypes
  <2>4. ReviewTypes'
    <3>1. reviewing' \in [ReviewersHere -> OpenReview \cup {None}]
      BY <2>1, <2>2 DEF ReviewTypes
    <3> QED
      BY <1>1, <2>1, <2>3, <3>1 DEF ReviewTypes
  <2>5. ReviewsHold'
    BY <1>1, <2>1, <2>2, <2>3 DEF ReviewsHold, Reviews!Holding, f
  <2>6. ReviewsAreDated'
    BY <1>1, <2>1, <2>2, <2>3 DEF ReviewsAreDated
  <2> QED
    BY <2>4, <2>5, <2>6 DEF ReviewInv
<1>5. ASSUME NEW r \in ReviewersHere, Reviews!ReviewAborted(r)
      PROVE  ReviewInv'
  <2>1. /\ reviewing' = [reviewing EXCEPT ![r] = None]
        /\ UNCHANGED <<findings, reviews, begun>>
    BY <1>5 DEF Reviews!ReviewAborted
  <2>2. \A s \in ReviewersHere : reviewing'[s] = IF s = r THEN None ELSE reviewing[s]
    BY <2>1 DEF ReviewTypes
  <2> QED
    BY <1>1, <2>1, <2>2 DEF ReviewInv, ReviewTypes, ReviewsHold, ReviewsAreDated, Reviews!Holding
<1>6. ASSUME NEW r \in ReviewersHere, Reviews!WriteReview(r)
      PROVE  ReviewInv'
  <2>1. PICK f \in Findings, new \in Reviews!Finding, row \in ReviewRow :
             /\ f = reviewing[r].finding
             /\ findings' = [findings EXCEPT ![f] = new]
             /\ reviews' = Append(reviews, row)
             /\ reviewing' = [reviewing EXCEPT ![r] = None]
             /\ begun' = begun
             /\ row.created_at = reviewing[r].created_at
             /\ row.committed = begun
    BY <1>6, Written
  <2>2. \A s \in ReviewersHere : reviewing'[s] = IF s = r THEN None ELSE reviewing[s]
    BY <2>1 DEF ReviewTypes
  <2>3. /\ reviews \in Seq(ReviewRow) /\ reviews' \in Seq(ReviewRow)
        /\ Len(reviews') = Len(reviews) + 1 /\ Len(reviews) \in Nat
        /\ DOMAIN reviews = 1 .. Len(reviews) /\ DOMAIN reviews' = 1 .. Len(reviews) + 1
        /\ \A i \in DOMAIN reviews : reviews'[i] = reviews[i]
        /\ reviews'[Len(reviews) + 1] = row
    BY <2>1 DEF ReviewTypes
  <2>4. ReviewTypes'
    BY <1>1, <2>1, <2>2, <2>3 DEF ReviewTypes
  <2>5. ReviewsHold'
    <3>1. Reviews!Holding(r)
      BY <1>6 DEF Reviews!WriteReview
    <3>2. \A s \in ReviewersHere : Reviews!Holding(s)' =>
             /\ s # r /\ Reviews!Holding(s) /\ reviewing'[s] = reviewing[s]
             /\ reviewing[s].finding # f
      BY <1>1, <2>1, <2>2, <3>1 DEF ReviewsHold, Reviews!Holding
    <3>3. \A g \in Findings : g # f => findings'[g] = findings[g]
      BY <2>1 DEF ReviewTypes
    <3>4. \A s \in ReviewersHere : Reviews!Holding(s) => reviewing[s].finding \in Findings
      BY DEF ReviewTypes, Reviews!Holding, OpenReview
    <3> QED
      BY <1>1, <3>2, <3>3, <3>4 DEF ReviewsHold
  <2>6. ReviewsAreDated'
    <3>1. begun \in Nat /\ \A i \in DOMAIN reviews : reviews[i] \in ReviewRow
      BY DEF ReviewTypes
    <3>2. \A i \in DOMAIN reviews :
            reviews[i].created_at \in Nat /\ reviews[i].committed \in Nat
      BY <3>1 DEF ReviewRow
    <3>3. \A s \in ReviewersHere : reviewing[s] # None => reviewing[s].created_at \in Nat
      BY DEF ReviewTypes, OpenReview
    <3>4. reviewing[r] # None
      BY <1>6 DEF Reviews!WriteReview, Reviews!Holding
    <3>5. \A s \in ReviewersHere : reviewing'[s] # None =>
             s # r /\ reviewing[s] # None /\ reviewing'[s] = reviewing[s]
      BY <2>2
    <3>6. \A i \in DOMAIN reviews' :
             \/ i \in DOMAIN reviews /\ reviews'[i] = reviews[i] /\ i < Len(reviews) + 1
             \/ i = Len(reviews) + 1 /\ reviews'[i] = row
      BY <2>3
    <3>7. \A i \in DOMAIN reviews' :
            /\ reviews'[i].created_at <= reviews'[i].committed
            /\ reviews'[i].committed <= begun'
      BY <2>1, <3>1, <3>3, <3>4, <3>6 DEF ReviewsAreDated
    <3>8. \A i, j \in DOMAIN reviews' : i < j =>
            i \in DOMAIN reviews /\ reviews'[i] = reviews[i]
      BY <2>3, <3>6
    <3>9. \A i, j \in DOMAIN reviews' : i < j =>
            /\ reviews'[i].committed <= reviews'[j].committed
            /\ reviews'[i].created_at # reviews'[j].created_at
      BY <2>1, <3>4, <3>6, <3>8 DEF ReviewsAreDated
    <3>10. \A s \in ReviewersHere : reviewing'[s] # None =>
            /\ reviewing'[s].created_at <= begun'
            /\ \A i \in DOMAIN reviews' : reviews'[i].created_at # reviewing'[s].created_at
            /\ \A q \in ReviewersHere \ {s} :
                 reviewing'[q] # None => reviewing'[q].created_at # reviewing'[s].created_at
      BY <2>1, <3>4, <3>5, <3>6 DEF ReviewsAreDated
    <3> QED
      BY <1>1, <3>7, <3>9, <3>10 DEF ReviewsAreDated
  <2> QED
    BY <2>4, <2>5, <2>6 DEF ReviewInv
<1> QED
  BY <1>2, <1>3, <1>4, <1>5, <1>6, OnlyReviews DEF ReviewStep

\* So every reachable state has it.
LEMMA AlwaysReviews == Spec => []ReviewInv
  BY ReviewsInit, ReviewsKeep, PTL DEF Spec

\* The rows of f before row i, those that set a severity, and what they leave.
RowsBefore(f, i) == {j \in 1 .. i - 1 : reviews[j].finding = f}
OverridesBefore(f, i) ==
    {j \in 1 .. i - 1 : reviews[j].finding = f /\ reviews[j].new_severity # None}
SeverityBefore(f, i) ==
    IF OverridesBefore(f, i) = {} THEN MCMachine[f]
    ELSE reviews[Reviews!LastOf(OverridesBefore(f, i))].new_severity
StatusBefore(f, i) ==
    IF RowsBefore(f, i) = {} THEN "pending"
    ELSE reviews[Reviews!LastOf(RowsBefore(f, i))].new_status

RowExplained(f, i) ==
    reviews[i].finding = f =>
        /\ reviews[i].previous_severity = SeverityBefore(f, i)
        /\ reviews[i].previous_status = StatusBefore(f, i)

FindingExplained(f) ==
    /\ Reviews!Effective(f, findings[f]) = SeverityBefore(f, Len(reviews) + 1)
    /\ findings[f].status = StatusBefore(f, Len(reviews) + 1)

Explained ==
    \A f \in Findings :
        /\ \A i \in DOMAIN reviews : RowExplained(f, i)
        /\ FindingExplained(f)

\* That is what the property says.
LEMMA ExplainedIs == Explained => Reviews!HistoryExplainsFinding
  BY Zenon DEF Explained, RowExplained, FindingExplained, SeverityBefore, StatusBefore,
     RowsBefore, OverridesBefore, Reviews!HistoryExplainsFinding

\* The latest of some rows is the one that none is after.
LEMMA LatestIs ==
    ASSUME NEW S \in SUBSET Nat, NEW m \in S, \A k \in S : k <= m
    PROVE  Reviews!LastOf(S) = m
<1>1. \A j \in S : (\A k \in S : k <= j) => j = m
  OBVIOUS
<1> QED
  BY <1>1, Zenon DEF Reviews!LastOf

\* Some rows have a latest one.
LEMMA LatestExists ==
    ASSUME NEW n \in Nat, NEW S \in SUBSET (1 .. n), S # {}
    PROVE  Reviews!LastOf(S) \in S /\ \A k \in S : k <= Reviews!LastOf(S)
<1>1. S \in SUBSET Nat /\ IsFiniteSet(S)
  <2>1. IsFiniteSet(1 .. n) /\ 1 .. n \in SUBSET Nat
    BY FS_Interval
  <2>2. IsFiniteSet(S)
    BY <2>1, FS_Subset
  <2> QED
    BY <2>1, <2>2
<1>2. PICK m \in S : \A k \in S : k <= m
  BY <1>1, GreatestExists
<1> QED
  BY <1>1, <1>2, LatestIs

\* A new row leaves what is before it and before the rows that were there.
LEMMA BeforeStays ==
    ASSUME ReviewInv, NEW row, reviews' = Append(reviews, row),
           NEW f, NEW i \in 1 .. Len(reviews) + 1
    PROVE  /\ SeverityBefore(f, i)' = SeverityBefore(f, i)
           /\ StatusBefore(f, i)' = StatusBefore(f, i)
<1>1. Len(reviews) \in Nat /\ \A j \in 1 .. Len(reviews) : reviews'[j] = reviews[j]
  BY DEF ReviewInv, ReviewTypes
<1>2. \A j \in 1 .. i - 1 : j \in 1 .. Len(reviews) /\ reviews'[j] = reviews[j]
  BY <1>1
<1>3. RowsBefore(f, i)' = RowsBefore(f, i) /\ OverridesBefore(f, i)' = OverridesBefore(f, i)
  BY <1>2 DEF RowsBefore, OverridesBefore
<1>4. /\ RowsBefore(f, i) \in SUBSET (1 .. i - 1) /\ OverridesBefore(f, i) \in SUBSET (1 .. i - 1)
      /\ i - 1 \in Nat
  BY <1>1 DEF RowsBefore, OverridesBefore
<1>5. /\ RowsBefore(f, i) # {} => Reviews!LastOf(RowsBefore(f, i)) \in 1 .. i - 1
      /\ OverridesBefore(f, i) # {} => Reviews!LastOf(OverridesBefore(f, i)) \in 1 .. i - 1
  BY <1>4, LatestExists
<1> QED
  BY <1>2, <1>3, <1>5 DEF SeverityBefore, StatusBefore

\* What the rows leave after it.
LEMMA BeforeGrows ==
    ASSUME ReviewInv, NEW row, reviews' = Append(reviews, row), NEW f, NEW n,
           n = Len(reviews) + 1
    PROVE  /\ SeverityBefore(f, n + 1)' =
                 IF row.finding = f /\ row.new_severity # None THEN row.new_severity
                 ELSE SeverityBefore(f, n)
           /\ StatusBefore(f, n + 1)' =
                 IF row.finding = f THEN row.new_status ELSE StatusBefore(f, n)
<1>1. /\ Len(reviews) \in Nat /\ n \in 1 .. Len(reviews) + 1 /\ reviews'[n] = row
      /\ n + 1 - 1 = n /\ 1 .. n = 1 .. n - 1 \cup {n} /\ n \notin 1 .. n - 1
  BY DEF ReviewInv, ReviewTypes
<1>2. \A j \in 1 .. n - 1 : reviews'[j] = reviews[j]
  BY DEF ReviewInv, ReviewTypes
<1>3. RowsBefore(f, n + 1)' =
         IF row.finding = f THEN RowsBefore(f, n)' \cup {n} ELSE RowsBefore(f, n)'
  BY <1>1 DEF RowsBefore
<1>4. OverridesBefore(f, n + 1)' =
         IF row.finding = f /\ row.new_severity # None
         THEN OverridesBefore(f, n)' \cup {n} ELSE OverridesBefore(f, n)'
  BY <1>1 DEF OverridesBefore
<1>5. /\ SeverityBefore(f, n)' = SeverityBefore(f, n)
      /\ StatusBefore(f, n)' = StatusBefore(f, n)
  BY <1>1, BeforeStays
<1>6. \A S \in SUBSET (1 .. n - 1) : Reviews!LastOf(S \cup {n}) = n
  <2> SUFFICES ASSUME NEW S \in SUBSET (1 .. n - 1) PROVE Reviews!LastOf(S \cup {n}) = n
    OBVIOUS
  <2> DEFINE T == S \cup {n}
  <2>0. \A k \in 1 .. n - 1 : k \in Nat /\ k <= n
    BY <1>1
  <2>1. T \in SUBSET Nat /\ n \in T /\ \A k \in T : k <= n
    <3>1. n \in Nat /\ n <= n
      BY <1>1
    <3>2. \A k \in T : k \in 1 .. n - 1 \/ k = n
      OBVIOUS
    <3>3. \A k \in T : k \in Nat /\ k <= n
      BY <2>0, <3>1, <3>2
    <3> QED
      BY <3>3
  <2> HIDE DEF T
  <2>2. Reviews!LastOf(T) = n
    BY <2>1, LatestIs
  <2> QED
    BY <2>2 DEF T
<1>7. RowsBefore(f, n)' \in SUBSET (1 .. n - 1) /\ OverridesBefore(f, n)' \in SUBSET (1 .. n - 1)
  BY DEF RowsBefore, OverridesBefore
<1>8. StatusBefore(f, n + 1)' = IF row.finding = f THEN row.new_status ELSE StatusBefore(f, n)
  BY <1>1, <1>3, <1>5, <1>6, <1>7 DEF StatusBefore
<1>9. SeverityBefore(f, n + 1)' =
         IF row.finding = f /\ row.new_severity # None THEN row.new_severity
         ELSE SeverityBefore(f, n)
  BY <1>1, <1>4, <1>5, <1>6, <1>7 DEF SeverityBefore
<1> QED
  BY <1>8, <1>9

\* There are no rows at first.
LEMMA ExplainedInit == Init => Explained
<1> SUFFICES ASSUME Init PROVE Explained
  OBVIOUS
<1>1. /\ findings = [f \in Findings |-> [override |-> None, status |-> "pending"]]
      /\ reviews = <<>>
  BY DEF Init, Items!Init, Items!Reviewing!Init, Reviews!Init
<1>2. Len(reviews) + 1 = 1 /\ DOMAIN reviews = {}
  BY <1>1
<1>3. \A f : OverridesBefore(f, 1) = {} /\ RowsBefore(f, 1) = {}
  BY DEF OverridesBefore, RowsBefore
<1>4. \A f : SeverityBefore(f, 1) = MCMachine[f] /\ StatusBefore(f, 1) = "pending"
  BY <1>3, Zenon DEF SeverityBefore, StatusBefore
<1>5. \A f \in Findings : findings[f].override = None /\ findings[f].status = "pending"
  BY <1>1
<1> QED
  BY <1>2, <1>4, <1>5, Zenon DEF Explained, FindingExplained, Reviews!Effective

\* Every step of a review keeps the history an explanation (write_review).
LEMMA ExplainedStays ==
    ASSUME ReviewInv, Explained, [Next]_vars
    PROVE  Explained'
<1>1. CASE findings' = findings /\ reviews' = reviews
  <2>1. \A f, i : /\ SeverityBefore(f, i)' = SeverityBefore(f, i)
                  /\ StatusBefore(f, i)' = StatusBefore(f, i)
    BY <1>1 DEF SeverityBefore, StatusBefore, RowsBefore, OverridesBefore
  <2>2. \A f, i : RowExplained(f, i)' <=> RowExplained(f, i)
    BY <1>1, <2>1 DEF RowExplained
  <2>3. \A f : FindingExplained(f)' <=> FindingExplained(f)
    BY <1>1, <2>1 DEF FindingExplained, Reviews!Effective
  <2> QED
    BY <1>1, <2>2, <2>3 DEF Explained
<1>2. ASSUME NEW r \in ReviewersHere, Reviews!WriteReview(r)
      PROVE  Explained'
  <2>1. PICK f \in Findings, new \in Reviews!Finding, row \in ReviewRow :
             /\ findings' = [findings EXCEPT ![f] = new]
             /\ reviews' = Append(reviews, row)
             /\ row.finding = f
             /\ row.previous_severity = Reviews!Effective(f, findings[f])
             /\ row.previous_status = findings[f].status
             /\ row.new_status = new.status
             /\ new.override = IF row.new_severity = None THEN findings[f].override
                               ELSE row.new_severity
    BY <1>2, Written
  <2>0. PICK n \in Nat : n = Len(reviews) + 1
    BY DEF ReviewInv, ReviewTypes
  <2>2. /\ n \in Nat /\ n > 0 /\ n \in 1 .. Len(reviews) + 1 /\ Len(reviews') + 1 = n + 1
        /\ DOMAIN reviews = 1 .. n - 1 /\ DOMAIN reviews' = 1 .. n
        /\ \A i \in 1 .. n - 1 : i \in 1 .. Len(reviews) + 1 /\ reviews'[i] = reviews[i]
        /\ reviews'[n] = row
    BY <2>0, <2>1 DEF ReviewInv, ReviewTypes
  <2>3. \A g \in Findings : findings'[g] = IF g = f THEN new ELSE findings[g]
    BY <2>1 DEF ReviewInv, ReviewTypes
  <2>4. \A g \in Findings, i \in 1 .. n :
           /\ SeverityBefore(g, i)' = SeverityBefore(g, i)
           /\ StatusBefore(g, i)' = StatusBefore(g, i)
    BY <2>0, <2>1, BeforeStays
  <2>5. \A g \in Findings :
           /\ SeverityBefore(g, n + 1)' =
                 IF row.finding = g /\ row.new_severity # None THEN row.new_severity
                 ELSE SeverityBefore(g, n)
           /\ StatusBefore(g, n + 1)' =
                 IF row.finding = g THEN row.new_status ELSE StatusBefore(g, n)
    <3>1. reviews' = Append(reviews, row)
      BY <2>1
    <3> QED
      BY <2>0, <3>1, BeforeGrows, Zenon
  <2>6. ASSUME NEW g \in Findings
        PROVE  /\ Reviews!Effective(g, findings[g]) = SeverityBefore(g, n)
               /\ findings[g].status = StatusBefore(g, n)
    BY <2>0 DEF Explained, FindingExplained
  <2>7. ASSUME NEW g \in Findings, NEW i \in 1 .. n
        PROVE  RowExplained(g, i)'
    <3>1. CASE i = n
      BY <2>1, <2>2, <2>4, <2>6, <3>1 DEF RowExplained
    <3>2. CASE i # n
      <4>1. i \in DOMAIN reviews /\ reviews'[i] = reviews[i]
        BY <2>2, <3>2
      <4> QED
        BY <2>4, <4>1 DEF RowExplained, Explained
    <3> QED
      BY <3>1, <3>2
  <2>8. ASSUME NEW g \in Findings
        PROVE  FindingExplained(g)'
    <3>1. g # f => findings'[g] = findings[g] /\ row.finding # g
      BY <2>1, <2>3
    <3>2. g = f => findings'[g] = new /\ row.finding = g
      BY <2>1, <2>3
    <3>3. Reviews!Effective(g, findings[g])' = SeverityBefore(g, n + 1)'
      BY <2>1, <2>5, <2>6, <3>1, <3>2 DEF Reviews!Effective
    <3>4. findings'[g].status = StatusBefore(g, n + 1)'
      BY <2>1, <2>5, <2>6, <3>1, <3>2
    <3> QED
      BY <2>2, <3>3, <3>4 DEF FindingExplained
  <2> QED
    BY <2>2, <2>7, <2>8 DEF Explained
<1> QED
  BY <1>1, <1>2, OnlyReviews DEF ReviewStep, Begins, Locks, Reviews!ReviewAborted, reviewVars

\* The history explains the findings in every reachable state.
LEMMA AlwaysExplained == Spec => []Explained
<1>1. ReviewInv /\ Explained /\ [Next]_vars => Explained'
  BY ExplainedStays
<1> QED
  BY <1>1, ExplainedInit, AlwaysReviews, PTL DEF Spec

\* The rows of a finding by their moments, as the list has them: each once, the
\* latest first.
LEMMA ListIsOrdered ==
    ASSUME ReviewInv, NEW f \in Findings
    PROVE  LET list == Reviews!ListReviews(f)
           IN  /\ list \in Seq(Reviews!RowsOf(f))
               /\ \A m, n \in DOMAIN list :
                    m < n => reviews[list[m]].created_at > reviews[list[n]].created_at
               /\ \A i \in Reviews!RowsOf(f) : \E n \in DOMAIN list : list[n] = i
<1> DEFINE R == Reviews!RowsOf(f)
           C == [i \in R |-> reviews[i].created_at]
           T == {C[i] : i \in R}
           c == Cardinality(R)
           Ordered(l) == \A m, n \in DOMAIN l :
                           m < n => reviews[l[m]].created_at > reviews[l[n]].created_at
<1>1. IsFiniteSet(R) /\ c \in Nat
  <2>1. R \subseteq 1 .. Len(reviews) /\ Len(reviews) \in Nat
    BY DEF ReviewInv, ReviewTypes, Reviews!RowsOf
  <2>2. IsFiniteSet(1 .. Len(reviews))
    BY <2>1, FS_Interval
  <2>3. IsFiniteSet(R)
    BY <2>1, <2>2, FS_Subset
  <2> QED
    BY <2>3, FS_CardinalityType
<1>2. \A i \in R : reviews[i].created_at \in Nat
  <2>1. \A i \in R : reviews[i] \in ReviewRow
    BY DEF ReviewInv, ReviewTypes, Reviews!RowsOf
  <2> QED
    BY <2>1 DEF ReviewRow
<1>3. \A i, j \in R : i # j => reviews[i].created_at # reviews[j].created_at
  <2> SUFFICES ASSUME NEW i \in R, NEW j \in R, i # j
               PROVE  reviews[i].created_at # reviews[j].created_at
    OBVIOUS
  <2>1. i \in DOMAIN reviews /\ j \in DOMAIN reviews /\ i \in Int /\ j \in Int
    BY DEF ReviewInv, ReviewTypes, Reviews!RowsOf
  <2>2. i < j \/ j < i
    BY <2>1
  <2> QED
    BY <2>1, <2>2 DEF ReviewInv, ReviewsAreDated
<1> HIDE DEF R
<1>4. T \subseteq Nat /\ C \in Bijection(R, T)
  BY <1>2, <1>3 DEF Bijection, Injection, Surjection, IsInjective
<1> HIDE DEF C, T
<1>5. IsFiniteSet(T) /\ Cardinality(T) = c
  BY <1>1, <1>4, FS_Bijection DEF ExistsBijection
<1>6. /\ InOrder(T) \in [1 .. c -> T]
      /\ \A k, l \in 1 .. c : k < l => InOrder(T)[k] < InOrder(T)[l]
  BY <1>4, <1>5, InOrderEnumerates
<1>7. \A x \in T : \E i \in R : reviews[i].created_at = x
  BY DEF T, C
<1> DEFINE w == [k \in 1 .. c |-> CHOOSE i \in R : reviews[i].created_at = InOrder(T)[c + 1 - k]]
<1>8. \A k \in 1 .. c : w[k] \in R /\ reviews[w[k]].created_at = InOrder(T)[c + 1 - k]
  <2> SUFFICES ASSUME NEW k \in 1 .. c
               PROVE  w[k] \in R /\ reviews[w[k]].created_at = InOrder(T)[c + 1 - k]
    OBVIOUS
  <2>1. c + 1 - k \in 1 .. c
    BY <1>1
  <2>2. InOrder(T)[c + 1 - k] \in T
    BY <1>6, <2>1
  <2> QED
    BY <1>7, <2>2
<1>9. w \in [1 .. c -> R] /\ DOMAIN w = 1 .. c
  BY <1>8
<1> HIDE DEF w
<1>10. Ordered(w)
  <2> SUFFICES ASSUME NEW m \in 1 .. c, NEW n \in 1 .. c, m < n
               PROVE  reviews[w[m]].created_at > reviews[w[n]].created_at
    BY <1>9
  <2>1. c + 1 - n \in 1 .. c /\ c + 1 - m \in 1 .. c /\ c + 1 - n < c + 1 - m
    BY <1>1
  <2>2. InOrder(T)[c + 1 - n] < InOrder(T)[c + 1 - m]
    BY <1>6, <2>1
  <2>3. InOrder(T)[c + 1 - n] \in Nat /\ InOrder(T)[c + 1 - m] \in Nat
    BY <1>4, <1>6, <2>1
  <2> QED
    BY <1>8, <2>2, <2>3
<1> DEFINE list == Reviews!ListReviews(f)
<1>11. list = CHOOSE l \in [1 .. c -> R] : Ordered(l)
  BY Zenon DEF Reviews!ListReviews, R, Reviews!Cardinality, Cardinality
<1> HIDE DEF list, Ordered
<1>12. list \in [1 .. c -> R] /\ Ordered(list)
  BY <1>9, <1>10, <1>11, Zenon
<1>13. \A m, n \in 1 .. c : m # n => list[m] # list[n]
  <2> SUFFICES ASSUME NEW m \in 1 .. c, NEW n \in 1 .. c, m < n
               PROVE  list[m] # list[n]
    OBVIOUS
  <2>1. list[m] \in R /\ list[n] \in R
    BY <1>12
  <2>2. reviews[list[m]].created_at > reviews[list[n]].created_at
    BY <1>12 DEF Ordered
  <2> QED
    BY <1>2, <2>1, <2>2
<1>14. \A i \in R : \E n \in 1 .. c : list[n] = i
  BY <1>1, <1>12, <1>13, DistinctIsOnto
<1>15. DOMAIN list = 1 .. c /\ list \in Seq(R)
  BY <1>1, <1>12
<1> QED
  BY <1>12, <1>14, <1>15 DEF list, R, Ordered

\* A row was open together with another one of the finding.
RowMet(f, i) ==
    \E j \in Reviews!RowsOf(f) \ {i} :
        /\ reviews[j].created_at <= reviews[i].committed
        /\ reviews[i].created_at <= reviews[j].committed

\* Such moments are numbers, in the order of the rows.
LEMMA RowsInTime ==
    ASSUME ReviewInv, NEW f
    PROVE  /\ Reviews!RowsOf(f) \subseteq 1 .. Len(reviews) /\ Len(reviews) \in Nat
           /\ \A i \in Reviews!RowsOf(f) :
                /\ i \in Nat /\ reviews[i].finding = f
                /\ reviews[i].created_at \in Nat /\ reviews[i].committed \in Nat
                /\ reviews[i].created_at <= reviews[i].committed
           /\ \A i, j \in Reviews!RowsOf(f) : i < j =>
                /\ reviews[i].committed <= reviews[j].committed
                /\ reviews[i].created_at # reviews[j].created_at
<1>1. /\ Reviews!RowsOf(f) \subseteq DOMAIN reviews
      /\ DOMAIN reviews = 1 .. Len(reviews) /\ Len(reviews) \in Nat
      /\ \A i \in Reviews!RowsOf(f) : reviews[i] \in ReviewRow /\ reviews[i].finding = f
  BY DEF ReviewInv, ReviewTypes, Reviews!RowsOf
<1>2. \A i \in Reviews!RowsOf(f) :
        /\ i \in Nat
        /\ reviews[i].created_at \in Nat /\ reviews[i].committed \in Nat
  BY <1>1 DEF ReviewRow
<1> QED
  BY <1>1, <1>2 DEF ReviewInv, ReviewsAreDated

\* Around a row that met no other, rows are stored in the order they began in.
LEMMA AloneInOrder ==
    ASSUME ReviewInv, NEW f, NEW i \in Reviews!RowsOf(f), ~ RowMet(f, i),
           NEW j \in Reviews!RowsOf(f)
    PROVE  j < i <=> reviews[j].created_at < reviews[i].created_at
<1> DEFINE C(k) == reviews[k].created_at
           K(k) == reviews[k].committed
<1>1. /\ i \in Nat /\ C(i) \in Nat /\ K(i) \in Nat /\ C(i) <= K(i)
      /\ j \in Nat /\ C(j) \in Nat /\ K(j) \in Nat /\ C(j) <= K(j)
      /\ i < j => K(i) <= K(j)
      /\ j < i => K(j) <= K(i)
  BY RowsInTime
<1>2. j # i => ~ (C(j) <= K(i) /\ C(i) <= K(j))
  BY DEF RowMet
<1> HIDE DEF C, K
<1>3. j < i <=> C(j) < C(i)
  BY <1>1, <1>2
<1> QED
  BY <1>3 DEF C

\* What the list shows below a row that met no other is what was there before it.
LEMMA BelowIsBefore ==
    ASSUME ReviewInv, NEW f \in Findings, NEW list, list = Reviews!ListReviews(f),
           NEW n \in DOMAIN list, ~ RowMet(f, list[n]),
           n < Len(list) => ~ RowMet(f, list[n + 1])
    PROVE  StatusBefore(f, list[n]) =
             IF n < Len(list) THEN reviews[list[n + 1]].new_status ELSE "pending"
<1> DEFINE R == Reviews!RowsOf(f)
           i == list[n]
<1>1. /\ list \in Seq(R)
      /\ \A m, k \in DOMAIN list :
           m < k => reviews[list[m]].created_at > reviews[list[k]].created_at
      /\ \A k \in R : \E m \in DOMAIN list : list[m] = k
  BY ListIsOrdered
<1>2. /\ R \subseteq 1 .. Len(reviews) /\ Len(reviews) \in Nat
      /\ \A k \in R : k \in Nat /\ reviews[k].created_at \in Nat
  BY RowsInTime
<1>3. /\ DOMAIN list = 1 .. Len(list) /\ Len(list) \in Nat /\ n \in 1 .. Len(list)
      /\ i \in R
  BY <1>1
<1>4. RowsBefore(f, i) = {j \in R : j < i}
  <2>1. R = {j \in 1 .. Len(reviews) : reviews[j].finding = f}
    BY DEF Reviews!RowsOf, ReviewInv, ReviewTypes
  <2>2. i \in 1 .. Len(reviews)
    BY <1>2, <1>3
  <2> HIDE DEF R, i
  <2> QED
    BY <1>2, <2>1, <2>2 DEF RowsBefore
<1> HIDE DEF R, i
<1>5. \A j \in R : j < i <=> reviews[j].created_at < reviews[i].created_at
  BY <1>3, AloneInOrder DEF R, i
<1>6. \A j \in R : j < i => \E m \in DOMAIN list : list[m] = j /\ n < m
  <2> SUFFICES ASSUME NEW j \in R, j < i
               PROVE  \E m \in DOMAIN list : list[m] = j /\ n < m
    OBVIOUS
  <2>1. PICK m \in DOMAIN list : list[m] = j
    BY <1>1
  <2>2. reviews[j].created_at < reviews[i].created_at
    BY <1>5
  <2>3. reviews[j].created_at \in Nat /\ reviews[i].created_at \in Nat
    BY <1>2, <1>3
  <2>4. ~ (m < n)
    BY SMTT(40), <1>1, <1>3, <2>1, <2>2, <2>3 DEF i
  <2>5. m # n
    BY <2>1, <2>2, <2>3 DEF i
  <2> QED
    BY <1>3, <2>1, <2>4, <2>5
<1>7. CASE ~ (n < Len(list))
  <2>1. RowsBefore(f, i) = {}
    BY <1>3, <1>4, <1>6, <1>7
  <2> QED
    BY <1>7, <2>1 DEF StatusBefore, i
<1>8. CASE n < Len(list)
  <2> DEFINE k == list[n + 1]
  <2>1. n + 1 \in DOMAIN list /\ k \in R /\ n < n + 1
    BY <1>1, <1>3, <1>8
  <2>2. ~ RowMet(f, k)
    BY <1>8
  <2>3. reviews[k].created_at < reviews[i].created_at
    BY <1>1, <1>2, <1>3, <2>1 DEF i
  <2> HIDE DEF k
  <2>4. k \in RowsBefore(f, i)
    BY <1>4, <1>5, <2>1, <2>3
  <2>5. \A j \in RowsBefore(f, i) : j <= k
    <3> SUFFICES ASSUME NEW j \in R, j < i, j # k
                 PROVE  j <= k
      BY <1>2, <1>4, <2>1
    <3>1. PICK m \in DOMAIN list : list[m] = j /\ n < m
      BY <1>6
    <3>2. n + 1 < m
      BY <1>3, <3>1 DEF k
    <3>3. reviews[k].created_at > reviews[j].created_at
      BY <1>1, <2>1, <3>1, <3>2 DEF k
    <3>4. j < k <=> reviews[j].created_at < reviews[k].created_at
      BY <2>1, <2>2, AloneInOrder DEF R
    <3>5. j \in Nat /\ k \in Nat /\ reviews[j].created_at \in Nat /\ reviews[k].created_at \in Nat
      BY <1>2, <2>1
    <3> QED
      BY <3>3, <3>4, <3>5
  <2>6. RowsBefore(f, i) \in SUBSET Nat
    BY <1>2, <1>4
  <2>7. Reviews!LastOf(RowsBefore(f, i)) = k
    BY <2>4, <2>5, <2>6, LatestIs
  <2> QED
    BY <1>8, <2>4, <2>7 DEF StatusBefore, i, k
<1> QED
  BY <1>7, <1>8

\* And what it shows on its top, if that row met no other, is what was there last.
LEMMA TopIsLatest ==
    ASSUME ReviewInv, NEW f \in Findings, NEW list, list = Reviews!ListReviews(f),
           list # <<>> => ~ RowMet(f, list[1])
    PROVE  StatusBefore(f, Len(reviews) + 1) =
             IF list # <<>> THEN reviews[list[1]].new_status ELSE "pending"
<1> DEFINE R == Reviews!RowsOf(f)
<1>1. /\ list \in Seq(R)
      /\ \A m, k \in DOMAIN list :
           m < k => reviews[list[m]].created_at > reviews[list[k]].created_at
      /\ \A k \in R : \E m \in DOMAIN list : list[m] = k
  BY ListIsOrdered
<1>2. /\ R \subseteq 1 .. Len(reviews) /\ Len(reviews) \in Nat
      /\ \A k \in R : k \in Nat /\ reviews[k].created_at \in Nat
  BY RowsInTime
<1>3. RowsBefore(f, Len(reviews) + 1) = R
  <2>1. R = {j \in 1 .. Len(reviews) : reviews[j].finding = f}
    BY DEF Reviews!RowsOf, ReviewInv, ReviewTypes
  <2>2. 1 .. Len(reviews) + 1 - 1 = 1 .. Len(reviews)
    BY <1>2
  <2> HIDE DEF R
  <2> QED
    BY <2>1, <2>2 DEF RowsBefore
<1> HIDE DEF R
<1>4. CASE list = <<>>
  <2>1. R = {}
    BY <1>1, <1>4
  <2> QED
    BY <1>3, <1>4, <2>1 DEF StatusBefore
<1>5. CASE list # <<>>
  <2> DEFINE k == list[1]
  <2>1. 1 \in DOMAIN list /\ k \in R /\ DOMAIN list = 1 .. Len(list) /\ Len(list) \in Nat
    BY <1>1, <1>5
  <2>2. ~ RowMet(f, k)
    BY <1>5
  <2>3. \A j \in R : j <= k
    <3> SUFFICES ASSUME NEW j \in R, j # k
                 PROVE  j <= k
      BY <1>2, <2>1
    <3>1. PICK m \in DOMAIN list : list[m] = j
      BY <1>1
    <3>2. 1 < m
      BY <2>1, <3>1
    <3>3. reviews[k].created_at > reviews[j].created_at
      BY <1>1, <2>1, <3>1, <3>2
    <3> HIDE DEF k
    <3>4. j < k <=> reviews[j].created_at < reviews[k].created_at
      BY <2>1, <2>2, AloneInOrder DEF R
    <3>5. j \in Nat /\ k \in Nat /\ reviews[j].created_at \in Nat /\ reviews[k].created_at \in Nat
      BY <1>2, <2>1
    <3> QED
      BY <3>3, <3>4, <3>5
  <2> HIDE DEF k
  <2>4. R \in SUBSET Nat
    BY <1>2
  <2>5. Reviews!LastOf(R) = k
    BY <2>1, <2>3, <2>4, LatestIs
  <2> QED
    BY <1>3, <1>5, <2>1, <2>5 DEF StatusBefore, k
<1> QED
  BY <1>4, <1>5

\* So the list explains a finding, too.
LEMMA ListExplains ==
    ASSUME ReviewInv, Explained
    PROVE  Reviews!ListExplainsFinding
<1> SUFFICES ASSUME NEW f \in Findings,
                    NEW list, list = Reviews!ListReviews(f)
             PROVE  LET Row(n) == reviews[list[n]]
                        Met(n) == \E m \in DOMAIN list \ {n} :
                                     /\ Row(m).created_at <= Row(n).committed
                                     /\ Row(n).created_at <= Row(m).committed
                        Left(n) == IF n > Len(list) THEN "pending" ELSE Row(n).new_status
                    IN  /\ (list # <<>> /\ Met(1)) \/ findings[f].status = Left(1)
                        /\ \A n \in DOMAIN list :
                             Met(n) \/ (n < Len(list) /\ Met(n + 1))
                                    \/ Row(n).previous_status = Left(n + 1)
  BY Zenon DEF Reviews!ListExplainsFinding
<1> DEFINE Met(n) == \E m \in DOMAIN list \ {n} :
                        /\ reviews[list[m]].created_at <= reviews[list[n]].committed
                        /\ reviews[list[n]].created_at <= reviews[list[m]].committed
           R == Reviews!RowsOf(f)
<1>1. /\ list \in Seq(R)
      /\ \A k \in R : \E m \in DOMAIN list : list[m] = k
  BY ListIsOrdered
<1>2. DOMAIN list = 1 .. Len(list) /\ Len(list) \in Nat /\ (list # <<>> => 1 \in DOMAIN list)
      /\ (list = <<>> <=> Len(list) = 0)
  BY <1>1
<1>3. ASSUME NEW n \in DOMAIN list, RowMet(f, list[n])
      PROVE  Met(n)
  <2>1. PICK j \in R \ {list[n]} :
           /\ reviews[j].created_at <= reviews[list[n]].committed
           /\ reviews[list[n]].created_at <= reviews[j].committed
    BY <1>3 DEF RowMet
  <2>2. PICK m \in DOMAIN list : list[m] = j
    BY <1>1
  <2> QED
    BY <2>1, <2>2
<1> HIDE DEF Met
<1>4. ASSUME ~ (list # <<>> /\ Met(1))
      PROVE  findings[f].status = IF 1 > Len(list) THEN "pending" ELSE reviews[list[1]].new_status
  <2>1. list # <<>> => ~ RowMet(f, list[1])
    BY <1>2, <1>3, <1>4
  <2>2. StatusBefore(f, Len(reviews) + 1) =
             IF list # <<>> THEN reviews[list[1]].new_status ELSE "pending"
    BY <2>1, TopIsLatest
  <2>3. findings[f].status = StatusBefore(f, Len(reviews) + 1)
    BY DEF Explained, FindingExplained
  <2> QED
    BY <1>2, <2>2, <2>3
<1>5. ASSUME NEW n \in DOMAIN list, ~ Met(n), ~ (n < Len(list) /\ Met(n + 1))
      PROVE  reviews[list[n]].previous_status =
               IF n + 1 > Len(list) THEN "pending" ELSE reviews[list[n + 1]].new_status
  <2>1. n < Len(list) => n + 1 \in DOMAIN list
    BY <1>2
  <2>2. ~ RowMet(f, list[n]) /\ (n < Len(list) => ~ RowMet(f, list[n + 1]))
    BY <1>3, <1>5, <2>1
  <2>3. StatusBefore(f, list[n]) =
             IF n < Len(list) THEN reviews[list[n + 1]].new_status ELSE "pending"
    BY <2>2, BelowIsBefore
  <2>4. list[n] \in DOMAIN reviews /\ reviews[list[n]].finding = f
    <3>1. list[n] \in R
      BY <1>1
    <3> QED
      BY <3>1 DEF Reviews!RowsOf
  <2>5. reviews[list[n]].previous_status = StatusBefore(f, list[n])
    BY <2>4 DEF Explained, RowExplained
  <2> QED
    BY <1>2, <2>3, <2>5
<1> QED
  BY <1>4, <1>5 DEF Met

ItemFields == {"ai_priority", "priority", "due_date", "date_status", "status", "completed_by"}

\* The values of a field of an item.
ItemValues == [ai_priority |-> Items!Priorities, priority |-> Items!Priorities,
           due_date |-> Nat \cup {None}, date_status |-> Items!DateStatuses,
           status |-> Items!Statuses, completed_by |-> Editors \cup {None}]

\* An item is a function of its fields.
LEMMA ItemsAreFunctions ==
    /\ \A i \in Items!Item : /\ DOMAIN i = ItemFields /\ i = [k \in ItemFields |-> i[k]]
                             /\ \A k \in ItemFields : i[k] \in ItemValues[k]
    /\ \A i : /\ i = [k \in ItemFields |-> i[k]]
              /\ \A k \in ItemFields : i[k] \in ItemValues[k]
              => i \in Items!Item
<1>1. ASSUME NEW i \in Items!Item
      PROVE  /\ DOMAIN i = ItemFields /\ i = [k \in ItemFields |-> i[k]]
             /\ \A k \in ItemFields : i[k] \in ItemValues[k]
  BY DEF Items!Item, ItemFields, ItemValues
<1>2. ASSUME NEW i, i = [k \in ItemFields |-> i[k]], \A k \in ItemFields : i[k] \in ItemValues[k]
      PROVE  i \in Items!Item
  BY <1>2 DEF Items!Item, ItemFields, ItemValues
<1> QED
  BY <1>1, <1>2

\* What the constants are.
LEMMA ItemSettings ==
    /\ Verified \subseteq Findings /\ IsFiniteSet(Verified)
    /\ MCDefault \in [Findings -> Items!Priorities]
    /\ Generators # {}
    /\ None \notin Items!Item
    /\ \A c \in MCEdits : Items!Body(c)
    /\ MaxAborts \in Nat
<1>1. Items!ItemsAssumption
  BY ConstantsAreSensible
<1>2. IsFiniteSet(Findings) /\ Verified \subseteq Findings
  BY <1>1, Zenon DEF Items!ItemsAssumption, Items!IsFiniteSet, IsFiniteSet
<1>3. IsFiniteSet(Verified)
  BY <1>2, FS_Subset
<1> QED
  BY <1>1, <1>2, <1>3 DEF Items!ItemsAssumption

\* What a request changes of an item: what its body says, the mark of a date that
\* a person sets, and who completed it.
LEMMA EditedIs ==
    ASSUME NEW item \in Items!Item, NEW c \in MCEdits, NEW e \in Editors
    PROVE  LET u == Items!Updates(c)
               new == Items!Edited(item, u, e)
           IN  /\ DOMAIN u \subseteq Items!Editable
               /\ new \in Items!Item
               /\ \A k \in DOMAIN u : new[k] = u[k]
               /\ new.ai_priority = item.ai_priority
               /\ \A k \in Items!Editable \ DOMAIN u : new[k] = item[k]
               /\ new.completed_by = IF Items!Completes(u) THEN e ELSE item.completed_by
<1> DEFINE u == Items!Updates(c)
           new == Items!Edited(item, u, e)
<1>1. /\ DOMAIN c \subseteq Items!Editable
      /\ \A k \in DOMAIN c : c[k] \in ItemValues[k]
  BY ItemSettings DEF Items!Body, Items!Editable, ItemValues
<1>2. /\ DOMAIN u \subseteq Items!Editable
      /\ \A k \in DOMAIN u : u[k] \in ItemValues[k]
  <2>1. CASE u = c
    BY <1>1, <2>1
  <2>2. CASE u = [k \in DOMAIN c \cup {"date_status"} |->
                   IF k = "date_status" THEN "human_set" ELSE c[k]]
    <3>1. "human_set" \in ItemValues["date_status"] /\ "date_status" \in Items!Editable
      BY DEF ItemValues, Items!DateStatuses, Items!Editable
    <3> QED
      BY <1>1, <2>2, <3>1
  <2> QED
    BY <2>1, <2>2 DEF Items!Updates
<1> HIDE DEF u
<1>3. /\ DOMAIN item = ItemFields /\ \A k \in ItemFields : item[k] \in ItemValues[k]
      /\ Items!Editable \subseteq ItemFields
      /\ {"completed_by", "ai_priority"} \subseteq ItemFields \ Items!Editable
  BY ItemsAreFunctions DEF ItemFields, Items!Editable
<1>4. /\ new = [k \in ItemFields |-> new[k]]
      /\ \A k \in ItemFields : new[k] = IF k \in DOMAIN u THEN u[k]
                                    ELSE IF k = "completed_by" /\ Items!Completes(u) THEN e
                                    ELSE item[k]
  BY <1>3 DEF Items!Edited
<1> HIDE DEF new
<1>5. new \in Items!Item
  <2>1. e \in ItemValues["completed_by"]
    BY DEF ItemValues
  <2>2. \A k \in ItemFields : new[k] \in ItemValues[k]
    BY <1>2, <1>3, <1>4, <2>1
  <2> QED
    BY <1>4, <2>2, ItemsAreFunctions
<1>6. /\ \A k \in DOMAIN u : new[k] = u[k]
      /\ \A k \in Items!Editable \ DOMAIN u : new[k] = item[k]
  BY <1>2, <1>3, <1>4
<1>7. /\ new["ai_priority"] = item["ai_priority"]
      /\ new["completed_by"] = IF Items!Completes(u) THEN e ELSE item["completed_by"]
  BY <1>2, <1>3, <1>4
<1> QED
  BY <1>2, <1>5, <1>6, <1>7 DEF u, new

\* What a generation derives: an item of every verified finding.
LEMMA ListsAreComplete ==
    ASSUME ReviewInv, NEW list \in Items!Derivations
    PROVE  /\ list \in Seq(Items!Derived)
           /\ \A i \in DOMAIN list : list[i].finding \in Verified
           /\ \A f \in Verified : \E i \in DOMAIN list : list[i].finding = f
<1>1. PICK l \in Items!SetToSeqs(Verified) : list = [i \in DOMAIN l |-> Items!DerivedItem(l[i])]
  BY Zenon DEF Items!Derivations
<1> DEFINE n == Cardinality(Verified)
<1>2. n \in Nat
  BY ItemSettings, FS_CardinalityType
<1>3. l \in [1 .. n -> Verified] /\ \A i, j \in 1 .. n : i # j => l[i] # l[j]
  BY <1>1, Zenon DEF Items!SetToSeqs, Items!Cardinality, Cardinality
<1>4. \A f \in Verified : \E i \in 1 .. n : l[i] = f
  BY <1>3, ItemSettings, DistinctIsOnto
<1> HIDE DEF n
<1>5. \A f \in Verified : Items!DerivedItem(f) \in Items!Derived /\ Items!DerivedItem(f).finding = f
  <2> SUFFICES ASSUME NEW f \in Verified
               PROVE  Items!DerivedItem(f) \in Items!Derived /\ Items!DerivedItem(f).finding = f
    OBVIOUS
  <2>1. f \in Findings /\ MCDefault[f] \in Items!Priorities
    BY ItemSettings
  <2>2. Items!Severity(f) \in 0 .. 4
    <3>1. findings[f] \in Reviews!Finding
      BY <2>1 DEF ReviewInv, ReviewTypes
    <3>2. MCMachine[f] \in 0 .. 4 /\ findings[f].override \in 0 .. 4 \cup {None}
      BY <2>1, <3>1, RecordSettings DEF Reviews!Severities, Reviews!Finding
    <3> QED
      BY <3>2 DEF Items!Severity, Items!Reviewing!Effective
  <2>3. Items!SeverityPriority(Items!Severity(f)) \in Items!Priorities
    BY <2>2 DEF Items!SeverityPriority, Items!Priorities
  <2> QED
    BY <2>1, <2>3 DEF Items!DerivedItem, Items!Derived
<1>6. DOMAIN list = 1 .. n /\ \A i \in 1 .. n : list[i] = Items!DerivedItem(l[i])
      /\ l[i] \in Verified
  BY <1>1, <1>3
<1>7. list \in Seq(Items!Derived)
  BY <1>1, <1>2, <1>3, <1>5
<1> QED
  BY <1>4, <1>5, <1>6, <1>7

\* Items change by the steps of generations and edits.
LEMMA OnlyItems ==
    ASSUME [Next]_vars
    PROVE  \/ UNCHANGED itemVars
           \/ \E g \in Generators : Items!Generate(g)
           \/ \E e \in Editors : Items!Edit(e)
<1>1. CASE OfItems(Items!Next)
  <2>1. CASE \E r \in OneReviewer : Items!ReviewBegins(r) \/ Items!ReviewEnds(r)
    BY <2>1 DEF Items!ReviewBegins, Items!ReviewEnds, Items!editVars, Items!genVars, itemVars
  <2> QED
    BY <1>1, <2>1 DEF OfItems, Items!Next
<1>2. CASE ~ OfItems(Items!Next)
  BY <1>2 DEF Next, OfReviews, OfPolicies, OfDocuments, OfChat, OfWindow, OfKeys, vars, recordVars
<1> QED
  BY <1>1, <1>2

GenerationPcs == {"start", "insert", "done", "deadlock", "aborted"}

ItemTypes ==
    /\ items \in [Findings -> Items!Item \cup {None}]
    /\ editing = [e \in Editors |-> editing[e]]
    /\ pcItems \in [Generators -> GenerationPcs]
    /\ todo \in [Generators -> Seq(Items!Derived)]
    /\ inserted \in [Generators -> SUBSET Items!Derived]
    /\ aborts \in 0 .. MaxAborts

\* What an editor has locked exists and is as the editor has read it, and nobody
\* else has locked it.
EditsHold ==
    \A e \in Editors : editing[e] # None =>
        /\ editing[e].finding \in Findings /\ editing[e].changes \in MCEdits
        /\ items[editing[e].finding] # None
        /\ editing[e].read = items[editing[e].finding]
        /\ \A d \in Editors \ {e} :
             editing[d] # None => editing[d].finding # editing[e].finding

\* What a generation has inserted is derived from a verified finding, is nobody
\* else's and has no item yet; what it has left is derived from one, too.
InsertsAreApart ==
    \A g \in Generators :
        /\ Items!Keys(g) \subseteq Verified
        /\ \A i \in DOMAIN todo[g] : todo[g][i].finding \in Verified
        /\ \A f \in Items!Keys(g) : items[f] = None
        /\ \A h \in Generators \ {g} : Items!Keys(g) \cap Items!Keys(h) = {}
        /\ todo[g] # <<>> => pcItems[g] = "insert"

\* A verified finding has its item, or every open generation has inserted its
\* or will; once one has committed, all have theirs.
NothingIsMissed ==
    /\ \A g \in Generators : pcItems[g] = "insert" =>
         \A f \in Verified :
            \/ items[f] # None
            \/ f \in Items!Keys(g)
            \/ \E i \in DOMAIN todo[g] : todo[g][i].finding = f
    /\ \A g \in Generators : pcItems[g] = "done" => \A f \in Verified : items[f] # None
    /\ \A f \in Findings \ Verified : items[f] = None

\* The victims of deadlocks are never all.
SomeoneIsLeft == \E g \in Generators : pcItems[g] # "deadlock"

ItemsInv ==
    /\ ItemTypes
    /\ EditsHold
    /\ InsertsAreApart
    /\ NothingIsMissed
    /\ SomeoneIsLeft

\* Before the first generation there is nothing to keep.
LEMMA ItemsInit == Init => ItemsInv
<1> SUFFICES ASSUME Init PROVE ItemsInv
  OBVIOUS
<1>1. /\ items = [f \in Findings |-> None]
      /\ editing = [e \in Editors |-> None]
      /\ pcItems = [g \in Generators |-> "start"]
      /\ todo = [g \in Generators |-> <<>>]
      /\ inserted = [g \in Generators |-> {}]
      /\ aborts = 0
  BY DEF Init, Items!Init, Items!NothingDerived
<1>2. \A g \in Generators : Items!Keys(g) = {} /\ todo[g] = <<>> /\ pcItems[g] = "start"
  BY <1>1 DEF Items!Keys
<1>3. ItemTypes
  BY <1>1, ItemSettings DEF ItemTypes, GenerationPcs
<1>4. EditsHold
  BY <1>1 DEF EditsHold
<1>5. InsertsAreApart
  BY <1>1, <1>2 DEF InsertsAreApart
<1>6. NothingIsMissed
  BY <1>1, <1>2 DEF NothingIsMissed
<1>7. SomeoneIsLeft
  BY <1>2, ItemSettings DEF SomeoneIsLeft
<1> QED
  BY <1>3, <1>4, <1>5, <1>6, <1>7 DEF ItemsInv

\* A generation reads the findings.
LEMMA ReadKeeps ==
    ASSUME ReviewInv, ItemsInv, NEW g \in Generators, Items!ReadFindings(g)
    PROVE  ItemsInv'
<1>1. PICK list \in Items!Derivations :
        /\ todo' = [todo EXCEPT ![g] = list]
        /\ pcItems' = [pcItems EXCEPT ![g] = IF list = <<>> THEN "done" ELSE "insert"]
  BY DEF Items!ReadFindings
<1>2. UNCHANGED <<items, editing, inserted, aborts>>
  BY DEF Items!ReadFindings, Items!editVars
<1>3. /\ list \in Seq(Items!Derived)
      /\ \A i \in DOMAIN list : list[i].finding \in Verified
      /\ \A f \in Verified : \E i \in DOMAIN list : list[i].finding = f
  BY ListsAreComplete
<1>4. \A h \in Generators :
        /\ Items!Keys(h)' = Items!Keys(h)
        /\ todo'[h] = IF h = g THEN list ELSE todo[h]
        /\ pcItems'[h] = IF h = g THEN IF list = <<>> THEN "done" ELSE "insert" ELSE pcItems[h]
  BY <1>1, <1>2 DEF Items!Keys, ItemsInv, ItemTypes
<1>5. list = <<>> => Verified = {}
  BY <1>3
<1>6. ItemTypes'
  BY <1>1, <1>2, <1>3 DEF ItemsInv, ItemTypes, GenerationPcs
<1>7. EditsHold'
  BY <1>2 DEF ItemsInv, EditsHold
<1>8. InsertsAreApart'
  BY <1>2, <1>3, <1>4 DEF ItemsInv, InsertsAreApart
<1>9. NothingIsMissed'
  BY <1>2, <1>3, <1>4, <1>5 DEF ItemsInv, NothingIsMissed
<1>10. SomeoneIsLeft'
  BY <1>4 DEF ItemsInv, SomeoneIsLeft
<1> QED
  BY <1>6, <1>7, <1>8, <1>9, <1>10 DEF ItemsInv

\* A generation inserts an item, or finds it there.
LEMMA InsertKeeps ==
    ASSUME ItemsInv, NEW g \in Generators, Items!InsertItem(g)
    PROVE  ItemsInv'
<1> DEFINE d == Head(todo[g])
           t == Tail(todo[g])
<1>1. /\ todo[g] # <<>> /\ todo[g] \in Seq(Items!Derived)
      /\ todo' = [todo EXCEPT ![g] = t]
      /\ UNCHANGED <<items, editing, pcItems, aborts>>
  BY DEF Items!InsertItem, Items!editVars, ItemsInv, ItemTypes
<1>2. /\ d \in Items!Derived /\ t \in Seq(Items!Derived) /\ d = todo[g][1]
      /\ \A i \in DOMAIN t : i + 1 \in DOMAIN todo[g] /\ t[i] = todo[g][i + 1]
      /\ \A i \in DOMAIN todo[g] : i = 1 \/ (i - 1 \in DOMAIN t /\ t[i - 1] = todo[g][i])
      /\ 1 \in DOMAIN todo[g]
  BY <1>1
<1>3. \/ items[d.finding] # None /\ inserted' = inserted
      \/ /\ items[d.finding] = None
         /\ inserted' = [inserted EXCEPT ![g] = inserted[g] \cup {d}]
  BY DEF Items!InsertItem
<1>4. \A h \in Generators \ {g} : d.finding \notin Items!Keys(h)
  BY <1>1 DEF Items!InsertItem, Items!WaitsFor
<1> HIDE DEF d, t
<1>5. \A h \in Generators : todo'[h] = IF h = g THEN t ELSE todo[h]
  BY <1>1 DEF ItemsInv, ItemTypes
<1>6. \A h \in Generators \ {g} : Items!Keys(h)' = Items!Keys(h)
  BY <1>3 DEF Items!Keys, ItemsInv, ItemTypes
<1>7. \/ items[d.finding] # None /\ Items!Keys(g)' = Items!Keys(g)
      \/ items[d.finding] = None /\ Items!Keys(g)' = Items!Keys(g) \cup {d.finding}
  BY <1>3 DEF Items!Keys, ItemsInv, ItemTypes
<1>8. d.finding \in Verified
  BY <1>2 DEF ItemsInv, InsertsAreApart
<1>9. ItemTypes'
  <2>1. inserted' \in [Generators -> SUBSET Items!Derived]
    <3> DEFINE S == SUBSET Items!Derived
               X == inserted[g] \cup {d}
    <3>1. inserted \in [Generators -> S]
      BY DEF ItemsInv, ItemTypes
    <3>2. X \in S
      BY <1>2, <3>1
    <3>3. inserted' = inserted \/ inserted' = [inserted EXCEPT ![g] = X]
      BY <1>3
    <3> HIDE DEF S, X
    <3>4. [inserted EXCEPT ![g] = X] \in [Generators -> S]
      BY <3>1, <3>2
    <3>5. inserted' \in [Generators -> S]
      BY <3>1, <3>3, <3>4
    <3> QED
      BY <3>5 DEF S
  <2>2. todo' \in [Generators -> Seq(Items!Derived)]
    <3> DEFINE S == Seq(Items!Derived)
    <3>1. todo \in [Generators -> S] /\ t \in S
      BY <1>2 DEF ItemsInv, ItemTypes
    <3> HIDE DEF S
    <3>2. todo' \in [Generators -> S]
      BY <1>1, <3>1
    <3> QED
      BY <3>2 DEF S
  <2>3. editing' = [e \in Editors |-> editing'[e]]
    BY <1>1 DEF ItemsInv, ItemTypes
  <2> QED
    BY <1>1, <2>1, <2>2, <2>3 DEF ItemsInv, ItemTypes
<1>10. EditsHold'
  BY <1>1 DEF ItemsInv, EditsHold
<1>11. InsertsAreApart'
  <2>1. \A h \in Generators : /\ Items!Keys(h)' \subseteq Verified
                              /\ \A f \in Items!Keys(h)' : items'[f] = None
    BY <1>1, <1>6, <1>7, <1>8 DEF ItemsInv, InsertsAreApart
  <2>2. \A h \in Generators : \A i \in DOMAIN todo'[h] : todo'[h][i].finding \in Verified
    BY <1>2, <1>5 DEF ItemsInv, InsertsAreApart
  <2>3. \A h \in Generators : \A k \in Generators \ {h} :
           Items!Keys(h)' \cap Items!Keys(k)' = {}
    BY <1>4, <1>6, <1>7 DEF ItemsInv, InsertsAreApart
  <2>4. \A h \in Generators : todo'[h] # <<>> => pcItems'[h] = "insert"
    BY <1>1, <1>5 DEF ItemsInv, InsertsAreApart
  <2> QED
    BY <2>1, <2>2, <2>3, <2>4 DEF InsertsAreApart
<1>12. NothingIsMissed'
  <2>1. ASSUME NEW h \in Generators, pcItems[h] = "insert", NEW f \in Verified
        PROVE  \/ items[f] # None \/ f \in Items!Keys(h)'
               \/ \E i \in DOMAIN todo'[h] : todo'[h][i].finding = f
    <3>1. CASE h # g
      BY <1>5, <1>6, <2>1, <3>1 DEF ItemsInv, NothingIsMissed
    <3>2. CASE h = g
      <4>1. \/ items[f] # None \/ f \in Items!Keys(g)
            \/ \E i \in DOMAIN todo[g] : todo[g][i].finding = f
        BY <2>1, <3>2 DEF ItemsInv, NothingIsMissed
      <4> QED
        BY <1>2, <1>5, <1>7, <3>2, <4>1
    <3> QED
      BY <3>1, <3>2
  <2> QED
    BY <1>1, <2>1 DEF ItemsInv, NothingIsMissed
<1>13. SomeoneIsLeft'
  BY <1>1 DEF ItemsInv, SomeoneIsLeft
<1> QED
  BY <1>9, <1>10, <1>11, <1>12, <1>13 DEF ItemsInv

\* What a generation makes of what it has inserted.
LEMMA NewItems ==
    ASSUME ItemsInv, NEW g \in Generators, NEW f \in Items!Keys(g)
    PROVE  LET new == Items!NewItem(CHOOSE d \in inserted[g] : d.finding = f)
           IN  /\ new \in Items!Item /\ new # None
               /\ new.status = "open" /\ new.due_date = None
               /\ new.priority = new.ai_priority /\ new.completed_by = None
<1> DEFINE d == CHOOSE d \in inserted[g] : d.finding = f
           new == Items!NewItem(d)
<1>1. d \in inserted[g]
  <2>1. \E c \in inserted[g] : c.finding = f
    BY DEF Items!Keys
  <2> QED
    BY <2>1
<1> HIDE DEF d
<1>2. d.priority \in Items!Priorities
  BY <1>1 DEF ItemsInv, ItemTypes, Items!Derived
<1>3. new \in Items!Item
  BY <1>2, Zenon DEF Items!NewItem, Items!Item, Items!Statuses, Items!DateStatuses
<1>4. /\ new.status = "open" /\ new.due_date = None
      /\ new.priority = new.ai_priority /\ new.completed_by = None
  BY DEF Items!NewItem
<1> HIDE DEF new
<1> QED
  BY <1>3, <1>4, ItemSettings DEF new, d

\* A commit makes an item of every row inserted (bulk_upsert).
LEMMA CommitKeeps ==
    ASSUME ItemsInv, NEW g \in Generators, Items!CommitItems(g)
    PROVE  ItemsInv'
<1> DEFINE new(f) == Items!NewItem(CHOOSE d \in inserted[g] : d.finding = f)
<1>1. /\ pcItems[g] = "insert" /\ todo[g] = <<>>
      /\ items' = [f \in Findings |-> IF f \in Items!Keys(g) THEN new(f) ELSE items[f]]
      /\ inserted' = [inserted EXCEPT ![g] = {}]
      /\ pcItems' = [pcItems EXCEPT ![g] = "done"]
      /\ UNCHANGED <<todo, aborts, editing>>
  BY DEF Items!CommitItems, Items!editVars
<1>2. \A f \in Items!Keys(g) : new(f) \in Items!Item /\ new(f) # None
  BY NewItems
<1> HIDE DEF new
<1>3. \A f \in Findings : items'[f] = IF f \in Items!Keys(g) THEN new(f) ELSE items[f]
  BY <1>1
<1>4. \A h \in Generators :
        /\ Items!Keys(h)' = IF h = g THEN {} ELSE Items!Keys(h)
        /\ pcItems'[h] = IF h = g THEN "done" ELSE pcItems[h]
  BY <1>1 DEF Items!Keys, ItemsInv, ItemTypes
<1>5. \A f \in Findings : items[f] # None => items'[f] = items[f] /\ f \notin Items!Keys(g)
  BY <1>3 DEF ItemsInv, InsertsAreApart
<1>6. Verified \subseteq Findings
  BY ItemSettings
<1>7. ItemTypes'
  BY <1>1, <1>2 DEF ItemsInv, ItemTypes, GenerationPcs
<1>8. EditsHold'
  BY <1>1, <1>5 DEF ItemsInv, EditsHold
<1>9. InsertsAreApart'
  <2>1. \A h \in Generators : /\ Items!Keys(h)' \subseteq Verified
                              /\ \A f \in Items!Keys(h)' : items'[f] = None
    BY <1>3, <1>4, <1>6 DEF ItemsInv, InsertsAreApart
  <2>2. \A h \in Generators : todo'[h] # <<>> => pcItems'[h] = "insert"
    BY <1>1, <1>4 DEF ItemsInv, InsertsAreApart
  <2> QED
    BY <1>1, <1>4, <2>1, <2>2 DEF ItemsInv, InsertsAreApart
<1>10. NothingIsMissed'
  <2>1. \A f \in Verified : items'[f] # None
    <3>1. \A f \in Verified : items[f] # None \/ f \in Items!Keys(g)
      BY <1>1 DEF ItemsInv, NothingIsMissed
    <3> QED
      BY <1>2, <1>3, <1>6, <3>1
  <2>2. \A f \in Findings \ Verified : items'[f] = None
    BY <1>3 DEF ItemsInv, InsertsAreApart, NothingIsMissed
  <2> QED
    BY <2>1, <2>2 DEF NothingIsMissed
<1>11. SomeoneIsLeft'
  BY <1>4 DEF SomeoneIsLeft
<1> QED
  BY <1>7, <1>8, <1>9, <1>10, <1>11 DEF ItemsInv

\* A generation is rolled back: what it has inserted is forgotten.
LEMMA RollBackKeeps ==
    ASSUME ItemsInv, NEW g \in Generators, NEW end \in {"deadlock", "aborted"},
           Items!RollBack(g, end), aborts' \in 0 .. MaxAborts,
           end = "deadlock" => \E h \in Generators \ {g} : pcItems[h] # "deadlock"
    PROVE  ItemsInv'
<1>1. /\ pcItems' = [pcItems EXCEPT ![g] = end]
      /\ todo' = [todo EXCEPT ![g] = <<>>]
      /\ inserted' = [inserted EXCEPT ![g] = {}]
      /\ UNCHANGED <<items, editing>>
  BY DEF Items!RollBack, Items!editVars
<1>2. \A h \in Generators :
        /\ Items!Keys(h)' = IF h = g THEN {} ELSE Items!Keys(h)
        /\ pcItems'[h] = IF h = g THEN end ELSE pcItems[h]
        /\ todo'[h] = IF h = g THEN <<>> ELSE todo[h]
  BY <1>1 DEF Items!Keys, ItemsInv, ItemTypes
<1>3. ItemTypes'
  BY <1>1 DEF ItemsInv, ItemTypes, GenerationPcs
<1>4. EditsHold'
  BY <1>1 DEF ItemsInv, EditsHold
<1>5. InsertsAreApart'
  BY <1>1, <1>2 DEF ItemsInv, InsertsAreApart
<1>6. NothingIsMissed'
  BY <1>1, <1>2 DEF ItemsInv, NothingIsMissed
<1>7. SomeoneIsLeft'
  BY <1>2 DEF ItemsInv, SomeoneIsLeft
<1> QED
  BY <1>3, <1>4, <1>5, <1>6, <1>7 DEF ItemsInv

\* The victim of a deadlock waited for another generation, which waits itself.
LEMMA DeadlockKeeps ==
    ASSUME ItemsInv, NEW g \in Generators, Items!DeadlockFound(g)
    PROVE  ItemsInv'
<1>1. PICK S \in SUBSET Generators : g \in S /\ Items!WaitCycle(S)
  BY DEF Items!DeadlockFound
<1>2. PICK h \in Items!WaitsFor(g) : TRUE
  BY <1>1 DEF Items!WaitCycle
<1>3. h \in Generators \ {g} /\ h \in S
  BY <1>1, <1>2 DEF Items!WaitCycle, Items!WaitsFor
<1>4. todo[h] # <<>>
  BY <1>1, <1>3 DEF Items!WaitCycle, Items!WaitsFor
<1>5. pcItems[h] # "deadlock"
  BY <1>3, <1>4 DEF ItemsInv, InsertsAreApart
<1>6. Items!RollBack(g, "deadlock") /\ aborts' \in 0 .. MaxAborts
  BY DEF Items!DeadlockFound, ItemsInv, ItemTypes
<1> QED
  BY <1>3, <1>5, <1>6, RollBackKeeps

\* Every step of a generation keeps the invariant.
LEMMA GenerateKeeps ==
    ASSUME ReviewInv, ItemsInv, NEW g \in Generators, Items!Generate(g)
    PROVE  ItemsInv'
<1>1. CASE Items!GenerationAborted(g)
  <2>1. Items!RollBack(g, "aborted")
    BY <1>1 DEF Items!GenerationAborted
  <2>2. aborts' \in 0 .. MaxAborts
    BY <1>1, ItemSettings DEF Items!GenerationAborted, ItemsInv, ItemTypes
  <2> QED
    BY <2>1, <2>2, RollBackKeeps
<1> QED
  BY <1>1, ReadKeeps, InsertKeeps, CommitKeeps, DeadlockKeeps DEF Items!Generate

\* What a step of an editor does.
LEMMA EditSteps ==
    ASSUME ItemsInv, NEW e \in Editors, Items!Edit(e)
    PROVE  /\ UNCHANGED <<pcItems, todo, inserted, aborts>>
           /\ \A d \in Editors \ {e} : editing'[d] = editing[d]
           /\ editing' = [d \in Editors |-> editing'[d]]
           /\ \/ \E f \in Findings, c \in MCEdits :
                   /\ editing'[e] = [finding |-> f, changes |-> c, read |-> items[f]]
                   /\ items[f] # None /\ ~ Items!ItemLocked(f)
                   /\ UNCHANGED <<items, itemReviews>>
              \/ /\ Items!WriteEdit(e)
                 /\ editing'[e] = None
              \/ /\ editing'[e] = None
                 /\ UNCHANGED <<items, itemReviews>>
<1>1. editing = [d \in Editors |-> editing[d]]
  BY DEF ItemsInv, ItemTypes
<1>2. CASE \E f \in Findings, c \in MCEdits : Items!LockItem(e, f, c)
  BY <1>1, <1>2 DEF Items!LockItem, Items!genVars
<1>3. CASE Items!WriteEdit(e)
  BY <1>1, <1>3 DEF Items!WriteEdit, Items!genVars
<1>4. CASE Items!EditAborted(e)
  BY <1>1, <1>4 DEF Items!EditAborted, Items!genVars
<1> QED
  BY <1>2, <1>3, <1>4 DEF Items!Edit

\* An edit that commits writes the item that it has locked.
LEMMA EditWrites ==
    ASSUME ItemsInv, NEW e \in Editors, Items!WriteEdit(e)
    PROVE  \E f \in Findings, c \in MCEdits :
             /\ f = editing[e].finding /\ c = editing[e].changes
             /\ items[f] \in Items!Item /\ items[f] # None /\ editing[e].read = items[f]
             /\ items' = [items EXCEPT ![f] = Items!Edited(items[f], Items!Updates(c), e)]
             /\ Items!Edited(items[f], Items!Updates(c), e) \in Items!Item
             /\ Items!Edited(items[f], Items!Updates(c), e) # None
<1> DEFINE f == editing[e].finding
           c == editing[e].changes
<1>1. /\ f \in Findings /\ c \in MCEdits /\ items[f] # None /\ editing[e].read = items[f]
  BY DEF Items!WriteEdit, ItemsInv, EditsHold
<1>2. items[f] \in Items!Item
  BY <1>1 DEF ItemsInv, ItemTypes
<1>3. items' = [items EXCEPT ![f] = Items!Edited(items[f], Items!Updates(c), e)]
  BY DEF Items!WriteEdit
<1> HIDE DEF f, c
<1>4. Items!Edited(items[f], Items!Updates(c), e) \in Items!Item
  BY <1>1, <1>2, EditedIs
<1> QED
  BY <1>1, <1>2, <1>3, <1>4, ItemSettings DEF f, c

\* Every step of an edit keeps the invariant.
LEMMA EditKeeps ==
    ASSUME ItemsInv, NEW e \in Editors, Items!Edit(e)
    PROVE  ItemsInv'
<1>1. /\ UNCHANGED <<pcItems, todo, inserted, aborts>>
      /\ \A d \in Editors \ {e} : editing'[d] = editing[d]
      /\ editing' = [d \in Editors |-> editing'[d]]
  BY EditSteps
<1>2. \A g \in Generators : Items!Keys(g)' = Items!Keys(g)
  BY <1>1 DEF Items!Keys
<1>3. /\ items' \in [Findings -> Items!Item \cup {None}]
      /\ \A f \in Findings : items'[f] = None <=> items[f] = None
      /\ \A f \in Findings : items'[f] # items[f] =>
            editing[e] # None /\ editing[e].finding = f /\ editing'[e] = None
  <2>1. CASE UNCHANGED items
    BY <2>1 DEF ItemsInv, ItemTypes
  <2>2. CASE Items!WriteEdit(e)
    <3>1. PICK f \in Findings, new \in Items!Item :
            /\ f = editing[e].finding /\ items[f] # None /\ new # None
            /\ items' = [items EXCEPT ![f] = new]
      BY <2>2, EditWrites
    <3>2. editing[e] # None
      BY <2>2 DEF Items!WriteEdit
    <3>3. editing'[e] = None
      BY <2>2 DEF Items!WriteEdit, ItemsInv, ItemTypes
    <3>4. \A g \in Findings : items'[g] = IF g = f THEN new ELSE items[g]
      BY <3>1 DEF ItemsInv, ItemTypes
    <3>5. items' \in [Findings -> Items!Item \cup {None}]
      BY <3>1 DEF ItemsInv, ItemTypes
    <3> QED
      BY <3>1, <3>2, <3>3, <3>4, <3>5
  <2> QED
    BY <2>1, <2>2, EditSteps
<1>4. ItemTypes'
  BY <1>1, <1>3 DEF ItemsInv, ItemTypes
<1>5. EditsHold'
  <2>1. ASSUME NEW d \in Editors, editing[d] # None, d # e
        PROVE  items'[editing[d].finding] = items[editing[d].finding]
    <3>1. editing[d].finding \in Findings /\
          (editing[e] # None => editing[e].finding # editing[d].finding)
      BY <2>1 DEF ItemsInv, EditsHold
    <3> QED
      BY <1>3, <3>1
  <2>2. CASE editing'[e] = None
    BY <1>1, <2>1, <2>2 DEF ItemsInv, EditsHold
  <2>3. CASE editing'[e] # None
    <3>1. PICK f \in Findings, c \in MCEdits :
                   /\ editing'[e] = [finding |-> f, changes |-> c, read |-> items[f]]
                   /\ items[f] # None /\ ~ Items!ItemLocked(f)
                   /\ UNCHANGED <<items, itemReviews>>
      BY <2>3, EditSteps
    <3>2. /\ editing'[e].finding = f /\ editing'[e].changes = c /\ editing'[e].read = items[f]
      BY <3>1
    <3>3. \A d \in Editors : editing[d] # None => editing[d].finding # f
      BY <3>1 DEF Items!ItemLocked
    <3> QED
      BY <1>1, <3>1, <3>2, <3>3 DEF ItemsInv, EditsHold
  <2> QED
    BY <2>2, <2>3
<1>6. InsertsAreApart'
  <2>1. \A g \in Generators : Items!Keys(g) \subseteq Findings
    BY ItemSettings DEF ItemsInv, InsertsAreApart
  <2> QED
    BY <1>1, <1>2, <1>3, <2>1 DEF ItemsInv, InsertsAreApart
<1>7. NothingIsMissed'
  BY <1>1, <1>2, <1>3, ItemSettings DEF ItemsInv, NothingIsMissed
<1>8. SomeoneIsLeft'
  BY <1>1 DEF ItemsInv, SomeoneIsLeft
<1> QED
  BY <1>4, <1>5, <1>6, <1>7, <1>8 DEF ItemsInv

\* So every reachable state has it.
LEMMA AlwaysItems == Spec => []ItemsInv
<1>1. ASSUME ReviewInv, ItemsInv, [Next]_vars
      PROVE  ItemsInv'
  <2>1. CASE UNCHANGED itemVars
    <3>1. \A g \in Generators : Items!Keys(g)' = Items!Keys(g)
      BY <2>1 DEF Items!Keys, itemVars
    <3> QED
      BY <1>1, <2>1, <3>1 DEF ItemsInv, ItemTypes, EditsHold, InsertsAreApart, NothingIsMissed,
         SomeoneIsLeft, itemVars
  <2> QED
    BY <1>1, <2>1, OnlyItems, GenerateKeeps, EditKeeps
<1> QED
  BY <1>1, ItemsInit, AlwaysReviews, PTL DEF Spec

\* However generations, reviews and deadlocks interleave, a generation that
\* succeeds, or that loses only to a deadlock, leaves no verified finding without
\* its item (bulk_upsert).
THEOREM GenerationsAreComplete == Spec => []GenerationIsComplete
<1>1. ASSUME ItemsInv
      PROVE  GenerationIsComplete
  <2>1. \A g \in Generators : pcItems[g] = "done" => \A f \in Verified : items[f] # None
    BY <1>1 DEF ItemsInv, NothingIsMissed
  <2>2. \A f \in Findings \ Verified : items[f] = None
    BY <1>1 DEF ItemsInv, NothingIsMissed
  <2>3. PICK g \in Generators : pcItems[g] # "deadlock"
    BY <1>1 DEF ItemsInv, SomeoneIsLeft
  <2>4. (\A h \in Generators : pcItems[h] \in {"done", "deadlock"}) => pcItems[g] = "done"
    BY <2>3
  <2> QED
    BY <2>1, <2>2, <2>3, <2>4 DEF GenerationIsComplete, Items!GenerationIsComplete
<1> QED
  BY <1>1, AlwaysItems, PTL

\* However they interleave, no generation takes back what a person has changed:
\* an item changes only when an edit of it commits (bulk_upsert, update).
THEOREM EditsStay == Spec => EditsSurvive
<1> DEFINE Kept == \A f \in Findings : items[f] # None /\ items'[f] # items[f] =>
                      \E e \in Editors : /\ editing[e] # None
                                         /\ editing[e].finding = f
                                         /\ editing'[e] = None
<1>1. ASSUME ItemsInv, [Next]_vars
      PROVE  Kept
  <2>1. CASE UNCHANGED items
    BY <2>1
  <2>2. ASSUME NEW g \in Generators, Items!CommitItems(g)
        PROVE  Kept
    <3>1. \A f \in Findings : f \notin Items!Keys(g) => items'[f] = items[f]
      BY <2>2 DEF Items!CommitItems
    <3>2. \A f \in Items!Keys(g) : items[f] = None
      BY <1>1 DEF ItemsInv, InsertsAreApart
    <3> QED
      BY <3>1, <3>2
  <2>3. ASSUME NEW e \in Editors, Items!WriteEdit(e)
        PROVE  Kept
    <3>1. PICK f \in Findings, new \in Items!Item :
            /\ f = editing[e].finding
            /\ items' = [items EXCEPT ![f] = new]
      BY <1>1, <2>3, EditWrites
    <3>2. editing[e] # None
      BY <2>3 DEF Items!WriteEdit
    <3>3. editing'[e] = None
      BY <1>1, <2>3 DEF Items!WriteEdit, ItemsInv, ItemTypes
    <3>4. \A g \in Findings : g # f => items'[g] = items[g]
      BY <1>1, <3>1 DEF ItemsInv, ItemTypes
    <3> QED
      BY <3>1, <3>2, <3>3, <3>4
  <2>4. UNCHANGED items \/ (\E g \in Generators : Items!CommitItems(g))
        \/ \E e \in Editors : Items!WriteEdit(e)
    <3>1. ASSUME NEW g \in Generators, Items!Generate(g)
          PROVE  UNCHANGED items \/ Items!CommitItems(g)
      BY <3>1 DEF Items!Generate, Items!ReadFindings, Items!InsertItem, Items!DeadlockFound,
         Items!GenerationAborted, Items!RollBack
    <3>2. ASSUME NEW e \in Editors, Items!Edit(e)
          PROVE  UNCHANGED items \/ Items!WriteEdit(e)
      BY <3>2 DEF Items!Edit, Items!LockItem, Items!EditAborted
    <3>3. UNCHANGED itemVars => UNCHANGED items
      BY DEF itemVars
    <3> QED
      BY <1>1, <3>1, <3>2, <3>3, OnlyItems
  <2> QED
    BY <2>1, <2>2, <2>3, <2>4
<1>2. ItemsInv /\ [Next]_vars => [Kept]_(Items!vars)
  BY <1>1
<1> QED
  BY <1>2, AlwaysItems, PTL DEF Spec, EditsSurvive, Items!EditsSurvive

-----------------------------------------------------------------------------
(* And the history of an item explains it.                                  *)

HistoryValues == Nat \cup {None} \cup Items!Statuses

HistoryRow ==
    [finding : Findings, reviewer : Editors, field : Items!Recorded,
     previous : HistoryValues, new : HistoryValues]

\* The rows of a field of an item before row i, and what they leave.
ChangesBefore(f, k, i) ==
    {j \in 1 .. i - 1 : itemReviews[j].finding = f /\ itemReviews[j].field = k}
FirstValue(f, k) ==
    CASE k = "status" -> "open"
      [] k = "due_date" -> None
      [] k = "priority" -> items[f].ai_priority
ValueBefore(f, k, i) ==
    IF ChangesBefore(f, k, i) = {} THEN FirstValue(f, k)
    ELSE itemReviews[Items!LastOf(ChangesBefore(f, k, i))].new

Completions(f) ==
    {i \in DOMAIN itemReviews : /\ itemReviews[i].finding = f
                               /\ itemReviews[i].field = "status"
                               /\ itemReviews[i].new = "completed"}

ChangeExplained(f, k, i) ==
    itemReviews[i].finding = f /\ itemReviews[i].field = k =>
        itemReviews[i].previous = ValueBefore(f, k, i)

ItemExplained(f) ==
    /\ \A k \in Items!Recorded :
         /\ \A i \in DOMAIN itemReviews : ChangeExplained(f, k, i)
         /\ items[f][k] = ValueBefore(f, k, Len(itemReviews) + 1)
    /\ items[f].completed_by = IF Completions(f) = {} THEN None
                               ELSE itemReviews[Items!LastOf(Completions(f))].reviewer

\* Only items that exist have a history, and it explains them.
HistoryInv ==
    /\ itemReviews \in Seq(HistoryRow)
    /\ \A i \in DOMAIN itemReviews : items[itemReviews[i].finding] # None
    /\ \A f \in Findings : items[f] # None => ItemExplained(f)

\* That is what the property says.
LEMMA ItemExplainedIs == HistoryInv => Items!HistoryExplainsEdits
<1> SUFFICES ASSUME HistoryInv PROVE Items!HistoryExplainsEdits
  OBVIOUS
<1>1. Items!HistoryExplainsItem
  BY Zenon DEF HistoryInv, ItemExplained, ChangeExplained, ValueBefore, ChangesBefore, FirstValue,
     Items!HistoryExplainsItem
<1>2. Items!CompletionIsAttributed
  BY Zenon DEF HistoryInv, ItemExplained, Completions, Items!CompletionIsAttributed
<1> QED
  BY <1>1, <1>2 DEF Items!HistoryExplainsEdits

\* The latest of some rows is the same here.
LEMMA LatestItemIs ==
    ASSUME NEW S \in SUBSET Nat, NEW m \in S, \A k \in S : k <= m
    PROVE  Items!LastOf(S) = m
<1>1. Reviews!LastOf(S) = m
  BY LatestIs
<1> QED
  BY <1>1, Zenon DEF Reviews!LastOf, Items!LastOf

\* And it is one of them.
LEMMA LatestItemExists ==
    ASSUME NEW n \in Nat, NEW S \in SUBSET (1 .. n), S # {}
    PROVE  Items!LastOf(S) \in S
<1>1. Reviews!LastOf(S) \in S
  BY LatestExists
<1> QED
  BY <1>1, Zenon DEF Reviews!LastOf, Items!LastOf

\* The recorded fields are three.
LEMMA RecordedAre ==
    /\ Items!Recorded = {"due_date", "priority", "status"}
    /\ Items!Recorded \subseteq Items!Editable
    /\ IsFiniteSet(Items!Recorded)
<1>1. Items!Recorded = {"due_date", "priority", "status"}
  BY Zenon DEF Items!Recorded, Items!Editable
<1>2. Items!Recorded = {"due_date"} \cup {"priority"} \cup {"status"}
  BY <1>1, Zenon
<1>3. IsFiniteSet({"due_date"} \cup {"priority"})
  BY FS_Singleton, FS_AddElement, Zenon
<1>4. IsFiniteSet({"due_date"} \cup {"priority"} \cup {"status"})
  BY <1>3, FS_AddElement, Zenon
<1> QED
  BY <1>1, <1>2, <1>4, Zenon DEF Items!Recorded

\* The rows of an edit: one of each field that it changes and that is recorded.
LEMMA RowsOfEdit ==
    ASSUME NEW f \in Findings, NEW item \in Items!Item, NEW c \in MCEdits, NEW e \in Editors,
           NEW t, t.finding = f, t.read = item
    PROVE  LET u == Items!Updates(c)
               rows == Items!HistoryRows(t, u, e)
           IN  /\ rows \in Seq(HistoryRow)
               /\ \A p \in DOMAIN rows :
                    /\ rows[p].finding = f /\ rows[p].reviewer = e
                    /\ rows[p].field \in DOMAIN u
                    /\ rows[p].previous = item[rows[p].field]
                    /\ rows[p].new = u[rows[p].field]
               /\ \A k \in DOMAIN u \cap Items!Recorded :
                    \E p \in DOMAIN rows : rows[p].field = k
               /\ \A p, q \in DOMAIN rows : p # q => rows[p].field # rows[q].field
<1> DEFINE u == Items!Updates(c)
           K == DOMAIN u \cap Items!Recorded
           row == [k \in K |-> [finding |-> f, reviewer |-> e, field |-> k,
                                previous |-> item[k], new |-> u[k]]]
           R == {row[k] : k \in K}
           n == Cardinality(R)
           rows == Items!HistoryRows(t, u, e)
<1>1. \A k \in K : item[k] \in HistoryValues /\ u[k] \in HistoryValues
  <2>1. /\ Items!Edited(item, u, e) \in Items!Item
        /\ \A k \in DOMAIN u : Items!Edited(item, u, e)[k] = u[k]
    BY EditedIs
  <2>2. \A k \in Items!Recorded : k \in ItemFields /\ ItemValues[k] \subseteq HistoryValues
    BY RecordedAre DEF ItemFields, ItemValues, HistoryValues, Items!Priorities
  <2> HIDE DEF u
  <2> QED
    BY <2>1, <2>2, ItemsAreFunctions
<1> HIDE DEF u
<1>2. \A k \in K : row[k] \in HistoryRow /\ row[k].field = k
  BY <1>1 DEF HistoryRow
<1>3. IsFiniteSet(K)
  BY RecordedAre, FS_Subset
<1>4. IsFiniteSet(R)
  <2>1. row \in Surjection(K, R)
    BY DEF Surjection
  <2> HIDE DEF K, row, R
  <2> QED
    BY <1>3, <2>1, FS_Surjection
<1>5. n \in Nat /\ ExistsBijection(1 .. n, R)
  <2> HIDE DEF R
  <2> QED
    BY <1>4, FS_CardinalityType
<1>6. rows = CHOOSE g \in [1 .. n -> R] : \A a, b \in DOMAIN g : g[a] = g[b] => a = b
  <2>1. R = {[finding |-> t.finding, reviewer |-> e, field |-> k,
              previous |-> t.read[k], new |-> u[k]] : k \in K}
    OBVIOUS
  <2> HIDE DEF R, K
  <2> QED
    BY <2>1, Zenon DEF K, Items!HistoryRows, Items!SetToSeq, Items!IsInjective, Items!Cardinality,
       Cardinality
<1> HIDE DEF row, n, rows
<1>7. /\ rows \in [1 .. n -> R]
      /\ \A a, b \in 1 .. n : rows[a] = rows[b] => a = b
  <2>1. \E g \in [1 .. n -> R] : \A a, b \in DOMAIN g : g[a] = g[b] => a = b
    BY <1>5, Zenon DEF ExistsBijection, Bijection, Injection, IsInjective
  <2>2. rows \in [1 .. n -> R] /\ \A a, b \in DOMAIN rows : rows[a] = rows[b] => a = b
    BY <1>6, <2>1, Zenon
  <2> QED
    BY <2>2
<1>8. \A r \in R : \E p \in 1 .. n : rows[p] = r
  <2> HIDE DEF R
  <2>1. \A a, b \in 1 .. n : a # b => rows[a] # rows[b]
    BY <1>7
  <2>2. rows \in [1 .. Cardinality(R) -> R]
        /\ \A a, b \in 1 .. Cardinality(R) : a # b => rows[a] # rows[b]
    BY <1>7, <2>1 DEF n
  <2>3. \A r \in R : \E p \in 1 .. Cardinality(R) : rows[p] = r
    BY <1>4, <2>2, DistinctIsOnto
  <2> QED
    BY <2>3 DEF n
<1>9. \A p \in 1 .. n : \E k \in K : rows[p] = row[k]
  BY <1>7
<1>10. \A p \in 1 .. n :
         /\ rows[p].finding = f /\ rows[p].reviewer = e
         /\ rows[p].field \in K
         /\ rows[p].previous = item[rows[p].field]
         /\ rows[p].new = u[rows[p].field]
         /\ rows[p] = row[rows[p].field]
  <2> SUFFICES ASSUME NEW p \in 1 .. n
               PROVE  /\ rows[p].finding = f /\ rows[p].reviewer = e
                      /\ rows[p].field \in K
                      /\ rows[p].previous = item[rows[p].field]
                      /\ rows[p].new = u[rows[p].field]
                      /\ rows[p] = row[rows[p].field]
    OBVIOUS
  <2>1. PICK k \in K : rows[p] = row[k]
    BY <1>9
  <2>2. row[k] = [finding |-> f, reviewer |-> e, field |-> k,
                  previous |-> item[k], new |-> u[k]]
    BY DEF row
  <2> HIDE DEF K
  <2> QED
    BY <2>1, <2>2
<1>11. \A k \in K : \E p \in 1 .. n : rows[p].field = k
  BY <1>2, <1>8
<1>12. \A p, q \in 1 .. n : p # q => rows[p].field # rows[q].field
  BY <1>7, <1>10
<1>13. rows \in Seq(HistoryRow) /\ DOMAIN rows = 1 .. n
  <2>1. rows \in [1 .. n -> HistoryRow]
    BY <1>2, <1>7
  <2> QED
    BY <1>5, <2>1
<1> QED
  BY <1>10, <1>11, <1>12, <1>13 DEF rows, u

\* The rows are rows.
LEMMA RowsTyped ==
    ASSUME HistoryInv
    PROVE  /\ DOMAIN itemReviews = 1 .. Len(itemReviews) /\ Len(itemReviews) \in Nat
           /\ \A i \in DOMAIN itemReviews : itemReviews[i].finding \in Findings
<1>1. itemReviews \in Seq(HistoryRow)
  BY DEF HistoryInv
<1>2. \A i \in DOMAIN itemReviews : itemReviews[i] \in HistoryRow
  BY <1>1
<1>3. \A r \in HistoryRow : r.finding \in Findings
  BY DEF HistoryRow
<1> QED
  BY <1>1, <1>2, <1>3

\* There are no items and no rows at first.
LEMMA HistoryInit == Init => HistoryInv
<1> SUFFICES ASSUME Init PROVE HistoryInv
  OBVIOUS
<1>1. items = [f \in Findings |-> None] /\ itemReviews = <<>>
  BY DEF Init, Items!Init, Items!NothingDerived
<1> QED
  BY <1>1 DEF HistoryInv

\* What is before a row depends on the rows before it, and on the item.
LEMMA ChangesStay ==
    ASSUME HistoryInv, NEW f \in Findings, NEW k, NEW i \in 1 .. Len(itemReviews) + 1,
           \A j \in DOMAIN itemReviews : itemReviews'[j] = itemReviews[j],
           items'[f].ai_priority = items[f].ai_priority
    PROVE  /\ ChangesBefore(f, k, i)' = ChangesBefore(f, k, i)
           /\ ValueBefore(f, k, i)' = ValueBefore(f, k, i)
<1>1. Len(itemReviews) \in Nat /\ DOMAIN itemReviews = 1 .. Len(itemReviews)
  BY DEF HistoryInv
<1>2. \A j \in 1 .. i - 1 : j \in DOMAIN itemReviews /\ itemReviews'[j] = itemReviews[j]
  BY <1>1
<1>3. ChangesBefore(f, k, i)' = ChangesBefore(f, k, i)
  BY <1>2 DEF ChangesBefore
<1>4. ChangesBefore(f, k, i) \in SUBSET (1 .. i - 1) /\ i - 1 \in Nat
  BY <1>1 DEF ChangesBefore
<1>5. ChangesBefore(f, k, i) # {} => Items!LastOf(ChangesBefore(f, k, i)) \in 1 .. i - 1
  BY <1>4, LatestItemExists
<1>6. FirstValue(f, k)' = FirstValue(f, k)
  BY DEF FirstValue
<1> QED
  BY <1>2, <1>3, <1>5, <1>6 DEF ValueBefore

\* A new item has no rows and is explained by what it begins as.
LEMMA NewExplained ==
    ASSUME NEW f \in Findings, items'[f].status = "open", items'[f].due_date = None,
           items'[f].priority = items'[f].ai_priority, items'[f].completed_by = None,
           itemReviews' = itemReviews,
           DOMAIN itemReviews = 1 .. Len(itemReviews), Len(itemReviews) \in Nat,
           \A i \in DOMAIN itemReviews : itemReviews[i].finding # f
    PROVE  ItemExplained(f)'
<1>1. \A k : ChangesBefore(f, k, Len(itemReviews) + 1)' = {}
  BY DEF ChangesBefore
<1>2. Completions(f)' = {}
  BY DEF Completions
<1>3. \A k \in Items!Recorded : items'[f][k] = FirstValue(f, k)'
  <2>1. \A k \in Items!Recorded : k = "due_date" \/ k = "priority" \/ k = "status"
    BY RecordedAre
  <2>2. items'[f]["status"] = FirstValue(f, "status")'
    BY DEF FirstValue
  <2>3. items'[f]["due_date"] = FirstValue(f, "due_date")'
    BY DEF FirstValue
  <2>4. items'[f]["priority"] = FirstValue(f, "priority")'
    BY DEF FirstValue
  <2> QED
    BY <2>1, <2>2, <2>3, <2>4
<1>4. \A k \in Items!Recorded : items'[f][k] = ValueBefore(f, k, Len(itemReviews) + 1)'
  BY <1>1, <1>3 DEF ValueBefore
<1>5. \A k, i : i \in DOMAIN itemReviews' => ChangeExplained(f, k, i)'
  BY DEF ChangeExplained
<1> QED
  BY <1>2, <1>4, <1>5 DEF ItemExplained

\* A generation that commits adds items without rows (bulk_upsert).
LEMMA HistoryCommit ==
    ASSUME ItemsInv, HistoryInv, NEW g \in Generators, Items!CommitItems(g)
    PROVE  HistoryInv'
<1>1. /\ itemReviews' = itemReviews
      /\ \A f \in Findings : items'[f] = IF f \in Items!Keys(g)
                THEN Items!NewItem(CHOOSE d \in inserted[g] : d.finding = f) ELSE items[f]
  BY DEF Items!CommitItems, Items!editVars
<1>2. \A f \in Findings : f \in Items!Keys(g) =>
           /\ items[f] = None
           /\ items'[f] # None
           /\ items'[f].status = "open" /\ items'[f].due_date = None
           /\ items'[f].priority = items'[f].ai_priority /\ items'[f].completed_by = None
  <2> SUFFICES ASSUME NEW f \in Findings, f \in Items!Keys(g)
               PROVE  /\ items[f] = None
                      /\ items'[f] # None
                      /\ items'[f].status = "open" /\ items'[f].due_date = None
                      /\ items'[f].priority = items'[f].ai_priority /\ items'[f].completed_by = None
    OBVIOUS
  <2> DEFINE new == Items!NewItem(CHOOSE d \in inserted[g] : d.finding = f)
  <2>1. items'[f] = new
    BY <1>1
  <2>2. /\ new # None /\ new.status = "open" /\ new.due_date = None
        /\ new.priority = new.ai_priority /\ new.completed_by = None
    BY NewItems
  <2>3. items[f] = None
    BY DEF ItemsInv, InsertsAreApart
  <2> HIDE DEF new
  <2> QED
    BY <2>1, <2>2, <2>3
<1>3. /\ DOMAIN itemReviews = 1 .. Len(itemReviews) /\ Len(itemReviews) \in Nat
      /\ \A i \in DOMAIN itemReviews : itemReviews[i].finding \in Findings
  BY RowsTyped
<1>4. \A f \in Findings : items[f] # None => items'[f] = items[f]
  BY <1>1, <1>2
<1>5. \A i \in DOMAIN itemReviews' : items'[itemReviews'[i].finding] # None
  BY <1>1, <1>3, <1>4 DEF HistoryInv
<1>6. ASSUME NEW f \in Findings, items[f] # None
      PROVE  ItemExplained(f)'
  <2>1. items'[f] = items[f] /\ itemReviews' = itemReviews
    BY <1>1, <1>4, <1>6
  <2>2. ItemExplained(f)
    BY <1>6 DEF HistoryInv
  <2>3. Completions(f)' = Completions(f)
    BY <2>1 DEF Completions
  <2>4. \A k, i : ValueBefore(f, k, i)' = ValueBefore(f, k, i)
    BY <2>1 DEF ValueBefore, ChangesBefore, FirstValue
  <2> QED
    BY <2>1, <2>2, <2>3, <2>4 DEF ItemExplained, ChangeExplained
<1>7. ASSUME NEW f \in Findings, items[f] = None, items'[f] # None
      PROVE  ItemExplained(f)'
  <2>1. f \in Items!Keys(g)
    BY <1>1, <1>7
  <2>2. \A i \in DOMAIN itemReviews : itemReviews[i].finding # f
    BY <1>7 DEF HistoryInv
  <2> QED
    BY <1>1, <1>2, <1>3, <2>1, <2>2, NewExplained
<1> QED
  BY <1>1, <1>5, <1>6, <1>7 DEF HistoryInv

\* A history that grows, and an item that changes, by the rows of one edit.
LEMMA HistoryWrite ==
    ASSUME ItemsInv, HistoryInv, NEW e \in Editors, Items!WriteEdit(e)
    PROVE  HistoryInv'
<1>1. PICK f \in Findings, c \in MCEdits :
             /\ f = editing[e].finding /\ c = editing[e].changes
             /\ items[f] \in Items!Item /\ items[f] # None /\ editing[e].read = items[f]
             /\ items' = [items EXCEPT ![f] = Items!Edited(items[f], Items!Updates(c), e)]
             /\ Items!Edited(items[f], Items!Updates(c), e) \in Items!Item
             /\ Items!Edited(items[f], Items!Updates(c), e) # None
  BY EditWrites
<1>2. PICK u : u = Items!Updates(c)
  OBVIOUS
<1>3. PICK new : new = Items!Edited(items[f], u, e)
  OBVIOUS
<1>4. PICK rows : rows = Items!HistoryRows(editing[e], u, e)
  OBVIOUS
<1>5. /\ DOMAIN u \subseteq Items!Editable
      /\ \A k \in DOMAIN u : new[k] = u[k]
      /\ new.ai_priority = items[f].ai_priority
      /\ \A k \in Items!Editable \ DOMAIN u : new[k] = items[f][k]
      /\ new.completed_by = IF Items!Completes(u) THEN e ELSE items[f].completed_by
  BY <1>1, <1>2, <1>3, EditedIs
<1>6. /\ rows \in Seq(HistoryRow)
      /\ \A p \in DOMAIN rows :
                    /\ rows[p].finding = f /\ rows[p].reviewer = e
                    /\ rows[p].field \in DOMAIN u
                    /\ rows[p].previous = items[f][rows[p].field]
                    /\ rows[p].new = u[rows[p].field]
      /\ \A k \in DOMAIN u \cap Items!Recorded : \E p \in DOMAIN rows : rows[p].field = k
      /\ \A p, q \in DOMAIN rows : p # q => rows[p].field # rows[q].field
  BY <1>1, <1>2, <1>4, RowsOfEdit
<1>7. PICK L \in Nat, m \in Nat : L = Len(itemReviews) /\ m = Len(rows)
  <2>1. Len(itemReviews) \in Nat
    BY RowsTyped
  <2>2. rows \in Seq(HistoryRow)
    BY <1>6
  <2>3. Len(rows) \in Nat
    BY <2>2
  <2> QED
    BY <2>1, <2>3
<1>8. /\ itemReviews' = itemReviews \o rows
      /\ itemReviews' \in Seq(HistoryRow)
      /\ DOMAIN itemReviews = 1 .. L /\ DOMAIN rows = 1 .. m
      /\ DOMAIN itemReviews' = 1 .. L + m /\ Len(itemReviews') = L + m
      /\ \A i \in 1 .. L : itemReviews'[i] = itemReviews[i]
      /\ \A p \in 1 .. m : L + p \in 1 .. L + m /\ itemReviews'[L + p] = rows[p]
  <2>1. itemReviews' = itemReviews \o rows
    BY <1>1, <1>2, <1>4 DEF Items!WriteEdit
  <2>2. itemReviews \in Seq(HistoryRow)
    BY DEF HistoryInv
  <2> QED
    BY <1>6, <1>7, <2>1, <2>2
<1>9. \A g \in Findings : items'[g] = IF g = f THEN new ELSE items[g]
  BY <1>1, <1>2, <1>3 DEF ItemsInv, ItemTypes
<1>10. /\ new # None /\ \A g \in Findings : items'[g] = None <=> items[g] = None
       /\ \A g \in Findings : items'[g].ai_priority = items[g].ai_priority
  BY <1>1, <1>2, <1>3, <1>5, <1>9
<1>11. \A i \in 1 .. L + m : i \in 1 .. L \/ \E p \in 1 .. m : i = L + p
  <2> SUFFICES ASSUME NEW i \in 1 .. L + m, i \notin 1 .. L
               PROVE  \E p \in 1 .. m : i = L + p
    OBVIOUS
  <2>1. i - L \in 1 .. m /\ i = L + (i - L)
    OBVIOUS
  <2> QED
    BY <2>1
\* The new rows.
<1>a. ASSUME NEW p \in 1 .. m
      PROVE  /\ L + p \in DOMAIN itemReviews'
             /\ itemReviews'[L + p].finding = f
             /\ itemReviews'[L + p].reviewer = e
             /\ itemReviews'[L + p].field \in DOMAIN u
             /\ itemReviews'[L + p].previous = items[f][itemReviews'[L + p].field]
             /\ itemReviews'[L + p].new = u[itemReviews'[L + p].field]
  <2>1. p \in DOMAIN rows /\ itemReviews'[L + p] = rows[p] /\ L + p \in DOMAIN itemReviews'
    BY <1>8
  <2> QED
    BY <1>6, <2>1
<1>b. ASSUME NEW p \in 1 .. m, NEW q \in 1 .. m,
             itemReviews'[L + p].field = itemReviews'[L + q].field
      PROVE  p = q
  <2>1. rows[p].field = rows[q].field /\ p \in DOMAIN rows /\ q \in DOMAIN rows
    BY <1>8, <1>b
  <2> QED
    BY <1>6, <2>1
<1>c. ASSUME NEW k \in DOMAIN u \cap Items!Recorded
      PROVE  \E p \in 1 .. m : itemReviews'[L + p].field = k
  <2>1. PICK p \in DOMAIN rows : rows[p].field = k
    BY <1>6
  <2>2. p \in 1 .. m /\ itemReviews'[L + p] = rows[p]
    BY <1>8
  <2> QED
    BY <2>1, <2>2
<1>d. \A i \in 1 .. L : i \in DOMAIN itemReviews /\ i \in DOMAIN itemReviews'
                        /\ itemReviews'[i] = itemReviews[i]
  BY <1>8
<1>12. ASSUME NEW g \in Findings, NEW k, NEW i \in 1 .. L + 1
       PROVE  ValueBefore(g, k, i)' = ValueBefore(g, k, i)
  <2>1. i \in 1 .. Len(itemReviews) + 1 /\ items'[g].ai_priority = items[g].ai_priority
    BY <1>7, <1>10
  <2>2. \A j \in DOMAIN itemReviews : itemReviews'[j] = itemReviews[j]
    BY <1>8
  <2> QED
    BY <2>1, <2>2, ChangesStay
<1>14. \A i \in DOMAIN itemReviews' : items'[itemReviews'[i].finding] # None
  <2> SUFFICES ASSUME NEW i \in 1 .. L + m
               PROVE  items'[itemReviews'[i].finding] # None
    BY <1>8
  <2>1. CASE i \in 1 .. L
    <3>1. i \in DOMAIN itemReviews /\ itemReviews'[i] = itemReviews[i]
      BY <1>d, <2>1
    <3>2. itemReviews[i].finding \in Findings /\ items[itemReviews[i].finding] # None
      BY <3>1, RowsTyped DEF HistoryInv
    <3> QED
      BY <1>10, <3>1, <3>2
  <2>2. ASSUME NEW p \in 1 .. m, i = L + p
        PROVE  items'[itemReviews'[i].finding] # None
    <3>1. itemReviews'[i].finding = f
      BY <1>a, <2>2
    <3>2. items'[f] # None
      BY <1>9, <1>10
    <3> QED
      BY <3>1, <3>2
  <2> QED
    BY <1>11, <2>1, <2>2
\* The rows of a field by the end of the new ones.
<1>15. ASSUME NEW g \in Findings, NEW k \in Items!Recorded,
              NEW i \in 1 .. L + m + 1, i > L,
              g = f => \A p \in 1 .. m : itemReviews'[L + p].field = k => ~ (L + p < i)
       PROVE  ValueBefore(g, k, i)' = ValueBefore(g, k, L + 1)
  <2>1. ASSUME NEW j \in 1 .. i - 1, itemReviews'[j].finding = g, itemReviews'[j].field = k
        PROVE  j \in 1 .. L
    <3>1. j \in 1 .. L + m /\ j < i
      OBVIOUS
    <3>2. ASSUME NEW p \in 1 .. m, j = L + p
          PROVE  FALSE
      <4>1. g = f /\ itemReviews'[L + p].field = k
        BY <1>a, <2>1, <3>2
      <4> QED
        BY <1>15, <3>1, <3>2, <4>1
    <3> QED
      BY <1>11, <3>1, <3>2
  <2>2. 1 .. L \subseteq 1 .. i - 1 /\ L + 1 - 1 = L
    BY <1>15
  <2>3. ChangesBefore(g, k, i)' = ChangesBefore(g, k, L + 1)'
    BY <2>1, <2>2 DEF ChangesBefore
  <2>4. ValueBefore(g, k, i)' = ValueBefore(g, k, L + 1)'
    BY <2>3 DEF ValueBefore
  <2>5. L + 1 \in 1 .. L + 1
    OBVIOUS
  <2>6. ValueBefore(g, k, L + 1)' = ValueBefore(g, k, L + 1)
    BY <1>12, <2>5
  <2> QED
    BY <2>4, <2>6
<1>e. ASSUME NEW g \in Findings, items[g] # None, NEW k \in Items!Recorded
      PROVE  /\ \A j \in 1 .. L : ChangeExplained(g, k, j)
             /\ items[g][k] = ValueBefore(g, k, L + 1)
  <2>1. ItemExplained(g)
    BY <1>e DEF HistoryInv
  <2> QED
    BY <1>7, <1>8, <1>e, <2>1 DEF ItemExplained
<1>16. ASSUME NEW g \in Findings, items[g] # None, NEW k \in Items!Recorded,
              NEW i \in DOMAIN itemReviews',
              itemReviews'[i].finding = g, itemReviews'[i].field = k
       PROVE  itemReviews'[i].previous = ValueBefore(g, k, i)'
  <2>1. CASE i \in 1 .. L
    <3>1. i \in 1 .. L + 1
      BY <2>1
    <3>2. itemReviews'[i] = itemReviews[i]
      BY <1>d, <2>1
    <3>3. ValueBefore(g, k, i)' = ValueBefore(g, k, i)
      BY <1>12, <3>1
    <3>4. ChangeExplained(g, k, i)
      BY <1>e, <1>16, <2>1
    <3>5. itemReviews[i].previous = ValueBefore(g, k, i)
      BY <1>16, <3>2, <3>4 DEF ChangeExplained
    <3> QED
      BY <3>2, <3>3, <3>5
  <2>2. ASSUME NEW p \in 1 .. m, i = L + p
        PROVE  itemReviews'[i].previous = ValueBefore(g, k, i)'
    <3>1. /\ g = f /\ itemReviews'[L + p].field = k
          /\ itemReviews'[i].previous = items[g][k]
      BY <1>a, <1>16, <2>2
    <3>2. ASSUME NEW q \in 1 .. m, itemReviews'[L + q].field = k
          PROVE  ~ (L + q < i)
      <4>1. p = q
        BY <1>b, <3>1, <3>2
      <4> QED
        BY <2>2, <4>1
    <3>3. i \in 1 .. L + m + 1 /\ i > L
      BY <2>2
    <3>4. ValueBefore(g, k, i)' = ValueBefore(g, k, L + 1)
      BY <1>15, <3>2, <3>3
    <3>5. items[g][k] = ValueBefore(g, k, L + 1)
      BY <1>e, <1>16
    <3> QED
      BY <3>1, <3>4, <3>5
  <2> QED
    BY <1>8, <1>11, <2>1, <2>2
<1>17. ASSUME NEW g \in Findings, items[g] # None, NEW k \in Items!Recorded
       PROVE  items'[g][k] = ValueBefore(g, k, L + m + 1)'
  <2>0. items[g][k] = ValueBefore(g, k, L + 1) /\ k \in Items!Editable
    BY <1>e, <1>17, RecordedAre
  <2>1. CASE g # f \/ k \notin DOMAIN u
    <3>1. items'[g][k] = items[g][k]
      BY <1>5, <1>9, <2>0, <2>1
    <3>2. ASSUME g = f, NEW p \in 1 .. m, itemReviews'[L + p].field = k
          PROVE  FALSE
      BY <1>a, <2>1, <3>2
    <3>3. L + m + 1 \in 1 .. L + m + 1 /\ L + m + 1 > L
      OBVIOUS
    <3>4. ValueBefore(g, k, L + m + 1)' = ValueBefore(g, k, L + 1)
      BY <1>15, <3>2, <3>3
    <3> QED
      BY <2>0, <3>1, <3>4
  <2>2. CASE g = f /\ k \in DOMAIN u
    <3>1. PICK p \in 1 .. m : itemReviews'[L + p].field = k
      BY <1>c, <2>2
    <3> DEFINE S == {j \in 1 .. L + m + 1 - 1 : itemReviews'[j].finding = f
                                                /\ itemReviews'[j].field = k}
    <3>2. L + p \in 1 .. L + m + 1 - 1
      OBVIOUS
    <3>3. L + p \in S
      BY <1>a, <3>1, <3>2
    <3>4. ASSUME NEW j \in S
          PROVE  j \in Nat /\ j <= L + p
      <4>1. j \in 1 .. L + m /\ itemReviews'[j].field = k
        OBVIOUS
      <4>2. ASSUME NEW q \in 1 .. m, j = L + q
            PROVE  j = L + p
        <5>1. p = q
          BY <1>b, <3>1, <4>1, <4>2
        <5> QED
          BY <4>2, <5>1
      <4>3. CASE j \in 1 .. L
        BY <4>3
      <4> QED
        BY <1>11, <4>1, <4>2, <4>3
    <3>7. S = ChangesBefore(f, k, L + m + 1)'
      BY DEF ChangesBefore
    <3> HIDE DEF S
    <3>5. Items!LastOf(S) = L + p
      <4>1. S \in SUBSET Nat
        BY <3>4
      <4>2. \A j \in S : j <= L + p
        BY <3>4
      <4> QED
        BY <3>3, <4>1, <4>2, LatestItemIs
    <3>6. ValueBefore(f, k, L + m + 1)' = itemReviews'[L + p].new
      BY <3>3, <3>5, <3>7 DEF ValueBefore
    <3>8. itemReviews'[L + p].new = u[k]
      BY <1>a, <3>1
    <3>9. items'[g][k] = u[k]
      BY <1>5, <1>9, <2>2
    <3> QED
      BY <2>2, <3>6, <3>8, <3>9
  <2> QED
    BY <2>1, <2>2
<1>18. ASSUME NEW g \in Findings, items[g] # None
       PROVE  items'[g].completed_by = IF Completions(g)' = {} THEN None
                                       ELSE itemReviews'[Items!LastOf(Completions(g)')].reviewer
  <2>0. /\ items[g].completed_by = IF Completions(g) = {} THEN None
                                   ELSE itemReviews[Items!LastOf(Completions(g))].reviewer
        /\ Completions(g) \in SUBSET (1 .. L)
    BY <1>8, <1>18 DEF HistoryInv, ItemExplained, Completions
  <2> DEFINE S == {i \in DOMAIN itemReviews' : /\ itemReviews'[i].finding = g
                                               /\ itemReviews'[i].field = "status"
                                               /\ itemReviews'[i].new = "completed"}
  <2>3. S = Completions(g)'
    BY DEF Completions
  <2>1. CASE g # f \/ ~ Items!Completes(u)
    <3>1. items'[g].completed_by = items[g].completed_by
      BY <1>5, <1>9, <2>1
    <3>2. ASSUME NEW p \in 1 .. m
          PROVE  L + p \notin S
      BY <1>a, <2>1 DEF Items!Completes
    <3>3. S = Completions(g)
      <4>1. ASSUME NEW i \in S
            PROVE  i \in 1 .. L
        <5>1. i \in 1 .. L + m
          BY <1>8
        <5> QED
          BY <1>11, <3>2, <5>1
      <4>2. S \subseteq Completions(g)
        BY <1>d, <4>1 DEF Completions
      <4>3. ASSUME NEW i \in Completions(g)
            PROVE  i \in S
        <5>1. i \in 1 .. L
          BY <2>0
        <5>2. i \in DOMAIN itemReviews' /\ itemReviews'[i] = itemReviews[i]
          BY <1>d, <5>1
        <5> QED
          BY <5>2 DEF Completions
      <4> QED
        BY <4>2, <4>3
    <3>4. Completions(g) # {} => Items!LastOf(Completions(g)) \in 1 .. L
      BY <2>0, LatestItemExists
    <3>5. Completions(g) # {} =>
             itemReviews'[Items!LastOf(Completions(g))] = itemReviews[Items!LastOf(Completions(g))]
      BY <1>d, <3>4
    <3> QED
      BY <2>0, <2>3, <3>1, <3>3, <3>5
  <2>2. CASE g = f /\ Items!Completes(u)
    <3>1. "status" \in DOMAIN u \cap Items!Recorded /\ u["status"] = "completed"
      BY <2>2, RecordedAre DEF Items!Completes
    <3>2. PICK p \in 1 .. m : itemReviews'[L + p].field = "status"
      BY <1>c, <3>1
    <3>6. itemReviews'[L + p].reviewer = e
      BY <1>a
    <3>3. L + p \in S
      BY <1>a, <2>2, <3>1, <3>2
    <3>4. ASSUME NEW j \in S
          PROVE  j \in Nat /\ j <= L + p
      <4>1. j \in 1 .. L + m /\ itemReviews'[j].field = "status"
        BY <1>8
      <4>2. ASSUME NEW q \in 1 .. m, j = L + q
            PROVE  j = L + p
        <5>1. p = q
          BY <1>b, <3>2, <4>1, <4>2
        <5> QED
          BY <4>2, <5>1
      <4>3. CASE j \in 1 .. L
        BY <4>3
      <4>4. j \in 1 .. L \/ \E q \in 1 .. m : j = L + q
        BY <1>11, <4>1
      <4>5. p \in Nat
        OBVIOUS
      <4> QED
        BY <4>2, <4>3, <4>4, <4>5
    <3> HIDE DEF S
    <3>5. Items!LastOf(S) = L + p
      <4>1. S \in SUBSET Nat
        BY <3>4
      <4>2. \A j \in S : j <= L + p
        BY <3>4
      <4> QED
        BY <3>3, <4>1, <4>2, LatestItemIs
    <3>7. items'[g].completed_by = e
      BY <1>5, <1>9, <2>2
    <3>8. Completions(g)' # {} /\ Items!LastOf(Completions(g)') = L + p
      BY <2>3, <3>3, <3>5
    <3> QED
      BY <3>6, <3>7, <3>8
  <2> QED
    BY <2>1, <2>2
<1>19. ASSUME NEW g \in Findings, items'[g] # None
       PROVE  ItemExplained(g)'
  <2>1. items[g] # None
    BY <1>10, <1>19
  <2>2. \A k \in Items!Recorded : \A i \in DOMAIN itemReviews' : ChangeExplained(g, k, i)'
    BY <1>16, <2>1 DEF ChangeExplained
  <2>3. ASSUME NEW k \in Items!Recorded
        PROVE  items'[g][k] = ValueBefore(g, k, Len(itemReviews) + 1)'
    <3>1. items'[g][k] = ValueBefore(g, k, L + m + 1)'
      BY <1>17, <2>1
    <3>2. Len(itemReviews)' = L + m
      BY <1>8
    <3> QED
      BY <3>1, <3>2 DEF ValueBefore, ChangesBefore
  <2>4. items'[g].completed_by = IF Completions(g)' = {} THEN None
                                 ELSE itemReviews'[Items!LastOf(Completions(g)')].reviewer
    BY <1>18, <2>1
  <2> QED
    BY <2>2, <2>3, <2>4, Zenon DEF ItemExplained
<1> QED
  BY <1>8, <1>14, <1>19 DEF HistoryInv

\* Every step keeps the history an explanation.
LEMMA HistoryKeeps ==
    ASSUME ItemsInv, HistoryInv, [Next]_vars
    PROVE  HistoryInv'
<1>1. CASE UNCHANGED <<items, itemReviews>>
  <2>1. /\ \A f, k, i : ValueBefore(f, k, i)' = ValueBefore(f, k, i)
        /\ \A f : Completions(f)' = Completions(f)
    BY <1>1 DEF ValueBefore, ChangesBefore, FirstValue, Completions
  <2>2. \A f, k, i : ChangeExplained(f, k, i)' <=> ChangeExplained(f, k, i)
    BY <1>1, <2>1 DEF ChangeExplained
  <2>3. \A f : ItemExplained(f)' <=> ItemExplained(f)
    BY <1>1, <2>1, <2>2 DEF ItemExplained
  <2> QED
    BY <1>1, <2>3 DEF HistoryInv
<1>2. ASSUME NEW g \in Generators, Items!Generate(g)
      PROVE  UNCHANGED <<items, itemReviews>> \/ Items!CommitItems(g)
  BY <1>2 DEF Items!Generate, Items!ReadFindings, Items!InsertItem, Items!DeadlockFound,
     Items!GenerationAborted, Items!RollBack, Items!editVars
<1>3. ASSUME NEW e \in Editors, Items!Edit(e)
      PROVE  UNCHANGED <<items, itemReviews>> \/ Items!WriteEdit(e)
  BY <1>3, EditSteps
<1>4. UNCHANGED itemVars => UNCHANGED <<items, itemReviews>>
  BY DEF itemVars
<1> QED
  BY <1>1, <1>2, <1>3, <1>4, OnlyItems, HistoryCommit, HistoryWrite

\* So every reachable state has it.
LEMMA AlwaysHistory == Spec => []HistoryInv
<1>1. ItemsInv /\ HistoryInv /\ [Next]_vars => HistoryInv'
  BY HistoryKeeps
<1> QED
  BY <1>1, HistoryInit, AlwaysItems, PTL DEF Spec

\* Whatever reviews and edits overlap, the history of a finding explains what it
\* says, read in the order of the commits or as the list shows it, and that of an
\* item explains everything that people have changed of it (add_review, update).
THEOREM HistoriesExplainRecords == Spec => []HistoryExplainsRecords
<1>1. ReviewInv /\ Explained /\ HistoryInv => HistoryExplainsRecords
  BY ExplainedIs, ListExplains, ItemExplainedIs
     DEF HistoryExplainsRecords, Reviews!HistoryExplainsReviews
<1> QED
  BY <1>1, AlwaysReviews, AlwaysExplained, AlwaysHistory, PTL

-----------------------------------------------------------------------------
(* The types of all of it.                                                  *)

\* What a question has found is of the document, its findings and its analyses.
ChatTypes ==
    /\ analysisOf \in [Findings -> Attempts]
    /\ pcChat \in Questions!Over \cup {"document", "search", "beginning", "analysis",
                                       "findings", "sources", "ask"}
    /\ clauses \in Seq(Chunks)
    /\ analysis \in Attempts \cup {0}
    /\ shown \in Seq([finding : Findings, severity : 0 .. 4])
    /\ citations \in Seq(Questions!Ref)
    /\ asked \in [text : BOOLEAN, finished : SUBSET Attempts]

\* What is picked from a list is a list.
LEMMA PickedIsList ==
    ASSUME NEW S, NEW n \in Nat, NEW s \in [1 .. n -> S], NEW P \in SUBSET (1 .. n)
    PROVE  Picked(s, P) \in Seq(S)
<1>1. P \in SUBSET Nat /\ IsFiniteSet(P)
  <2>1. IsFiniteSet(1 .. n)
    BY FS_Interval
  <2>2. IsFiniteSet(P)
    BY <2>1, FS_Subset
  <2> QED
    BY <2>2
<1>2. /\ Cardinality(P) \in Nat
      /\ InOrder(P) \in [1 .. Cardinality(P) -> P]
  BY <1>1, InOrderEnumerates, FS_CardinalityType
<1>3. Picked(s, P) = [k \in 1 .. Cardinality(P) |-> s[InOrder(P)[k]]]
  BY <1>2 DEF Picked
<1>4. \A k \in 1 .. Cardinality(P) : s[InOrder(P)[k]] \in S
  BY <1>2
<1> QED
  BY <1>2, <1>3, <1>4

\* Citations are a list of what was mentioned.
LEMMA CitedIsList ==
    ASSUME NEW S, NEW n \in Nat, NEW mentions \in [1 .. n -> S]
    PROVE  Questions!Cited(mentions) \in Seq(S)
<1> DEFINE P == {i \in DOMAIN mentions : \A j \in 1 .. i - 1 : mentions[j] # mentions[i]}
           once == Picked(mentions, P)
           Q == {i \in DOMAIN once : once[i] \in Questions!Supplied}
<1>1. Questions!Cited(mentions) = Picked(once, Q)
  BY SameOperators DEF Questions!Cited, Questions!CitedOnce
<1>2. P \in SUBSET (1 .. n)
  OBVIOUS
<1> HIDE DEF P
<1>3. once \in Seq(S)
  BY <1>2, PickedIsList
<1> HIDE DEF once
<1>4. PICK m \in Nat : once \in [1 .. m -> S] /\ Q \in SUBSET (1 .. m)
  <2>1. Len(once) \in Nat /\ once \in [1 .. Len(once) -> S]
    BY <1>3
  <2> QED
    BY <2>1
<1> HIDE DEF Q
<1> QED
  BY <1>1, <1>4, PickedIsList

\* The severity of a finding is one, as reviews leave it.
LEMMA SeverityShown ==
    ASSUME ReviewInv, NEW f \in Findings
    PROVE  Questions!Severity(f) \in 0 .. 4
<1>1. findings[f].override \in 0 .. 4 \cup {None} /\ MCMachine[f] \in 0 .. 4
  BY RecordSettings DEF ReviewInv, ReviewTypes, Reviews!Finding, Reviews!Severities
<1> QED
  BY <1>1 DEF Questions!Severity

\* A step of the request, or an analysis that finishes, keeps the types.
LEMMA QuestionTyped ==
    ASSUME ChatTypes, ChatInv, PreparedInv, ReviewInv, Questions!Next
    PROVE  ChatTypes'
<1>1. stored \subseteq Chunks /\ Chunks \subseteq Nat /\ IsFiniteSet(stored)
  <2>1. stored \subseteq Chunks
    BY DEF PreparedInv, DocumentTypes
  <2> QED
    BY <2>1, QuestionSettings, FS_Subset
<1>2. finished \subseteq Attempts /\ IsFiniteSet(finished) /\ finished \subseteq Nat
  BY QuestionSettings DEF ChatInv
<1>3. ASSUME NEW a \in Attempts, Questions!AnalysisFinishes(a)
      PROVE  ChatTypes'
  BY <1>3 DEF Questions!AnalysisFinishes, ChatTypes
<1>4. CASE Questions!FindDocument
  BY <1>2, <1>4 DEF Questions!FindDocument, Questions!Goto, Questions!Over, ChatTypes
<1>5. ASSUME NEW S \in SUBSET Chunks, NEW list \in Seq(S),
             clauses' = SubSeq(list, 1, Questions!Min({Len(list), MaxSources}))
      PROVE  clauses' \in Seq(Chunks)
  <2>1. PICK m \in Nat : m <= Len(list) /\ m = Questions!Min({Len(list), MaxSources})
    BY QuestionSettings, LesserOfTwo
  <2>2. list \in Seq(Chunks)
    OBVIOUS
  <2>3. SubSeq(list, 1, m) \in Seq(Chunks)
    BY <2>1, <2>2, Beginning
  <2> QED
    BY <1>5, <2>1, <2>3
<1>6. CASE Questions!SearchChunks
  <2>1. /\ pcChat' \in {"beginning", "analysis"}
        /\ UNCHANGED <<analysisOf, analysis, shown, citations, asked>>
    BY <1>6 DEF Questions!SearchChunks, Questions!Goto
  <2>2. PICK S \in SUBSET stored : \E list \in Questions!SetToSeqs(S) :
           clauses' = SubSeq(list, 1, Questions!Min({Len(list), MaxSources}))
    BY <1>6 DEF Questions!SearchChunks, Questions!SetToAllKPermutations
  <2>3. PICK list \in Questions!SetToSeqs(S) :
           clauses' = SubSeq(list, 1, Questions!Min({Len(list), MaxSources}))
    BY <2>2
  <2>4. list \in Seq(S) /\ S \in SUBSET Chunks
    BY <1>1, FS_Subset, ListsAreLists
  <2>5. clauses' \in Seq(Chunks)
    BY <1>5, <2>3, <2>4
  <2> QED
    BY <2>1, <2>5 DEF ChatTypes, Questions!Over
<1>7. CASE Questions!ReadBeginning
  <2>1. /\ pcChat' = "analysis"
        /\ UNCHANGED <<analysisOf, analysis, shown, citations, asked>>
        /\ clauses' = SubSeq(InOrder(stored), 1,
                             Questions!Min({Len(InOrder(stored)), MaxSources}))
    BY <1>7, SameOperators DEF Questions!ReadBeginning, Questions!Goto
  <2>2. stored \in SUBSET Nat /\ Cardinality(stored) \in Nat
    BY <1>1, FS_CardinalityType
  <2>3. InOrder(stored) \in [1 .. Cardinality(stored) -> stored]
    BY <1>1, <2>2, InOrderEnumerates
  <2>4. InOrder(stored) \in Seq(stored)
    BY <2>2, <2>3
  <2>5. clauses' \in Seq(Chunks)
    BY <1>1, <1>5, <2>1, <2>4
  <2> QED
    BY <2>1, <2>5 DEF ChatTypes, Questions!Over
<1>8. CASE Questions!FindAnalysis
  <2>1. /\ pcChat' = IF finished = {} THEN "sources" ELSE "findings"
        /\ analysis' = IF finished = {} THEN 0 ELSE Questions!Max(finished)
        /\ UNCHANGED <<analysisOf, clauses, shown, citations, asked>>
    BY <1>8 DEF Questions!FindAnalysis, Questions!Goto
  <2>2. analysis' \in Attempts \cup {0}
    BY <1>2, <2>1, LatestFinished
  <2>3. pcChat' \in {"sources", "findings"}
    BY <2>1
  <2> QED
    BY <2>1, <2>2, <2>3 DEF ChatTypes, Questions!Over
<1>9. CASE Questions!ReadFindings
  <2> DEFINE S == Questions!VerifiedOf(analysis)
             m(list) == IF Len(list) <= MaxSources THEN Len(list) ELSE MaxSources
  <2>1. pcChat' = "sources" /\ UNCHANGED <<analysisOf, clauses, analysis, citations, asked>>
    BY <1>9 DEF Questions!ReadFindings, Questions!Goto
  <2>2. PICK list \in Questions!SetToSeqs(S) :
           shown' = [i \in 1 .. Questions!Min({Len(list), MaxSources}) |->
                        [finding |-> list[i], severity |-> Questions!Severity(list[i])]]
    BY <1>9 DEF Questions!ReadFindings
  <2>3. IsFiniteSet(S) /\ S \subseteq Findings
    <3>1. S \subseteq Findings
      BY QuestionSettings DEF Questions!VerifiedOf
    <3> QED
      BY <3>1, QuestionSettings, FS_Subset
  <2> HIDE DEF S
  <2>4. list \in Seq(S) /\ Len(list) \in Nat
    BY <2>3, ListsAreLists
  <2>5. PICK n \in Nat : n <= Len(list) /\ n = Questions!Min({Len(list), MaxSources})
    BY <2>4, QuestionSettings, LesserOfTwo
  <2>6. \A i \in 1 .. n : list[i] \in Findings
    BY <2>3, <2>4, <2>5
  <2>7. \A i \in 1 .. n : Questions!Severity(list[i]) \in 0 .. 4
    BY <2>6, SeverityShown
  <2>8. shown' = [i \in 1 .. n |-> [finding |-> list[i],
                                    severity |-> Questions!Severity(list[i])]]
    BY <2>2, <2>5
  <2>9. shown' \in Seq([finding : Findings, severity : 0 .. 4])
    BY <2>6, <2>7, <2>8
  <2> QED
    BY <2>1, <2>9 DEF ChatTypes, Questions!Over
<1>10. CASE Questions!CheckSources
  BY <1>10 DEF Questions!CheckSources, Questions!Goto, Questions!Over, ChatTypes
<1>11. CASE Questions!ProviderFails
  BY <1>11 DEF Questions!ProviderFails, Questions!Goto, Questions!Over, ChatTypes
<1>12. CASE Questions!Answer
  <2>1. /\ pcChat' = "answered"
        /\ UNCHANGED <<analysisOf, clauses, analysis, shown, asked>>
    BY <1>12 DEF Questions!Answer, Questions!Goto
  <2> DEFINE S == Questions!Supplied \cup {Questions!Invented}
  <2>2. PICK n \in 0 .. MaxMentions : \E mentions \in [1 .. n -> S] :
           citations' = Questions!Cited(mentions)
    BY <1>12 DEF Questions!Answer, Questions!BoundedSeq, Questions!SeqOf
  <2>3. PICK mentions \in [1 .. n -> S] : citations' = Questions!Cited(mentions)
    BY <2>2
  <2>4. n \in Nat
    BY <2>2, QuestionSettings
  <2>5. S \subseteq Questions!Ref
    <3>1. DOMAIN clauses \subseteq Nat /\ DOMAIN shown \subseteq Nat /\ MaxSources + 1 \in Nat
      BY QuestionSettings DEF ChatTypes
    <3> QED
      BY <3>1 DEF Questions!Supplied, Questions!Invented, Questions!Ref
  <2> HIDE DEF S
  <2>6. Questions!Cited(mentions) \in Seq(S)
    BY <2>4, CitedIsList
  <2>7. citations' \in Seq(Questions!Ref)
    BY <2>3, <2>5, <2>6
  <2> QED
    BY <2>1, <2>7 DEF ChatTypes, Questions!Over
<1> QED
  BY <1>3, <1>4, <1>6, <1>7, <1>8, <1>9, <1>10, <1>11, <1>12 DEF Questions!Next, Questions!Ask

\* What a question has found has its types in every reachable state.
LEMMA AlwaysChatTypes == Spec => []ChatTypes
<1>1. Init => ChatTypes
  BY DEF Init, Questions!Init, ChatTypes, Questions!Over
<1>2. ASSUME PreparedInv, ChatInv, ReviewInv, ChatTypes, [Next]_vars
      PROVE  ChatTypes'
  <2>1. Questions!Next \/ UNCHANGED chatVars
    BY <1>2 DEF Next, OfReviews, OfItems, OfPolicies, OfDocuments, OfChat, OfWindow, OfKeys, vars
  <2>2. CASE UNCHANGED chatVars
    BY <1>2, <2>2 DEF chatVars, ChatTypes
  <2> QED
    BY <1>2, <2>1, <2>2, QuestionTyped
<1> QED
  BY <1>1, <1>2, AlwaysPrepared, AlwaysFound, AlwaysReviews, PTL DEF Spec

\* The clocks and the counter of fetches stay within their bounds.
ClocksBounded ==
    /\ clock <= MaxWindowTime /\ \A h \in Handlers : at[h] <= clock
    /\ now <= MaxTime /\ fetches <= MaxFetches

LEMMA AlwaysBounded == Spec => []ClocksBounded
<1>1. MaxWindowTime \in Nat /\ MaxTime \in Nat /\ MaxFetches \in Nat
  BY ConstantsAreSensible DEF Window!WindowAssumption, Keys!KeysAssumption
<1>2. Init => ClocksBounded
  BY <1>1 DEF Init, Window!Init, Keys!Init, ClocksBounded
<1>3. ASSUME WindowInv, KeysInv, ClocksBounded, [Next]_vars
      PROVE  ClocksBounded'
  <2>1. clock \in Nat /\ at \in [Handlers -> Nat] /\ now \in Nat /\ fetches \in Nat
    BY <1>3 DEF WindowInv, WindowTypes, KeysInv, KeyTypes
  <2>2. /\ \/ clock' = clock /\ at' = at
           \/ clock < MaxWindowTime /\ clock' = clock + 1 /\ at' = at
           \/ /\ clock < MaxWindowTime /\ clock' = clock + 1
              /\ \E h \in Handlers : at' = [at EXCEPT ![h] = clock']
    <3>1. Window!Next \/ UNCHANGED windowVars
      BY <1>3 DEF Next, OfReviews, OfItems, OfPolicies, OfDocuments, OfChat, OfWindow, OfKeys,
                  vars, accessVars
    <3> QED
      BY <3>1 DEF windowVars, Window!Next, Window!Tick, Window!Arrive, Window!Refuse, Window!Count,
                  Window!Add, Window!FallsOpen
  <2>3. \A h \in Handlers : at'[h] = at[h] \/ (at'[h] = clock' /\ clock' = clock + 1)
    BY <2>1, <2>2
  <2>4. clock' \in Nat /\ clock <= clock' /\ clock' <= MaxWindowTime
    BY <1>1, <1>3, <2>1, <2>2 DEF ClocksBounded
  <2>5. \A h \in Handlers : at'[h] <= clock'
    BY <1>3, <2>1, <2>3, <2>4 DEF ClocksBounded
  <2>6. /\ now' = now \/ (now < MaxTime /\ now' = now + 1)
        /\ fetches' = fetches \/ (fetches < MaxFetches /\ fetches' = fetches + 1)
    <3>1. Keys!Next \/ UNCHANGED keyVars
      BY <1>3, KeysRun
    <3> QED
      BY <3>1 DEF keyVars, Keys!Next, Keys!Tick, Keys!Rotate, Keys!GetKey, Keys!RefreshExpired,
                  Keys!ReturnCached, Keys!RefreshUnknown, Keys!RefuseUnknown, Keys!Refresh,
                  Keys!Lookup
  <2>7. now' <= MaxTime /\ fetches' <= MaxFetches
    BY <1>1, <1>3, <2>1, <2>6 DEF ClocksBounded
  <2> QED
    BY <2>4, <2>5, <2>7 DEF ClocksBounded
<1> QED
  BY <1>2, <1>3, AlwaysWindow, AlwaysKeys, PTL DEF Spec

\* Whichever part runs, its variables have their types, for any settings.
THEOREM RecordsAreTyped == Spec => []TypeOK
<1>1. ReviewInv /\ part = "reviews" => Reviews!TypeOK
  BY DEF ReviewInv, ReviewTypes, ReviewRow, OpenReview, MostReviews, AskedHere, ReviewersHere,
         Reviews!TypeOK, Reviews!Review, Reviews!Transaction, Reviews!Times
<1>2. ReviewInv /\ ItemsInv /\ part = "items" => Items!TypeOK
  <2> SUFFICES ASSUME ReviewInv, ItemsInv, part = "items"
               PROVE  Items!TypeOK
    OBVIOUS
  <2>1. Items!Reviewing!TypeOK
    BY DEF ReviewInv, ReviewTypes, ReviewRow, OpenReview, MostReviews, AskedHere, ReviewersHere,
           Items!Reviewing!TypeOK, Items!Reviewing!Review, Items!Reviewing!Transaction,
           Items!Reviewing!Times, Items!Reviewing!Finding, Items!Reviewing!Statuses,
           Items!Reviewing!Severities, Reviews!Finding, Reviews!Statuses, Reviews!Severities
  <2> QED
    BY <2>1 DEF Items!TypeOK, ItemsInv, ItemTypes, GenerationPcs
<1>3. Spec => [](part = "policies" => Library!TypeOK)
  <2>1. LibraryProofs!PoliciesAssumption
    BY ConstantsAreSensible, SameLibrary
  <2>2. LibraryProofs!Spec => []LibraryProofs!TypeOK
    BY <2>1, LibraryProofs!PolicyTypes
  <2>3. LibraryProofs!TypeOK => Library!TypeOK
    BY Zenon DEF LibraryProofs!TypeOK, Library!TypeOK, LibraryProofs!Policy, Library!Policy,
       LibraryProofs!Rule, Library!Rule, LibraryProofs!Existing, Library!Existing
  <2> QED
    BY <2>2, <2>3, LibraryRuns, PTL
<1>4. PreparedInv => Uploads!TypeOK
  <2> SUFFICES ASSUME PreparedInv PROVE Uploads!TypeOK
    OBVIOUS
  <2>1. \A a \in Attempts : /\ pcAttempt[a] \in Uploads!AttemptPcs
                            /\ listed[a] \in SUBSET Chunks /\ pending[a] \in SUBSET Chunks
    BY DEF PreparedInv, KnowsOf, DocumentTypes
  <2> QED
    BY <2>1 DEF PreparedInv, DocumentTypes, AttemptTypes, Uploads!TypeOK
<1>5. ChatInv /\ ChatTypes => Questions!TypeOK
  BY DEF ChatInv, ChatTypes, Questions!TypeOK
<1>6. WindowInv /\ ClocksBounded => Window!TypeOK
  <2> SUFFICES ASSUME WindowInv, ClocksBounded PROVE Window!TypeOK
    OBVIOUS
  <2>1. /\ clock \in Nat /\ at \in [Handlers -> Nat] /\ clock <= MaxWindowTime
        /\ MaxWindowTime \in Nat /\ window_seconds \in Nat /\ expires \in Nat
        /\ expires <= clock + window_seconds + 1
    BY ConstantsAreSensible
       DEF WindowInv, WindowTypes, ClocksBounded, Window!WindowAssumption
  <2>2. \A h \in Handlers : at[h] \in 0 .. MaxWindowTime
    BY <2>1 DEF ClocksBounded
  <2>3. \A a \in bucket \cup admitted : a \in Nat /\ a <= clock
    BY DEF WindowInv, WindowTypes
  <2>4. \A a \in bucket \cup admitted : a \in 0 .. MaxWindowTime
    BY <2>1, <2>3
  <2>5. clock \in 0 .. MaxWindowTime /\ expires \in 0 .. MaxWindowTime + window_seconds + 1
    BY <2>1
  <2> QED
    BY <2>1, <2>2, <2>4, <2>5 DEF Window!TypeOK, Window!Times, WindowInv, WindowTypes
<1>7. KeysInv /\ ClocksBounded => Keys!TypeOK
  <2> SUFFICES ASSUME KeysInv, ClocksBounded PROVE Keys!TypeOK
    OBVIOUS
  <2>1. now \in Nat /\ now <= MaxTime /\ MaxTime \in Nat /\ MaxFetches \in Nat
    BY ConstantsAreSensible DEF KeysInv, KeyTypes, ClocksBounded, Keys!KeysAssumption
  <2>2. {now, fetchedAt, lastAttempt, answer.at} \subseteq 0 .. MaxTime
    BY <2>1 DEF KeysInv, KeyTypes, KeysPast
  <2>3. \A k \in Kids : changed[k] \in 0 .. MaxTime
    BY <2>1 DEF KeysInv, KeyTypes, KeysPast
  <2>4. answer \in [kid : Kids, key : {"found", "none"}, at : 0 .. MaxTime]
    BY <2>2 DEF KeysInv, KeyTypes
  <2>5. failedAt \in 0 .. MaxTime \cup {-1}
    BY <2>1 DEF KeysInv, KeyTypes, KeysPast
  <2>6. fetches \in 0 .. MaxFetches
    BY <2>1 DEF KeysInv, KeyTypes, ClocksBounded
  <2> QED
    BY <2>2, <2>3, <2>4, <2>5, <2>6 DEF Keys!TypeOK, Keys!Times, Keys!Never, KeysInv, KeyTypes
<1>8. /\ ReviewInv /\ ItemsInv /\ (part = "policies" => Library!TypeOK) /\ PreparedInv
      /\ ChatInv /\ ChatTypes /\ WindowInv /\ ClocksBounded /\ KeysInv
      => TypeOK
  BY <1>1, <1>2, <1>4, <1>5, <1>6, <1>7, Zenon DEF TypeOK
<1> QED
  BY <1>3, <1>8, AlwaysReviews, AlwaysItems, AlwaysPrepared, AlwaysFound, AlwaysChatTypes,
     AlwaysWindow, AlwaysBounded, AlwaysKeys, PTL
=============================================================================
