------------------------------ MODULE Policies ------------------------------
(***************************************************************************)
(* The policies of one organisation under concurrent administrators        *)
(* (api/v1/policies.py, db/repositories/policies.py).                      *)
(*                                                                         *)
(* Each operation is one transaction of a few statements in READ           *)
(* COMMITTED mode: a statement sees what had been committed when it began, *)
(* and an UPDATE or DELETE that waited for a row takes it as the other     *)
(* transaction left it.  A statement locks its rows in one step here; the  *)
(* deadlocks of statements that lock row by row end in an abort, which any *)
(* transaction may suffer (Aborted).                                       *)
(* A rule is its category and the request that wrote it.                   *)
(***************************************************************************)
EXTENDS Naturals, FiniteSets

CONSTANTS
    Ids,            \* policy ids, also those that no policy has (yet)
    Seeded,         \* the policies at the beginning
    Names,
    Categories,
    Admins,
    None,
    MaxRequests     \* bound: requests

Policy == [name : Names, version : Nat \ {0}, is_default : BOOLEAN, is_active : BOOLEAN]
Rule == [category : Categories, request : Nat]

\* What the constants are.
PoliciesAssumption ==
    /\ IsFiniteSet(Ids) /\ Seeded \subseteq Ids /\ Seeded # {}
    /\ Names # {} /\ Categories # {}
    /\ None \notin Ids /\ None \notin Policy
    /\ MaxRequests \in Nat

VARIABLES
    policies,       \* the committed row of each id, or None
    rules,          \* the committed rules of each policy
    pc,             \* of the transaction of each administrator
    target,         \* the policy it is about
    work,           \* what it has read or means to write
    locked,         \* policy rows it has locked
    deleting,       \* rules it has deleted, not yet committed
    contended,      \* policies with two replacements of their rules at once
    requests

vars == <<policies, rules, pc, target, work, locked, deleting, contended, requests>>
txnVars == <<target, work, locked, deleting>>

Existing == {p \in Ids : policies[p] # None}

TypeOK ==
    /\ policies \in [Ids -> Policy \cup {None}]
    /\ rules \in [Ids -> SUBSET Rule]
    /\ \A p \in Ids : policies[p] = None => rules[p] = {}
    \* UNIQUE (policy_id, category)
    /\ \A p \in Ids : \A r, s \in rules[p] : r.category = s.category => r = s
    /\ pc \in [Admins -> {"idle", "named", "numbered", "cleared", "delete", "insert"}]
    /\ target \in [Admins -> Ids \cup {None}]
    /\ \A a \in Admins :
         /\ pc[a] # "idle" => target[a] \in Ids
         /\ pc[a] \in {"named", "numbered"} =>
              work[a] \in [name : Names, version : Nat \ {0}]
         /\ pc[a] \in {"delete", "insert"} =>
              /\ target[a] \in Existing
              /\ work[a] \in [seen : SUBSET Rule, new : SUBSET Rule]
    /\ locked \in [Admins -> SUBSET Ids]
    /\ deleting \in [Admins -> SUBSET Rule]
    /\ contended \subseteq Ids
    /\ requests \in 0 .. MaxRequests

\* scripts/seed.py: one policy of each seeded id, one of them the default.
Init ==
    /\ \E names \in [Seeded -> Names], d \in Seeded :
         /\ \A p, q \in Seeded : names[p] = names[q] => p = q
         /\ policies = [p \in Ids |->
              IF p \in Seeded THEN [name |-> names[p], version |-> 1,
                                    is_default |-> p = d, is_active |-> TRUE]
              ELSE None]
    /\ rules = [p \in Ids |->
         IF p \in Seeded THEN {[category |-> c, request |-> 0] : c \in Categories} ELSE {}]
    /\ pc = [a \in Admins |-> "idle"]
    /\ target = [a \in Admins |-> None]
    /\ work = [a \in Admins |-> None]
    /\ locked = [a \in Admins |-> {}]
    /\ deleting = [a \in Admins |-> {}]
    /\ contended = {}
    /\ requests = 0

-----------------------------------------------------------------------------
Begin(a) ==
    /\ pc[a] = "idle"
    /\ requests < MaxRequests
    /\ requests' = requests + 1

End(a) ==
    /\ pc' = [pc EXCEPT ![a] = "idle"]
    /\ target' = [target EXCEPT ![a] = None]
    /\ work' = [work EXCEPT ![a] = None]
    /\ locked' = [locked EXCEPT ![a] = {}]
    /\ deleting' = [deleting EXCEPT ![a] = {}]

\* No other transaction holds the row.
Free(a, p) == \A b \in Admins \ {a} : p \notin locked[b]

\* Faulty variant of Taken: the constraint is missing.
NeverTaken(p, name, version) == FALSE

\* UNIQUE (org_id, name, version)
Taken(p, name, version) ==
    \E q \in Existing \ {p} : policies[q].name = name /\ policies[q].version = version

\* Faulty variant of AnotherDefault: the index is missing.
NoOtherDefault(p, cleared) == FALSE

\* idx_policies_single_default
AnotherDefault(p, cleared) ==
    \E q \in Existing \ (cleared \cup {p}) : policies[q].is_default

\* POST /policies.  Without rules it is a policy all the same; a name whose
\* version 1 exists is refused.
CreatePolicy(a, p, name, cats) ==
    /\ Begin(a)
    /\ p \notin Existing
    /\ IF Taken(p, name, 1) THEN UNCHANGED <<policies, rules>>
       ELSE /\ policies' = [policies EXCEPT ![p] =
                  [name |-> name, version |-> 1, is_default |-> FALSE, is_active |-> TRUE]]
            /\ rules' = [rules EXCEPT ![p] =
                  {[category |-> c, request |-> requests'] : c \in cats}]
    /\ UNCHANGED <<pc, txnVars, contended>>

\* POST /policies/{p}/versions reads the policy, then the highest version of
\* its name, then inserts the next one and copies the rules.
ReadPolicy(a, p) ==
    /\ Begin(a)
    /\ p \in Existing
    /\ pc' = [pc EXCEPT ![a] = "named"]
    /\ target' = [target EXCEPT ![a] = p]
    /\ work' = [work EXCEPT ![a] = [name |-> policies[p].name, version |-> 1]]
    /\ UNCHANGED <<policies, rules, locked, deleting, contended>>

Versions(name) == {policies[q].version : q \in {q \in Existing : policies[q].name = name}}

\* COALESCE(MAX(version), 0) + 1
ReadHighest(a) ==
    /\ pc[a] = "named"
    /\ \E v \in Versions(work[a].name) \cup {0} :
         /\ \A u \in Versions(work[a].name) : u <= v
         /\ work' = [work EXCEPT ![a].version = v + 1]
    /\ pc' = [pc EXCEPT ![a] = "numbered"]
    /\ UNCHANGED <<policies, rules, target, locked, deleting, contended, requests>>

\* Waits for a transaction that has inserted the version and raises when that
\* commits: the same as raising because it is there.
StoreVersion(a, p) ==
    /\ pc[a] = "numbered"
    /\ p \notin Existing
    /\ IF Taken(p, work[a].name, work[a].version) THEN UNCHANGED <<policies, rules, contended>>
       ELSE /\ policies' = [policies EXCEPT ![p] =
                  [name |-> work[a].name, version |-> work[a].version,
                   is_default |-> FALSE, is_active |-> TRUE]]
            /\ rules' = [rules EXCEPT ![p] = rules[target[a]]]
            /\ contended' = IF target[a] \in contended
                            THEN contended \cup {p} ELSE contended
    /\ End(a)
    /\ UNCHANGED requests

\* PATCH /policies/{p} without is_default = true: one UPDATE.
UpdatePolicy(a, p, name, default, active) ==
    /\ Begin(a)
    /\ p \in Existing
    /\ Free(a, p)
    /\ policies' = [policies EXCEPT ![p] =
          IF Taken(p, name, @.version) THEN @
          ELSE [@ EXCEPT !.name = name, !.is_active = active,
                         !.is_default = default /\ policies[p].is_default]]
    /\ UNCHANGED <<rules, pc, txnVars, contended>>

Others(p) == Existing \ {p}

\* Faulty variant of ClearDefaults: the statement commits by itself.
ClearDefaultsAtOnce(a, p) ==
    /\ Begin(a)
    /\ \A q \in Others(p) : Free(a, q)
    /\ policies' = [q \in Ids |-> IF q \in Others(p)
                                  THEN [policies[q] EXCEPT !.is_default = FALSE]
                                  ELSE policies[q]]
    /\ pc' = [pc EXCEPT ![a] = "cleared"]
    /\ target' = [target EXCEPT ![a] = p]
    /\ UNCHANGED <<rules, work, locked, deleting, contended>>

\* PATCH /policies/{p} with is_default = true.  The first UPDATE is made
\* whether the policy exists or not.
ClearDefaults(a, p) ==
    /\ Begin(a)
    /\ \A q \in Others(p) : Free(a, q)
    /\ locked' = [locked EXCEPT ![a] = Others(p)]
    /\ pc' = [pc EXCEPT ![a] = "cleared"]
    /\ target' = [target EXCEPT ![a] = p]
    /\ UNCHANGED <<policies, rules, work, deleting, contended>>

\* The second UPDATE, which may also rename the policy, and the COMMIT.  The
\* constraint and the index may refuse it; when the policy does not exist, the
\* transaction commits all the same and the request is answered with 404.
SetDefault(a, name) ==
    LET p == target[a]
        refused == p \in Existing /\ \/ Taken(p, name, policies[p].version)
                                      \/ AnotherDefault(p, locked[a])
    IN  /\ pc[a] = "cleared"
        /\ Free(a, p)
        /\ policies' =
             IF refused THEN policies
             ELSE [q \in Ids |->
                     IF q \in locked[a] THEN [policies[q] EXCEPT !.is_default = FALSE]
                     ELSE IF q = p /\ p \in Existing
                          THEN [policies[q] EXCEPT !.is_default = TRUE, !.name = name]
                     ELSE policies[q]]
        /\ End(a)
        /\ UNCHANGED <<rules, contended, requests>>

\* PUT /policies/{p}/rules: the DELETE begins, and sees the rules there are.
BeginReplace(a, p, cats) ==
    /\ Begin(a)
    /\ p \in Existing
    /\ cats # {}
    /\ pc' = [pc EXCEPT ![a] = "delete"]
    /\ target' = [target EXCEPT ![a] = p]
    /\ work' = [work EXCEPT ![a] =
          [seen |-> rules[p], new |-> {[category |-> c, request |-> requests'] : c \in cats}]]
    /\ contended' = IF \E b \in Admins \ {a} : pc[b] \in {"delete", "insert"} /\ target[b] = p
                    THEN contended \cup {p} ELSE contended
    /\ UNCHANGED <<policies, rules, locked, deleting>>

\* It waits for another transaction that is deleting one of them, and then
\* deletes those that are left.
DeleteRules(a) ==
    /\ pc[a] = "delete"
    /\ \A b \in Admins \ {a} : target[b] = target[a] => work[a].seen \cap deleting[b] = {}
    /\ deleting' = [deleting EXCEPT ![a] = work[a].seen \cap rules[target[a]]]
    /\ pc' = [pc EXCEPT ![a] = "insert"]
    /\ UNCHANGED <<policies, rules, target, work, locked, contended, requests>>

\* Faulty variant of StoreRules: new rules are put beside the old ones.
StoreRulesBeside(a) ==
    LET kept == {r \in rules[target[a]] : \A n \in work[a].new : n.category # r.category}
    IN  /\ pc[a] = "insert"
        /\ rules' = [rules EXCEPT ![target[a]] = kept \cup work[a].new]
        /\ End(a)
        /\ UNCHANGED <<policies, contended, requests>>

\* The INSERTs and the COMMIT.  A category that another request has stored
\* meanwhile is refused, and the replacement with it.
StoreRules(a) ==
    LET kept == rules[target[a]] \ deleting[a]
        refused == \E r \in kept, n \in work[a].new : r.category = n.category
    IN  /\ pc[a] = "insert"
        /\ rules' = IF refused THEN rules
                    ELSE [rules EXCEPT ![target[a]] = kept \cup work[a].new]
        /\ End(a)
        /\ UNCHANGED <<policies, contended, requests>>

\* A deadlock, a timeout or a lost connection.
Aborted(a) ==
    /\ pc[a] # "idle"
    /\ End(a)
    /\ UNCHANGED <<policies, rules, contended, requests>>

Next ==
    \E a \in Admins :
        \/ \E p \in Ids, n \in Names, cats \in SUBSET Categories : CreatePolicy(a, p, n, cats)
        \/ \E p \in Ids : ReadPolicy(a, p) \/ StoreVersion(a, p) \/ ClearDefaults(a, p)
        \/ \E p \in Ids, n \in Names, default, active \in BOOLEAN :
              UpdatePolicy(a, p, n, default, active)
        \/ \E p \in Ids, cats \in SUBSET Categories : BeginReplace(a, p, cats)
        \/ \E n \in Names : SetDefault(a, n)
        \/ ReadHighest(a) \/ DeleteRules(a) \/ StoreRules(a) \/ Aborted(a)

Spec == Init /\ [][Next]_vars

-----------------------------------------------------------------------------
(* Properties.                                                             *)

\* No two policies have one name and version, and no two are the default,
\* whichever transactions read before another one wrote.
VersionsAndDefaultAreUnique ==
    \A p, q \in Existing : p # q =>
        /\ <<policies[p].name, policies[p].version>> # <<policies[q].name, policies[q].version>>
        /\ ~(policies[p].is_default /\ policies[q].is_default)

\* An organisation that has a default policy loses it only to a request that
\* takes it away, or to one that names a policy that does not exist.
HasDefault == \E p \in Existing : policies[p].is_default
DefaultIsKept ==
    [][HasDefault /\ ~HasDefault' =>
         \/ /\ \E p \in Existing : policies[p].is_default
                               /\ \A q \in Ids \ {p} : policies'[q] = policies[q]
            /\ UNCHANGED pc
         \/ \E a \in Admins : pc[a] = "cleared" /\ target[a] \notin Existing]_vars

\* The rules of a policy all come from one request.
RulesAreWhole ==
    \A p \in Ids : \A r, s \in rules[p] : r.request = s.request

\* So they do unless two replacements of them overlapped.
LoneReplacementsAreWhole ==
    \A p \in Ids \ contended : \A r, s \in rules[p] : r.request = s.request

\* What requests that overlap leave of the policies is what some order of them
\* would: names with versions and the default are unique, and so is the request
\* that a policy has its rules from, unless two replacements met.
LibraryIsConsistent == VersionsAndDefaultAreUnique /\ LoneReplacementsAreWhole
=============================================================================
