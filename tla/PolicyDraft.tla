---------------------------- MODULE PolicyDraft ----------------------------
(***************************************************************************)
(* A policy drafted by a language model (services/policy_builder.py,       *)
(* api/v1/policies.py): the model proposes rules one after another, and    *)
(* each is turned into one that create_policy and the table policy_rules   *)
(* accept, or is passed over.                                              *)
(*                                                                         *)
(* A category is a sequence of characters, each a string of length one.    *)
(* Of the other texts of a rule only matters whether one of the two that   *)
(* it must have is missing.  Usage and audit records are left out.         *)
(***************************************************************************)
EXTENDS Integers, Sequences, SequencesExt, FiniteSetsExt, Enumeration

CONSTANTS
    Letters,            \* a to z
    Texts,              \* bound: categories that the model proposes
    MaxSlug,            \* 64
    DefaultSlug,        \* policy_risk
    RiskPrefix,         \* risk_
    ShortSlug,          \* risk
    MinRules,           \* 3
    MaxRules,           \* 12
    MaxProposed         \* bound: rules that the model proposes

Digits == {"0", "1", "2", "3", "4", "5", "6", "7", "8", "9"}
SlugChars == Letters \cup Digits \cup {"_"}

\* ^[a-z][a-z0-9_]{1,63}$
Category(s) ==
    /\ Len(s) \in 2 .. MaxSlug
    /\ Head(s) \in Letters
    /\ \A i \in DOMAIN s : s[i] \in SlugChars

DraftAssumption ==
    /\ Letters \cap Digits = {} /\ "_" \notin Letters
    /\ Texts \subseteq Seq(STRING)
    /\ {MaxSlug, MinRules, MaxRules, MaxProposed} \subseteq Nat
    /\ MaxSlug > 3
    /\ 0 < MinRules /\ MinRules <= MaxRules
    /\ MaxProposed < 99     \* a suffix has at most two digits
    /\ Category(DefaultSlug) /\ Category(ShortSlug) /\ Category(RiskPrefix)

VARIABLES
    requested,          \* rule_count of the request
    pc,
    proposed,           \* rules proposed so far
    base, suffix,       \* the category under way, and how often it was varied
    whole,              \* its rule has a name and a description
    used,               \* used_categories
    rules               \* the categories of the draft's rules

vars == <<requested, pc, proposed, base, suffix, whole, used, rules>>

TypeOK ==
    /\ requested \in MinRules .. MaxRules
    /\ pc \in {"ask", "rule", "category", "drafted", "unavailable"}
    /\ proposed \in 0 .. MaxProposed
    /\ pc = "category" => Category(base)
    /\ suffix \in 1 .. MaxProposed + 1
    /\ whole \in BOOLEAN
    /\ \A c \in used : Category(c)
    /\ rules \in Seq(used)

Init ==
    /\ requested \in MinRules .. MaxRules
    /\ pc = "ask"
    /\ proposed = 0
    /\ base = <<>> /\ suffix = 1 /\ whole = FALSE
    /\ used = {}
    /\ rules = <<>>

-----------------------------------------------------------------------------
Alphanumeric == Letters \cup Digits

\* Runs of other characters become one underscore, at neither end.
Underscored(text) ==
    LET Joins(i) == /\ i > 1 /\ text[i - 1] \in Alphanumeric
                    /\ \E j \in i .. Len(text) : text[j] \in Alphanumeric
    IN  Picked([i \in DOMAIN text |-> IF text[i] \in Alphanumeric THEN text[i] ELSE "_"],
               {i \in DOMAIN text : text[i] \in Alphanumeric \/ Joins(i)})

\* s[:n].rstrip("_")
CutTo(s, n) == SubSeq(s, 1, Max({0} \cup {i \in DOMAIN s : i <= n /\ s[i] # "_"}))

\* _category_slug
CategorySlug(text) ==
    LET slug == IF Underscored(text) = <<>> THEN DefaultSlug ELSE Underscored(text)
        begun == IF Head(slug) \in Letters THEN slug ELSE RiskPrefix \o slug
        cut == CutTo(begun, MaxSlug)
    IN  IF Len(cut) < 2 THEN ShortSlug ELSE cut

Digit(n) == <<"0", "1", "2", "3", "4", "5", "6", "7", "8", "9">>[n + 1]

Decimal(n) == IF n < 10 THEN <<Digit(n)>> ELSE <<Digit(n \div 10), Digit(n % 10)>>

\* Faulty variant of Candidate: the suffix comes on top of the longest name.
CandidateUncut(s, n) == IF n = 1 THEN s ELSE s \o <<"_">> \o Decimal(n)

\* What _unique_category tries n-th.
Candidate(s, n) ==
    IF n = 1 THEN s
    ELSE LET end == <<"_">> \o Decimal(n)
         IN  CutTo(s, MaxSlug - Len(end)) \o end

-----------------------------------------------------------------------------
\* The provider is out of reach, has reached its limit, fails, or answers with
\* what is not an object that has a list of rules.
ProviderFails ==
    /\ pc = "ask"
    /\ pc' = "unavailable"
    /\ UNCHANGED <<requested, proposed, base, suffix, whole, used, rules>>

ProviderAnswers ==
    /\ pc = "ask"
    /\ pc' = "rule"
    /\ UNCHANGED <<requested, proposed, base, suffix, whole, used, rules>>

\* The next of the rules; one that is no object is passed over before this.
ReadRule(text, named) ==
    /\ pc = "rule"
    /\ proposed < MaxProposed
    /\ proposed' = proposed + 1
    /\ base' = CategorySlug(text)
    /\ suffix' = 1
    /\ whole' = named
    /\ pc' = "category"
    /\ UNCHANGED <<requested, used, rules>>

TryNextSuffix ==
    /\ pc = "category"
    /\ Candidate(base, suffix) \in used
    /\ suffix' = suffix + 1
    /\ UNCHANGED <<requested, pc, proposed, base, whole, used, rules>>

\* Faulty variant of TakeCategory: the category of a rule that is passed over is
\* not taken, nor is any other but the plain one.
TakeCategoryPlain ==
    /\ pc = "category"
    /\ Candidate(base, suffix) \notin used
    /\ used' = used \cup {base}
    /\ rules' = IF whole THEN Append(rules, Candidate(base, suffix)) ELSE rules
    /\ pc' = IF Len(rules') >= requested THEN "drafted" ELSE "rule"
    /\ UNCHANGED <<requested, proposed, base, suffix, whole>>

\* A rule without a name or a description is passed over, its category is used.
TakeCategory ==
    /\ pc = "category"
    /\ Candidate(base, suffix) \notin used
    /\ used' = used \cup {Candidate(base, suffix)}
    /\ rules' = IF whole THEN Append(rules, Candidate(base, suffix)) ELSE rules
    /\ pc' = IF Len(rules') >= requested THEN "drafted" ELSE "rule"
    /\ UNCHANGED <<requested, proposed, base, suffix, whole>>

\* Faulty variant of EndOfRules: any number of rules is a draft.
EndOfRulesAnyway ==
    /\ pc = "rule"
    /\ pc' = "drafted"
    /\ UNCHANGED <<requested, proposed, base, suffix, whole, used, rules>>

EndOfRules ==
    /\ pc = "rule"
    /\ pc' = IF Len(rules) < MinRules THEN "unavailable" ELSE "drafted"
    /\ UNCHANGED <<requested, proposed, base, suffix, whole, used, rules>>

Next ==
    \/ ProviderFails
    \/ ProviderAnswers
    \/ \E text \in Texts, named \in BOOLEAN : ReadRule(text, named)
    \/ TryNextSuffix
    \/ TakeCategory
    \/ EndOfRules

Spec == Init /\ [][Next]_vars

-----------------------------------------------------------------------------
(* Properties.                                                             *)

\* Whatever the model proposes, and however its categories collide once they are
\* slugs, cut or numbered, the draft that an administrator gets can be saved as
\* it is: enough rules and no more than asked for, every category one that the
\* schema and the table accept, and none twice (normalize_policy_draft).
DraftCanBeSaved ==
    pc = "drafted" =>
        /\ Len(rules) \in MinRules .. requested
        /\ \A i \in DOMAIN rules : Category(rules[i])
        /\ \A i, j \in DOMAIN rules : rules[i] = rules[j] => i = j
=============================================================================
