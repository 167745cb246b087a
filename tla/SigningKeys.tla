---------------------------- MODULE SigningKeys ----------------------------
(***************************************************************************)
(* JWKSCache (core/jwks.py): the public keys of the identity provider,     *)
(* cached, refreshed when they expire or when a token names a key that is  *)
(* not among them.                                                         *)
(*                                                                         *)
(* get_key holds a lock and awaits nothing, so a call is one step.  A      *)
(* fetch takes less time than one unit of the clock.                       *)
(***************************************************************************)
EXTENDS Integers, FiniteSets

CONSTANTS
    Kids,
    ttl_seconds,
    MIN_REFRESH_INTERVAL_SECONDS,
    MaxTime, MaxFetches             \* bounds

\* The time to live is an hour, the interval half a minute.
KeysAssumption ==
    /\ Kids # {}
    /\ {ttl_seconds, MIN_REFRESH_INTERVAL_SECONDS, MaxTime, MaxFetches}
         \subseteq Nat \ {0}
    /\ MIN_REFRESH_INTERVAL_SECONDS <= ttl_seconds

VARIABLES
    now,
    published,      \* the keys that the provider publishes
    changed,        \* per key, when it was last published or withdrawn
    keys,           \* _keys
    fetchedAt,      \* _fetched_at
    lastAttempt,    \* _last_attempt
    answer,         \* what the latest call returned, and when
    fetches,        \* history: how often the key set was fetched
    failedAt        \* history: when a fetch failed last

vars == <<now, published, changed, keys, fetchedAt, lastAttempt, answer, fetches, failedAt>>

Times == 0 .. MaxTime
Never == -1

TypeOK ==
    /\ now \in Times
    /\ published \subseteq Kids
    /\ changed \in [Kids -> Times]
    /\ keys \subseteq Kids
    /\ fetchedAt \in Times
    /\ lastAttempt \in Times
    /\ answer \in [kid : Kids, key : {"found", "none"}, at : Times]
    /\ fetches \in 0 .. MaxFetches
    /\ failedAt \in Times \cup {Never}

Init ==
    /\ now = 0
    /\ published = Kids
    /\ changed = [k \in Kids |-> 0]
    /\ keys = {}
    /\ fetchedAt = 0
    /\ lastAttempt = 0
    /\ answer = [kid |-> CHOOSE k \in Kids : TRUE, key |-> "none", at |-> 0]
    /\ fetches = 0
    /\ failedAt = Never

cache == <<keys, fetchedAt, lastAttempt>>

Tick ==
    /\ now < MaxTime
    /\ now' = now + 1
    /\ UNCHANGED <<published, changed, cache, answer, fetches, failedAt>>

\* The provider publishes a key or withdraws one.
Rotate(k) ==
    /\ published' = IF k \in published THEN published \ {k} ELSE published \cup {k}
    /\ changed' = [changed EXCEPT ![k] = now]
    /\ UNCHANGED <<now, cache, answer, fetches, failedAt>>

-----------------------------------------------------------------------------
(* get_key.                                                                *)

\* Faulty variant of Expired: keys do not grow old.
ExpiredIfEmpty == keys = {}

Expired == keys = {} \/ now - fetchedAt > ttl_seconds

Answer(k, found) ==
    answer' = [kid |-> k, key |-> IF found THEN "found" ELSE "none", at |-> now]

\* Faulty variant of FetchSucceeds: the age of the keys is not reset.
FetchKeepsAge(k) ==
    /\ published # {}
    /\ keys' = published
    /\ UNCHANGED <<fetchedAt, failedAt>>
    /\ Answer(k, k \in published)

\* A call that has fetched the keys does not fetch them again: its own attempt is
\* too recent.
FetchSucceeds(k) ==
    /\ published # {}
    /\ keys' = published
    /\ fetchedAt' = now
    /\ UNCHANGED failedAt
    /\ Answer(k, k \in published)

\* The provider is not reached, or publishes nothing: the old keys stay.
FetchFails(k) ==
    /\ failedAt' = now
    /\ UNCHANGED <<keys, fetchedAt>>
    /\ Answer(k, FALSE)

Refresh(k) ==
    /\ fetches < MaxFetches
    /\ lastAttempt' = now
    /\ fetches' = fetches + 1
    /\ FetchSucceeds(k) \/ FetchFails(k)
    /\ UNCHANGED <<now, published, changed>>

Lookup(k) ==
    /\ Answer(k, k \in keys)
    /\ UNCHANGED <<now, published, changed, cache, fetches, failedAt>>

\* Faulty variant of JustTried: keys that have not expired are not refreshed.
TriedWithinTtl == now - lastAttempt <= ttl_seconds

JustTried == now - lastAttempt <= MIN_REFRESH_INTERVAL_SECONDS

RefreshExpired(k) == Expired /\ Refresh(k)

ReturnCached(k) == ~ Expired /\ k \in keys /\ Lookup(k)

RefreshUnknown(k) == ~ Expired /\ k \notin keys /\ ~ JustTried /\ Refresh(k)

RefuseUnknown(k) == ~ Expired /\ k \notin keys /\ JustTried /\ Lookup(k)

GetKey(k) ==
    \/ RefreshExpired(k)
    \/ ReturnCached(k)
    \/ RefreshUnknown(k)
    \/ RefuseUnknown(k)

Next ==
    \/ Tick
    \/ \E k \in Kids : Rotate(k) \/ GetKey(k)

Spec == Init /\ [][Next]_vars

-----------------------------------------------------------------------------
(* Properties.                                                             *)

\* A key that get_key returns was published when the keys were younger than
\* their time to live: a withdrawn key is not accepted for longer.
WithdrawnKeysExpire ==
    answer.key = "found" =>
        \/ answer.kid \in published
        \/ answer.at - changed[answer.kid] <= ttl_seconds

\* A key that has been published for longer than the refresh interval is found,
\* unless a fetch has failed since it was published.
PublishedKeysAreFound ==
    /\ answer.kid \in published
    /\ answer.at - changed[answer.kid] > MIN_REFRESH_INTERVAL_SECONDS
    /\ failedAt < changed[answer.kid]
    => answer.key = "found"

\* The answers follow the rotation of the keys: a withdrawn key is dropped and
\* a new one is found, each within its time (get_key).
KeysAreCurrent == WithdrawnKeysExpire /\ PublishedKeysAreFound

\* A call fetches the keys at most once, and as long as fetches succeed, longer
\* than the refresh interval after the one before, whatever tokens name.
FetchesAreApart ==
    [][fetches' # fetches =>
          /\ fetches' = fetches + 1
          /\ fetches > 0 /\ failedAt < lastAttempt =>
                now - lastAttempt > MIN_REFRESH_INTERVAL_SECONDS]_vars
=============================================================================
