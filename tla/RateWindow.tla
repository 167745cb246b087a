---------------------------- MODULE RateWindow ----------------------------
(***************************************************************************)
(* RateLimiter.check (core/ratelimit.py): how many requests of one         *)
(* organisation pass in a sliding window.  The window is a sorted set in   *)
(* Redis that one round trip reads and another extends.                    *)
(*                                                                         *)
(* Requests cost one.  A request reads the clock before it awaits the      *)
(* first round trip, so that requests may be counted in another order than *)
(* that of their times.  The clock is one, and finer than the requests: no *)
(* two of them read the same time (two that do are one member of the set). *)
(***************************************************************************)
EXTENDS Integers, FiniteSets

CONSTANTS
    Handlers,           \* of requests: as many are in progress at once
    limit,
    window_seconds,
    MaxTime             \* bound

WindowAssumption ==
    /\ IsFiniteSet(Handlers)
    /\ {limit, window_seconds, MaxTime} \subseteq Nat \ {0}

VARIABLES
    now,
    bucket,     \* the times in the sorted set
    expires,    \* when Redis deletes it whole
    pcCheck,    \* per handler, the await that check is at
    at,         \* per handler, the time that check read
    admitted    \* history: the times of the requests that were counted and passed

vars == <<now, bucket, expires, pcCheck, at, admitted>>

Times == 0 .. MaxTime

TypeOK ==
    /\ now \in Times
    /\ bucket \subseteq Times
    /\ expires \in 0 .. MaxTime + window_seconds + 1
    /\ pcCheck \in [Handlers -> {"idle", "count", "add"}]
    /\ at \in [Handlers -> Times]
    /\ admitted \subseteq Times

Init ==
    /\ now = 0
    /\ bucket = {}
    /\ expires = 0
    /\ pcCheck = [h \in Handlers |-> "idle"]
    /\ at = [h \in Handlers |-> 0]
    /\ admitted = {}

-----------------------------------------------------------------------------
Tick ==
    /\ now < MaxTime
    /\ now' = now + 1
    /\ UNCHANGED <<bucket, expires, pcCheck, at, admitted>>

\* The set, unless it has expired.
Present == IF now < expires THEN bucket ELSE {}

\* Faulty variant of Live: windows that do not slide.
LiveInFixedWindow(t) == {b \in Present : b \div window_seconds = t \div window_seconds}

\* What is left of the set when the old is removed.
Live(t) == {b \in Present : b > t - window_seconds}

\* check reads the clock.
Arrive(h) ==
    /\ pcCheck[h] = "idle"
    /\ now < MaxTime
    /\ now' = now + 1
    /\ at' = [at EXCEPT ![h] = now']
    /\ pcCheck' = [pcCheck EXCEPT ![h] = "count"]
    /\ UNCHANGED <<bucket, expires, admitted>>

\* The first round trip, and the request refused.
Refuse(h) ==
    /\ pcCheck[h] = "count"
    /\ bucket' = Live(at[h])
    /\ Cardinality(bucket') + 1 > limit
    /\ pcCheck' = [pcCheck EXCEPT ![h] = "idle"]
    /\ UNCHANGED <<now, expires, at, admitted>>

\* The first round trip.
Count(h) ==
    /\ pcCheck[h] = "count"
    /\ bucket' = Live(at[h])
    /\ Cardinality(bucket') + 1 <= limit
    /\ pcCheck' = [pcCheck EXCEPT ![h] = "add"]
    /\ UNCHANGED <<now, expires, at, admitted>>

\* The second round trip extends the set and its life.
Extend(h) ==
    /\ bucket' = Present \cup {at[h]}
    /\ expires' = now + window_seconds + 1

Add(h) ==
    /\ pcCheck[h] = "add"
    /\ Extend(h)
    /\ admitted' = admitted \cup {at[h]}
    /\ pcCheck' = [pcCheck EXCEPT ![h] = "idle"]
    /\ UNCHANGED <<now, at>>

\* Redis raises, before or after it has done a round trip, or before it tells a
\* refused request how long to wait: the request passes and is not counted.
FallsOpen(h) ==
    /\ \/ pcCheck[h] = "count" /\ bucket' \in {bucket, Live(at[h])} /\ UNCHANGED expires
       \/ pcCheck[h] = "add" /\ (Extend(h) \/ UNCHANGED <<bucket, expires>>)
    /\ pcCheck' = [pcCheck EXCEPT ![h] = "idle"]
    /\ UNCHANGED <<now, at, admitted>>

Next ==
    \/ Tick
    \/ \E h \in Handlers : Arrive(h) \/ Refuse(h) \/ Count(h) \/ Add(h) \/ FallsOpen(h)

Spec == Init /\ [][Next]_vars

-----------------------------------------------------------------------------
(* Properties.                                                             *)

\* How many pass beyond the limit: all but one that count before any of them has
\* added, and all that read the clock in the window and still wait when a later
\* request trims from the set what they should count, or the set expires.
Excess == 2 * Cardinality(Handlers) - 1

\* Of the requests that Redis counted, no window of that length has more than
\* the limit and this excess, in whatever order they are counted and added.
WindowIsBounded ==
    \A t \in Times :
        Cardinality({a \in admitted : a > t - window_seconds /\ a <= t}) <= limit + Excess
=============================================================================
