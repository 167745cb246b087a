--------------------------- MODULE MCAnalysisJobs ---------------------------
(***************************************************************************)
(* Instances of AnalysisJobs for TLC: all analyses are of one document     *)
(* under one policy, so that a second can only follow a finished first.    *)
(***************************************************************************)
EXTENDS AnalysisJobs, TLC

CONSTANT ThePair

MCTarget == [a \in Analyses |-> ThePair]

\* Everything but attempts that raise, which JobsTimely and JobsLive admit.
Interruptions == FaultKinds \ {"raise"}

\* Everything but Redis data loss and owners that lapse.
TimelyFaults == {"raise", "backlog", "kill", "api", "redis", "db"}

\* Everything that does not take five minutes.
LiveFaults == FaultKinds \ {"backlog", "lapse"}

Symmetry == Permutations(Workers)
=============================================================================
