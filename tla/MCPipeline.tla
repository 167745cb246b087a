----------------------------- MODULE MCPipeline -----------------------------
(***************************************************************************)
(* Instances of Pipeline for TLC: two categories, and the ways in which a  *)
(* policy may list them.                                                   *)
(***************************************************************************)
EXTENDS Pipeline

CONSTANTS c1, c2

\* Rules swapped, dropped, and all of them disabled.
EditedRules == {<<c1, c2>>, <<c2, c1>>, <<c2>>, <<>>}

\* A single rule, which an edit deletes and inserts anew.
OneRule == {<<c1>>}
=============================================================================
