-------------------------- MODULE MCReportDelivery --------------------------
(***************************************************************************)
(* An instance of ReportDelivery for TLC: workers write to the user who    *)
(* requested the analysis, and so do this user's requests; Visitors are    *)
(* the requests of a colleague, who has the report sent to their own       *)
(* address.                                                                *)
(***************************************************************************)
EXTENDS ReportDelivery

CONSTANTS Requester, Colleague, Visitors

MCTo == [s \in Senders |-> IF s \in Visitors THEN Colleague ELSE Requester]
=============================================================================
