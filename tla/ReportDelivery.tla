--------------------------- MODULE ReportDelivery ---------------------------
(***************************************************************************)
(* The report of one finished analysis: its PDF and the mails that carry   *)
(* it (services/report_delivery.py, db/repositories/reports.py).           *)
(*                                                                         *)
(* Two kinds of senders run concurrently, each statement of theirs on its  *)
(* own.  A worker that has completed the analysis generates the report and *)
(* mails it to the requester; an API request mails it again.  There is     *)
(* more than one worker when an owner was overtaken (Pipeline).            *)
(* The database refuses a second row in a live status for one recipient    *)
(* (idx_deliveries_idempotent): an INSERT then inserts nothing, and an     *)
(* UPDATE raises.                                                          *)
(***************************************************************************)
EXTENDS Naturals, Sequences, FiniteSets

CONSTANTS
    Workers,        \* attempts that complete the analysis
    Requests,       \* API requests to mail the report again
    To,             \* recipient of each sender
    MaxTries,       \* settings.email_max_attempts
    MaxLost,        \* bound: once a sender has lost so many replies, no more are lost
    MaxStops        \* bound: senders that die, or that the database stops

Senders == Workers \cup Requests

ASSUME DeliveryAssumption ==
    /\ Workers \cap Requests = {}
    /\ IsFiniteSet(Senders)
    /\ DOMAIN To = Senders
    /\ MaxTries \in Nat \ {0}
    /\ {MaxLost, MaxStops} \subseteq Nat

VARIABLES
    report,         \* analysis_reports.generation_status
    file,           \* the PDF is in the storage
    deliveries,     \* rows of report_deliveries, oldest first
    pc,             \* the await that each sender is at
    row,            \* index of its delivery
    tries,          \* mails it has tried to send
    mailed,         \* mails of it that the provider accepted
    lost,           \* history: of these, the mails that it saw fail: the reply was lost
    stops

vars == <<report, file, deliveries, pc, row, tries, mailed, lost, stops>>

\* Faulty variant of Live: the index leaves out rows that are sent.
LiveUnlessSent == {"pending", "sending"}

\* The statuses that idx_deliveries_idempotent covers.
Live == {"pending", "sending", "sent"}
Ended == {"mailed", "failed", "suppressed", "none", "conflict", "stopped"}
Sending == {"sending", "mail", "accepted", "giveUp"}

TypeOK ==
    /\ report \in {"absent", "generating", "ready", "failed"}
    /\ file \in BOOLEAN
    /\ deliveries \in Seq([to : {To[s] : s \in Senders},
                           status : {"pending", "sending", "sent", "permanently_failed"}])
    /\ Len(deliveries) <= Cardinality(Senders)
    /\ pc \in [Senders -> {"start", "upload", "markReady", "markFailed", "claim",
                           "latest", "reopen"} \cup Sending \cup Ended]
    /\ \A s \in Senders : pc[s] \in Sending \cup {"reopen"} => row[s] \in DOMAIN deliveries
    /\ tries \in [Senders -> 0 .. MaxTries]
    /\ mailed \in [Senders -> 0 .. MaxTries]
    /\ lost \in [Senders -> 0 .. MaxLost]
    /\ stops \in 0 .. MaxStops

Init ==
    /\ report = "absent"
    /\ file = FALSE
    /\ deliveries = <<>>
    /\ pc = [s \in Senders |-> "start"]
    /\ row = [s \in Senders |-> 0]
    /\ tries = [s \in Senders |-> 0]
    /\ mailed = [s \in Senders |-> 0]
    /\ lost = [s \in Senders |-> 0]
    /\ stops = 0

Goto(s, where) == pc' = [pc EXCEPT ![s] = where]

-----------------------------------------------------------------------------
(* generate_and_store, by a worker.                                        *)

UpsertPending(w) ==
    /\ pc[w] = "start"
    /\ report' = IF report = "ready" THEN "ready" ELSE "generating"
    /\ Goto(w, IF report = "ready" THEN "claim" ELSE "upload")
    /\ UNCHANGED <<file, deliveries, row, tries, mailed, lost, stops>>

Upload(w) ==
    /\ pc[w] = "upload"
    /\ file' = TRUE
    /\ Goto(w, "markReady")
    /\ UNCHANGED <<report, deliveries, row, tries, mailed, lost, stops>>

\* Faulty variant of GenerationFails: the upload's failure is ignored.
GenerationFailsUnseen(w) ==
    /\ pc[w] = "upload"
    /\ Goto(w, "markReady")
    /\ UNCHANGED <<report, file, deliveries, row, tries, mailed, lost, stops>>

\* The generator, the storage or the UPDATE after it raises.
GenerationFails(w) ==
    /\ pc[w] \in {"upload", "markReady"}
    /\ Goto(w, "markFailed")
    /\ UNCHANGED <<report, file, deliveries, row, tries, mailed, lost, stops>>

MarkReady(w) ==
    /\ pc[w] = "markReady"
    /\ report' = "ready"
    /\ Goto(w, "claim")
    /\ UNCHANGED <<file, deliveries, row, tries, mailed, lost, stops>>

\* Faulty variant of MarkReportFailed: the row stays in 'generating'.
MarkReportFailedNowhere(w) ==
    /\ pc[w] = "markFailed"
    /\ Goto(w, "none")
    /\ UNCHANGED <<report, file, deliveries, row, tries, mailed, lost, stops>>

\* The failure is recorded, whatever the row says by now, and swallowed.
MarkReportFailed(w) ==
    /\ pc[w] = "markFailed"
    /\ report' = "failed"
    /\ Goto(w, "none")
    /\ UNCHANGED <<file, deliveries, row, tries, mailed, lost, stops>>

\* The requester has no verified address: no mail.
NoRecipient(w) ==
    /\ w \in Workers
    /\ pc[w] = "claim"
    /\ Goto(w, "none")
    /\ UNCHANGED <<report, file, deliveries, row, tries, mailed, lost, stops>>

\* resend_report_email starts, if the report is ready.
RequestMail(r) ==
    /\ pc[r] = "start"
    /\ report = "ready"
    /\ Goto(r, "claim")
    /\ UNCHANGED <<report, file, deliveries, row, tries, mailed, lost, stops>>

-----------------------------------------------------------------------------
(* send_report_email.                                                      *)

LiveRow(to) ==
    \E i \in DOMAIN deliveries : deliveries[i].to = to /\ deliveries[i].status \in Live

Claim(s) ==
    /\ pc[s] = "claim"
    /\ ~ LiveRow(To[s])
    /\ deliveries' = Append(deliveries, [to |-> To[s], status |-> "pending"])
    /\ row' = [row EXCEPT ![s] = Len(deliveries) + 1]
    /\ Goto(s, "sending")
    /\ UNCHANGED <<report, file, tries, mailed, lost, stops>>

\* Faulty variant of ClaimMisses: a worker resends, too.
ClaimMissesResending(s) ==
    /\ pc[s] = "claim"
    /\ LiveRow(To[s])
    /\ Goto(s, "latest")
    /\ UNCHANGED <<report, file, deliveries, row, tries, mailed, lost, stops>>

\* The row exists: a worker leaves it, a request takes the latest row.
ClaimMisses(s) ==
    /\ pc[s] = "claim"
    /\ LiveRow(To[s])
    /\ Goto(s, IF s \in Workers THEN "suppressed" ELSE "latest")
    /\ UNCHANGED <<report, file, deliveries, row, tries, mailed, lost, stops>>

\* latest_for_analysis: whoever it is addressed to.
TakeLatest(s) ==
    /\ pc[s] = "latest"
    /\ row' = [row EXCEPT ![s] = Len(deliveries)]
    /\ Goto(s, "reopen")
    /\ UNCHANGED <<report, file, deliveries, tries, mailed, lost, stops>>

\* The unique index admits a live status for row i.
Admitted(i) ==
    \A j \in DOMAIN deliveries \ {i} :
        deliveries[j].to = deliveries[i].to => deliveries[j].status \notin Live

SetStatus(s, status) == deliveries' = [deliveries EXCEPT ![row[s]].status = status]

\* reopen_for_resend touches a failed row only.
Reopen(s) ==
    /\ pc[s] = "reopen"
    /\ IF deliveries[row[s]].status = "permanently_failed"
          THEN Admitted(row[s]) /\ SetStatus(s, "pending")
          ELSE UNCHANGED deliveries
    /\ Goto(s, "sending")
    /\ UNCHANGED <<report, file, row, tries, mailed, lost, stops>>

MarkSending(s) ==
    /\ pc[s] = "sending"
    /\ Admitted(row[s])
    /\ SetStatus(s, "sending")
    /\ Goto(s, "mail")
    /\ UNCHANGED <<report, file, row, tries, mailed, lost, stops>>

\* The provider accepts the mail and says so.
MailAccepted(s) ==
    /\ pc[s] = "mail"
    /\ tries' = [tries EXCEPT ![s] = @ + 1]
    /\ mailed' = [mailed EXCEPT ![s] = @ + 1]
    /\ Goto(s, "accepted")
    /\ UNCHANGED <<report, file, deliveries, row, lost, stops>>

\* Faulty variant of MailFails: one try more than allowed.
MailFailsOnceMore(s) ==
    /\ pc[s] = "mail"
    /\ tries' = [tries EXCEPT ![s] = @ + 1]
    /\ Goto(s, IF tries'[s] <= MaxTries THEN "sending" ELSE "giveUp")
    /\ UNCHANGED <<report, file, deliveries, row, mailed, lost, stops>>

\* The provider rejects the mail; or it accepts it but the reply is lost.
\* Either is a failure to the sender, which tries again or gives up.
MailFails(s) ==
    /\ pc[s] = "mail"
    /\ tries' = [tries EXCEPT ![s] = @ + 1]
    /\ \/ UNCHANGED <<mailed, lost>>
       \/ /\ \A t \in Senders : lost[t] < MaxLost
          /\ lost' = [lost EXCEPT ![s] = @ + 1]
          /\ mailed' = [mailed EXCEPT ![s] = @ + 1]
    /\ Goto(s, IF tries'[s] < MaxTries THEN "sending" ELSE "giveUp")
    /\ UNCHANGED <<report, file, deliveries, row, stops>>

MarkSent(s) ==
    /\ pc[s] = "accepted"
    /\ Admitted(row[s])
    /\ SetStatus(s, "sent")
    /\ Goto(s, "mailed")
    /\ UNCHANGED <<report, file, row, tries, mailed, lost, stops>>

\* Faulty variant of MarkFailed: what could not be sent counts as sent.
MarkFailedAsSent(s) ==
    /\ pc[s] = "giveUp"
    /\ SetStatus(s, "sent")
    /\ Goto(s, "failed")
    /\ UNCHANGED <<report, file, row, tries, mailed, lost, stops>>

MarkFailed(s) ==
    /\ pc[s] = "giveUp"
    /\ SetStatus(s, "permanently_failed")
    /\ Goto(s, "failed")
    /\ UNCHANGED <<report, file, row, tries, mailed, lost, stops>>

\* The unique index refuses an UPDATE: the exception ends the delivery.
Refused(s) ==
    /\ \/ pc[s] = "reopen" /\ deliveries[row[s]].status = "permanently_failed"
       \/ pc[s] \in {"sending", "accepted"}
    /\ ~ Admitted(row[s])
    /\ Goto(s, "conflict")
    /\ UNCHANGED <<report, file, deliveries, row, tries, mailed, lost, stops>>

\* The sender's process dies, or a statement of it raises.
Stops(s) ==
    /\ pc[s] \notin Ended
    /\ stops < MaxStops
    /\ stops' = stops + 1
    /\ Goto(s, "stopped")
    /\ UNCHANGED <<report, file, deliveries, row, tries, mailed, lost>>

-----------------------------------------------------------------------------
Generate(w) ==
    \/ UpsertPending(w)
    \/ Upload(w)
    \/ GenerationFails(w)
    \/ MarkReady(w)
    \/ MarkReportFailed(w)
    \/ NoRecipient(w)

Deliver(s) ==
    \/ Claim(s)
    \/ ClaimMisses(s)
    \/ TakeLatest(s)
    \/ Reopen(s)
    \/ MarkSending(s)
    \/ MailAccepted(s)
    \/ MailFails(s)
    \/ MarkSent(s)
    \/ MarkFailed(s)
    \/ Refused(s)

Next ==
    \/ \E w \in Workers : Generate(w)
    \/ \E r \in Requests : RequestMail(r)
    \/ \E s \in Senders : Deliver(s) \/ Stops(s)

Spec == Init /\ [][Next]_vars

\* A sender that lives goes on: storage and provider calls have timeouts.
FairSpec ==
    /\ Spec
    /\ \A w \in Workers : WF_vars(Generate(w))
    /\ \A s \in Senders : WF_vars(Deliver(s))

-----------------------------------------------------------------------------
(* Properties.                                                             *)

\* A report offered for download or by mail is in the storage, whichever of
\* two generators stored it and whichever failed.
ReportIsStored ==
    /\ report = "ready" => file
    /\ (\E s \in Senders : mailed[s] > 0) => file

\* Workers together send a recipient one automatic mail, and one more for every
\* reply that was lost, unless a request took the row over and failed.
OneAutomaticMail ==
    \/ \E r \in Requests : pc[r] = "failed"
    \/ \A w \in Workers :
          /\ mailed[w] <= lost[w] + 1
          /\ \A x \in Workers \ {w} :
                To[x] = To[w] => mailed[w] <= lost[w] \/ mailed[x] <= lost[x]

\* The record of a delivery is true.  One recorded as sent was accepted by the
\* provider, for its addressee or for a request: a resend takes the latest row,
\* also that of another user.  And a mail recorded as sent stays so, unless a
\* request shares its row and one of those who hold it did not succeed.
SentIsMailed ==
    \A i \in DOMAIN deliveries :
        LET Holders == {s \in Senders : row[s] = i}
            Recorded == {s \in Holders : pc[s] = "mailed"}
        IN  /\ deliveries[i].status = "sent" =>
                  \E s \in Recorded :
                      mailed[s] > 0 /\ (To[s] = deliveries[i].to \/ s \in Requests)
            /\ Recorded # {} /\ deliveries[i].status # "sent" =>
                  Holders \cap Requests # {} /\ Holders # Recorded

\* What is left open in the end was left by a sender that stopped in the midst
\* of it: a report in generation by a worker, no report at all by every worker
\* (nothing generates it later), an undecided delivery by one that held it.
EverythingSettles ==
    <>[](/\ report = "generating" => \E w \in Workers : pc[w] = "stopped"
         /\ report = "absent" => \A w \in Workers : pc[w] = "stopped"
         /\ \A i \in DOMAIN deliveries :
              deliveries[i].status \notin {"sent", "permanently_failed"} =>
                \E s \in Senders : row[s] = i /\ pc[s] = "stopped")
=============================================================================
