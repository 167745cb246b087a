------------------------ MODULE ReportDeliveryProofs ------------------------
(***************************************************************************)
(* What ReportDelivery guarantees for any senders, tries and faults,       *)
(* proved.                                                                 *)
(***************************************************************************)
EXTENDS ReportDelivery, FiniteSetTheorems, TLAPS

\* Past the generation: where a sender only gets with the PDF stored.
AfterGeneration == {"markReady", "claim", "latest", "reopen"} \cup Sending

(* The functions are functions on the senders; a sender mails only after the *)
(* generation, and what is after the generation is stored.                   *)
StoredInv ==
    /\ pc = [s \in Senders |-> pc[s]]
    /\ mailed = [s \in Senders |-> mailed[s]]
    /\ report = "ready" => file
    /\ \A s \in Senders : pc[s] \in AfterGeneration => file
    /\ \A s \in Senders : mailed[s] \in Nat /\ (mailed[s] > 0 => file)

\* A step of a sender preserves the invariant behind ReportIsStored.
LEMMA StoredStep ==
    ASSUME StoredInv, [Next]_vars
    PROVE  StoredInv'
<1> USE DEF StoredInv, AfterGeneration, Sending, Goto
<1>1. CASE UNCHANGED vars
  BY <1>1 DEF vars
<1>2. ASSUME NEW w \in Workers, Generate(w)
      PROVE  StoredInv'
  <2>1. w \in Senders
    BY DEF Senders
  <2>2. CASE UpsertPending(w)     BY <2>1, <2>2 DEF UpsertPending
  <2>3. CASE Upload(w)            BY <2>1, <2>3 DEF Upload
  <2>4. CASE GenerationFails(w)   BY <2>1, <2>4 DEF GenerationFails
  <2>5. CASE MarkReady(w)         BY <2>1, <2>5 DEF MarkReady
  <2>6. CASE MarkReportFailed(w)  BY <2>1, <2>6 DEF MarkReportFailed
  <2>7. CASE NoRecipient(w)       BY <2>1, <2>7 DEF NoRecipient
  <2> QED
    BY <1>2, <2>2, <2>3, <2>4, <2>5, <2>6, <2>7 DEF Generate
<1>3. ASSUME NEW r \in Requests, RequestMail(r)
      PROVE  StoredInv'
  BY <1>3 DEF RequestMail, Senders
<1>4. ASSUME NEW s \in Senders, Deliver(s)
      PROVE  StoredInv'
  <2>1. CASE Claim(s)         BY <2>1 DEF Claim
  <2>2. CASE ClaimMisses(s)   BY <2>2 DEF ClaimMisses
  <2>3. CASE TakeLatest(s)    BY <2>3 DEF TakeLatest
  <2>4. CASE Reopen(s)        BY <2>4 DEF Reopen
  <2>5. CASE MarkSending(s)   BY <2>5 DEF MarkSending
  <2>6. CASE MailAccepted(s)
    <3>1. file' /\ report' = report  BY <2>6 DEF MailAccepted
    <3>2. pc' = [t \in Senders |-> pc'[t]] /\ mailed' = [t \in Senders |-> mailed'[t]]
      BY <2>6 DEF MailAccepted
    <3>3. \A t \in Senders : mailed'[t] \in Nat
      BY <2>6 DEF MailAccepted
    <3> QED  BY <3>1, <3>2, <3>3, Zenon
  <2>7. CASE MailFails(s)     BY <2>7 DEF MailFails
  <2>8. CASE MarkSent(s)      BY <2>8 DEF MarkSent
  <2>9. CASE MarkFailed(s)    BY <2>9 DEF MarkFailed
  <2>10. CASE Refused(s)      BY <2>10 DEF Refused
  <2> QED
    BY <1>4, <2>1, <2>2, <2>3, <2>4, <2>5, <2>6, <2>7, <2>8, <2>9, <2>10 DEF Deliver
<1>5. ASSUME NEW s \in Senders, Stops(s)
      PROVE  StoredInv'
  BY <1>5 DEF Stops
<1> QED
  BY <1>1, <1>2, <1>3, <1>4, <1>5 DEF Next

\* A ready report, and a report that was mailed, is in the storage, for any
\* number of workers and requests and any faults.
THEOREM ReportStored == Spec => []ReportIsStored
<1>1. Init => StoredInv
  BY DEF Init, StoredInv, AfterGeneration, Sending
<1>2. StoredInv /\ [Next]_vars => StoredInv'
  BY StoredStep
<1>3. StoredInv => ReportIsStored
  BY DEF StoredInv, ReportIsStored
<1> QED
  BY <1>1, <1>2, <1>3, PTL DEF Spec

-----------------------------------------------------------------------------
\* Where a sender has not sent anything yet.
BeforeSending == {"start", "upload", "markReady", "markFailed", "claim", "latest"}

Rows == [to : {To[s] : s \in Senders},
         status : {"pending", "sending", "sent", "permanently_failed"}]

MailTypes ==
    /\ pc = [s \in Senders |-> pc[s]]
    /\ mailed \in [Senders -> Nat]
    /\ row \in [Senders -> Nat]
    /\ deliveries \in Seq(Rows)

(* A sender keeps its row from the claim on, a worker the row that it has    *)
(* inserted itself, and what it has marked as sent it has mailed.            *)
MailOf(s) ==
    /\ row[s] <= Len(deliveries)
    /\ pc[s] = "latest" => Len(deliveries) > 0 /\ s \notin Workers
    /\ pc[s] \in {"reopen"} \cup Sending => row[s] > 0
    /\ pc[s] \in BeforeSending => mailed[s] = 0 /\ row[s] = 0
    /\ pc[s] \in {"accepted", "mailed"} => mailed[s] > 0
    /\ s \in Workers /\ row[s] > 0 => deliveries[row[s]].to = To[s]

(* Workers do not share rows.                                                *)
OwnRows ==
    \A w, x \in Workers : row[w] > 0 /\ row[w] = row[x] => w = x

(* Whoever marked a row as sent holds it, and whoever marked it otherwise     *)
(* afterwards holds it too.                                                   *)
MarkedBy(i) ==
    /\ deliveries[i].status = "sent" => \E s \in Senders : row[s] = i /\ pc[s] = "mailed"
    /\ \A s \in Senders : row[s] = i /\ pc[s] = "mailed" /\ deliveries[i].status # "sent" =>
          \E t \in Senders : row[t] = i /\ pc[t] # "mailed"

Marked == \A i \in DOMAIN deliveries : MarkedBy(i)

MailInv ==
    /\ MailTypes
    /\ \A s \in Senders : MailOf(s)
    /\ OwnRows
    /\ Marked

\* What an UPDATE of one row's status leaves alone.
LEMMA StatusUpdated ==
    ASSUME NEW s \in Senders, NEW status \in {"pending", "sending", "sent", "permanently_failed"},
           deliveries \in Seq(Rows), row[s] \in DOMAIN deliveries, SetStatus(s, status)
    PROVE  /\ deliveries' \in Seq(Rows)
           /\ Len(deliveries') = Len(deliveries)
           /\ \A i \in DOMAIN deliveries :
                 /\ deliveries'[i].to = deliveries[i].to
                 /\ deliveries'[i].status = IF i = row[s] THEN status ELSE deliveries[i].status
<1>1. \A i \in DOMAIN deliveries : deliveries[i] \in Rows
  OBVIOUS
<1>2. deliveries' = [i \in DOMAIN deliveries |->
                      IF i = row[s] THEN [deliveries[i] EXCEPT !.status = status]
                                    ELSE deliveries[i]]
  BY DEF SetStatus
<1>3. \A i \in DOMAIN deliveries : [deliveries[i] EXCEPT !.status = status] \in Rows
  BY <1>1 DEF Rows
<1>4. DOMAIN deliveries = 1 .. Len(deliveries) /\ Len(deliveries) \in Nat
  OBVIOUS
<1>5. deliveries' \in [1 .. Len(deliveries) -> Rows]
  BY <1>1, <1>2, <1>3, <1>4
<1>6. deliveries' \in Seq(Rows) /\ Len(deliveries') = Len(deliveries)
  BY <1>4, <1>5
<1>7. ASSUME NEW i \in DOMAIN deliveries
      PROVE  /\ deliveries'[i].to = deliveries[i].to
             /\ deliveries'[i].status = IF i = row[s] THEN status ELSE deliveries[i].status
  BY <1>1, <1>2 DEF Rows
<1> QED
  BY <1>6, <1>7

\* A step that only moves a sender, and not past a mail it has not sent,
\* preserves the invariant.
LEMMA OnlyMoves ==
    ASSUME MailInv, NEW s \in Senders, NEW where, Goto(s, where),
           UNCHANGED <<deliveries, row, mailed>>,
           where \in BeforeSending => pc[s] \in BeforeSending,
           {pc[s], where} \cap {"mailed"} = {},
           where = "latest" => Len(deliveries) > 0 /\ s \notin Workers,
           where \in {"reopen"} \cup Sending => row[s] > 0,
           where # "accepted"
    PROVE  MailInv'
<1>1. pc' = [t \in Senders |-> IF t = s THEN where ELSE pc[t]]
  BY DEF MailInv, MailTypes, Goto
<1>2. MailTypes'
  BY <1>1 DEF MailInv, MailTypes
<1>3. Marked' /\ OwnRows'
  <2>1. \A t \in Senders : pc'[t] = "mailed" <=> pc[t] = "mailed"
    BY <1>1
  <2>2. ASSUME NEW i \in DOMAIN deliveries
        PROVE  MarkedBy(i)'
    BY <2>1 DEF MailInv, Marked, MarkedBy
  <2> QED
    BY <2>2 DEF MailInv, Marked, OwnRows
<1>4. ASSUME NEW t \in Senders
      PROVE  MailOf(t)'
  <2>1. CASE t = s   BY <1>1, <2>1 DEF MailInv, MailOf, Sending, BeforeSending
  <2>2. CASE t # s   BY <1>1, <2>2 DEF MailInv, MailOf, Sending, BeforeSending
  <2> QED  BY <2>1, <2>2
<1> QED
  BY <1>2, <1>3, <1>4 DEF MailInv

\* A step that updates the row of sender s and moves s from one point of the
\* sending to another preserves the invariant, if a row becomes sent only when
\* s has mailed it.
LEMMA Updates ==
    ASSUME MailInv, NEW s \in Senders,
           NEW status \in {"pending", "sending", "sent", "permanently_failed"}, NEW where,
           pc[s] \in {"reopen"} \cup Sending, where \notin BeforeSending \cup {"accepted"},
           SetStatus(s, status), Goto(s, where), UNCHANGED <<row, mailed>>,
           status = "sent" => mailed[s] > 0, status = "sent" <=> where = "mailed"
    PROVE  MailInv'
<1>1. deliveries \in Seq(Rows) /\ row[s] \in DOMAIN deliveries
  BY DEF MailInv, MailOf, MailTypes
<1>2. /\ deliveries' \in Seq(Rows)
      /\ Len(deliveries') = Len(deliveries)
      /\ \A i \in DOMAIN deliveries :
            /\ deliveries'[i].to = deliveries[i].to
            /\ deliveries'[i].status = IF i = row[s] THEN status ELSE deliveries[i].status
  BY <1>1, StatusUpdated
<1>3. DOMAIN deliveries' = DOMAIN deliveries
  BY <1>1, <1>2
<1>4. pc' = [t \in Senders |-> IF t = s THEN where ELSE pc[t]]
  BY DEF MailInv, MailTypes, Goto
<1>5. MailTypes'
  BY <1>2, <1>4 DEF MailInv, MailTypes
<1>6. Marked' /\ OwnRows'
  <2>1. ASSUME NEW i \in DOMAIN deliveries
        PROVE  MarkedBy(i)'
    <3>1. pc[s] # "mailed" /\ row' = row
      BY DEF Sending
    <3>2. CASE i = row[s]
      BY <1>2, <1>4, <3>1, <3>2 DEF MarkedBy
    <3>3. CASE i # row[s]
      <4>1. MarkedBy(i) /\ deliveries'[i].status = deliveries[i].status
        BY <1>2, <3>3 DEF MailInv, Marked
      <4>2. \A u \in Senders : row[u] = i => pc'[u] = pc[u]
        BY <1>4, <3>3
      <4> QED
        BY <3>1, <4>1, <4>2 DEF MarkedBy
    <3> QED
      BY <3>2, <3>3
  <2> QED
    BY <1>3, <2>1 DEF Marked, MailInv, OwnRows
<1>7. ASSUME NEW t \in Senders
      PROVE  MailOf(t)'
  <2>0. row[t] > 0 => row[t] \in DOMAIN deliveries
    BY <1>1 DEF MailInv, MailOf, MailTypes
  <2>1. CASE t = s   BY <1>1, <1>2, <1>4, <2>0, <2>1 DEF MailInv, MailOf, Sending, BeforeSending
  <2>2. CASE t # s   BY <1>2, <1>4, <2>0, <2>2 DEF MailInv, MailOf
  <2> QED  BY <2>1, <2>2
<1> QED
  BY <1>5, <1>6, <1>7 DEF MailInv

\* A step of a sender preserves the invariant behind SentIsMailed.
LEMMA MailStep ==
    ASSUME MailInv, [Next]_vars
    PROVE  MailInv'
<1> USE DEF BeforeSending
<1>1. CASE UNCHANGED vars
  BY <1>1 DEF vars, MailInv, MailOf, MailTypes, Marked, MarkedBy, OwnRows
<1>2. ASSUME NEW w \in Workers, Generate(w)
      PROVE  MailInv'
  <2>1. w \in Senders
    BY DEF Senders
  <2>2. CASE UpsertPending(w)
    BY <2>1, <2>2, OnlyMoves DEF UpsertPending, Sending
  <2>3. CASE Upload(w)            BY <2>1, <2>3, OnlyMoves DEF Upload, Sending
  <2>4. CASE GenerationFails(w)   BY <2>1, <2>4, OnlyMoves DEF GenerationFails, Sending
  <2>5. CASE MarkReady(w)         BY <2>1, <2>5, OnlyMoves DEF MarkReady, Sending
  <2>6. CASE MarkReportFailed(w)  BY <2>1, <2>6, OnlyMoves DEF MarkReportFailed, Sending
  <2>7. CASE NoRecipient(w)       BY <2>1, <2>7, OnlyMoves DEF NoRecipient, Sending
  <2> QED
    BY <1>2, <2>2, <2>3, <2>4, <2>5, <2>6, <2>7 DEF Generate
<1>3. ASSUME NEW r \in Requests, RequestMail(r)
      PROVE  MailInv'
  BY <1>3, OnlyMoves DEF RequestMail, Senders, Sending
<1>4. ASSUME NEW s \in Senders, Deliver(s)
      PROVE  MailInv'
  <2>1. CASE Claim(s)
    <3> DEFINE new == [to |-> To[s], status |-> "pending"]
    <3>1. deliveries \in Seq(Rows) /\ new \in Rows
      BY DEF MailInv, MailTypes, Rows
    <3>2. /\ deliveries' \in Seq(Rows)
          /\ Len(deliveries') = Len(deliveries) + 1
          /\ deliveries'[Len(deliveries) + 1] = new
          /\ \A i \in DOMAIN deliveries : deliveries'[i] = deliveries[i]
      BY <2>1, <3>1 DEF Claim
    <3>3. /\ pc' = [t \in Senders |-> IF t = s THEN "sending" ELSE pc[t]]
          /\ row' = [t \in Senders |-> IF t = s THEN Len(deliveries) + 1 ELSE row[t]]
          /\ mailed' = mailed /\ mailed[s] = 0 /\ row[s] = 0 /\ pc[s] # "mailed"
      BY <2>1 DEF Claim, Goto, MailInv, MailOf, MailTypes
    <3>4. MailTypes'
      BY <3>1, <3>2, <3>3 DEF MailInv, MailTypes
    <3>5. Marked' /\ OwnRows'
      <4>1. \A t \in Senders : row[t] <= Len(deliveries) /\ row[t] \in Nat
        BY DEF MailInv, MailOf, MailTypes
      <4>2. ASSUME NEW i \in DOMAIN deliveries', i # Len(deliveries) + 1
            PROVE  MarkedBy(i)'
        <5>1. i \in DOMAIN deliveries /\ deliveries'[i] = deliveries[i]
          BY <3>1, <3>2, <4>2
        <5>2. MarkedBy(i) /\ i # 0
          BY <3>1, <5>1 DEF MailInv, Marked
        <5>3. \A t \in Senders : (row'[t] = i <=> row[t] = i) /\ (row[t] = i => pc'[t] = pc[t])
          BY <3>3, <4>2, <5>2
        <5> QED
          BY <5>1, <5>2, <5>3 DEF MarkedBy
      <4>3. ASSUME NEW i \in DOMAIN deliveries', i = Len(deliveries) + 1
            PROVE  MarkedBy(i)'
        <5>1. \A t \in Senders : row'[t] = i => pc'[t] # "mailed"
          BY <3>1, <3>3, <4>1, <4>3
        <5>2. deliveries'[i].status = "pending"
          BY <3>2, <4>3
        <5> QED
          BY <5>1, <5>2 DEF MarkedBy
      <4>4. OwnRows'
        BY <3>1, <3>3, <4>1 DEF MailInv, OwnRows, Senders
      <4> QED
        BY <4>2, <4>3, <4>4 DEF Marked
    <3>6. ASSUME NEW t \in Senders
          PROVE  MailOf(t)'
      <4>1. CASE t = s   BY <3>1, <3>2, <3>3, <4>1 DEF MailOf, Sending
      <4>2. CASE t # s
        <5>1. /\ row'[t] = row[t] /\ pc'[t] = pc[t] /\ mailed'[t] = mailed[t] /\ MailOf(t)
              /\ row[t] \in Nat
          BY <3>3, <4>2 DEF MailInv, MailTypes
        <5>2. row[t] > 0 => row[t] \in DOMAIN deliveries
          BY <3>1, <5>1 DEF MailOf
        <5>3. row[t] > 0 => deliveries'[row[t]].to = deliveries[row[t]].to
          BY <3>2, <5>2
        <5>4. row'[t] <= Len(deliveries') /\ Len(deliveries') > 0
          BY <3>1, <3>2, <5>1 DEF MailOf
        <5> QED
          BY <5>1, <5>3, <5>4 DEF MailOf
      <4> QED  BY <4>1, <4>2
    <3> QED
      BY <3>4, <3>5, <3>6 DEF MailInv
  <2>2. CASE ClaimMisses(s)
    <3>1. Len(deliveries) > 0
      BY <2>2 DEF ClaimMisses, LiveRow, MailInv, MailTypes
    <3> QED
      BY <2>2, <3>1, OnlyMoves DEF ClaimMisses, Sending
  <2>3. CASE TakeLatest(s)
    <3>1. /\ pc' = [t \in Senders |-> IF t = s THEN "reopen" ELSE pc[t]]
          /\ row' = [t \in Senders |-> IF t = s THEN Len(deliveries) ELSE row[t]]
          /\ UNCHANGED <<deliveries, mailed>>
          /\ mailed[s] = 0 /\ Len(deliveries) > 0 /\ row[s] = 0 /\ pc[s] # "mailed" /\ s \notin Workers
      BY <2>3 DEF TakeLatest, Goto, MailInv, MailOf, MailTypes
    <3>2. MailTypes'
      BY <3>1 DEF MailInv, MailTypes
    <3>3. Marked' /\ OwnRows'
      <4>1. ASSUME NEW i \in DOMAIN deliveries
            PROVE  MarkedBy(i)'
        <5>1. MarkedBy(i) /\ i # 0 /\ deliveries' = deliveries
          BY <3>1 DEF MailInv, Marked, MailTypes
        <5>2. \A t \in Senders : row[t] = i => row'[t] = i /\ pc'[t] = pc[t]
          BY <3>1, <5>1
        <5>3. \A t \in Senders : row'[t] = i /\ pc'[t] = "mailed" => row[t] = i /\ pc[t] = "mailed"
          BY <3>1
        <5> QED
          BY <5>1, <5>2, <5>3 DEF MarkedBy
      <4>2. OwnRows'
        BY <3>1 DEF MailInv, OwnRows, Senders
      <4> QED
        BY <3>1, <4>1, <4>2 DEF Marked
    <3>4. ASSUME NEW t \in Senders
          PROVE  MailOf(t)'
      <4>1. CASE t = s   BY <3>1, <4>1 DEF MailInv, MailOf, MailTypes, Sending
      <4>2. CASE t # s   BY <3>1, <4>2 DEF MailInv, MailOf, MailTypes
      <4> QED  BY <4>1, <4>2
    <3> QED
      BY <3>2, <3>3, <3>4 DEF MailInv
  <2>4. CASE Reopen(s)
    <3>1. CASE deliveries[row[s]].status = "permanently_failed"
      BY <2>4, <3>1, Updates DEF Reopen, Sending
    <3>2. CASE deliveries[row[s]].status # "permanently_failed"
      BY <2>4, <3>2, OnlyMoves DEF Reopen, Sending, MailInv, MailOf
    <3> QED
      BY <3>1, <3>2
  <2>5. CASE MarkSending(s)   BY <2>5, Updates DEF MarkSending, Sending
  <2>6. CASE MailAccepted(s)
    <3>1. /\ pc' = [t \in Senders |-> IF t = s THEN "accepted" ELSE pc[t]]
          /\ mailed' = [t \in Senders |-> IF t = s THEN mailed[t] + 1 ELSE mailed[t]]
          /\ UNCHANGED <<deliveries, row>>
      BY <2>6 DEF MailAccepted, Goto, MailInv, MailTypes
    <3>2. row[s] > 0 /\ pc[s] # "mailed"
      BY <2>6 DEF MailAccepted, MailInv, MailOf, Sending
    <3>3. Marked' /\ OwnRows'
      BY <3>1, <3>2 DEF MailInv, Marked, MarkedBy, OwnRows
    <3> QED
      BY <3>1, <3>2, <3>3 DEF MailInv, MailOf, MailTypes, Sending
  <2>7. CASE MailFails(s)
    <3>1. /\ mailed \in [Senders -> Nat] /\ row[s] > 0
          /\ pc = [t \in Senders |-> pc[t]]
      BY <2>7 DEF MailFails, MailInv, MailOf, MailTypes, Sending
    <3>2. /\ pc'[s] \in {"sending", "giveUp"}
          /\ \A t \in Senders \ {s} : pc'[t] = pc[t]
          /\ pc' = [t \in Senders |-> pc'[t]]
      BY <2>7, <3>1 DEF MailFails, Goto
    <3>3. /\ mailed' \in [Senders -> Nat]
          /\ \A t \in Senders : mailed'[t] >= mailed[t] /\ (t # s => mailed'[t] = mailed[t])
          /\ UNCHANGED <<deliveries, row>>
      BY <2>7, <3>1 DEF MailFails
    <3>4. MailTypes'
      BY <3>2, <3>3 DEF MailInv, MailTypes
    <3>5. Marked' /\ OwnRows'
      <4>1. pc[s] # "mailed"
        BY <2>7 DEF MailFails
      <4> QED
        BY <3>2, <3>3, <4>1 DEF MailInv, Marked, MarkedBy, OwnRows
    <3>6. ASSUME NEW t \in Senders
          PROVE  MailOf(t)'
      <4>1. CASE t = s   BY <3>1, <3>2, <3>3, <4>1 DEF MailInv, MailOf, Sending
      <4>2. CASE t # s   BY <3>2, <3>3, <4>2 DEF MailInv, MailOf, Sending
      <4> QED  BY <4>1, <4>2
    <3> QED
      BY <3>4, <3>5, <3>6 DEF MailInv
  <2>8. CASE MarkSent(s)
    <3>1. mailed[s] > 0
      BY <2>8 DEF MarkSent, MailInv, MailOf
    <3> QED
      BY <2>8, <3>1, Updates DEF MarkSent, Sending
  <2>9. CASE MarkFailed(s)    BY <2>9, Updates DEF MarkFailed, Sending
  <2>10. CASE Refused(s)      BY <2>10, OnlyMoves DEF Refused, Sending
  <2> QED
    BY <1>4, <2>1, <2>2, <2>3, <2>4, <2>5, <2>6, <2>7, <2>8, <2>9, <2>10 DEF Deliver
<1>5. ASSUME NEW s \in Senders, Stops(s)
      PROVE  MailInv'
  BY <1>5, OnlyMoves DEF Stops, Sending
<1> QED
  BY <1>1, <1>2, <1>3, <1>4, <1>5 DEF Next

\* Whoever marked a row is known, so what is recorded of it is what happened.
LEMMA RecordsAreTrue ==
    ASSUME MailInv
    PROVE  SentIsMailed
<1> SUFFICES ASSUME NEW i \in DOMAIN deliveries
             PROVE  LET Holders == {s \in Senders : row[s] = i}
                        Recorded == {s \in Holders : pc[s] = "mailed"}
                    IN  /\ deliveries[i].status = "sent" =>
                              \E s \in Recorded :
                                  mailed[s] > 0 /\ (To[s] = deliveries[i].to \/ s \in Requests)
                        /\ Recorded # {} /\ deliveries[i].status # "sent" =>
                              Holders \cap Requests # {} /\ Holders # Recorded
  BY DEF SentIsMailed
<1> DEFINE Holders == {s \in Senders : row[s] = i}
           Recorded == {s \in Holders : pc[s] = "mailed"}
<1>1. i > 0 /\ MarkedBy(i)
  BY DEF MailInv, MailTypes, Marked
<1>2. \A s \in Holders : s \in Workers => To[s] = deliveries[i].to
  BY <1>1 DEF MailInv, MailOf
<1>3. \A s \in Recorded : mailed[s] > 0
  BY DEF MailInv, MailOf
<1>4. ASSUME deliveries[i].status = "sent"
      PROVE  \E s \in Recorded : mailed[s] > 0 /\ (To[s] = deliveries[i].to \/ s \in Requests)
  BY <1>1, <1>2, <1>3, <1>4 DEF MarkedBy, Senders
<1>5. ASSUME NEW s \in Recorded, deliveries[i].status # "sent"
      PROVE  Holders \cap Requests # {} /\ Holders # Recorded
  <2>1. PICK t \in Senders : row[t] = i /\ pc[t] # "mailed"
    BY <1>1, <1>5 DEF MarkedBy
  <2>2. t \in Holders /\ t \notin Recorded /\ s \in Holders /\ t # s
    BY <2>1
  <2>3. ~ (t \in Workers /\ s \in Workers)
    BY <1>1, <2>1, <2>2 DEF MailInv, OwnRows
  <2> QED
    BY <2>2, <2>3 DEF Senders
<1> QED
  BY <1>4, <1>5

\* The record of a delivery is true, for any number of senders, whoever they
\* write to, and any faults: what says sent was mailed, to its addressee or by
\* a resend that took the row, and a recorded mail is only overwritten when a
\* resend shares the row and one of its holders did not succeed.
THEOREM DeliveriesMailed == Spec => []SentIsMailed
<1>1. Init => MailInv
  <2> SUFFICES ASSUME Init PROVE MailInv
    OBVIOUS
  <2>1. MailTypes
    BY DEF Init, MailTypes
  <2>2. Marked /\ OwnRows
    BY DEF Init, Marked, OwnRows, Senders
  <2> QED
    BY <2>1, <2>2 DEF Init, MailInv, MailOf, BeforeSending, Sending, Senders
<1>2. MailInv /\ [Next]_vars => MailInv'
  BY MailStep
<1>3. MailInv => SentIsMailed
  BY RecordsAreTrue
<1> QED
  BY <1>1, <1>2, <1>3, PTL DEF Spec

-----------------------------------------------------------------------------
\* Where a sender has not asked for a delivery yet.
BeforeClaim == {"start", "upload", "markReady", "markFailed", "claim"}

Places == BeforeClaim \cup {"latest", "reopen"} \cup Sending \cup Ended

\* The senders that have asked: each has inserted one row at most.
Asked == {s \in Senders : pc[s] \notin BeforeClaim}

(* What a sender at a place may hold: its row, n tries, m mails, with len    *)
(* deliveries in the table.                                                  *)
Fits(where, r, n, m, len) ==
    /\ r \in 0 .. len
    /\ n \in 0 .. MaxTries
    /\ m \in 0 .. n
    /\ where = "latest" => len > 0
    /\ where \in {"reopen"} \cup Sending => r > 0
    /\ where \in BeforeSending \cup {"reopen"} => n = 0
    /\ where \in {"sending", "mail"} => n < MaxTries

Settings ==
    /\ report \in {"absent", "generating", "ready", "failed"}
    /\ file \in BOOLEAN
    /\ lost \in [Senders -> 0 .. MaxLost]
    /\ stops \in 0 .. MaxStops

SenderTypes ==
    /\ deliveries \in Seq(Rows)
    /\ pc \in [Senders -> Places]
    /\ row \in [Senders -> Nat]
    /\ tries \in [Senders -> Nat]
    /\ mailed \in [Senders -> Nat]

TypeInv ==
    /\ Settings
    /\ SenderTypes
    /\ \A s \in Senders : Fits(pc[s], row[s], tries[s], mailed[s], Len(deliveries))
    /\ Len(deliveries) <= Cardinality(Asked)

\* A sender that has asked stays so; one more row needs one more sender.
LEMMA AskedGrows ==
    ASSUME TypeInv, NEW s \in Senders, NEW where, Goto(s, where),
           where \in BeforeClaim => pc[s] \in BeforeClaim
    PROVE  /\ Cardinality(Asked) <= Cardinality(Asked')
           /\ pc[s] \in BeforeClaim /\ where \notin BeforeClaim =>
                Cardinality(Asked') = Cardinality(Asked) + 1
<1>1. pc' = [t \in Senders |-> IF t = s THEN where ELSE pc[t]]
  BY DEF TypeInv, SenderTypes, Goto
<1>2. IsFiniteSet(Asked) /\ IsFiniteSet(Asked')
  BY DeliveryAssumption, FS_Subset DEF Asked
<1>3. Asked \subseteq Asked'
  BY <1>1 DEF Asked
<1>4. Cardinality(Asked) <= Cardinality(Asked')
  BY <1>2, <1>3, FS_Subset
<1>5. ASSUME pc[s] \in BeforeClaim, where \notin BeforeClaim
      PROVE  Cardinality(Asked') = Cardinality(Asked) + 1
  <2>1. Asked' = Asked \cup {s} /\ s \notin Asked
    BY <1>1, <1>5 DEF Asked
  <2> QED
    BY <1>2, <2>1, FS_AddElement
<1> QED
  BY <1>4, <1>5

\* A step that moves one sender, adds at most the row that it claims and
\* leaves the sender with what fits its new place preserves the types.
LEMMA TypedMove ==
    ASSUME TypeInv, NEW s \in Senders, NEW where \in Places, Goto(s, where),
           where \in BeforeClaim => pc[s] \in BeforeClaim,
           Settings', deliveries' \in Seq(Rows),
           \/ Len(deliveries') = Len(deliveries)
           \/ /\ Len(deliveries') = Len(deliveries) + 1
              /\ pc[s] \in BeforeClaim
              /\ where \notin BeforeClaim,
           row' \in [Senders -> Nat], tries' \in [Senders -> Nat],
           mailed' \in [Senders -> Nat],
           \A t \in Senders \ {s} : /\ row'[t] = row[t]
                                    /\ tries'[t] = tries[t]
                                    /\ mailed'[t] = mailed[t],
           Fits(where, row'[s], tries'[s], mailed'[s], Len(deliveries'))
    PROVE  TypeInv'
<1>1. pc' = [t \in Senders |-> IF t = s THEN where ELSE pc[t]]
  BY DEF TypeInv, SenderTypes, Goto
<1>2. SenderTypes'
  BY <1>1 DEF TypeInv, SenderTypes
<1>3. Len(deliveries) \in Nat /\ Len(deliveries') \in Nat
  BY DEF TypeInv, SenderTypes
<1>4. Len(deliveries') <= Cardinality(Asked')
  <2>1. Cardinality(Asked) \in Nat /\ Cardinality(Asked') \in Nat
    BY DeliveryAssumption, FS_Subset, FS_CardinalityType DEF Asked
  <2>2. /\ Cardinality(Asked) <= Cardinality(Asked')
        /\ pc[s] \in BeforeClaim /\ where \notin BeforeClaim =>
             Cardinality(Asked') = Cardinality(Asked) + 1
    BY AskedGrows
  <2>3. Len(deliveries) <= Cardinality(Asked)
    BY DEF TypeInv
  <2> QED
    BY <1>3, <2>1, <2>2, <2>3
<1>5. ASSUME NEW t \in Senders
      PROVE  Fits(pc'[t], row'[t], tries'[t], mailed'[t], Len(deliveries'))
  <2>1. CASE t = s
    BY <1>1, <2>1
  <2>2. CASE t # s
    <3>1. /\ pc'[t] = pc[t] /\ row'[t] = row[t]
          /\ tries'[t] = tries[t] /\ mailed'[t] = mailed[t]
      BY <1>1, <2>2
    <3>2. Fits(pc[t], row[t], tries[t], mailed[t], Len(deliveries)) /\ row[t] \in Nat
      BY DEF TypeInv, SenderTypes
    <3>3. Len(deliveries) <= Len(deliveries')
      BY <1>3
    <3>4. Fits(pc[t], row[t], tries[t], mailed[t], Len(deliveries'))
      BY <1>3, <3>2, <3>3 DEF Fits
    <3> QED
      BY <3>1, <3>4
  <2> QED
    BY <2>1, <2>2
<1> QED
  BY <1>2, <1>4, <1>5 DEF TypeInv

\* A step that only moves a sender, to a place its row and tries fit, keeps
\* the types.
LEMMA TypedStep ==
    ASSUME TypeInv, NEW s \in Senders, NEW where \in Places, Goto(s, where),
           where \in BeforeClaim => pc[s] \in BeforeClaim,
           Settings', UNCHANGED <<deliveries, row, tries, mailed>>,
           Fits(where, row[s], tries[s], mailed[s], Len(deliveries))
    PROVE  TypeInv'
<1>1. /\ deliveries \in Seq(Rows)
      /\ row \in [Senders -> Nat]
      /\ tries \in [Senders -> Nat]
      /\ mailed \in [Senders -> Nat]
  BY DEF TypeInv, SenderTypes
<1> QED
  BY <1>1, TypedMove

\* A step that updates the status of the sender's row and moves it on keeps
\* the types.
LEMMA TypedUpdate ==
    ASSUME TypeInv, NEW s \in Senders, NEW where \in Places, Goto(s, where),
           NEW status \in {"pending", "sending", "sent", "permanently_failed"},
           pc[s] \in {"reopen"} \cup Sending, where \notin BeforeClaim,
           SetStatus(s, status), UNCHANGED <<report, file, row, tries, mailed, lost, stops>>,
           Fits(where, row[s], tries[s], mailed[s], Len(deliveries))
    PROVE  TypeInv'
<1>1. /\ deliveries \in Seq(Rows)
      /\ row \in [Senders -> Nat]
      /\ tries \in [Senders -> Nat]
      /\ mailed \in [Senders -> Nat]
      /\ Settings'
  BY DEF TypeInv, SenderTypes, Settings
<1>2. row[s] \in DOMAIN deliveries
  BY <1>1 DEF TypeInv, Fits
<1>3. deliveries' \in Seq(Rows) /\ Len(deliveries') = Len(deliveries)
  BY <1>1, <1>2, StatusUpdated
<1> QED
  BY <1>1, <1>3, TypedMove

\* A step of a sender preserves the invariant behind TypeOK.
LEMMA TypeStep ==
    ASSUME TypeInv, [Next]_vars
    PROVE  TypeInv'
<1> USE DEF BeforeClaim, BeforeSending, Places, Sending, Ended
<1>0. \A t \in Senders :
         /\ Fits(pc[t], row[t], tries[t], mailed[t], Len(deliveries))
         /\ pc[t] \in Places
         /\ row[t] \in Nat /\ tries[t] \in Nat /\ mailed[t] \in Nat
  BY DEF TypeInv, SenderTypes
<1>len. Len(deliveries) \in Nat /\ MaxTries \in Nat \ {0} /\ Settings
  BY DeliveryAssumption DEF TypeInv, SenderTypes
<1>1. CASE UNCHANGED vars
  BY <1>1 DEF vars, TypeInv, Settings, SenderTypes, Asked
<1>2. ASSUME NEW w \in Workers, Generate(w)
      PROVE  TypeInv'
  <2>1. w \in Senders
    BY DEF Senders
  <2>2. CASE UpsertPending(w)
    <3>1. Settings'
      BY <1>len, <2>2 DEF UpsertPending, Settings
    <3> QED
      BY <1>0, <2>1, <2>2, <3>1, TypedStep DEF UpsertPending, Fits
  <2>3. CASE Upload(w)
    BY <1>0, <1>len, <2>1, <2>3, TypedStep DEF Upload, Fits, Settings
  <2>4. CASE GenerationFails(w)
    BY <1>0, <1>len, <2>1, <2>4, TypedStep DEF GenerationFails, Fits, Settings
  <2>5. CASE MarkReady(w)
    BY <1>0, <1>len, <2>1, <2>5, TypedStep DEF MarkReady, Fits, Settings
  <2>6. CASE MarkReportFailed(w)
    BY <1>0, <1>len, <2>1, <2>6, TypedStep DEF MarkReportFailed, Fits, Settings
  <2>7. CASE NoRecipient(w)
    BY <1>0, <1>len, <2>1, <2>7, TypedStep DEF NoRecipient, Fits, Settings
  <2> QED
    BY <1>2, <2>2, <2>3, <2>4, <2>5, <2>6, <2>7 DEF Generate
<1>3. ASSUME NEW r \in Requests, RequestMail(r)
      PROVE  TypeInv'
  <2>1. r \in Senders
    BY DEF Senders
  <2> QED
    BY <1>0, <1>len, <1>3, <2>1, TypedStep DEF RequestMail, Fits, Settings
<1>4. ASSUME NEW s \in Senders, Deliver(s)
      PROVE  TypeInv'
  <2>0. /\ deliveries \in Seq(Rows)
        /\ row \in [Senders -> Nat]
        /\ tries \in [Senders -> Nat]
        /\ mailed \in [Senders -> Nat]
    BY DEF TypeInv, SenderTypes
  <2>1. CASE Claim(s)
    <3> DEFINE new == [to |-> To[s], status |-> "pending"]
    <3>1. new \in Rows
      BY DEF Rows
    <3>2. deliveries' \in Seq(Rows) /\ Len(deliveries') = Len(deliveries) + 1
      BY <2>0, <2>1, <3>1 DEF Claim
    <3>3. /\ row' \in [Senders -> Nat]
          /\ row'[s] = Len(deliveries')
          /\ \A t \in Senders \ {s} : row'[t] = row[t]
          /\ tries' = tries /\ mailed' = mailed
      BY <1>len, <2>0, <2>1, <3>2 DEF Claim
    <3>4. Fits("sending", row'[s], tries[s], mailed[s], Len(deliveries'))
      BY <1>0, <1>len, <2>1, <3>2, <3>3 DEF Claim, Fits
    <3>5. Settings' /\ pc[s] = "claim" /\ Goto(s, "sending")
      BY <1>len, <2>1 DEF Claim, Settings
    <3> QED
      BY <2>0, <3>2, <3>3, <3>4, <3>5, TypedMove
  <2>2. CASE ClaimMisses(s)
    <3>1. Len(deliveries) > 0
      BY <1>len, <2>0, <2>2 DEF ClaimMisses, LiveRow
    <3> QED
      BY <1>0, <1>len, <2>2, <3>1, TypedStep DEF ClaimMisses, Fits, Settings
  <2>3. CASE TakeLatest(s)
    <3>1. /\ row' \in [Senders -> Nat]
          /\ row'[s] = Len(deliveries)
          /\ \A t \in Senders \ {s} : row'[t] = row[t]
          /\ tries' = tries /\ mailed' = mailed /\ deliveries' = deliveries
      BY <1>len, <2>0, <2>3 DEF TakeLatest
    <3>2. Fits("reopen", row'[s], tries[s], mailed[s], Len(deliveries))
      BY <1>0, <1>len, <2>3, <3>1 DEF TakeLatest, Fits
    <3>3. Settings' /\ pc[s] = "latest" /\ Goto(s, "reopen")
      BY <1>len, <2>3 DEF TakeLatest, Settings
    <3> QED
      BY <2>0, <3>1, <3>2, <3>3, TypedMove
  <2>4. CASE Reopen(s)
    <3>1. Fits("sending", row[s], tries[s], mailed[s], Len(deliveries))
      BY <1>0, <1>len, <2>4 DEF Reopen, Fits
    <3>2. CASE deliveries[row[s]].status = "permanently_failed"
      BY <2>4, <3>1, <3>2, TypedUpdate DEF Reopen
    <3>3. CASE deliveries[row[s]].status # "permanently_failed"
      BY <1>len, <2>4, <3>1, <3>3, TypedStep DEF Reopen, Settings
    <3> QED
      BY <3>2, <3>3
  <2>5. CASE MarkSending(s)
    <3>1. Fits("mail", row[s], tries[s], mailed[s], Len(deliveries))
      BY <1>0, <2>5 DEF MarkSending, Fits
    <3> QED
      BY <2>5, <3>1, TypedUpdate DEF MarkSending
  <2>6. CASE MailAccepted(s)
    <3>1. /\ tries' \in [Senders -> Nat] /\ tries'[s] = tries[s] + 1
          /\ mailed' \in [Senders -> Nat] /\ mailed'[s] = mailed[s] + 1
          /\ \A t \in Senders \ {s} : tries'[t] = tries[t] /\ mailed'[t] = mailed[t]
          /\ row' = row /\ deliveries' = deliveries
      BY <2>0, <2>6 DEF MailAccepted
    <3>2. Fits("accepted", row[s], tries'[s], mailed'[s], Len(deliveries))
      BY <1>0, <1>len, <2>6, <3>1 DEF MailAccepted, Fits
    <3>3. Settings' /\ pc[s] = "mail" /\ Goto(s, "accepted")
      BY <1>len, <2>6 DEF MailAccepted, Settings
    <3> QED
      BY <2>0, <3>1, <3>2, <3>3, TypedMove
  <2>7. CASE MailFails(s)
    <3> DEFINE where == IF tries'[s] < MaxTries THEN "sending" ELSE "giveUp"
    <3>1. /\ tries' \in [Senders -> Nat] /\ tries'[s] = tries[s] + 1
          /\ \A t \in Senders \ {s} : tries'[t] = tries[t]
          /\ row' = row /\ deliveries' = deliveries
      BY <2>0, <2>7 DEF MailFails
    <3>2. /\ mailed' \in [Senders -> Nat]
          /\ mailed'[s] \in {mailed[s], mailed[s] + 1}
          /\ \A t \in Senders \ {s} : mailed'[t] = mailed[t]
      <4>1. mailed' = mailed \/ mailed' = [mailed EXCEPT ![s] = mailed[s] + 1]
        BY <2>7 DEF MailFails
      <4> QED
        BY <2>0, <4>1
    <3>3. Fits(where, row[s], tries'[s], mailed'[s], Len(deliveries))
      BY <1>0, <1>len, <2>7, <3>1, <3>2 DEF MailFails, Fits
    <3>4. Settings'
      <4>1. lost' \in [Senders -> 0 .. MaxLost]
        <5>1. CASE lost' = lost
          BY <1>len, <5>1 DEF Settings
        <5>2. CASE lost' # lost
          <6>1. \A t \in Senders : lost[t] < MaxLost
            BY <2>7, <5>2 DEF MailFails
          <6>2. lost' = [lost EXCEPT ![s] = lost[s] + 1]
            BY <2>7, <5>2 DEF MailFails
          <6>3. lost \in [Senders -> 0 .. MaxLost] /\ MaxLost \in Nat
            BY <1>len, DeliveryAssumption DEF Settings
          <6>4. lost[s] + 1 \in 0 .. MaxLost
            BY <6>1, <6>3
          <6> QED
            BY <6>2, <6>3, <6>4
        <5> QED
          BY <5>1, <5>2
      <4> QED
        BY <1>len, <2>7, <4>1 DEF MailFails, Settings
    <3>5. pc[s] = "mail" /\ Goto(s, where) /\ where \in Places /\ where \notin BeforeClaim
      BY <2>7 DEF MailFails
    <3> HIDE DEF where
    <3> QED
      BY <2>0, <3>1, <3>2, <3>3, <3>4, <3>5, TypedMove
  <2>8. CASE MarkSent(s)
    <3>1. Fits("mailed", row[s], tries[s], mailed[s], Len(deliveries))
      BY <1>0, <2>8 DEF MarkSent, Fits
    <3> QED
      BY <2>8, <3>1, TypedUpdate DEF MarkSent
  <2>9. CASE MarkFailed(s)
    <3>1. Fits("failed", row[s], tries[s], mailed[s], Len(deliveries))
      BY <1>0, <2>9 DEF MarkFailed, Fits
    <3> QED
      BY <2>9, <3>1, TypedUpdate DEF MarkFailed
  <2>10. CASE Refused(s)
    BY <1>0, <1>len, <2>10, TypedStep DEF Refused, Fits, Settings
  <2> QED
    BY <1>4, <2>1, <2>2, <2>3, <2>4, <2>5, <2>6, <2>7, <2>8, <2>9, <2>10 DEF Deliver
<1>5. ASSUME NEW s \in Senders, Stops(s)
      PROVE  TypeInv'
  <2>1. Settings'
    BY <1>5, <1>len, DeliveryAssumption DEF Stops, Settings
  <2> QED
    BY <1>0, <1>5, <2>1, TypedStep DEF Stops, Fits
<1> QED
  BY <1>1, <1>2, <1>3, <1>4, <1>5 DEF Next

\* The invariant behind TypeOK holds always.
LEMMA AlwaysTyped == Spec => []TypeInv
<1>1. Init => TypeInv
  <2>1. ASSUME Init
        PROVE  /\ Settings
               /\ SenderTypes
               /\ \A s \in Senders : Fits(pc[s], row[s], tries[s], mailed[s], Len(deliveries))
    <3>0. MaxLost \in Nat /\ MaxStops \in Nat
      BY DeliveryAssumption, Zenon
    <3>1. Settings
      <4>1. report \in {"absent", "generating", "ready", "failed"} /\ file \in BOOLEAN
        BY <2>1, Zenon DEF Init
      <4>2. lost \in [Senders -> 0 .. MaxLost] /\ stops \in 0 .. MaxStops
        BY <2>1, <3>0 DEF Init
      <4> QED
        BY <4>1, <4>2 DEF Settings
    <3>2. SenderTypes
      BY <2>1 DEF Init, SenderTypes, Places, BeforeClaim
    <3>3. Len(deliveries) = 0
      BY <2>1 DEF Init
    <3>4. MaxTries \in Nat \ {0}
      BY DeliveryAssumption
    <3>5. ASSUME NEW s \in Senders
          PROVE  Fits(pc[s], row[s], tries[s], mailed[s], Len(deliveries))
      BY <2>1, <3>3, <3>4 DEF Init, Fits, BeforeSending, Sending
    <3> QED
      BY <3>1, <3>2, <3>5
  <2>2. ASSUME Init
        PROVE  Len(deliveries) <= Cardinality(Asked)
    BY <2>2, DeliveryAssumption, FS_Subset, FS_CardinalityType DEF Init, Asked
  <2> QED
    BY <2>1, <2>2 DEF TypeInv
<1>2. TypeInv /\ [Next]_vars => TypeInv'
  BY TypeStep
<1> QED
  BY <1>1, <1>2, PTL DEF Spec

\* Every state of the delivery is well typed, for any senders and any faults:
\* there are never more deliveries than senders, a sender never tries more
\* often than the setting allows, and one that sends holds a delivery.
THEOREM DeliveryTypes == Spec => []TypeOK
<1>1. TypeInv => TypeOK
  <2>1. ASSUME TypeInv
        PROVE  Len(deliveries) <= Cardinality(Senders)
    <3>1. Cardinality(Asked) <= Cardinality(Senders) /\ IsFiniteSet(Asked)
      BY DeliveryAssumption, FS_Subset DEF Asked
    <3> QED
      BY <2>1, <3>1, DeliveryAssumption, FS_CardinalityType DEF TypeInv, SenderTypes
  <2>2. ASSUME TypeInv
        PROVE  \A s \in Senders :
                  /\ pc[s] \in Sending \cup {"reopen"} => row[s] \in DOMAIN deliveries
                  /\ tries[s] \in 0 .. MaxTries
                  /\ mailed[s] \in 0 .. MaxTries
    <3>1. Len(deliveries) \in Nat /\ DOMAIN deliveries = 1 .. Len(deliveries)
      BY <2>2 DEF TypeInv, SenderTypes
    <3> QED
      BY <2>2, <3>1, DeliveryAssumption DEF TypeInv, Fits
  <2> QED
    BY <2>1, <2>2 DEF TypeInv, TypeOK, Settings, SenderTypes, Rows, Places, BeforeClaim
<1> QED
  BY <1>1, AlwaysTyped, PTL

-----------------------------------------------------------------------------
(* One automatic mail.  The argument: a worker only gets a row that it has    *)
(* inserted, so rows of different workers differ; the unique index leaves one *)
(* live row per recipient; and a worker whose mail was confirmed never gives  *)
(* its row up, so the row stays live unless a request that took it over       *)
(* failed.                                                                    *)

\* The provider has confirmed a mail of the sender.
Confirmed(s) == mailed[s] > lost[s]

\* Where it has not.
Unconfirmed == BeforeSending \cup {"reopen", "sending", "mail", "giveUp"}

Overtaken == \E r \in Requests : pc[r] = "failed"

ConfirmedOnce(s) ==
    /\ mailed[s] <= lost[s] + 1
    /\ pc[s] \in Unconfirmed => ~ Confirmed(s)
    /\ Confirmed(s) => row[s] > 0

OwnRow(w) ==
    /\ pc[w] \notin {"latest", "reopen"}
    /\ row[w] > 0 => deliveries[row[w]].to = To[w]
    /\ \A x \in Workers \ {w} : row[w] > 0 => row[w] # row[x]

OneLive ==
    \A i, j \in DOMAIN deliveries :
        i # j /\ deliveries[i].to = deliveries[j].to =>
            deliveries[i].status \notin Live \/ deliveries[j].status \notin Live

Holds(w) == pc[w] \in Sending \/ Confirmed(w) => deliveries[row[w]].status \in Live

OneMailInv ==
    /\ \A s \in Senders : ConfirmedOnce(s)
    /\ \A w \in Workers : OwnRow(w)
    /\ OneLive
    /\ Overtaken \/ \A w \in Workers : Holds(w)

\* What the types say of rows and counters.
LEMMA OneMailTypes ==
    ASSUME TypeInv
    PROVE  /\ deliveries \in Seq(Rows)
           /\ Len(deliveries) \in Nat /\ DOMAIN deliveries = 1 .. Len(deliveries)
           /\ pc = [s \in Senders |-> pc[s]]
           /\ \A s \in Senders :
                 /\ row[s] \in 0 .. Len(deliveries)
                 /\ mailed[s] \in Nat /\ lost[s] \in Nat
                 /\ pc[s] \in {"reopen"} \cup Sending => row[s] \in DOMAIN deliveries
<1>1. deliveries \in Seq(Rows) /\ pc = [s \in Senders |-> pc[s]]
  BY DEF TypeInv, SenderTypes
<1>2. Len(deliveries) \in Nat /\ DOMAIN deliveries = 1 .. Len(deliveries)
  BY <1>1
<1>3. ASSUME NEW s \in Senders
      PROVE  /\ row[s] \in 0 .. Len(deliveries)
             /\ mailed[s] \in Nat /\ lost[s] \in Nat
             /\ pc[s] \in {"reopen"} \cup Sending => row[s] \in DOMAIN deliveries
  <2>1. Fits(pc[s], row[s], tries[s], mailed[s], Len(deliveries))
    BY DEF TypeInv
  <2>2. mailed[s] \in Nat
    BY DEF TypeInv, SenderTypes
  <2>3. lost[s] \in Nat
    BY DeliveryAssumption DEF TypeInv, Settings
  <2> QED
    BY <1>2, <2>1, <2>2, <2>3 DEF Fits
<1> QED
  BY <1>1, <1>2, <1>3

\* A step that only moves a sender preserves the invariant, if a worker never
\* takes over a row and enters the sending only with a row of its own.
LEMMA OneMailMove ==
    ASSUME TypeInv, OneMailInv, NEW s \in Senders, NEW where, Goto(s, where),
           UNCHANGED <<deliveries, row, mailed, lost>>,
           pc[s] # "failed",
           s \in Workers => where \notin {"latest", "reopen"},
           where \in Sending => pc[s] \in {"reopen"} \cup Sending,
           where \in Unconfirmed => ~ Confirmed(s)
    PROVE  OneMailInv'
<1>1. pc' = [t \in Senders |-> IF t = s THEN where ELSE pc[t]]
  BY OneMailTypes DEF Goto
<1>2. ASSUME NEW t \in Senders
      PROVE  ConfirmedOnce(t)'
  BY <1>1 DEF OneMailInv, ConfirmedOnce, Confirmed
<1>3. Workers \subseteq Senders /\ Requests \subseteq Senders
  BY DEF Senders
<1>4. ASSUME NEW w \in Workers
      PROVE  OwnRow(w)'
  BY <1>1, <1>3 DEF OneMailInv, OwnRow
<1>5. OneLive'
  BY DEF OneMailInv, OneLive
<1>6. ASSUME NEW w \in Workers, Holds(w)
      PROVE  Holds(w)'
  BY <1>1, <1>3, <1>6 DEF OneMailInv, OwnRow, Holds, Confirmed
<1>7. Overtaken => Overtaken'
  BY <1>1, <1>3 DEF Overtaken
<1> QED
  BY <1>2, <1>4, <1>5, <1>6, <1>7 DEF OneMailInv

\* A step that gives the sender's row a live status, which the index admits,
\* preserves the invariant.
LEMMA OneMailUpdate ==
    ASSUME TypeInv, OneMailInv, NEW s \in Senders, NEW status \in Live, NEW where,
           pc[s] \in {"reopen"} \cup Sending, where \notin {"latest", "reopen"},
           where \in Unconfirmed => ~ Confirmed(s),
           Admitted(row[s]), SetStatus(s, status), Goto(s, where),
           UNCHANGED <<row, mailed, lost>>
    PROVE  OneMailInv'
<1>0. row[s] \in DOMAIN deliveries /\ Workers \subseteq Senders /\ Requests \subseteq Senders
  BY OneMailTypes DEF Senders
<1>1. /\ deliveries' \in Seq(Rows)
      /\ Len(deliveries') = Len(deliveries)
      /\ \A i \in DOMAIN deliveries :
            /\ deliveries'[i].to = deliveries[i].to
            /\ deliveries'[i].status = IF i = row[s] THEN status ELSE deliveries[i].status
  BY <1>0, OneMailTypes, StatusUpdated DEF Live
<1>2. DOMAIN deliveries' = DOMAIN deliveries
  BY <1>1, OneMailTypes
<1>3. pc' = [t \in Senders |-> IF t = s THEN where ELSE pc[t]]
  BY OneMailTypes DEF Goto
<1>4. ASSUME NEW t \in Senders
      PROVE  ConfirmedOnce(t)'
  BY <1>3 DEF OneMailInv, ConfirmedOnce, Confirmed
<1>rows. \A w \in Workers : row[w] > 0 => row[w] \in DOMAIN deliveries
  BY <1>0, OneMailTypes
<1>5. ASSUME NEW w \in Workers
      PROVE  OwnRow(w)'
  BY <1>0, <1>1, <1>3, <1>rows DEF OneMailInv, OwnRow
<1>6. OneLive'
  <2>1. ASSUME NEW i \in DOMAIN deliveries, NEW j \in DOMAIN deliveries,
               i # j, deliveries'[i].to = deliveries'[j].to
        PROVE  deliveries'[i].status \notin Live \/ deliveries'[j].status \notin Live
    <3>1. deliveries[i].to = deliveries[j].to
      BY <1>1, <2>1
    <3>2. CASE i = row[s]
      BY <1>1, <2>1, <3>1, <3>2 DEF Admitted
    <3>3. CASE j = row[s]
      BY <1>1, <2>1, <3>1, <3>3 DEF Admitted
    <3>4. CASE i # row[s] /\ j # row[s]
      BY <1>1, <2>1, <3>1, <3>4 DEF OneMailInv, OneLive
    <3> QED
      BY <3>2, <3>3, <3>4
  <2> QED
    BY <1>2, <2>1 DEF OneLive
<1>7. ASSUME NEW w \in Workers, Holds(w)
      PROVE  Holds(w)'
  <2>1. ASSUME (pc[w] \in Sending \/ Confirmed(w))'
        PROVE  deliveries'[row[w]].status \in Live
    <3>1. pc[w] \in Sending \/ Confirmed(w)
      BY <1>0, <1>3, <2>1 DEF OneMailInv, OwnRow, Confirmed
    <3>2. row[w] \in DOMAIN deliveries
      BY <1>0, <3>1, <1>rows, OneMailTypes DEF OneMailInv, ConfirmedOnce
    <3> QED
      BY <1>1, <1>7, <3>1, <3>2 DEF Holds
  <2> QED
    BY <2>1 DEF Holds
<1>8. Overtaken => Overtaken'
  BY <1>0, <1>3 DEF Overtaken, Sending
<1> QED
  BY <1>4, <1>5, <1>6, <1>7, <1>8 DEF OneMailInv

\* A sender that gives up takes no row from a worker with a confirmed mail,
\* unless it is a request, and then a request has failed.
LEMMA OneMailGivenUp ==
    ASSUME TypeInv, OneMailInv, NEW s \in Senders, MarkFailed(s)
    PROVE  OneMailInv'
<1>0. row[s] \in DOMAIN deliveries /\ Workers \subseteq Senders /\ Requests \subseteq Senders
  BY OneMailTypes DEF Senders, MarkFailed, Sending
<1>1. /\ deliveries' \in Seq(Rows)
      /\ Len(deliveries') = Len(deliveries)
      /\ \A i \in DOMAIN deliveries :
            /\ deliveries'[i].to = deliveries[i].to
            /\ deliveries'[i].status = IF i = row[s] THEN "permanently_failed"
                                                     ELSE deliveries[i].status
  <2>1. SetStatus(s, "permanently_failed")
    BY DEF MarkFailed
  <2> QED
    BY <1>0, <2>1, OneMailTypes, StatusUpdated
<1>2. DOMAIN deliveries' = DOMAIN deliveries
  BY <1>1, OneMailTypes
<1>3. /\ pc' = [t \in Senders |-> IF t = s THEN "failed" ELSE pc[t]]
      /\ pc[s] = "giveUp"
      /\ UNCHANGED <<row, mailed, lost>>
  BY OneMailTypes DEF Goto, MarkFailed
<1>4. ASSUME NEW t \in Senders
      PROVE  ConfirmedOnce(t)'
  BY <1>3 DEF OneMailInv, ConfirmedOnce, Confirmed, Unconfirmed, BeforeSending
<1>rows. \A w \in Workers : row[w] > 0 => row[w] \in DOMAIN deliveries
  BY <1>0, OneMailTypes
<1>5. ASSUME NEW w \in Workers
      PROVE  OwnRow(w)'
  BY <1>0, <1>1, <1>3, <1>rows DEF OneMailInv, OwnRow
<1>6. OneLive'
  <2>1. "permanently_failed" \notin Live
    BY DEF Live
  <2> QED
    BY <1>1, <1>2, <2>1 DEF OneMailInv, OneLive
<1>7. CASE s \in Requests
  <2>1. Overtaken'
    BY <1>3, <1>7, <1>0 DEF Overtaken
  <2> QED
    BY <1>4, <1>5, <1>6, <2>1 DEF OneMailInv
<1>8. CASE s \in Workers
  <2>1. ASSUME NEW w \in Workers, Holds(w)
        PROVE  Holds(w)'
    <3>1. ASSUME (pc[w] \in Sending \/ Confirmed(w))'
          PROVE  deliveries'[row[w]].status \in Live
      <4>1. w # s
        BY <1>0, <1>3, <3>1 DEF OneMailInv, ConfirmedOnce, Confirmed, Unconfirmed, Sending
      <4>2. pc[w] \in Sending \/ Confirmed(w)
        BY <1>0, <1>3, <3>1, <4>1 DEF Confirmed
      <4>3. row[w] \in DOMAIN deliveries /\ row[w] > 0
        BY <1>0, <4>2, <1>rows, OneMailTypes DEF OneMailInv, ConfirmedOnce
      <4>4. row[w] # row[s]
        BY <1>8, <4>1, <4>3 DEF OneMailInv, OwnRow
      <4> QED
        BY <1>1, <2>1, <4>2, <4>3, <4>4 DEF Holds
    <3> QED
      BY <1>3, <3>1 DEF Holds
  <2>2. Overtaken => Overtaken'
    BY <1>0, <1>3 DEF Overtaken
  <2> QED
    BY <1>4, <1>5, <1>6, <2>1, <2>2 DEF OneMailInv
<1> QED
  BY <1>7, <1>8 DEF Senders

\* A step of a sender preserves the invariant behind OneAutomaticMail.
LEMMA OneMailStep ==
    ASSUME TypeInv, OneMailInv, [Next]_vars
    PROVE  OneMailInv'
<1>0. /\ Workers \cap Requests = {}
      /\ Workers \subseteq Senders
      /\ Requests \subseteq Senders
  BY DeliveryAssumption DEF Senders
<1>once. \A t \in Senders : ConfirmedOnce(t)
  BY DEF OneMailInv
<1> USE DEF BeforeSending, Unconfirmed, Sending
<1>1. CASE UNCHANGED vars
  <2>1. UNCHANGED <<deliveries, pc, row, mailed, lost>>
    BY <1>1 DEF vars
  <2> QED
    BY <2>1 DEF OneMailInv, ConfirmedOnce, Confirmed, OwnRow, OneLive, Overtaken, Holds
<1>2. ASSUME NEW w \in Workers, Generate(w)
      PROVE  OneMailInv'
  <2>1. w \in Senders /\ ConfirmedOnce(w)
    BY <1>0, <1>once
  <2>2. CASE UpsertPending(w)
    BY <2>1, <2>2, OneMailMove DEF UpsertPending, ConfirmedOnce
  <2>3. CASE Upload(w)
    BY <2>1, <2>3, OneMailMove DEF Upload, ConfirmedOnce
  <2>4. CASE GenerationFails(w)
    BY <2>1, <2>4, OneMailMove DEF GenerationFails, ConfirmedOnce
  <2>5. CASE MarkReady(w)
    BY <2>1, <2>5, OneMailMove DEF MarkReady, ConfirmedOnce
  <2>6. CASE MarkReportFailed(w)
    BY <2>1, <2>6, OneMailMove DEF MarkReportFailed, ConfirmedOnce
  <2>7. CASE NoRecipient(w)
    BY <2>1, <2>7, OneMailMove DEF NoRecipient, ConfirmedOnce
  <2> QED
    BY <1>2, <2>2, <2>3, <2>4, <2>5, <2>6, <2>7 DEF Generate
<1>3. ASSUME NEW r \in Requests, RequestMail(r)
      PROVE  OneMailInv'
  BY <1>0, <1>once, <1>3, OneMailMove DEF RequestMail, ConfirmedOnce
<1>4. ASSUME NEW s \in Senders, Deliver(s)
      PROVE  OneMailInv'
  <2>1. CASE Claim(s)
    <3> DEFINE new == Len(deliveries) + 1
    <3>1. /\ pc[s] = "claim" /\ ~ LiveRow(To[s])
          /\ pc' = [t \in Senders |-> IF t = s THEN "sending" ELSE pc[t]]
          /\ row' = [row EXCEPT ![s] = new]
          /\ UNCHANGED <<mailed, lost>>
          /\ deliveries' = Append(deliveries, [to |-> To[s], status |-> "pending"])
      BY <2>1, OneMailTypes DEF Claim, Goto
    <3>2. row'[s] = new /\ \A t \in Senders \ {s} : row'[t] = row[t]
      BY <3>1 DEF TypeInv, SenderTypes
    <3>3. /\ DOMAIN deliveries' = DOMAIN deliveries \cup {new}
          /\ deliveries'[new] = [to |-> To[s], status |-> "pending"]
          /\ \A i \in DOMAIN deliveries : deliveries'[i] = deliveries[i] /\ i # new
          /\ new \in Nat \ {0}
      BY <3>1, OneMailTypes
    <3> HIDE DEF new
    <3>4. ASSUME NEW t \in Senders
          PROVE  ConfirmedOnce(t)'
      <4>1. CASE t = s
        BY <1>once, <3>1, <4>1 DEF ConfirmedOnce, Confirmed
      <4>2. CASE t # s
        <5>1. ConfirmedOnce(t) /\ pc'[t] = pc[t] /\ row'[t] = row[t]
          BY <1>once, <3>1, <3>2, <4>2
        <5> QED
          BY <3>1, <5>1 DEF ConfirmedOnce, Confirmed
      <4> QED
        BY <4>1, <4>2
    <3>rows. \A t \in Senders : row[t] > 0 => row[t] \in DOMAIN deliveries
      BY OneMailTypes
    <3>5. ASSUME NEW w \in Workers
          PROVE  OwnRow(w)'
      <4>1. \A x \in Workers : OwnRow(x)
        BY DEF OneMailInv
      <4>2. CASE w = s
        <5>1. \A x \in Workers \ {w} : row'[x] # new
          BY <1>0, <3>2, <3>3, <3>rows, <4>2
        <5> QED
          BY <3>1, <3>2, <3>3, <4>2, <5>1 DEF OwnRow
      <4>3. CASE w # s
        <5>1. row'[w] = row[w] /\ pc'[w] = pc[w]
          BY <1>0, <3>1, <3>2, <4>3
        <5>2. row[w] > 0 => row[w] \in DOMAIN deliveries
          BY <1>0, <3>rows
        <5>3. ASSUME NEW x \in Workers \ {w}, row[w] > 0
              PROVE  row[w] # row'[x]
          <6>1. CASE x = s   BY <3>2, <3>3, <5>2, <5>3, <6>1
          <6>2. CASE x # s   BY <1>0, <3>2, <4>1, <5>3, <6>2 DEF OwnRow
          <6> QED  BY <6>1, <6>2
        <5> QED
          BY <3>3, <4>1, <5>1, <5>2, <5>3 DEF OwnRow
      <4> QED
        BY <4>2, <4>3
    <3>6. OneLive'
      <4>1. \A i \in DOMAIN deliveries :
               deliveries[i].to = To[s] => deliveries[i].status \notin Live
        BY <3>1 DEF LiveRow
      <4> QED
        BY <3>3, <4>1 DEF OneMailInv, OneLive
    <3>7. ASSUME NEW w \in Workers, Holds(w)
          PROVE  Holds(w)'
      <4>1. CASE w = s
        BY <3>2, <3>3, <4>1 DEF Holds, Live
      <4>2. CASE w # s
        <5>1. row'[w] = row[w] /\ pc'[w] = pc[w]
          BY <1>0, <3>1, <3>2, <4>2
        <5>2. pc[w] \in Sending \/ Confirmed(w) => row[w] \in DOMAIN deliveries
          BY <1>0, <1>once, <3>rows, OneMailTypes DEF ConfirmedOnce
        <5> QED
          BY <3>1, <3>3, <3>7, <5>1, <5>2 DEF Holds, Confirmed
      <4> QED
        BY <4>1, <4>2
    <3>8. Overtaken => Overtaken'
      BY <1>0, <3>1 DEF Overtaken
    <3> QED
      BY <3>4, <3>5, <3>6, <3>7, <3>8 DEF OneMailInv
  <2>2. CASE ClaimMisses(s)
    BY <1>0, <1>once, <2>2, OneMailMove DEF ClaimMisses, ConfirmedOnce
  <2>3. CASE TakeLatest(s)
    <3>1. /\ pc[s] = "latest"
          /\ pc' = [t \in Senders |-> IF t = s THEN "reopen" ELSE pc[t]]
          /\ row' = [row EXCEPT ![s] = Len(deliveries)]
          /\ UNCHANGED <<deliveries, mailed, lost>>
      BY <2>3, OneMailTypes DEF TakeLatest, Goto
    <3>2. s \notin Workers
      BY <3>1 DEF OneMailInv, OwnRow
    <3>3. \A w \in Workers : row'[w] = row[w] /\ pc'[w] = pc[w]
      BY <1>0, <3>1, <3>2
    <3>4. ASSUME NEW t \in Senders
          PROVE  ConfirmedOnce(t)'
      <4>1. CASE t = s
        BY <1>once, <3>1, <4>1 DEF ConfirmedOnce, Confirmed
      <4>2. CASE t # s
        <5>1. ConfirmedOnce(t) /\ pc'[t] = pc[t] /\ row'[t] = row[t]
          BY <1>once, <3>1, <4>2
        <5> QED
          BY <3>1, <5>1 DEF ConfirmedOnce, Confirmed
      <4> QED
        BY <4>1, <4>2
    <3>5. ASSUME NEW w \in Workers
          PROVE  OwnRow(w)' /\ (Holds(w) => Holds(w)')
      <4>1. row'[w] = row[w] /\ pc'[w] = pc[w] /\ OwnRow(w)
        BY <3>3 DEF OneMailInv
      <4>2. \A x \in Workers : row'[x] = row[x]
        BY <3>3
      <4> QED
        BY <3>1, <4>1, <4>2 DEF OwnRow, Holds, Confirmed
    <3>6. OneLive' /\ (Overtaken => Overtaken')
      BY <1>0, <3>1 DEF OneMailInv, OneLive, Overtaken
    <3> QED
      BY <3>4, <3>5, <3>6 DEF OneMailInv
  <2>4. CASE Reopen(s)
    <3>0. pc[s] = "reopen" /\ ~ Confirmed(s) /\ Goto(s, "sending")
          /\ UNCHANGED <<row, mailed, lost>>
      BY <1>once, <2>4 DEF Reopen, ConfirmedOnce
    <3>1. CASE deliveries[row[s]].status = "permanently_failed"
      BY <2>4, <3>0, <3>1, OneMailUpdate DEF Reopen, Live
    <3>2. CASE deliveries[row[s]].status # "permanently_failed"
      BY <2>4, <3>0, <3>2, OneMailMove DEF Reopen
    <3> QED
      BY <3>1, <3>2
  <2>5. CASE MarkSending(s)
    BY <1>once, <2>5, OneMailUpdate DEF MarkSending, ConfirmedOnce, Live
  <2>6. CASE MailAccepted(s)
    <3>1. /\ pc[s] = "mail"
          /\ pc' = [t \in Senders |-> IF t = s THEN "accepted" ELSE pc[t]]
          /\ mailed' = [mailed EXCEPT ![s] = mailed[s] + 1]
          /\ UNCHANGED <<deliveries, row, lost>>
      BY <2>6, OneMailTypes DEF MailAccepted, Goto
    <3>2. mailed'[s] = mailed[s] + 1 /\ \A t \in Senders \ {s} : mailed'[t] = mailed[t]
      BY <3>1 DEF TypeInv, SenderTypes
    <3>3. row[s] > 0
      BY <3>1, OneMailTypes
    <3>4. ASSUME NEW t \in Senders
          PROVE  ConfirmedOnce(t)'
      <4>1. CASE t = s
        <5>1. mailed[s] <= lost[s] /\ mailed[s] \in Nat /\ lost[s] \in Nat
          BY <1>once, <3>1, OneMailTypes DEF ConfirmedOnce, Confirmed
        <5> QED
          BY <3>1, <3>2, <3>3, <4>1, <5>1 DEF ConfirmedOnce, Confirmed
      <4>2. CASE t # s
        BY <1>once, <3>1, <3>2, <4>2 DEF ConfirmedOnce, Confirmed
      <4> QED
        BY <4>1, <4>2
    <3>5. ASSUME NEW w \in Workers
          PROVE  OwnRow(w)' /\ (Holds(w) => Holds(w)')
      <4>1. CASE w = s
        BY <3>1, <4>1 DEF OneMailInv, OwnRow, Holds
      <4>2. CASE w # s
        BY <1>0, <3>1, <3>2, <4>2 DEF OneMailInv, OwnRow, Holds, Confirmed
      <4> QED
        BY <4>1, <4>2
    <3>6. OneLive' /\ (Overtaken => Overtaken')
      BY <1>0, <3>1 DEF OneMailInv, OneLive, Overtaken
    <3> QED
      BY <3>4, <3>5, <3>6 DEF OneMailInv
  <2>7. CASE MailFails(s)
    <3>1. /\ pc[s] = "mail" /\ pc'[s] \in {"sending", "giveUp"}
          /\ \A t \in Senders \ {s} : pc'[t] = pc[t]
          /\ UNCHANGED <<deliveries, row>>
      BY <2>7, OneMailTypes DEF MailFails, Goto
    <3>2. /\ \A t \in Senders \ {s} : mailed'[t] = mailed[t] /\ lost'[t] = lost[t]
          /\ \/ mailed'[s] = mailed[s] /\ lost'[s] = lost[s]
             \/ mailed'[s] = mailed[s] + 1 /\ lost'[s] = lost[s] + 1
      <4>1. \/ mailed' = mailed /\ lost' = lost
            \/ /\ mailed' = [mailed EXCEPT ![s] = mailed[s] + 1]
               /\ lost' = [lost EXCEPT ![s] = lost[s] + 1]
        BY <2>7 DEF MailFails
      <4>2. DOMAIN mailed = Senders /\ DOMAIN lost = Senders
        BY DEF TypeInv, SenderTypes, Settings
      <4> QED
        BY <4>1, <4>2
    <3>3. ~ Confirmed(s) /\ ~ Confirmed(s)'
      BY <1>once, <3>1, <3>2, OneMailTypes DEF ConfirmedOnce, Confirmed
    <3>4. ASSUME NEW t \in Senders
          PROVE  ConfirmedOnce(t)' /\ (Confirmed(t)' => Confirmed(t))
      <4>1. CASE t = s
        BY <1>once, <3>2, <3>3, <4>1, OneMailTypes DEF ConfirmedOnce
      <4>2. CASE t # s
        <5>1. ConfirmedOnce(t) /\ pc'[t] = pc[t] /\ row'[t] = row[t]
              /\ mailed'[t] = mailed[t] /\ lost'[t] = lost[t]
          BY <1>once, <3>1, <3>2, <4>2
        <5> QED
          BY <5>1 DEF ConfirmedOnce, Confirmed
      <4> QED
        BY <4>1, <4>2
    <3>5. ASSUME NEW w \in Workers
          PROVE  OwnRow(w)' /\ (Holds(w) => Holds(w)')
      <4>0. OwnRow(w)
        BY DEF OneMailInv
      <4>1. pc'[w] \notin {"latest", "reopen"} /\ (pc'[w] \in Sending => pc[w] \in Sending)
        BY <1>0, <3>1, <4>0 DEF OwnRow
      <4>2. OwnRow(w)'
        BY <3>1, <4>0, <4>1 DEF OwnRow
      <4>3. Holds(w) => Holds(w)'
        BY <1>0, <3>1, <3>4, <4>1 DEF Holds
      <4> QED
        BY <4>2, <4>3
    <3>6. OneLive' /\ (Overtaken => Overtaken')
      BY <1>0, <3>1 DEF OneMailInv, OneLive, Overtaken
    <3> QED
      BY <3>4, <3>5, <3>6 DEF OneMailInv
  <2>8. CASE MarkSent(s)
    BY <2>8, OneMailUpdate DEF MarkSent, Live
  <2>9. CASE MarkFailed(s)
    BY <2>9, OneMailGivenUp
  <2>10. CASE Refused(s)
    BY <2>10, OneMailMove DEF Refused
  <2> QED
    BY <1>4, <2>1, <2>2, <2>3, <2>4, <2>5, <2>6, <2>7, <2>8, <2>9, <2>10 DEF Deliver
<1>5. ASSUME NEW s \in Senders, Stops(s)
      PROVE  OneMailInv'
  BY <1>5, OneMailMove DEF Stops, Ended
<1> QED
  BY <1>1, <1>2, <1>3, <1>4, <1>5 DEF Next

\* A recipient gets one automatic mail, and one more for every reply that was
\* lost, unless a request took the row over and failed: for any number of
\* workers and requests, tries and lost replies, whoever writes to whom.
THEOREM MailedOnce == Spec => []OneAutomaticMail
<1>1. Init => OneMailInv
  <2>1. Init => \A s \in Senders : ConfirmedOnce(s) /\ row[s] = 0 /\ pc[s] = "start"
    BY DEF Init, ConfirmedOnce, Confirmed
  <2>2. Init => \A s \in Senders : ~ Confirmed(s)
    BY DEF Init, Confirmed
  <2> QED
    BY <2>1, <2>2 DEF Init, OneMailInv, OwnRow, OneLive, Holds, Sending, Senders
<1>2. TypeInv /\ OneMailInv /\ [Next]_vars => OneMailInv'
  BY OneMailStep
<1>3. TypeInv /\ OneMailInv => OneAutomaticMail
  <2> SUFFICES ASSUME TypeInv, OneMailInv, ~ Overtaken
               PROVE  OneAutomaticMail
    BY DEF Overtaken, OneAutomaticMail
  <2>1. ASSUME NEW w \in Workers
        PROVE  mailed[w] <= lost[w] + 1
    BY <2>1 DEF OneMailInv, ConfirmedOnce, Senders
  <2>2. ASSUME NEW w \in Workers, NEW x \in Workers \ {w}, To[x] = To[w],
               Confirmed(w), Confirmed(x)
        PROVE  FALSE
    <3>1. w \in Senders /\ x \in Senders
      BY DEF Senders
    <3>2. row[w] > 0 /\ row[x] > 0
      BY <2>2, <3>1 DEF OneMailInv, ConfirmedOnce
    <3>3. row[w] \in DOMAIN deliveries /\ row[x] \in DOMAIN deliveries
      BY <3>1, <3>2, OneMailTypes
    <3>4. row[w] # row[x] /\ deliveries[row[w]].to = deliveries[row[x]].to
      BY <2>2, <3>2 DEF OneMailInv, OwnRow
    <3>5. deliveries[row[w]].status \in Live /\ deliveries[row[x]].status \in Live
      BY <2>2 DEF OneMailInv, Holds
    <3> QED
      BY <3>3, <3>4, <3>5 DEF OneMailInv, OneLive
  <2>3. \A s \in Senders : mailed[s] \in Nat /\ lost[s] \in Nat
    BY OneMailTypes
  <2>4. \A w \in Workers : ~ Confirmed(w) => mailed[w] <= lost[w]
    BY <2>3 DEF Confirmed, Senders
  <2> QED
    BY <2>1, <2>2, <2>4 DEF OneAutomaticMail
<1> QED
  BY <1>1, <1>2, <1>3, AlwaysTyped, PTL DEF Spec
=============================================================================
