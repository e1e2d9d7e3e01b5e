------------------------------ MODULE Delivery ------------------------------
(***************************************************************************)
(* What the server knows of one alert on one client: the Delivery record   *)
(* of server/store.go, and the three decisions server/api_client.go takes  *)
(* on it: what a batch of events does to it (applyEvents), whether the     *)
(* alert is to be sent (again), and whether a recall is to be sent         *)
(* (pendingFor).                                                           *)
(*                                                                         *)
(* A time is kept only as far as the decisions tell times apart: SentAt is *)
(* "stale", it lies more than resendAfter back; DisplayedAt, AckedAt and   *)
(* ClosedAt are set or not.  A report is a pair <<alert, kind>>, a batch a *)
(* sequence of reports.  Nothing here is RECURSIVE, so that the modules    *)
(* that use it can be proved about; EventBatch.tla checks the closed form  *)
(* of AfterBatch against the loop of the code.                             *)
(***************************************************************************)
EXTENDS AlertSpecs, Sequences

CONSTANT MaxEvents  \* applyEvents reads that many events of a request

ASSUME DeliveryAssumption == MaxEvents \in Nat

DeliveryType ==
  [made       : BOOLEAN,                      \* the record exists
   sid        : Nat,                          \* the session last sent to
   stale      : BOOLEAN,
   displayed  : BOOLEAN,
   acked      : BOOLEAN,
   closed     : Closings \cup {"", "acknowledged"},
   recallSent : BOOLEAN]

NoDelivery ==
  [made |-> FALSE, sid |-> 0, stale |-> FALSE, displayed |-> FALSE,
   acked |-> FALSE, closed |-> "", recallSent |-> FALSE]

-----------------------------------------------------------------------------
(* applyEvents *)

\* The part of a request's events that is read at all.
Kept(events) ==
  IF Len(events) > MaxEvents THEN SubSeq(events, 1, MaxEvents) ELSE events

\* The event k for alert a occurs in the batch.
Says(batch, a, k) == \E i \in DOMAIN batch : batch[i] = <<a, k>>

\* Mutant of FirstClosing: any event closes.
FirstOfAny(batch, a, i) ==
  /\ \E k \in Kinds : batch[i] = <<a, k>>
  /\ \A j \in 1..(i - 1) : \A k \in Kinds : batch[j] # <<a, k>>

\* Position i of the batch closes alert a, and nothing before it does.
FirstClosing(batch, a, i) ==
  /\ \E k \in Closings : batch[i] = <<a, k>>
  /\ \A j \in 1..(i - 1) : \A k \in Closings : batch[j] # <<a, k>>

\* Mutant of ClosedAfter: the last reason stays, not the first.
ClosedByLast(d, a, batch) ==
  LET C == {i \in DOMAIN batch : \E k \in Closings : batch[i] = <<a, k>>} IN
    IF ~d.acked /\ Says(batch, a, "acknowledged") THEN "acknowledged"
    ELSE IF C # {} THEN batch[CHOOSE i \in C : \A j \in C : j <= i][2]
    ELSE d.closed

\* Why the alert is closed after the batch: a first confirmation overrides
\* any other reason, otherwise the first reason stays.
ClosedAfter(d, a, batch) ==
  IF ~d.acked /\ Says(batch, a, "acknowledged") THEN "acknowledged"
  ELSE IF d.closed = "" /\ \E i \in DOMAIN batch : FirstClosing(batch, a, i)
    THEN batch[CHOOSE i \in DOMAIN batch : FirstClosing(batch, a, i)][2]
    ELSE d.closed

\* Mutant of AfterBatch: AckedAt is not set.
AfterBatchUnacked(d, a, batch) ==
  IF ~d.made THEN d
  ELSE [d EXCEPT
          !.displayed = @ \/ Says(batch, a, "displayed")
                          \/ Says(batch, a, "acknowledged"),
          !.closed    = ClosedAfter(d, a, batch)]

\* The whole loop of applyEvents, for the delivery d of alert a.  A report
\* about an alert that was never sent to this client is skipped.
AfterBatch(d, a, batch) ==
  IF ~d.made THEN d
  ELSE [d EXCEPT
          !.displayed = @ \/ Says(batch, a, "displayed")
                          \/ Says(batch, a, "acknowledged"),
          !.acked     = @ \/ Says(batch, a, "acknowledged"),
          !.closed    = ClosedAfter(d, a, batch)]

-----------------------------------------------------------------------------
(* pendingFor *)

\* Mutant of Wanted: every new session gets the alert.
WantedBySession(d, a, sid) ==
  ~d.made \/ d.sid # sid \/ (~d.displayed /\ d.stale)

\* Mutant of Wanted: nothing is sent twice to a session.
WantedOnce(d, a, sid) ==
  \/ ~d.made
  \/ d.sid # sid /\ (~d.displayed \/ (a \in RequireAck /\ ~d.acked))

\* The alert goes to session sid now: first time, unconfirmed display, or a
\* new session that has not seen it or still owes a confirmation.
Wanted(d, a, sid) ==
  \/ ~d.made
  \/ d.sid = sid /\ ~d.displayed /\ d.stale
  \/ d.sid # sid /\ (~d.displayed \/ (a \in RequireAck /\ ~d.acked))

\* Mutant of AfterSend: what is sent counts as displayed.
AfterSendDisplayed(d, sid) ==
  [d EXCEPT !.made = TRUE, !.sid = sid, !.stale = FALSE, !.displayed = TRUE]

\* What sending it leaves in the record.
AfterSend(d, sid) == [d EXCEPT !.made = TRUE, !.sid = sid, !.stale = FALSE]

\* The client may still be showing the recalled alert, and was not told yet.
RecallDue(d) == d.made /\ d.closed = "" /\ ~d.recallSent

AfterRecallSent(d) == [d EXCEPT !.recallSent = TRUE]

\* A record only the code above can have produced: a confirmation implies
\* the display and is the reason of the close, and nothing precedes the send.
Coherent(d) ==
  /\ d.acked => d.displayed
  /\ d.acked <=> d.closed = "acknowledged"
  /\ ~d.made => d = NoDelivery
=============================================================================
