----------------------------- MODULE EventBatch -----------------------------
(***************************************************************************)
(* The loop of applyEvents (server/api_client.go), one iteration per step, *)
(* from any record and for any batch of at most MaxBatch reports.  The     *)
(* properties compare it with AfterBatch of Delivery.tla, which Foghorn    *)
(* uses, and with what the client relies on when it sends reports again    *)
(* (client/src/Poller.cs: "nothing is lost: events are safe to send        *)
(* twice").                                                                *)
(***************************************************************************)
EXTENDS Delivery, SequencesExt

CONSTANT MaxBatch  \* the longest request the client sends

VARIABLES before,  \* the records when the loop starts
          d,       \* the records now, one per alert
          events,  \* what the request carries
          n        \* the iterations done

vars == <<before, d, events, n>>

\* Mutant of AfterEvent: any event but a confirmation closes the alert.
AfterEventAnyCloses(r, k) ==
  CASE ~r.made -> r
    [] r.made /\ k = "acknowledged" ->
         [r EXCEPT !.displayed = TRUE, !.acked = TRUE,
                   !.closed = IF r.acked THEN @ ELSE "acknowledged"]
    [] r.made /\ k # "acknowledged" ->
         [r EXCEPT !.displayed = TRUE, !.closed = IF @ = "" THEN k ELSE @]

\* Mutant of AfterEvent: the last reason stays, not the first.
AfterEventLastCloses(r, k) ==
  CASE ~r.made -> r
    [] r.made /\ k = "displayed" -> [r EXCEPT !.displayed = TRUE]
    [] r.made /\ k = "acknowledged" ->
         [r EXCEPT !.displayed = TRUE, !.acked = TRUE, !.closed = k]
    [] r.made /\ k \in Closings -> [r EXCEPT !.closed = k]

\* One pass through the body of the loop, for the record it concerns.
AfterEvent(r, k) ==
  CASE ~r.made -> r
    [] r.made /\ k = "displayed" -> [r EXCEPT !.displayed = TRUE]
    [] r.made /\ k = "acknowledged" ->
         [r EXCEPT !.displayed = TRUE, !.acked = TRUE,
                   !.closed = IF r.acked THEN @ ELSE "acknowledged"]
    [] r.made /\ k \in Closings ->
         [r EXCEPT !.closed = IF @ = "" THEN k ELSE @]

\* The records as Foghorn can hold them; the session and the age of the send
\* play no part in the loop.
Records ==
  {r \in [made : BOOLEAN, sid : {0}, stale : {FALSE},
          displayed : BOOLEAN, acked : BOOLEAN,
          closed : Closings \cup {"", "acknowledged"}, recallSent : {FALSE}] :
     Coherent(r)}

Init ==
  /\ before \in [Alerts -> Records]
  /\ d = before
  /\ events \in BoundedSeq(Reports, MaxBatch)
  /\ n = 0

Loop ==
  /\ n < Len(Kept(events))
  /\ LET a == events[n + 1][1] IN
       d' = [d EXCEPT ![a] = AfterEvent(@, events[n + 1][2])]
  /\ n' = n + 1
  /\ UNCHANGED <<before, events>>

Next == Loop

Spec == Init /\ [][Next]_vars

-----------------------------------------------------------------------------
Done == SubSeq(events, 1, n)

\* The records keep their types (store.go, type Delivery).
TypeOK ==
  /\ before \in [Alerts -> DeliveryType]
  /\ d \in [Alerts -> DeliveryType]
  /\ events \in Seq(Reports)
  /\ n \in 0..MaxEvents

\* The closed form is what the loop computes, after every prefix: whatever
\* mix of alerts and events a request carries, AfterBatch gives the records.
LoopIsAfterBatch ==
  \A a \in Alerts : d[a] = AfterBatch(before[a], a, Done)

\* Sending again is harmless (Poller.cs, Loop): a batch that starts with
\* reports the server has already had, and a batch that arrives after the
\* longer one that contains it, both leave the records as if each report had
\* come once.
SendingTwiceIsHarmless ==
  \A a \in Alerts :
    LET once == AfterBatch(before[a], a, Kept(events)) IN
      /\ AfterBatch(d[a], a, Kept(events)) = once
      /\ AfterBatch(once, a, Done) = once
=============================================================================
