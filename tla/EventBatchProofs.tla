-------------------------- MODULE EventBatchProofs --------------------------
(***************************************************************************)
(* Proofs about EventBatch, for any alerts, any records and requests of    *)
(* any length: the loop of applyEvents computes AfterBatch, and reports    *)
(* may be sent twice.                                                      *)
(***************************************************************************)
EXTENDS EventBatch, EngineProofs

-----------------------------------------------------------------------------
(* A batch that begins like another *)

Begins(p, s) ==
  /\ DOMAIN p \subseteq DOMAIN s
  /\ \A i \in DOMAIN p : p[i] = s[i]

\* What it says the other one says, and the reason stays the first.
LEMMA BeginsFacts ==
  ASSUME NEW s \in Seq(Reports), NEW p \in Seq(Reports), NEW a, Begins(p, s)
  PROVE  /\ \A k : Says(p, a, k) => Says(s, a, k)
         /\ Closes(p, a) => Closes(s, a) /\ Reason(s, a) = Reason(p, a)
<1>1. \A k : Says(p, a, k) => Says(s, a, k)
  BY DEF Begins, Says
<1>2. ASSUME Closes(p, a)
      PROVE  Closes(s, a) /\ Reason(s, a) = Reason(p, a)
  <2>1. PICK i \in DOMAIN p : FirstClosing(p, a, i)
    BY <1>2, FirstReason
  <2>2. \A j \in 1..(i - 1) : j \in DOMAIN p
    OBVIOUS
  <2>3. FirstClosing(s, a, i) /\ i \in DOMAIN s
    BY <2>1, <2>2 DEF FirstClosing, Begins
  <2>4. s[i] = p[i]
    BY DEF Begins
  <2>5. /\ s[i] = <<a, Reason(s, a)>> /\ p[i] = <<a, Reason(p, a)>>
    BY <2>1, <2>3, ReasonOf
  <2>6. Closes(s, a)
    BY <2>3 DEF Closes, FirstClosing
  <2>7. \A x, y : <<a, x>> = <<a, y>> => x = y
    OBVIOUS
  <2>8. Reason(s, a) = Reason(p, a)
    BY <2>4, <2>5, <2>7, Zenon
  <2>9. QED
    BY <2>6, <2>8
<1>3. QED
  BY <1>1, <1>2

\* What AfterBatch leaves of a record that exists, field by field.
Rewritten(r, a, s, o) ==
  /\ o.made = r.made /\ o.sid = r.sid /\ o.stale = r.stale
  /\ o.recallSent = r.recallSent
  /\ o.displayed = (r.displayed \/ Says(s, a, "displayed") \/ Says(s, a, "acknowledged"))
  /\ o.acked = (r.acked \/ Says(s, a, "acknowledged"))
  /\ o.closed = ClosedAfter(r, a, s)

LEMMA AfterBatchIs ==
  ASSUME NEW r \in DeliveryType, r.made, NEW a, NEW s,
         NEW o \in DeliveryType, Rewritten(r, a, s, o)
  PROVE  AfterBatch(r, a, s) = o
  BY DEF AfterBatch, DeliveryType, Rewritten

\* So the whole batch makes of a record what it makes of the record the
\* beginning has left, and the beginning adds nothing to what the whole has
\* left.
LEMMA BeginsHarmless ==
  ASSUME NEW r \in DeliveryType, NEW a,
         NEW s \in Seq(Reports), NEW p \in Seq(Reports), Begins(p, s)
  PROVE  /\ AfterBatch(AfterBatch(r, a, p), a, s) = AfterBatch(r, a, s)
         /\ AfterBatch(AfterBatch(r, a, s), a, p) = AfterBatch(r, a, s)
<1> DEFINE e == AfterBatch(r, a, p)
           o == AfterBatch(r, a, s)
<1>0. e \in DeliveryType /\ o \in DeliveryType
  BY DeliveryTypes
<1>1. CASE ~r.made
  BY <1>1 DEF AfterBatch
<1>2. CASE r.made
  <2>1. /\ e.made /\ o.made
        /\ e.displayed = (r.displayed \/ Says(p, a, "displayed") \/ Says(p, a, "acknowledged"))
        /\ o.displayed = (r.displayed \/ Says(s, a, "displayed") \/ Says(s, a, "acknowledged"))
        /\ e.acked = (r.acked \/ Says(p, a, "acknowledged"))
        /\ o.acked = (r.acked \/ Says(s, a, "acknowledged"))
        /\ e.closed = ClosedAfter(r, a, p)
        /\ o.closed = ClosedAfter(r, a, s)
        /\ r.displayed \in BOOLEAN /\ r.acked \in BOOLEAN
    BY <1>2 DEF AfterBatch, DeliveryType
  <2>2. /\ Says(p, a, "displayed") => Says(s, a, "displayed")
        /\ Says(p, a, "acknowledged") => Says(s, a, "acknowledged")
        /\ Closes(p, a) => Closes(s, a) /\ Reason(s, a) = Reason(p, a)
    BY BeginsFacts
  <2>3. /\ Closes(p, a) => ~Empty(Reason(p, a))
        /\ Closes(s, a) => ~Empty(Reason(s, a))
        /\ ~Empty("acknowledged")
    BY FirstReason, ReasonOf, FullReasons
  <2>4. ClosedAfter(e, a, s) = ClosedAfter(r, a, s)
    BY <2>1, <2>2, <2>3, ClosedAfterIs
  <2>5. ClosedAfter(o, a, p) = ClosedAfter(r, a, s)
    BY <2>1, <2>2, <2>3, ClosedAfterIs
  <2>6. /\ e.sid = r.sid /\ o.sid = r.sid
        /\ e.stale = r.stale /\ o.stale = r.stale
        /\ e.recallSent = r.recallSent /\ o.recallSent = r.recallSent
    BY <1>2 DEF AfterBatch, DeliveryType
  <2>7. /\ Rewritten(e, a, s, o) /\ Rewritten(o, a, p, o)
    BY <2>1, <2>2, <2>4, <2>5, <2>6 DEF Rewritten
  <2>8. QED
    BY <1>0, <2>1, <2>7, AfterBatchIs
<1>3. QED
  BY <1>1, <1>2

-----------------------------------------------------------------------------
(* One report more *)

\* What t says of alert a beyond what s says, when it has <<b, k>> at its end.
SaysMore(s, t, a, b, k) ==
  /\ \A x : Says(t, a, x) <=> Says(s, a, x) \/ (b = a /\ k = x)
  /\ Closes(t, a) <=> Closes(s, a) \/ (b = a /\ k \in Closings)
  /\ Closes(t, a) => Reason(t, a) = IF Closes(s, a) THEN Reason(s, a) ELSE k

LEMMA OneMoreSays ==
  ASSUME NEW a \in Alerts, NEW s \in Seq(Reports), NEW t \in Seq(Reports),
         NEW b \in Alerts, NEW k \in Kinds, t = Append(s, <<b, k>>)
  PROVE  SaysMore(s, t, a, b, k)
<1>0. <<b, k>> \in Reports
  BY DEF Reports
<1>1. /\ Len(t) = Len(s) + 1 /\ t[Len(s) + 1] = <<b, k>>
      /\ \A i \in 1..Len(s) : t[i] = s[i]
  BY <1>0, AppendProperties
<1>2. /\ DOMAIN t = 1..(Len(s) + 1) /\ DOMAIN s = 1..Len(s) /\ Len(s) \in Nat
  BY <1>1
<1>3. /\ DOMAIN s \subseteq DOMAIN t /\ Len(s) + 1 \in DOMAIN t
      /\ \A i \in DOMAIN t : i \in DOMAIN s \/ i = Len(s) + 1
  BY <1>2
<1>4. Begins(s, t)
  BY <1>1, <1>2, <1>3 DEF Begins
<1>5. \A x, y, z : <<b, x>> = <<y, z>> <=> b = y /\ x = z
  OBVIOUS
<1>6. ASSUME NEW x
      PROVE  Says(t, a, x) <=> Says(s, a, x) \/ (b = a /\ k = x)
  <2>1. ASSUME Says(t, a, x), ~Says(s, a, x)
        PROVE  b = a /\ k = x
    <3>1. PICK i \in DOMAIN t : t[i] = <<a, x>>
      BY <2>1 DEF Says
    <3>2. i = Len(s) + 1
      BY <1>1, <1>2, <1>3, <2>1, <3>1 DEF Says
    <3>3. <<b, k>> = <<a, x>>
      BY <1>1, <3>1, <3>2
    <3>4. QED
      BY <1>5, <3>3
  <2>2. ASSUME Says(s, a, x)
        PROVE  Says(t, a, x)
    <3>1. PICK i \in DOMAIN s : s[i] = <<a, x>>
      BY <2>2 DEF Says
    <3>2. i \in DOMAIN t /\ t[i] = <<a, x>>
      BY <1>4, <3>1 DEF Begins
    <3>3. QED
      BY <3>2 DEF Says
  <2>3. ASSUME b = a, k = x
        PROVE  Says(t, a, x)
    <3>1. t[Len(s) + 1] = <<a, x>>
      BY <1>1, <2>3
    <3>2. QED
      BY <1>3, <3>1 DEF Says
  <2>4. QED
    BY <2>1, <2>2, <2>3
<1>7. Closes(t, a) <=> Closes(s, a) \/ (b = a /\ k \in Closings)
  BY <1>1, <1>2, <1>3, <1>5 DEF Closes
<1>8. ASSUME Closes(t, a)
      PROVE  Reason(t, a) = IF Closes(s, a) THEN Reason(s, a) ELSE k
  <2>1. CASE Closes(s, a)
    BY <1>4, <2>1, BeginsFacts
  <2>2. CASE ~Closes(s, a)
    <3>1. PICK i \in DOMAIN t : FirstClosing(t, a, i)
      BY <1>8, FirstReason
    <3>2. t[i] = <<a, Reason(t, a)>> /\ Reason(t, a) \in Closings
      BY <3>1, ReasonOf
    <3>3. i = Len(s) + 1
      BY <1>1, <1>2, <1>3, <2>2, <3>2 DEF Closes
    <3>4. <<b, k>> = <<a, Reason(t, a)>>
      BY <1>1, <3>2, <3>3
    <3>5. k = Reason(t, a)
      BY <1>5, <3>4
    <3>6. QED
      BY <2>2, <3>5
  <2>3. QED
    BY <2>1, <2>2
<1>9. QED
  BY <1>6, <1>7, <1>8 DEF SaysMore

\* The body of the loop, event by event.
LEMMA AfterEventIs ==
  ASSUME NEW e \in DeliveryType, NEW k \in Kinds
  PROVE  /\ ~e.made => AfterEvent(e, k) = e
         /\ e.made /\ k = "displayed" => AfterEvent(e, k) = [e EXCEPT !.displayed = TRUE]
         /\ e.made /\ k = "acknowledged" =>
              AfterEvent(e, k) =
                [e EXCEPT !.displayed = TRUE, !.acked = TRUE,
                          !.closed = IF e.acked THEN e.closed ELSE "acknowledged"]
         /\ e.made /\ k \in Closings =>
              AfterEvent(e, k) =
                [e EXCEPT !.closed = IF Empty(e.closed) THEN k ELSE e.closed]
<1>1. CASE ~e.made
  BY <1>1 DEF AfterEvent
<1>2. CASE e.made /\ k = "displayed"
  BY <1>2 DEF AfterEvent, Closings
<1>3. CASE e.made /\ k = "acknowledged"
  BY <1>3 DEF AfterEvent, Closings
<1>4. CASE e.made /\ k \in Closings
  BY <1>4 DEF AfterEvent, Closings, Empty
<1>5. QED
  BY <1>1, <1>2, <1>3, <1>4 DEF Kinds, Closings

\* A pass through the body makes of the record what the longer batch makes.
LEMMA OneMoreReport ==
  ASSUME NEW r \in DeliveryType, NEW a \in Alerts,
         NEW s \in Seq(Reports), NEW b \in Alerts, NEW k \in Kinds
  PROVE  AfterBatch(r, a, Append(s, <<b, k>>)) =
           IF b = a THEN AfterEvent(AfterBatch(r, a, s), k) ELSE AfterBatch(r, a, s)
<1>t. PICK t \in Seq(Reports) : t = Append(s, <<b, k>>)
  BY AppendProperties DEF Reports
<1> SUFFICES AfterBatch(r, a, t) =
               IF b = a THEN AfterEvent(AfterBatch(r, a, s), k) ELSE AfterBatch(r, a, s)
  BY <1>t
<1>s. SaysMore(s, t, a, b, k)
  BY <1>t, OneMoreSays
<1> DEFINE e == AfterBatch(r, a, s)
<1>0. e \in DeliveryType
  BY DeliveryTypes
<1>1. CASE ~r.made
  <2>1. e = r /\ AfterBatch(r, a, t) = r
    BY <1>1 DEF AfterBatch
  <2>2. AfterEvent(e, k) = e
    BY <1>0, <1>1, <2>1, AfterEventIs
  <2>3. QED
    BY <2>1, <2>2
<1>2. CASE r.made
  <2>1. /\ e.made
        /\ e.displayed = (r.displayed \/ Says(s, a, "displayed") \/ Says(s, a, "acknowledged"))
        /\ e.acked = (r.acked \/ Says(s, a, "acknowledged"))
        /\ e.closed = ClosedAfter(r, a, s)
        /\ e.sid = r.sid /\ e.stale = r.stale /\ e.recallSent = r.recallSent
        /\ r.displayed \in BOOLEAN /\ r.acked \in BOOLEAN
    BY <1>2 DEF AfterBatch, DeliveryType
  <2>2. /\ Says(t, a, "displayed") <=> Says(s, a, "displayed") \/ (b = a /\ k = "displayed")
        /\ Says(t, a, "acknowledged") <=> Says(s, a, "acknowledged") \/ (b = a /\ k = "acknowledged")
        /\ Closes(t, a) <=> Closes(s, a) \/ (b = a /\ k \in Closings)
        /\ Closes(t, a) => Reason(t, a) = IF Closes(s, a) THEN Reason(s, a) ELSE k
    BY <1>s DEF SaysMore
  <2>3. /\ Closes(s, a) => ~Empty(Reason(s, a))
        /\ ~Empty("acknowledged")
    BY FirstReason, ReasonOf, FullReasons
  <2>4. /\ e.closed = IF ~r.acked /\ Says(s, a, "acknowledged") THEN "acknowledged"
                      ELSE IF Empty(r.closed) /\ Closes(s, a) THEN Reason(s, a)
                      ELSE r.closed
        /\ ClosedAfter(r, a, t) =
             IF ~r.acked /\ Says(t, a, "acknowledged") THEN "acknowledged"
             ELSE IF Empty(r.closed) /\ Closes(t, a) THEN Reason(t, a)
             ELSE r.closed
    BY <2>1, ClosedAfterIs
  <2>5. CASE b # a
    <3>1. ClosedAfter(r, a, t) = e.closed
      BY <2>2, <2>4, <2>5
    <3>2. Rewritten(r, a, t, e)
      BY <1>2, <2>1, <2>2, <2>5, <3>1 DEF Rewritten
    <3>3. QED
      BY <1>0, <1>2, <2>5, <3>2, AfterBatchIs
  <2>6. CASE b = a /\ k = "displayed"
    <3> DEFINE o == [e EXCEPT !.displayed = TRUE]
    <3>1. ClosedAfter(r, a, t) = e.closed
      BY <2>2, <2>4, <2>6 DEF Closings
    <3>2. o \in DeliveryType
      BY <1>0 DEF DeliveryType
    <3>3. Rewritten(r, a, t, o)
      BY <1>0, <1>2, <2>1, <2>2, <2>6, <3>1 DEF Rewritten, DeliveryType
    <3>4. AfterEvent(e, k) = o
      BY <1>0, <2>1, <2>6, AfterEventIs
    <3> HIDE DEF o
    <3>5. QED
      BY <1>2, <2>6, <3>2, <3>3, <3>4, AfterBatchIs
  <2>7. CASE b = a /\ k = "acknowledged"
    <3> DEFINE o == [e EXCEPT !.displayed = TRUE, !.acked = TRUE,
                              !.closed = IF e.acked THEN e.closed ELSE "acknowledged"]
    <3>1. ClosedAfter(r, a, t) = IF e.acked THEN e.closed ELSE "acknowledged"
      BY <2>1, <2>2, <2>4, <2>7 DEF Closings
    <3>2. o \in DeliveryType
      BY <1>0 DEF DeliveryType
    <3>3. Rewritten(r, a, t, o)
      BY <1>0, <1>2, <2>1, <2>2, <2>7, <3>1 DEF Rewritten, DeliveryType
    <3>4. AfterEvent(e, k) = o
      BY <1>0, <2>1, <2>7, AfterEventIs
    <3> HIDE DEF o
    <3>5. QED
      BY <1>2, <2>7, <3>2, <3>3, <3>4, AfterBatchIs
  <2>8. CASE b = a /\ k \in Closings
    <3> DEFINE o == [e EXCEPT !.closed = IF Empty(e.closed) THEN k ELSE e.closed]
    <3>0. ~Empty(k) /\ k # "displayed" /\ k # "acknowledged"
      BY <2>8, FullReasons DEF Closings
    <3>1. ClosedAfter(r, a, t) = IF Empty(e.closed) THEN k ELSE e.closed
      BY <2>2, <2>3, <2>4, <2>8, <3>0
    <3>2. o \in DeliveryType
      BY <1>0, <2>8 DEF DeliveryType
    <3>3. Rewritten(r, a, t, o)
      BY <1>0, <1>2, <2>1, <2>2, <2>8, <3>0, <3>1 DEF Rewritten, DeliveryType
    <3>4. AfterEvent(e, k) = o
      BY <1>0, <2>1, <2>8, AfterEventIs
    <3> HIDE DEF o
    <3>5. QED
      BY <1>2, <2>8, <3>2, <3>3, <3>4, AfterBatchIs
  <2>9. QED
    BY <2>5, <2>6, <2>7, <2>8 DEF Kinds
<1>3. QED
  BY <1>1, <1>2

-----------------------------------------------------------------------------
(* The loop *)

IInv == TypeOK /\ n <= Len(Kept(events)) /\ LoopIsAfterBatch

\* The part of the request that has been read is the beginning of what is
\* read of it.
LEMMA DoneBegins ==
  ASSUME events \in Seq(Reports), n \in Nat, n <= Len(Kept(events))
  PROVE  /\ Kept(events) \in Seq(Reports) /\ Done \in Seq(Reports)
         /\ Len(Kept(events)) <= MaxEvents /\ Len(Kept(events)) <= Len(events)
         /\ Len(Done) = n /\ \A i \in 1..n : Done[i] = events[i]
         /\ Begins(Done, Kept(events))
<1> DEFINE s == Kept(events)
<1>1. s \in Seq(Reports) /\ \A i \in DOMAIN s : i \in DOMAIN events /\ s[i] = events[i]
  BY KeptFacts
<1>2. Len(s) <= MaxEvents /\ Len(s) <= Len(events)
  <2>1. CASE Len(events) > MaxEvents
    <3>1. \A i \in 1..MaxEvents : events[i] \in Reports
      BY <2>1, DeliveryAssumption
    <3>2. Len(SubSeq(events, 1, MaxEvents)) = MaxEvents
      BY <3>1, SubSeqProperties, DeliveryAssumption
    <3>3. QED
      BY <2>1, <3>2, DeliveryAssumption DEF Kept
  <2>2. CASE ~(Len(events) > MaxEvents)
    BY <2>2, DeliveryAssumption DEF Kept
  <2>3. QED
    BY <2>1, <2>2
<1>3. DOMAIN s = 1..Len(s) /\ Len(s) \in Nat
  BY <1>1
<1> HIDE DEF s
<1>4. \A i \in 1..n : events[i] \in Reports /\ i \in DOMAIN s
  <2>1. n \in Nat /\ n <= Len(s)
    BY DEF s
  <2>2. QED
    BY <1>1, <1>3, <2>1
<1>5. /\ Done \in Seq(Reports) /\ Len(Done) = n /\ \A i \in 1..n : Done[i] = events[i]
  BY <1>4, SubSeqProperties DEF Done
<1>6. DOMAIN Done = 1..n
  BY <1>5
<1>7. Begins(Done, s)
  BY <1>1, <1>4, <1>5, <1>6 DEF Begins
<1>8. QED
  BY <1>1, <1>2, <1>5, <1>7 DEF s

\* The values of CloseReason.
Reasons == Closings \cup {"", "acknowledged"}

LEMMA RecordsAreDeliveries == Records \subseteq DeliveryType
<1>1. Records \subseteq
        [made : BOOLEAN, sid : {0}, stale : {FALSE}, displayed : BOOLEAN,
         acked : BOOLEAN, closed : Reasons, recallSent : {FALSE}]
  BY Zenon DEF Records, Reasons
<1>2. DeliveryType =
        [made : BOOLEAN, sid : Nat, stale : BOOLEAN, displayed : BOOLEAN,
         acked : BOOLEAN, closed : Reasons, recallSent : BOOLEAN]
  BY Zenon DEF DeliveryType, Reasons
<1>3. ASSUME NEW R,
             NEW r \in [made : BOOLEAN, sid : {0}, stale : {FALSE},
                        displayed : BOOLEAN, acked : BOOLEAN, closed : R,
                        recallSent : {FALSE}]
      PROVE  r \in [made : BOOLEAN, sid : Nat, stale : BOOLEAN,
                    displayed : BOOLEAN, acked : BOOLEAN, closed : R,
                    recallSent : BOOLEAN]
  <2>1. /\ r = [made |-> r.made, sid |-> r.sid, stale |-> r.stale,
                displayed |-> r.displayed, acked |-> r.acked,
                closed |-> r.closed, recallSent |-> r.recallSent]
        /\ r.made \in BOOLEAN /\ r.sid \in {0} /\ r.stale \in {FALSE}
        /\ r.displayed \in BOOLEAN /\ r.acked \in BOOLEAN /\ r.closed \in R
        /\ r.recallSent \in {FALSE}
    OBVIOUS
  <2>2. {0} \subseteq Nat /\ {FALSE} \subseteq BOOLEAN
    OBVIOUS
  <2>3. r.sid \in Nat /\ r.stale \in BOOLEAN /\ r.recallSent \in BOOLEAN
    BY <2>1, <2>2
  <2>4. QED
    BY <2>1, <2>3
<1>4. QED
  BY <1>1, <1>2, <1>3, Zenon

\* A request that says nothing changes nothing.
LEMMA NothingSaid ==
  ASSUME NEW r \in DeliveryType, NEW a \in Alerts
  PROVE  AfterBatch(r, a, <<>>) = r
<1> DEFINE s == <<>>
<1>1. s \in Seq(Reports) /\ DOMAIN s = {}
  OBVIOUS
<1> HIDE DEF s
<1>2. ~Closes(s, a) /\ \A x : ~Says(s, a, x)
  BY <1>1 DEF Closes, Says
<1>3. CASE r.made
  <2>1. ClosedAfter(r, a, s) = r.closed
    BY <1>1, <1>2, ClosedAfterIs
  <2>2. r.displayed \in BOOLEAN /\ r.acked \in BOOLEAN
    BY DEF DeliveryType
  <2>3. Rewritten(r, a, s, r)
    BY <1>2, <2>1, <2>2 DEF Rewritten
  <2>4. QED
    BY <1>3, <2>3, AfterBatchIs DEF s
<1>4. CASE ~r.made
  BY <1>4 DEF AfterBatch
<1>5. QED
  BY <1>3, <1>4

LEMMA LoopBegins == Init => IInv
<1> SUFFICES ASSUME Init PROVE IInv
  OBVIOUS
<1>1. before \in [Alerts -> DeliveryType] /\ d = before
  BY RecordsAreDeliveries DEF Init
<1>2. events \in Seq(Reports) /\ n = 0
  BY DEF Init, BoundedSeq, SeqOf
<1>3. /\ Kept(events) \in Seq(Reports) /\ Len(Kept(events)) \in Nat
  BY <1>2, KeptFacts
<1>4. Done = <<>>
  BY <1>2, SubSeqEmpty DEF Done
<1>5. LoopIsAfterBatch
  BY <1>1, <1>4, NothingSaid DEF LoopIsAfterBatch
<1>6. TypeOK
  BY <1>1, <1>2, DeliveryAssumption DEF TypeOK
<1>7. QED
  BY <1>2, <1>3, <1>5, <1>6 DEF IInv

LEMMA LoopContinues == IInv /\ [Next]_vars => IInv'
<1> SUFFICES ASSUME IInv, [Next]_vars PROVE IInv'
  OBVIOUS
<1>0. /\ before \in [Alerts -> DeliveryType] /\ d \in [Alerts -> DeliveryType]
      /\ events \in Seq(Reports) /\ n \in Nat /\ n <= Len(Kept(events))
      /\ \A a \in Alerts : d[a] = AfterBatch(before[a], a, Done)
  BY DEF IInv, TypeOK, LoopIsAfterBatch
<1>1. CASE Loop
  <2>1. /\ Kept(events) \in Seq(Reports) /\ Done \in Seq(Reports)
        /\ Len(Kept(events)) <= MaxEvents /\ Len(Kept(events)) <= Len(events)
        /\ Len(Done) = n /\ \A i \in 1..n : Done[i] = events[i]
    BY <1>0, DoneBegins
  <2>2. /\ n < Len(Kept(events)) /\ n' = n + 1 /\ before' = before /\ events' = events
        /\ d' = [d EXCEPT ![events[n + 1][1]] = AfterEvent(@, events[n + 1][2])]
    BY <1>1 DEF Loop
  <2>3. n' \in Nat /\ n' <= Len(Kept(events)) /\ n' \in 0..MaxEvents /\ n + 1 \in DOMAIN events
    BY <1>0, <2>1, <2>2, DeliveryAssumption
  <2>4. PICK b \in Alerts, k \in Kinds : events[n + 1] = <<b, k>>
    <3>1. events[n + 1] \in Reports
      BY <1>0, <2>3
    <3>2. QED
      BY <3>1 DEF Reports
  <2>5. d' = [d EXCEPT ![b] = AfterEvent(d[b], k)]
    BY <2>2, <2>4
  <2>6. Done' = SubSeq(events, 1, n + 1)
    BY <2>2 DEF Done
  <2>7. Done' \in Seq(Reports) /\ Done' = Append(Done, <<b, k>>)
    <3> DEFINE t == SubSeq(events, 1, n + 1)
               w == Append(Done, <<b, k>>)
    <3>1. \A i \in 1..(n + 1) : events[i] \in Reports
      BY <1>0, <2>3
    <3>2. t \in Seq(Reports) /\ Len(t) = n + 1 /\ \A i \in 1..(n + 1) : t[i] = events[i]
      BY <1>0, <3>1, SubSeqProperties
    <3>3. <<b, k>> \in Reports
      BY DEF Reports
    <3>4. /\ w \in Seq(Reports) /\ Len(w) = n + 1 /\ w[n + 1] = <<b, k>>
          /\ \A i \in 1..n : w[i] = events[i]
      BY <2>1, <3>3, AppendProperties
    <3> HIDE DEF t, w
    <3>5. \A i \in 1..(n + 1) : i = n + 1 \/ i \in 1..n
      BY <1>0
    <3>6. \A i \in 1..(n + 1) : t[i] = w[i]
      BY <2>4, <3>2, <3>4, <3>5
    <3>7. t = w
      BY <3>2, <3>4, <3>6, SeqEqual
    <3>8. QED
      BY <2>6, <3>2, <3>7 DEF t, w
  <2>8. ASSUME NEW a \in Alerts
        PROVE  /\ d'[a] = AfterBatch(before'[a], a, Done')
               /\ d'[a] \in DeliveryType
    <3>1. before[a] \in DeliveryType
      BY <1>0
    <3>2. AfterBatch(before[a], a, Done') =
            IF b = a THEN AfterEvent(d[a], k) ELSE d[a]
      <4>1. PICK r \in DeliveryType : r = before[a]
        BY <3>1
      <4>2. PICK s \in Seq(Reports) : s = Done
        BY <2>1
      <4>3. AfterBatch(r, a, Append(s, <<b, k>>)) =
              IF b = a THEN AfterEvent(AfterBatch(r, a, s), k) ELSE AfterBatch(r, a, s)
        BY OneMoreReport
      <4>4. d[a] = AfterBatch(r, a, s)
        BY <1>0, <4>1, <4>2
      <4>5. QED
        BY <2>7, <4>1, <4>2, <4>3, <4>4
    <3>3. d'[a] = IF b = a THEN AfterEvent(d[a], k) ELSE d[a]
      BY <1>0, <2>5
    <3>4. AfterBatch(before[a], a, Done') \in DeliveryType
      BY <3>1, DeliveryTypes
    <3>5. QED
      BY <2>2, <3>2, <3>3, <3>4
  <2>9. d' \in [Alerts -> DeliveryType]
    <3>1. DOMAIN d' = Alerts /\ d' = [a \in Alerts |-> d'[a]]
      BY <1>0, <2>5
    <3>2. QED
      BY <2>8, <3>1
  <2>10. TypeOK'
    BY <1>0, <2>2, <2>3, <2>9 DEF TypeOK
  <2>11. LoopIsAfterBatch'
    BY <2>8 DEF LoopIsAfterBatch
  <2>12. QED
    BY <2>2, <2>3, <2>10, <2>11 DEF IInv
<1>2. CASE UNCHANGED vars
  BY <1>2 DEF vars, IInv, TypeOK, LoopIsAfterBatch, Done
<1>3. QED
  BY <1>1, <1>2 DEF Next

LEMMA LoopKeeps == Spec => []IInv
  BY LoopBegins, LoopContinues, PTL DEF Spec

-----------------------------------------------------------------------------
(* What follows *)

\* The records keep their types through the loop (store.go, type Delivery).
THEOREM LoopIsTyped == Spec => []TypeOK
<1>1. IInv => TypeOK
  BY DEF IInv
<1>2. QED
  BY LoopKeeps, <1>1, PTL

\* After every prefix of a request of any length the loop has made of each
\* record what AfterBatch says (applyEvents).
THEOREM LoopComputesAfterBatch == Spec => []LoopIsAfterBatch
<1>1. IInv => LoopIsAfterBatch
  BY DEF IInv
<1>2. QED
  BY LoopKeeps, <1>1, PTL

\* Reports may come twice: the beginning of a request before the whole of
\* it, or after it, leaves what the whole alone leaves (Poller.cs, Loop).
THEOREM ReportsMayBeSentTwice == Spec => []SendingTwiceIsHarmless
<1>1. IInv => SendingTwiceIsHarmless
  <2> SUFFICES ASSUME IInv, NEW a \in Alerts
               PROVE  LET once == AfterBatch(before[a], a, Kept(events)) IN
                        /\ AfterBatch(d[a], a, Kept(events)) = once
                        /\ AfterBatch(once, a, Done) = once
    BY DEF SendingTwiceIsHarmless
  <2>1. /\ before[a] \in DeliveryType /\ events \in Seq(Reports) /\ n \in Nat
        /\ n <= Len(Kept(events)) /\ d[a] = AfterBatch(before[a], a, Done)
    BY DEF IInv, TypeOK, LoopIsAfterBatch
  <2>2. /\ Kept(events) \in Seq(Reports) /\ Done \in Seq(Reports)
        /\ Begins(Done, Kept(events))
    BY <2>1, DoneBegins
  <2>3. QED
    BY <2>1, <2>2, BeginsHarmless
<1>2. QED
  BY LoopKeeps, <1>1, PTL
=============================================================================
