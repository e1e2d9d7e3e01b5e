---------------------------- MODULE EngineProofs ----------------------------
(***************************************************************************)
(* Facts about the operators the models are built from: the decisions on   *)
(* one Delivery record (Delivery), for any record and any batch of         *)
(* reports, and the operations on one screen (AlertManager), for any       *)
(* screen.                                                                 *)
(***************************************************************************)
EXTENDS Delivery, AlertManager, SequenceTheorems, FiniteSetTheorems, TLAPS

-----------------------------------------------------------------------------
(* Positions *)

\* Of some of the positions 1..n there is a first
LEMMA FirstOf ==
  ASSUME NEW n \in Nat, NEW I \in SUBSET (1..n), I # {}
  PROVE  \E x \in I : \A y \in I : x <= y
<1> DEFINE Below(i) == {j \in I : j < i}
           T == {Below(i) : i \in I}
<1>1. IsWellFoundedOn(StrictSubsetOrdering(I), SUBSET I)
  <2>1. IsFiniteSet(I)
    <3>1. IsFiniteSet(1..n)
      BY FS_Interval
    <3>2. QED
      BY <3>1, FS_Subset
  <2>2. QED
    BY <2>1, FS_StrictSubsetOrderingWellFounded, FS_FiniteSubsetsOfFinite
<1>2. PICK b \in T : \A y \in T : <<y, b>> \notin StrictSubsetOrdering(I)
  <2>1. T \subseteq SUBSET I /\ T # {}
    OBVIOUS
  <2> HIDE DEF T
  <2>2. QED
    BY <1>1, <2>1, WFMin
<1>3. PICK x \in I : b = Below(x)
  BY <1>2
<1>4. ASSUME NEW y \in I, y < x
      PROVE  FALSE
  <2>1. y \in Below(x) /\ y \notin Below(y) /\ \A j \in I : j < y => j < x
    BY <1>4
  <2>2. /\ Below(y) \subseteq Below(x) /\ Below(y) # Below(x)
        /\ Below(y) \in SUBSET I /\ Below(x) \in SUBSET I
    BY <2>1
  <2> HIDE DEF Below
  <2>3. <<Below(y), Below(x)>> \in StrictSubsetOrdering(I)
    BY <2>2 DEF StrictSubsetOrdering
  <2>4. QED
    BY <1>2, <1>3, <2>3
<1>5. QED
  BY <1>4

\* and a last one.
LEMMA LastOf ==
  ASSUME NEW n \in Nat, NEW I \in SUBSET (1..n), I # {}
  PROVE  \E x \in I : \A y \in I : y <= x
<1> DEFINE J == {n + 1 - i : i \in I}
<1>1. J \in SUBSET (1..n) /\ J # {} /\ \A j \in J : n + 1 - j \in I
  <2>1. \A i \in I : n + 1 - i \in 1..n /\ n + 1 - (n + 1 - i) = i
    OBVIOUS
  <2>2. QED
    BY <2>1
<1>2. PICK z \in J : \A j \in J : z <= j
  BY <1>1, FirstOf
<1>3. \A y \in I : y \in 1..n /\ z <= n + 1 - y
  BY <1>2
<1>4. z \in 1..n /\ n + 1 - z \in I
  BY <1>1
<1>5. \A y \in I : y <= n + 1 - z
  BY <1>3, <1>4
<1>6. QED
  BY <1>4, <1>5

-----------------------------------------------------------------------------
(* Delivery *)

\* A batch that is cut off is a batch, and says nothing it did not say.
LEMMA KeptFacts ==
  ASSUME NEW s \in Seq(Reports)
  PROVE  /\ Kept(s) \in Seq(Reports)
         /\ \A i \in DOMAIN Kept(s) : i \in DOMAIN s /\ Kept(s)[i] = s[i]
<1>1. CASE Len(s) > MaxEvents
  <2>1. \A i \in 1..MaxEvents : s[i] \in Reports
    BY <1>1, DeliveryAssumption
  <2>2. /\ SubSeq(s, 1, MaxEvents) \in Seq(Reports)
        /\ Len(SubSeq(s, 1, MaxEvents)) = MaxEvents
        /\ \A i \in 1..MaxEvents : SubSeq(s, 1, MaxEvents)[i] = s[i]
    BY <2>1, SubSeqProperties, DeliveryAssumption
  <2>3. QED
    BY <1>1, <2>2, DeliveryAssumption DEF Kept
<1>2. CASE ~(Len(s) > MaxEvents)
  BY <1>2 DEF Kept
<1>3. QED
  BY <1>1, <1>2

\* The reason of a close is the one there was, a confirmation in the batch,
\* or some other reason given in the batch.
LEMMA ClosedAfterFacts ==
  ASSUME NEW d, NEW a, NEW batch
  PROVE  \/ ClosedAfter(d, a, batch) = d.closed
         \/ /\ ClosedAfter(d, a, batch) = "acknowledged"
            /\ ~d.acked /\ Says(batch, a, "acknowledged")
         \/ /\ ClosedAfter(d, a, batch) \in Closings
            /\ Says(batch, a, ClosedAfter(d, a, batch))
            /\ d.closed = ""
            /\ ~(~d.acked /\ Says(batch, a, "acknowledged"))
<1>1. CASE ~d.acked /\ Says(batch, a, "acknowledged")
  BY <1>1 DEF ClosedAfter
<1>2. CASE /\ ~(~d.acked /\ Says(batch, a, "acknowledged"))
           /\ d.closed = ""
           /\ \E i \in DOMAIN batch : FirstClosing(batch, a, i)
  <2> DEFINE first == CHOOSE i \in DOMAIN batch : FirstClosing(batch, a, i)
  <2>1. first \in DOMAIN batch /\ FirstClosing(batch, a, first)
    BY <1>2
  <2>2. ClosedAfter(d, a, batch) = batch[first][2]
    BY <1>2 DEF ClosedAfter
  <2>3. PICK k \in Closings : batch[first] = <<a, k>>
    BY <2>1 DEF FirstClosing
  <2>4. batch[first][2] = k
    BY <2>3
  <2>5. QED
    BY <1>2, <2>1, <2>2, <2>3, <2>4 DEF Says
<1>3. CASE /\ ~(~d.acked /\ Says(batch, a, "acknowledged"))
           /\ ~(/\ d.closed = ""
                /\ \E i \in DOMAIN batch : FirstClosing(batch, a, i))
  BY <1>3 DEF ClosedAfter
<1>4. QED
  BY <1>1, <1>2, <1>3

\* What applyEvents and pendingFor make of a record is a record.
LEMMA DeliveryTypes ==
  ASSUME NEW d \in DeliveryType
  PROVE  /\ \A a, batch : AfterBatch(d, a, batch) \in DeliveryType
         /\ \A s \in Nat : AfterSend(d, s) \in DeliveryType
         /\ AfterRecallSent(d) \in DeliveryType
         /\ [d EXCEPT !.stale = TRUE] \in DeliveryType
<1>1. ASSUME NEW a, NEW batch
      PROVE  AfterBatch(d, a, batch) \in DeliveryType
  <2>1. ClosedAfter(d, a, batch) \in Closings \cup {"", "acknowledged"}
    BY ClosedAfterFacts DEF DeliveryType
  <2>2. Says(batch, a, "displayed") \in BOOLEAN
        /\ Says(batch, a, "acknowledged") \in BOOLEAN
    BY DEF Says
  <2>3. QED
    BY <2>1, <2>2 DEF AfterBatch, DeliveryType
<1>2. \A s \in Nat : AfterSend(d, s) \in DeliveryType
  BY DEF AfterSend, DeliveryType
<1>3. AfterRecallSent(d) \in DeliveryType
  BY DEF AfterRecallSent, DeliveryType
<1>4. [d EXCEPT !.stale = TRUE] \in DeliveryType
  BY DEF DeliveryType
<1>5. QED
  BY <1>1, <1>2, <1>3, <1>4

\* Whatever a request says, in whatever order, a record stays coherent.
LEMMA AfterBatchCoherent ==
  ASSUME NEW d \in DeliveryType, Coherent(d), NEW a, NEW batch
  PROVE  Coherent(AfterBatch(d, a, batch))
<1>1. CASE ~d.made
  BY <1>1 DEF AfterBatch
<1>2. CASE d.made
  <2> DEFINE e == AfterBatch(d, a, batch)
  <2>1. /\ e.made = d.made
        /\ e.displayed = (d.displayed \/ Says(batch, a, "displayed")
                                      \/ Says(batch, a, "acknowledged"))
        /\ e.acked = (d.acked \/ Says(batch, a, "acknowledged"))
        /\ e.closed = ClosedAfter(d, a, batch)
    BY <1>2 DEF AfterBatch, DeliveryType
  <2>2. e.acked <=> e.closed = "acknowledged"
    <3>1. d.acked => ClosedAfter(d, a, batch) = "acknowledged"
      BY ClosedAfterFacts DEF Coherent
    <3>2. ~d.acked /\ Says(batch, a, "acknowledged")
            => ClosedAfter(d, a, batch) = "acknowledged"
      BY DEF ClosedAfter
    <3>3. ~d.acked /\ ~Says(batch, a, "acknowledged")
            => ClosedAfter(d, a, batch) # "acknowledged"
      BY ClosedAfterFacts DEF Coherent, Closings
    <3>4. QED
      BY <2>1, <3>1, <3>2, <3>3
  <2>3. QED
    BY <1>2, <2>1, <2>2 DEF Coherent
<1>3. QED
  BY <1>1, <1>2

\* Sending, telling of a recall and growing stale leave it coherent.
LEMMA SendingCoherent ==
  ASSUME NEW d \in DeliveryType, Coherent(d)
  PROVE  /\ \A s : Coherent(AfterSend(d, s))
         /\ d.made => Coherent(AfterRecallSent(d))
         /\ d.made => Coherent([d EXCEPT !.stale = TRUE])
  BY DEF AfterSend, AfterRecallSent, Coherent, DeliveryType

\* What is wanted has not been confirmed, and if it has been displayed it
\* needs a confirmation.
LEMMA WantedRight ==
  ASSUME NEW d \in DeliveryType, Coherent(d), NEW a, NEW s, Wanted(d, a, s)
  PROVE  ~d.acked /\ (d.displayed => a \in RequireAck)
<1>1. CASE ~d.made
  <2>1. d = NoDelivery
    BY <1>1 DEF Coherent
  <2>2. d.acked = FALSE /\ d.displayed = FALSE
    BY <2>1 DEF NoDelivery
  <2>3. QED
    BY <2>2
<1>2. CASE d.made /\ ~d.displayed
  BY <1>2 DEF Coherent
<1>3. CASE d.made /\ d.displayed
  BY <1>3 DEF Wanted
<1>4. QED
  BY <1>1, <1>2, <1>3

-----------------------------------------------------------------------------
(* What a batch of reports says of an alert *)

\* It has a report that closes it,
Closes(s, a) == \E i \in DOMAIN s : \E k \in Closings : s[i] = <<a, k>>

\* and this is the reason the first of these gives.
Reason(s, a) == s[CHOOSE i \in DOMAIN s : FirstClosing(s, a, i)][2]

\* The record is open as long as its reason is empty.
Empty(c) == c = ""

LEMMA FullReasons == ~Empty("acknowledged") /\ \A k \in Closings : ~Empty(k)
  BY Zenon DEF Empty, Closings

LEMMA ReasonOf ==
  ASSUME NEW s \in Seq(Reports), NEW a, NEW i \in DOMAIN s, FirstClosing(s, a, i)
  PROVE  s[i] = <<a, Reason(s, a)>> /\ Reason(s, a) \in Closings
<1> DEFINE c == CHOOSE j \in DOMAIN s : FirstClosing(s, a, j)
<1>1. c \in DOMAIN s /\ FirstClosing(s, a, c)
  OBVIOUS
<1> HIDE DEF c
<1>2. \A j \in DOMAIN s : j \in Nat /\ j >= 1
  OBVIOUS
<1>3. ~(c < i) /\ ~(i < c)
  <2>1. c < i => c \in 1..(i - 1)
    BY <1>1, <1>2
  <2>2. i < c => i \in 1..(c - 1)
    BY <1>1, <1>2
  <2>3. QED
    BY <1>1, <2>1, <2>2 DEF FirstClosing
<1>4. c = i
  BY <1>1, <1>2, <1>3
<1>5. PICK k \in Closings : s[i] = <<a, k>>
  BY DEF FirstClosing
<1>6. Reason(s, a) = s[i][2]
  BY <1>4 DEF Reason, c
<1>7. QED
  BY <1>5, <1>6

\* If one closes it there is a first.
LEMMA FirstReason ==
  ASSUME NEW s \in Seq(Reports), NEW a, Closes(s, a)
  PROVE  \E i \in DOMAIN s : FirstClosing(s, a, i)
<1> DEFINE I == {i \in DOMAIN s : \E k \in Closings : s[i] = <<a, k>>}
<1>1. I \in SUBSET (1..Len(s)) /\ Len(s) \in Nat /\ I # {}
  BY DEF Closes
<1> HIDE DEF I
<1>2. PICK x \in I : \A y \in I : x <= y
  BY <1>1, FirstOf
<1>3. \A j \in 1..(x - 1) : j \in DOMAIN s /\ ~(x <= j)
  BY <1>1
<1>4. \A j \in 1..(x - 1) : j \notin I
  BY <1>2, <1>3
<1>5. QED
  BY <1>2, <1>3, <1>4 DEF I, FirstClosing

\* ClosedAfter in these terms.
LEMMA ClosedAfterIs ==
  ASSUME NEW r, NEW a, NEW s \in Seq(Reports)
  PROVE  ClosedAfter(r, a, s) =
           IF ~r.acked /\ Says(s, a, "acknowledged") THEN "acknowledged"
           ELSE IF Empty(r.closed) /\ Closes(s, a) THEN Reason(s, a)
           ELSE r.closed
<1>1. Closes(s, a) <=> \E i \in DOMAIN s : FirstClosing(s, a, i)
  BY FirstReason DEF Closes, FirstClosing
<1>2. Empty(r.closed) <=> r.closed = ""
  BY Zenon DEF Empty
<1>3. QED
  BY <1>1, <1>2, Zenon DEF ClosedAfter, Reason

-----------------------------------------------------------------------------
(* AlertManager *)

\* A list without one of its entries is a list of the same things, and every
\* entry it has was there before.
LEMMA WithoutFacts ==
  ASSUME NEW S, NEW s \in Seq(S), NEW i \in DOMAIN s
  PROVE  /\ Without(s, i) \in Seq(S)
         /\ Len(Without(s, i)) = Len(s) - 1
         /\ \A j \in 1..(Len(s) - 1) :
              Without(s, i)[j] = IF j < i THEN s[j] ELSE s[j + 1]
         /\ \A j \in DOMAIN Without(s, i) :
              \E m \in DOMAIN s \ {i} : Without(s, i)[j] = s[m]
<1> DEFINE l == SubSeq(s, 1, i - 1)
           r == SubSeq(s, i + 1, Len(s))
<1>1. /\ l \in Seq(S) /\ Len(l) = i - 1
      /\ \A j \in 1..(i - 1) : l[j] = s[j]
  <2>1. \A j \in 1..(i - 1) : s[j] \in S
    OBVIOUS
  <2>2. i \in Int /\ i >= 1
    OBVIOUS
  <2>3. /\ l \in Seq(S)
        /\ Len(l) = IF 1 <= i - 1 THEN i - 1 - 1 + 1 ELSE 0
        /\ \A j \in 1..(i - 1 - 1 + 1) : l[j] = s[1 + j - 1]
    BY <2>1, <2>2, SubSeqProperties
  <2>4. QED
    BY <2>2, <2>3
<1>2. /\ r \in Seq(S) /\ Len(r) = Len(s) - i
      /\ \A j \in 1..(Len(s) - i) : r[j] = s[i + j]
  <2>1. \A j \in (i + 1)..Len(s) : s[j] \in S
    OBVIOUS
  <2>2. i \in Int /\ Len(s) \in Int /\ i >= 1 /\ i <= Len(s)
    OBVIOUS
  <2>3. /\ r \in Seq(S)
        /\ Len(r) = IF i + 1 <= Len(s) THEN Len(s) - (i + 1) + 1 ELSE 0
        /\ \A j \in 1..(Len(s) - (i + 1) + 1) : r[j] = s[i + 1 + j - 1]
    BY <2>1, <2>2, SubSeqProperties
  <2>4. QED
    BY <2>2, <2>3
<1> HIDE DEF l, r
<1>3. /\ l \o r \in Seq(S)
      /\ Len(l \o r) = Len(l) + Len(r)
      /\ \A j \in 1..(Len(l) + Len(r)) :
           (l \o r)[j] = IF j <= Len(l) THEN l[j] ELSE r[j - Len(l)]
  BY <1>1, <1>2, ConcatProperties
<1>4. Len(l \o r) = Len(s) - 1 /\ Len(s) \in Nat /\ i \in 1..Len(s)
  BY <1>1, <1>2, <1>3
<1>5. ASSUME NEW j \in 1..(Len(s) - 1)
      PROVE  (l \o r)[j] = IF j < i THEN s[j] ELSE s[j + 1]
  <2>1. j \in Nat /\ i \in Nat /\ j \in 1..(Len(l) + Len(r)) /\ Len(l) = i - 1
    BY <1>1, <1>2, <1>4
  <2>2. CASE j < i
    <3>1. j <= Len(l) /\ j \in 1..(i - 1)
      BY <2>1, <2>2
    <3>2. (l \o r)[j] = l[j]
      BY <1>3, <2>1, <3>1
    <3>3. QED
      BY <1>1, <2>2, <3>1, <3>2
  <2>3. CASE ~(j < i)
    <3>1. ~(j <= Len(l)) /\ j - (i - 1) \in 1..(Len(s) - i) /\ i + (j - (i - 1)) = j + 1
      BY <1>4, <2>1, <2>3
    <3>2. (l \o r)[j] = r[j - (i - 1)]
      BY <1>3, <2>1, <3>1
    <3>3. r[j - (i - 1)] = s[j + 1]
      BY <1>2, <3>1
    <3>4. QED
      BY <2>3, <3>2, <3>3
  <2>4. QED
    BY <2>2, <2>3
<1>6. ASSUME NEW j \in DOMAIN (l \o r)
      PROVE  \E m \in DOMAIN s \ {i} : (l \o r)[j] = s[m]
  <2>1. j \in 1..(Len(s) - 1) /\ j \in DOMAIN s /\ j + 1 \in DOMAIN s
    BY <1>3, <1>4
  <2>2. QED
    BY <1>4, <1>5, <2>1
<1>7. QED
  BY <1>3, <1>4, <1>5, <1>6 DEF Without, l, r

\* The entries of a list, and that none is in it twice.
Entries(s) == {s[i] : i \in DOMAIN s}
NoneTwice(s) == \A i, j \in DOMAIN s : s[i] = s[j] => i = j

\* Then there are as many as the list is long,
LEMMA EntriesCounted ==
  ASSUME NEW S, NEW s \in Seq(S), NoneTwice(s)
  PROVE  IsFiniteSet(Entries(s)) /\ Cardinality(Entries(s)) = Len(s)
<1> DEFINE f == [i \in 1..Len(s) |-> s[i]]
<1>0. DOMAIN s = 1..Len(s)
  OBVIOUS
<1>1. f \in Bijection(1..Len(s), Entries(s))
  <2>1. f \in [1..Len(s) -> Entries(s)]
    BY <1>0 DEF Entries
  <2>2. \A i, j \in 1..Len(s) : f[i] = f[j] => i = j
    BY <1>0 DEF NoneTwice
  <2>3. \A x \in Entries(s) : \E i \in 1..Len(s) : f[i] = x
    BY <1>0 DEF Entries
  <2> HIDE DEF f
  <2>4. QED
    BY <2>1, <2>2, <2>3 DEF Bijection, Injection, Surjection, IsInjective
<1>2. IsFiniteSet(1..Len(s)) /\ Cardinality(1..Len(s)) = Len(s)
  <2>1. Len(s) \in Nat
    OBVIOUS
  <2>2. QED
    BY <2>1, FS_Interval
<1>3. QED
  BY <1>1, <1>2, FS_Bijection DEF ExistsBijection

\* one that is taken out is gone, and all others are left,
LEMMA EntriesWithout ==
  ASSUME NEW S, NEW s \in Seq(S), NEW i \in DOMAIN s, NoneTwice(s)
  PROVE  /\ Entries(Without(s, i)) = Entries(s) \ {s[i]}
         /\ NoneTwice(Without(s, i))
<1> DEFINE t == Without(s, i)
<1>1. /\ t \in Seq(S) /\ Len(t) = Len(s) - 1
      /\ \A j \in 1..(Len(s) - 1) : t[j] = IF j < i THEN s[j] ELSE s[j + 1]
  BY WithoutFacts
<1>2. DOMAIN t = 1..(Len(s) - 1) /\ DOMAIN s = 1..Len(s) /\ Len(s) \in Nat
  BY <1>1
<1> HIDE DEF t
<1>3. NoneTwice(t)
  BY <1>1, <1>2 DEF NoneTwice
<1>4. Entries(t) \subseteq Entries(s) \ {s[i]}
  BY <1>1, <1>2 DEF Entries, NoneTwice
<1>5. ASSUME NEW m \in DOMAIN s, s[m] # s[i]
      PROVE  s[m] \in Entries(t)
  <2>1. CASE m < i
    <3>1. m \in DOMAIN t /\ t[m] = s[m]
      BY <1>1, <1>2, <2>1
    <3>2. QED
      BY <3>1 DEF Entries
  <2>2. CASE m > i
    <3>1. m - 1 \in DOMAIN t /\ t[m - 1] = s[m]
      BY <1>1, <1>2, <2>2
    <3>2. QED
      BY <3>1 DEF Entries
  <2>3. QED
    BY <1>2, <1>5, <2>1, <2>2
<1>6. Entries(s) \ {s[i]} \subseteq Entries(t)
  BY <1>5 DEF Entries
<1>7. QED
  BY <1>3, <1>4, <1>6 DEF t

\* and one that was not in it can be added.
LEMMA EntriesAppended ==
  ASSUME NEW S, NEW s \in Seq(S), NEW a \in S, a \notin Entries(s), NoneTwice(s)
  PROVE  Entries(Append(s, a)) = Entries(s) \cup {a} /\ NoneTwice(Append(s, a))
<1> DEFINE t == Append(s, a)
<1>1. /\ t \in Seq(S) /\ Len(t) = Len(s) + 1 /\ t[Len(s) + 1] = a
      /\ \A j \in 1..Len(s) : t[j] = s[j]
  BY AppendProperties
<1>2. DOMAIN t = 1..(Len(s) + 1) /\ DOMAIN s = 1..Len(s) /\ Len(s) \in Nat
  BY <1>1
<1> HIDE DEF t
<1>3. \A j \in DOMAIN t : j = Len(s) + 1 \/ j \in DOMAIN s
  BY <1>2
<1>4. \A j \in DOMAIN s : j \in DOMAIN t /\ Len(s) + 1 \in DOMAIN t
  BY <1>2
<1>5. Len(s) + 1 \in DOMAIN t
  BY <1>2
<1>6. Entries(t) = Entries(s) \cup {a}
  BY <1>1, <1>2, <1>3, <1>4, <1>5 DEF Entries
<1>7. NoneTwice(t)
  BY <1>1, <1>2, <1>3 DEF NoneTwice, Entries
<1>8. QED
  BY <1>6, <1>7 DEF t

\* Every operation maps a screen to a screen.
LEMMA ScreenTypes ==
  ASSUME NEW u \in ScreenType, NEW a \in Alerts
  PROVE  /\ AfterOpen(u, a) \in ScreenType
         /\ AfterShow(u, a) \in ScreenType
         /\ AfterFinish(u, a) \in ScreenType
         /\ AfterRecall(u, a) \in ScreenType
         /\ AfterLoop(u) \in ScreenType
         /\ \A i \in DOMAIN u.waiting : AfterOpenNext(u, i) \in ScreenType
<1>1. \A x \in ScreenType, b \in Alerts :
        AfterOpen(x, b) \in ScreenType /\ AfterFinish(x, b) \in ScreenType
  BY DEF AfterOpen, AfterFinish, ScreenType
<1>2. AfterShow(u, a) \in ScreenType
  <2> DEFINE known == [u EXCEPT !.seen = @ \cup {a}]
  <2>1. known \in ScreenType
    BY DEF ScreenType
  <2>2. [known EXCEPT !.waiting = Append(@, a)] \in ScreenType
    BY <2>1, AppendProperties DEF ScreenType
  <2>3. QED
    BY <1>1, <2>1, <2>2 DEF AfterShow
<1>3. \A i \in DOMAIN u.waiting :
        [u EXCEPT !.waiting = Without(@, i)] \in ScreenType
  <2>1. u.waiting \in Seq(Alerts)
    BY DEF ScreenType
  <2>2. \A i \in DOMAIN u.waiting : Without(u.waiting, i) \in Seq(Alerts)
    BY <2>1, WithoutFacts
  <2>3. QED
    BY <2>2 DEF ScreenType
<1>4. AfterRecall(u, a) \in ScreenType
  <2> DEFINE P == PlacesOf(u, a)
             dropped == IF P = {} THEN u
                        ELSE [u EXCEPT !.waiting =
                                Without(@, CHOOSE i \in P : TRUE)]
  <2>1. P \subseteq DOMAIN u.waiting
    BY DEF PlacesOf
  <2>2. P # {} => (CHOOSE i \in P : TRUE) \in P
    OBVIOUS
  <2>3. dropped \in ScreenType
    BY <1>3, <2>1, <2>2
  <2>4. QED
    BY <1>1, <2>3 DEF AfterRecall
<1>5. \A i \in DOMAIN u.waiting : AfterOpenNext(u, i) \in ScreenType
  <2>1. \A i \in DOMAIN u.waiting : u.waiting[i] \in Alerts
    BY DEF ScreenType
  <2>2. QED
    BY <1>1, <1>3, <2>1 DEF AfterOpenNext
<1>6. AfterLoop(u) \in ScreenType
  BY DEF AfterLoop, ScreenType
<1>7. QED
  BY <1>1, <1>2, <1>4, <1>5, <1>6

\* What is on a screen or waits for it, and a screen on which all of that is
\* known and nothing waits twice.
Standing(u) == u.open \cup Entries(u.waiting)
Tidy(u) == NoneTwice(u.waiting) /\ Standing(u) \subseteq u.seen

\* Every operation keeps a screen tidy, a recall leaves nothing of its alert,
\* and only a delivery adds one, its own.
LEMMA ScreensStayTidy ==
  ASSUME NEW u \in ScreenType, Tidy(u), NEW a \in Alerts
  PROVE  /\ Tidy(AfterShow(u, a)) /\ Standing(AfterShow(u, a)) \subseteq Standing(u) \cup {a}
         /\ Tidy(AfterRecall(u, a)) /\ Standing(AfterRecall(u, a)) \subseteq Standing(u) \ {a}
         /\ Tidy(AfterFinish(u, a)) /\ Standing(AfterFinish(u, a)) \subseteq Standing(u)
         /\ Tidy(AfterLoop(u)) /\ Standing(AfterLoop(u)) \subseteq Standing(u)
         /\ \A i \in DOMAIN u.waiting :
              /\ Tidy(AfterOpenNext(u, i))
              /\ Standing(AfterOpenNext(u, i)) \subseteq Standing(u)
<1> DEFINE W == Entries(u.waiting)
<1>0. /\ u.waiting \in Seq(Alerts) /\ u.open \in SUBSET Alerts
      /\ NoneTwice(u.waiting) /\ u.open \subseteq u.seen /\ W \subseteq u.seen
  BY DEF ScreenType, Tidy, Standing
<1>1. Tidy(AfterShow(u, a)) /\ Standing(AfterShow(u, a)) \subseteq Standing(u) \cup {a}
  <2> DEFINE v == AfterShow(u, a)
  <2>1. CASE a \in u.seen
    BY <2>1 DEF AfterShow
  <2>2. CASE a \notin u.seen /\ HasRoom(u, a)
    <3>1. /\ v.waiting = u.waiting /\ v.seen = u.seen \cup {a}
          /\ v.open \subseteq u.open \cup {a}
      BY <2>2 DEF AfterShow, AfterOpen, ScreenType
    <3> HIDE DEF v
    <3>2. QED
      BY <1>0, <3>1 DEF Tidy, Standing, v
  <2>3. CASE a \notin u.seen /\ ~HasRoom(u, a)
    <3>1. /\ v.waiting = Append(u.waiting, a) /\ v.seen = u.seen \cup {a}
          /\ v.open = u.open
      BY <2>3 DEF AfterShow, ScreenType
    <3>2. NoneTwice(v.waiting) /\ Entries(v.waiting) = W \cup {a}
      BY <1>0, <2>3, <3>1, EntriesAppended
    <3> HIDE DEF v, W
    <3>3. QED
      BY <1>0, <3>1, <3>2 DEF Tidy, Standing, v, W
  <2>4. QED
    BY <2>1, <2>2, <2>3
<1>2. Tidy(AfterRecall(u, a)) /\ Standing(AfterRecall(u, a)) \subseteq Standing(u) \ {a}
  <2> DEFINE P == PlacesOf(u, a)
             dropped == IF P = {} THEN u
                        ELSE [u EXCEPT !.waiting = Without(@, CHOOSE i \in P : TRUE)]
             v == AfterRecall(u, a)
  <2>1. /\ dropped.open = u.open /\ dropped.seen = u.seen
        /\ NoneTwice(dropped.waiting) /\ Entries(dropped.waiting) = W \ {a}
    <3>1. CASE P = {}
      <4>1. a \notin W /\ dropped = u
        BY <3>1 DEF PlacesOf, Entries
      <4>2. QED
        BY <1>0, <4>1
    <3>2. CASE P # {}
      <4>1. PICK i \in P : i = CHOOSE j \in P : TRUE
        BY <3>2
      <4>2. i \in DOMAIN u.waiting /\ u.waiting[i] = a
        BY DEF PlacesOf
      <4>3. /\ dropped.waiting = Without(u.waiting, i) /\ dropped.open = u.open
            /\ dropped.seen = u.seen
        BY <3>2, <4>1 DEF ScreenType
      <4> HIDE DEF dropped
      <4>4. QED
        BY <1>0, <4>2, <4>3, EntriesWithout
    <3>3. QED
      BY <3>1, <3>2
  <2>2. v = IF a \in u.open THEN AfterFinish(dropped, a) ELSE dropped
    BY DEF AfterRecall
  <2>3. DOMAIN dropped = {"seen", "open", "waiting", "opening"}
    BY DEF ScreenType
  <2> HIDE DEF dropped, v
  <2>4. /\ v.open = u.open \ {a} /\ v.seen = u.seen /\ v.waiting = dropped.waiting
    BY <2>1, <2>2, <2>3 DEF AfterFinish
  <2> HIDE DEF W
  <2>5. QED
    BY <1>0, <2>1, <2>4 DEF Tidy, Standing, v, W
<1>3. Tidy(AfterFinish(u, a)) /\ Standing(AfterFinish(u, a)) \subseteq Standing(u)
  <2> DEFINE v == AfterFinish(u, a)
  <2>1. v.waiting = u.waiting /\ v.seen = u.seen /\ v.open \subseteq u.open
    BY DEF AfterFinish, ScreenType
  <2> HIDE DEF v
  <2>2. QED
    BY <1>0, <2>1 DEF Tidy, Standing, v
<1>4. Tidy(AfterLoop(u)) /\ Standing(AfterLoop(u)) \subseteq Standing(u)
  <2> DEFINE v == AfterLoop(u)
  <2>1. v.waiting = u.waiting /\ v.seen = u.seen /\ v.open = u.open
    BY DEF AfterLoop, ScreenType
  <2> HIDE DEF v
  <2>2. QED
    BY <1>0, <2>1 DEF Tidy, Standing, v
<1>5. ASSUME NEW i \in DOMAIN u.waiting
      PROVE  /\ Tidy(AfterOpenNext(u, i))
             /\ Standing(AfterOpenNext(u, i)) \subseteq Standing(u)
  <2> DEFINE v == AfterOpenNext(u, i)
             b == u.waiting[i]
  <2>1. b \in W
    BY DEF Entries
  <2>2. NoneTwice(Without(u.waiting, i)) /\ Entries(Without(u.waiting, i)) = W \ {b}
    BY <1>0, EntriesWithout
  <2>3. /\ v.waiting = Without(u.waiting, i) /\ v.seen = u.seen
        /\ v.open \subseteq u.open \cup {b}
    BY DEF AfterOpenNext, AfterOpen, ScreenType
  <2> HIDE DEF v, b, W
  <2>4. QED
    BY <1>0, <2>1, <2>2, <2>3 DEF Tidy, Standing, v, W
<1>6. QED
  BY <1>1, <1>2, <1>3, <1>4, <1>5

\* What they report are reports.
LEMMA ReportTypes ==
  ASSUME NEW u, NEW a \in Alerts
  PROVE  /\ OpenReport(a) \in Seq(Reports)
         /\ ShowReport(u, a) \in Seq(Reports)
         /\ RecallReport(u, a) \in Seq(Reports)
         /\ \A k \in Kinds : <<<<a, k>>>> \in Seq(Reports)
<1>1. \A k \in Kinds : <<<<a, k>>>> \in Seq(Reports)
  BY DEF Reports
<1>2. "displayed" \in Kinds /\ "recalled" \in Kinds
  BY DEF Kinds, Closings
<1>3. <<>> \in Seq(Reports)
  OBVIOUS
<1>4. OpenReport(a) \in Seq(Reports)
  BY <1>1, <1>2, <1>3 DEF OpenReport, Displayed
<1>5. ShowReport(u, a) \in Seq(Reports)
  BY <1>1, <1>2, <1>3, <1>4 DEF ShowReport, Displayed
<1>6. RecallReport(u, a) \in Seq(Reports)
  BY <1>1, <1>2, <1>3 DEF RecallReport
<1>7. QED
  BY <1>1, <1>4, <1>5, <1>6
=============================================================================
