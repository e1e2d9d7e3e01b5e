---------------------------- MODULE HistoryProofs ---------------------------
(***************************************************************************)
(* Proofs about History, for any alerts, computers, polls, groups and      *)
(* limits: what trimming keeps, who is handed what, who is told of a       *)
(* recall, how many polls a record counts, and what a crash takes.  A      *)
(* crash makes of the file the list, so what is said of the alerts in the  *)
(* list has to be known of those in the file as well (Saved...).           *)
(***************************************************************************)
EXTENDS History, EngineProofs

-----------------------------------------------------------------------------
(* The texts of rules *)

\* A set of positions in a text has a first and a last one.
LEMMA Ends ==
  ASSUME NEW n \in Nat, NEW I \in SUBSET (1..n), I # {}
  PROVE  Min(I) \in I /\ Max(I) \in I
<1>1. \E x \in I : \A y \in I : x <= y
  BY FirstOf
<1>2. \E x \in I : \A y \in I : x >= y
  BY LastOf
<1>3. QED
  BY <1>1, <1>2 DEF Min, Max

\* A part of a text, from a position to another of it, is a text.
LEMMA PartOfText ==
  ASSUME NEW s \in Seq(Letters), NEW m \in 1..(Len(s) + 1), NEW n \in 0..Len(s)
  PROVE  SubSeq(s, m, n) \in Seq(Letters)
<1>1. \A i \in m..n : s[i] \in Letters
  OBVIOUS
<1>2. m \in Int /\ n \in Int
  OBVIOUS
<1>3. QED
  BY <1>1, <1>2, SubSeqProperties

\* What cleanText leaves of a text is one.
LEMMA CleanTextType ==
  ASSUME NEW s \in Seq(Letters)
  PROVE  CleanText(s, 256) \in Seq(Letters)
<1>1. ASSUME NEW t \in Seq(Letters)
      PROVE  Trim(t) \in Seq(Letters)
  <2> DEFINE I == {i \in DOMAIN t : t[i] # " "}
  <2>1. I \in SUBSET (1..Len(t)) /\ Len(t) \in Nat
    <3>1. DOMAIN t = 1..Len(t) /\ Len(t) \in Nat
      BY LenProperties
    <3>2. I \subseteq DOMAIN t
      OBVIOUS
    <3>3. QED
      BY <3>1, <3>2
  <2>0. Trim(t) = IF I = {} THEN <<>> ELSE SubSeq(t, Min(I), Max(I))
    BY Zenon DEF Trim
  <2> HIDE DEF I
  <2>2. CASE I = {}
    BY <2>0, <2>2
  <2>3. CASE I # {}
    <3>1. Min(I) \in 1..Len(t) /\ Max(I) \in 1..Len(t)
      BY <2>1, <2>3, Ends
    <3>2. SubSeq(t, Min(I), Max(I)) \in Seq(Letters)
      BY <2>1, <3>1, PartOfText
    <3>3. QED
      BY <2>0, <2>3, <3>2
  <2>4. QED
    BY <2>2, <2>3
<1>2. Len(s) > 256 => SubSeq(s, 1, 256) \in Seq(Letters)
  <2>1. Len(s) \in Nat
    OBVIOUS
  <2>2. Len(s) > 256 => 1 \in 1..(Len(s) + 1) /\ 256 \in 0..Len(s)
    BY <2>1
  <2>3. QED
    BY <2>2, PartOfText
<1>3. QED
  BY <1>1, <1>2 DEF CleanText

\* So the rules a group is saved with are rules,
LEMMA CleanRulesType ==
  ASSUME NEW R \in RuleSets
  PROVE  CleanRules(R, 256) \in SUBSET RuleType
<1>1. \A q \in R : CleanText(q.pattern, 256) \in Seq(Letters)
  BY CleanTextType, HistoryAssumption
<1>2. QED
  BY <1>1 DEF CleanRules, RuleType

\* and so are those an alert is sent with.
LEMMA FlattenTargetType ==
  ASSUME NEW t \in Targets, groups \in [Groups -> SUBSET RuleType]
  PROVE  FlattenTarget(t, groups) \in SUBSET RuleType
<1>1. t \in TargetType
  BY HistoryAssumption
<1>2. QED
  BY <1>1 DEF FlattenTarget, TargetType

-----------------------------------------------------------------------------
(* The records of computers *)

\* The handlers whose poll checked in on record r.
PollsOn(r) == {p \in Polls : poll[p].rec = r}

\* A handler has the record of its check-in, and knows whose it is.
PollsKnown ==
  \A p \in Polls :
    /\ poll[p].pc = "idle" <=> poll[p].rec = Nil
    /\ poll[p].rec # Nil =>
         info[poll[p].rec].client \in Clients /\ info[poll[p].rec].facts \in Facts

Known == TypeOK /\ PollsKnown /\ PollingIsHeld

\* How many there are is a number.
LEMMA PollsOnFacts ==
  ASSUME NEW r
  PROVE  IsFiniteSet(PollsOn(r)) /\ Cardinality(PollsOn(r)) \in Nat
<1>1. IsFiniteSet(Polls) /\ PollsOn(r) \in SUBSET Polls
  BY HistoryAssumption DEF PollsOn
<1>2. QED
  BY <1>1, FS_Subset, FS_CardinalityType

\* While a handler is free and a client has no record, there is one that
\* nobody points to: fewer things point than there are records.
LEMMA FreeRecordFacts ==
  ASSUME TypeOK, NEW p \in Polls, poll[p].rec = Nil,
         NEW c \in Clients, clients[c] = Nil
  PROVE  /\ FreeRecord \in Records
         /\ \A x \in Clients : clients[x] # FreeRecord
         /\ \A q \in Polls : poll[q].rec # FreeRecord
<1> DEFINE A == {clients[x] : x \in Clients \ {c}}
           B == {poll[q].rec : q \in Polls \ {p}}
<1>1. IsFiniteSet(A) /\ Cardinality(A) <= Cardinality(Clients) - 1
  <2> DEFINE f == [x \in Clients \ {c} |-> clients[x]]
  <2>1. f \in Surjection(Clients \ {c}, A)
    BY DEF Surjection
  <2>2. /\ IsFiniteSet(Clients \ {c})
        /\ Cardinality(Clients \ {c}) = Cardinality(Clients) - 1
    BY FS_RemoveElement, HistoryAssumption
  <2> HIDE DEF A, f
  <2>3. QED
    BY <2>1, <2>2, FS_Surjection
<1>2. IsFiniteSet(B) /\ Cardinality(B) <= Cardinality(Polls) - 1
  <2> DEFINE f == [q \in Polls \ {p} |-> poll[q].rec]
  <2>1. f \in Surjection(Polls \ {p}, B)
    BY DEF Surjection
  <2>2. /\ IsFiniteSet(Polls \ {p})
        /\ Cardinality(Polls \ {p}) = Cardinality(Polls) - 1
    BY FS_RemoveElement, HistoryAssumption
  <2> HIDE DEF B, f
  <2>3. QED
    BY <2>1, <2>2, FS_Surjection
<1> HIDE DEF A, B
<1>3. \E r \in Records : r \notin A \cup B
  <2>1. SUFFICES ASSUME Records \subseteq A \cup B PROVE FALSE
    OBVIOUS
  <2>2. /\ IsFiniteSet(A \cup B)
        /\ Cardinality(A \cup B) = Cardinality(A) + Cardinality(B) - Cardinality(A \cap B)
    BY <1>1, <1>2, FS_Union
  <2>3. Cardinality(A \cap B) \in Nat
    <3>1. IsFiniteSet(A \cap B)
      BY <1>1, FS_Subset
    <3>2. QED
      BY <3>1, FS_CardinalityType
  <2>4. Cardinality(Records) <= Cardinality(A \cup B)
    BY <2>1, <2>2, FS_Subset
  <2>5. /\ Cardinality(Clients) \in Nat /\ Cardinality(Polls) \in Nat
        /\ Cardinality(A) \in Nat /\ Cardinality(B) \in Nat
        /\ Cardinality(Records) \in Nat
    BY <1>1, <1>2, FS_CardinalityType, HistoryAssumption
  <2>6. Cardinality(Records) >= Cardinality(Clients) + Cardinality(Polls)
    BY HistoryAssumption
  <2>7. QED
    BY <1>1, <1>2, <2>2, <2>3, <2>4, <2>5, <2>6
<1>4. PICK r \in Records : r \notin A \cup B
  BY <1>3
<1>5. /\ \A x \in Clients : clients[x] # r
      /\ \A q \in Polls : poll[q].rec # r
  BY <1>4, HistoryAssumption DEF A, B
<1>6. QED
  BY <1>4, <1>5 DEF FreeRecord

\* What a check-in does to the records: the client has one that counts the
\* polls on it, the new one included.
LEMMA CheckInFacts ==
  ASSUME Known, NEW p \in Polls, NEW c \in Clients, NEW f \in Facts, NEW batch,
         CheckIn(p, c, f, batch)
  PROVE  \E r \in Records :
           /\ clients[c] \in {Nil, r}
           /\ clients[c] = Nil =>
                /\ \A x \in Clients : clients[x] # r
                /\ \A q \in Polls : poll[q].rec # r
           /\ clients' = [clients EXCEPT ![c] = r]
           /\ info' \in [Records -> InfoType]
           /\ \A x \in Records \ {r} : info'[x] = info[x]
           /\ info'[r].client = c /\ info'[r].facts = f
           /\ info'[r].polling = Cardinality(PollsOn(r)) + 1
           /\ poll' = [poll EXCEPT ![p] = [pc |-> "look", rec |-> r]]
<1> DEFINE r == IF clients[c] = Nil THEN FreeRecord ELSE clients[c]
           n == IF clients[c] = Nil THEN 1 ELSE info[r].polling + 1
<1>1. poll[p].rec = Nil
  BY DEF Known, PollsKnown, CheckIn
<1>2. /\ r \in Records
      /\ clients[c] = Nil => /\ \A x \in Clients : clients[x] # r
                             /\ \A q \in Polls : poll[q].rec # r
  BY <1>1, FreeRecordFacts DEF Known, TypeOK
<1>3. n = Cardinality(PollsOn(r)) + 1
  <2>1. CASE clients[c] = Nil
    <3>1. PollsOn(r) = {}
      BY <1>2, <2>1 DEF PollsOn
    <3>2. QED
      BY <2>1, <3>1, FS_EmptySet
  <2>2. CASE clients[c] # Nil
    <3>1. info[r].polling = Cardinality(PollsOn(r))
      BY <1>2, <2>2 DEF Known, PollingIsHeld, PollsOn
    <3>2. QED
      BY <2>2, <3>1
  <2>3. QED
    BY <2>1, <2>2
<1>4. /\ clients' = [clients EXCEPT ![c] = r]
      /\ poll' = [poll EXCEPT ![p] = [pc |-> "look", rec |-> r]]
  BY DEF CheckIn
<1>5. /\ info' \in [Records -> InfoType]
      /\ \A x \in Records \ {r} : info'[x] = info[x]
      /\ info'[r].client = c /\ info'[r].facts = f /\ info'[r].polling = n
  <2> DEFINE m == IF clients[c] = Nil THEN 1 ELSE info[r].polling + 1
             x == info[r]
             y == Touched(r, c, f)
  <2>1. x \in InfoType /\ info \in [Records -> InfoType]
    BY <1>2 DEF Known, TypeOK
  <2>2. info' = [[info EXCEPT ![r] = y] EXCEPT ![r].polling =
                   IF clients[c] = Nil THEN 1 ELSE @ + 1]
    BY DEF CheckIn
  <2>3. y = [x EXCEPT !.client = c, !.facts = f, !.seen = "now"]
    BY DEF Touched
  <2>4. r \in Records /\ n \in Nat
    BY <1>2, <1>3, PollsOnFacts
  <2>5. n = IF clients[c] = Nil THEN 1 ELSE x.polling + 1
    OBVIOUS
  <2> HIDE DEF r, n, m, x, y
  <2>6. /\ y \in InfoType /\ y.polling = x.polling
        /\ y.client = c /\ y.facts = f
    BY <2>1, <2>3 DEF InfoType
  <2>7. info' = [info EXCEPT ![r] = [y EXCEPT !.polling = n]]
    BY <2>1, <2>2, <2>4, <2>5, <2>6
  <2>8. /\ [y EXCEPT !.polling = n] \in InfoType
        /\ [y EXCEPT !.polling = n].client = c
        /\ [y EXCEPT !.polling = n].facts = f
        /\ [y EXCEPT !.polling = n].polling = n
    BY <2>4, <2>6 DEF InfoType
  <2>9. QED
    BY <2>1, <2>4, <2>7, <2>8
<1> HIDE DEF r, n
<1>6. clients[c] \in {Nil, r}
  BY DEF r
<1>7. QED
  BY <1>2, <1>3, <1>4, <1>5, <1>6

\* What the end of a poll does to them.
LEMMA EndPollFacts ==
  ASSUME Known, NEW p \in Polls, EndPoll(p)
  PROVE  LET r == poll[p].rec
             kept == \/ \E c \in Clients : clients[c] = r
                     \/ \E q \in Polls \ {p} : poll[q].rec = r
         IN /\ r \in Records
            /\ info[r].polling = Cardinality(PollsOn(r))
            /\ Cardinality(PollsOn(r)) \in Nat \ {0}
            /\ poll' = [poll EXCEPT ![p] = NoPoll]
            /\ info' \in [Records -> InfoType]
            /\ \A x \in Records \ {r} : info'[x] = info[x]
            /\ kept => /\ info'[r].client = info[r].client
                       /\ info'[r].facts = info[r].facts
                       /\ info'[r].polling = Cardinality(PollsOn(r)) - 1
<1> DEFINE r == poll[p].rec
<1>1. r \in Records
  BY DEF Known, PollsKnown, TypeOK, EndPoll
<1>2. info[r].polling = Cardinality(PollsOn(r))
  BY <1>1 DEF Known, PollingIsHeld, PollsOn
<1>3. Cardinality(PollsOn(r)) \in Nat \ {0}
  <2>1. p \in PollsOn(r)
    BY DEF PollsOn
  <2>2. QED
    BY <2>1, PollsOnFacts, FS_EmptySet
<1>4. poll' = [poll EXCEPT ![p] = NoPoll]
  BY DEF EndPoll
<1>5. info \in [Records -> InfoType] /\ NoInfo \in InfoType
  BY DEF Known, TypeOK, NoInfo, InfoType
<1> DEFINE kept == \/ \E c \in Clients : clients[c] = r
                   \/ \E q \in Polls \ {p} : poll[q].rec = r
           x == info[r]
           n == Cardinality(PollsOn(r)) - 1
           y == [x EXCEPT !.polling = n, !.seen = "now"]
<1>6. info' = [info EXCEPT ![r] = IF kept THEN y ELSE NoInfo]
  <2>1. info' = [info EXCEPT ![r] =
          IF kept THEN [info[r] EXCEPT !.polling = info[r].polling - 1,
                                       !.seen = "now"]
          ELSE NoInfo]
    BY DEF EndPoll
  <2>2. QED
    BY <1>2, <2>1
<1>7. x \in InfoType /\ n \in Nat
  BY <1>1, <1>3, <1>5
<1>8. /\ y \in InfoType /\ y.polling = n
      /\ y.client = x.client /\ y.facts = x.facts
  <2> HIDE DEF x, n
  <2>1. QED
    BY <1>7 DEF InfoType
<1> HIDE DEF r, kept, y
<1>9. QED
  BY <1>1, <1>2, <1>3, <1>4, <1>5, <1>6, <1>8 DEF r, kept

-----------------------------------------------------------------------------
(* Types *)

\* No records, and a new alert, have their types; and the totals of a list of
\* records are numbers, whatever the records are.
LEMMA AlertFacts ==
  /\ NoRecords \in [Clients -> DeliveryType] /\ NoAlert \in AlertType
  /\ \A D : /\ Cardinality({c \in Clients : D[c].made}) \in Nat
            /\ Cardinality({c \in Clients : D[c].displayed}) \in Nat
            /\ Cardinality({c \in Clients : D[c].acked}) \in Nat
<1>1. NoRecords \in [Clients -> DeliveryType]
  BY DEF NoRecords, NoDelivery, DeliveryType
<1>2. NoAlert \in AlertType
  BY <1>1 DEF NoAlert, AlertType
<1>3. ASSUME NEW S \in SUBSET Clients
      PROVE  Cardinality(S) \in Nat
  BY FS_Subset, FS_CardinalityType, HistoryAssumption
<1>4. QED
  BY <1>1, <1>2, <1>3

\* So are the totals of an alert,
LEMMA TotalsAreTotals ==
  ASSUME NEW a \in AlertType
  PROVE  Totals(a) \in TotalsType
<1>1. a.archived # Nil => a.archived \in TotalsType
  BY DEF AlertType
<1>2. QED
  BY <1>1, AlertFacts DEF Totals, TotalsType

\* and what the steps make of an alert is one.
LEMMA AlertTypes ==
  ASSUME NEW a \in AlertType
  PROVE  /\ [a EXCEPT !.recalled = TRUE] \in AlertType
         /\ [a EXCEPT !.over = TRUE] \in AlertType
         /\ [a EXCEPT !.tooOld = TRUE] \in AlertType
         /\ \A D \in [Clients -> DeliveryType] : [a EXCEPT !.deliv = D] \in AlertType
         /\ Archive(a) \in AlertType
         /\ Loaded(a) \in AlertType
<1>1. /\ [a EXCEPT !.recalled = TRUE] \in AlertType
      /\ [a EXCEPT !.over = TRUE] \in AlertType
      /\ [a EXCEPT !.tooOld = TRUE] \in AlertType
  BY DEF AlertType
<1>2. \A D \in [Clients -> DeliveryType] \cup {Nil} :
        [a EXCEPT !.deliv = D] \in AlertType
  BY DEF AlertType
<1>3. ASSUME NEW t \in TotalsType
      PROVE  [a EXCEPT !.archived = t, !.deliv = Nil] \in AlertType
  BY DEF AlertType
<1>4. Archive(a) \in AlertType
  BY <1>3, TotalsAreTotals DEF Archive
<1>5. Loaded(a) \in AlertType
  <2> DEFINE read == IF a.deliv = NoRecords THEN Nil ELSE a.deliv
             D == IF read = Nil /\ a.archived = Nil THEN NoRecords ELSE read
  <2>1. a.deliv \in [Clients -> DeliveryType] \cup {Nil}
    BY DEF AlertType
  <2>2. D \in [Clients -> DeliveryType] \cup {Nil}
    BY <2>1, AlertFacts
  <2>3. Loaded(a) = [a EXCEPT !.deliv = D]
    BY DEF Loaded
  <2>4. QED
    BY <1>2, <2>2, <2>3
<1>6. QED
  BY <1>1, <1>2, <1>4, <1>5

\* What a check-in makes of the alerts,
LEMMA CheckInAlerts ==
  ASSUME TypeOK, NEW p \in Polls, NEW c \in Clients, NEW f \in Facts,
         NEW batch \in Batches(c),
         CheckIn(p, c, f, batch), NEW i \in Alerts
  PROVE  LET a == alert[i]
             b == alert'[i]
         IN /\ b \in AlertType
            /\ a.deliv = Nil => b = a
            /\ a.deliv # Nil =>
                 /\ a.deliv \in [Clients -> DeliveryType]
                 /\ b.deliv \in [Clients -> DeliveryType]
                 /\ b.deliv[c] = AfterBatch(a.deliv[c], i, batch)
                 /\ \A x \in Clients \ {c} : b.deliv[x] = a.deliv[x]
            /\ b.archived = a.archived /\ b.all = a.all /\ b.rules = a.rules
            /\ b.over = a.over /\ b.recalled = a.recalled /\ b.tooOld = a.tooOld
<1> DEFINE a == alert[i]
<1>1. a \in AlertType
  BY DEF TypeOK
<1>2. alert'[i] = IF a.deliv = Nil THEN a
                  ELSE [a EXCEPT !.deliv[c] = AfterBatch(@, i, batch)]
  BY DEF CheckIn
<1> HIDE DEF a
<1>3. CASE a.deliv = Nil
  BY <1>1, <1>2, <1>3 DEF a
<1>4. CASE a.deliv # Nil
  <2> DEFINE e == AfterBatch(a.deliv[c], i, batch)
             D == [a.deliv EXCEPT ![c] = e]
  <2>1. a.deliv \in [Clients -> DeliveryType]
    BY <1>1, <1>4 DEF AlertType
  <2>2. e \in DeliveryType
    BY <2>1, DeliveryTypes
  <2>3. alert'[i] = [a EXCEPT !.deliv = D]
    BY <1>1, <1>2, <1>4 DEF AlertType
  <2> HIDE DEF e
  <2>4. /\ D \in [Clients -> DeliveryType] /\ D[c] = e
        /\ \A x \in Clients \ {c} : D[x] = a.deliv[x]
    BY <2>1, <2>2
  <2> HIDE DEF D
  <2>5. LET b == [a EXCEPT !.deliv = D] IN
          /\ b \in AlertType /\ b.deliv = D
          /\ b.archived = a.archived /\ b.all = a.all /\ b.rules = a.rules
          /\ b.over = a.over /\ b.recalled = a.recalled /\ b.tooOld = a.tooOld
    BY <1>1, <2>4 DEF AlertType
  <2>6. QED
    BY <1>4, <2>1, <2>3, <2>4, <2>5 DEF a, e
<1>5. QED
  BY <1>3, <1>4

\* and what a look makes of them.
LEMMA LookAlerts ==
  ASSUME TypeOK, NEW c \in Clients, NEW i \in Alerts, alert[i].deliv # Nil,
         NEW e \in DeliveryType
  PROVE  LET a == alert[i]
             b == [a EXCEPT !.deliv[c] = e]
         IN /\ b \in AlertType
            /\ a.deliv \in [Clients -> DeliveryType]
            /\ b.deliv \in [Clients -> DeliveryType] /\ b.deliv[c] = e
            /\ \A x \in Clients \ {c} : b.deliv[x] = a.deliv[x]
            /\ b.archived = a.archived /\ b.all = a.all /\ b.rules = a.rules
            /\ b.over = a.over /\ b.recalled = a.recalled /\ b.tooOld = a.tooOld
<1> DEFINE a == alert[i]
           D == [a.deliv EXCEPT ![c] = e]
<1>1. a \in AlertType
  BY DEF TypeOK
<1>2. a.deliv \in [Clients -> DeliveryType]
  BY <1>1 DEF AlertType
<1> HIDE DEF a
<1>3. D \in [Clients -> DeliveryType] /\ D[c] = e
      /\ \A x \in Clients \ {c} : D[x] = a.deliv[x]
  BY <1>2
<1>4. [a EXCEPT !.deliv[c] = e] = [a EXCEPT !.deliv = D]
  BY <1>1 DEF AlertType
<1> HIDE DEF D
<1>5. LET b == [a EXCEPT !.deliv = D] IN
        /\ b \in AlertType /\ b.deliv = D
        /\ b.archived = a.archived /\ b.all = a.all /\ b.rules = a.rules
        /\ b.over = a.over /\ b.recalled = a.recalled /\ b.tooOld = a.tooOld
  BY <1>1, <1>3 DEF AlertType
<1>6. QED
  BY <1>2, <1>3, <1>4, <1>5 DEF a

\* What waking the polls leaves alone, and what looking and ending does.
LEMMA PollFacts ==
  ASSUME TypeOK
  PROVE  /\ AllAwake \in [Polls -> [pc : {"idle", "look", "asleep", "end"},
                                    rec : Records \cup {Nil}]]
         /\ \A p \in Polls :
              /\ AllAwake[p].rec = poll[p].rec
              /\ AllAwake[p].pc = IF poll[p].pc = "asleep" THEN "look" ELSE poll[p].pc
         /\ \A p \in Polls : \A s \in {"asleep", "end"} :
              LET new == [poll EXCEPT ![p].pc = s] IN
                /\ new \in [Polls -> [pc : {"idle", "look", "asleep", "end"},
                                      rec : Records \cup {Nil}]]
                /\ new[p].pc = s
                /\ \A q \in Polls : new[q].rec = poll[q].rec
                /\ \A q \in Polls \ {p} : new[q] = poll[q]
  BY DEF TypeOK, AllAwake

\* What a look is about.
LEMMA LookFacts ==
  ASSUME Known, NEW p \in Polls, Look(p)
  PROVE  LET r == poll[p].rec
             c == info[r].client
         IN /\ r \in Records /\ c \in Clients /\ info[r].facts \in Facts
            /\ \A i \in ToSend(r) : i \in list /\ alert[i].deliv # Nil
            /\ \A i \in ToRecall(r) : i \in list /\ alert[i].deliv # Nil
            /\ \A i \in Alerts : alert[i].deliv # Nil => alert[i].deliv[c] \in DeliveryType
            /\ ToSend(r) \cap ToRecall(r) = {}
<1>1. poll[p].rec \in Records
  BY DEF Known, TypeOK, PollsKnown, Look
<1>2. info[poll[p].rec].client \in Clients /\ info[poll[p].rec].facts \in Facts
  BY <1>1, HistoryAssumption DEF Known, PollsKnown
<1>3. \A i \in Alerts : alert[i].deliv # Nil => alert[i].deliv \in [Clients -> DeliveryType]
  BY DEF Known, TypeOK, AlertType
<1>4. QED
  BY <1>1, <1>2, <1>3 DEF ToSend, ToRecall, Active

\* What it makes of each alert.
LEMMA LookAlert ==
  ASSUME Known, NEW p \in Polls, Look(p), NEW i \in Alerts
  PROVE  LET r == poll[p].rec
             c == info[r].client
             a == alert[i]
             b == alert'[i]
         IN /\ b \in AlertType
            /\ i \notin ToSend(r) \cup ToRecall(r) => b = a
            /\ i \in ToSend(r) => b.deliv[c] = AfterSend(a.deliv[c], 1)
            /\ i \in ToRecall(r) => b.deliv[c] = AfterRecallSent(a.deliv[c])
            /\ i \in ToSend(r) \cup ToRecall(r) =>
                 /\ a.deliv # Nil
                 /\ b.deliv \in [Clients -> DeliveryType]
                 /\ \A x \in Clients \ {c} : b.deliv[x] = a.deliv[x]
            /\ b.archived = a.archived /\ b.all = a.all /\ b.rules = a.rules
            /\ b.over = a.over /\ b.recalled = a.recalled /\ b.tooOld = a.tooOld
<1> DEFINE r == poll[p].rec
           c == info[r].client
<1>1. /\ r \in Records /\ c \in Clients
      /\ \A j \in ToSend(r) \cup ToRecall(r) : alert[j].deliv # Nil
      /\ \A j \in Alerts : alert[j].deliv # Nil => alert[j].deliv[c] \in DeliveryType
      /\ ToSend(r) \cap ToRecall(r) = {}
  BY LookFacts
<1>2. alert'[i] =
        IF i \in ToSend(r) THEN [alert[i] EXCEPT !.deliv[c] = AfterSend(@, 1)]
        ELSE IF i \in ToRecall(r) THEN [alert[i] EXCEPT !.deliv[c] = AfterRecallSent(@)]
        ELSE alert[i]
  BY DEF Look
<1>3. alert[i] \in AlertType
  BY DEF Known, TypeOK
<1> HIDE DEF r, c
<1>4. CASE i \in ToSend(r)
  <2> DEFINE e == AfterSend(alert[i].deliv[c], 1)
  <2>1. e \in DeliveryType
    BY <1>1, <1>4, DeliveryTypes
  <2>2. alert'[i] = [alert[i] EXCEPT !.deliv[c] = e]
    BY <1>2, <1>3, <1>4 DEF AlertType
  <2>3. c \in Clients /\ alert[i].deliv # Nil /\ TypeOK /\ i \notin ToRecall(r)
    BY <1>1, <1>4 DEF Known
  <2> HIDE DEF e
  <2>4. LET a == alert[i]
            b == [a EXCEPT !.deliv[c] = e]
        IN /\ b \in AlertType
           /\ b.deliv \in [Clients -> DeliveryType] /\ b.deliv[c] = e
           /\ \A x \in Clients \ {c} : b.deliv[x] = a.deliv[x]
           /\ b.archived = a.archived /\ b.all = a.all /\ b.rules = a.rules
           /\ b.over = a.over /\ b.recalled = a.recalled /\ b.tooOld = a.tooOld
    BY <2>1, <2>3, LookAlerts
  <2>5. QED
    BY <1>4, <2>2, <2>3, <2>4 DEF r, c, e
<1>5. CASE i \in ToRecall(r)
  <2> DEFINE e == AfterRecallSent(alert[i].deliv[c])
  <2>1. e \in DeliveryType
    BY <1>1, <1>5, DeliveryTypes
  <2>2. alert'[i] = [alert[i] EXCEPT !.deliv[c] = e]
    BY <1>1, <1>2, <1>3, <1>5 DEF AlertType
  <2>3. c \in Clients /\ alert[i].deliv # Nil /\ TypeOK /\ i \notin ToSend(r)
    BY <1>1, <1>5 DEF Known
  <2> HIDE DEF e
  <2>4. LET a == alert[i]
            b == [a EXCEPT !.deliv[c] = e]
        IN /\ b \in AlertType
           /\ b.deliv \in [Clients -> DeliveryType] /\ b.deliv[c] = e
           /\ \A x \in Clients \ {c} : b.deliv[x] = a.deliv[x]
           /\ b.archived = a.archived /\ b.all = a.all /\ b.rules = a.rules
           /\ b.over = a.over /\ b.recalled = a.recalled /\ b.tooOld = a.tooOld
    BY <2>1, <2>3, LookAlerts
  <2>5. QED
    BY <1>5, <2>2, <2>3, <2>4 DEF r, c, e
<1>6. CASE i \notin ToSend(r) \cup ToRecall(r)
  BY <1>2, <1>3, <1>6 DEF r, c
<1>7. QED
  BY <1>4, <1>5, <1>6

\* The alerts of which trimming leaves nothing, or only the totals.
LEMMA CompactAlert ==
  ASSUME TypeOK, Compact, NEW i \in Alerts
  PROVE  /\ alert'[i] \in AlertType
         /\ i \in list' => alert'[i] \in {alert[i], Archive(alert[i])}
<1>1. /\ alert[i] \in AlertType /\ NoAlert \in AlertType
      /\ Archive(alert[i]) \in AlertType
  BY AlertFacts, AlertTypes DEF TypeOK
<1>2. \/ i \notin list' /\ alert'[i] = NoAlert
      \/ alert'[i] = alert[i]
      \/ alert'[i] = Archive(alert[i])
  BY DEF Compact
<1>3. QED
  BY <1>1, <1>2

\* A start has the records of the computers it knows, and no poll on them.
LEMMA RestartRecords ==
  ASSUME TypeOK, Restart
  PROVE  info' \in [Records -> InfoType] /\ \A r \in Records : info'[r].polling = 0
<1>1. \A x \in InfoType :
        [x EXCEPT !.polling = 0] \in InfoType /\ [x EXCEPT !.polling = 0].polling = 0
  BY DEF InfoType
<1>2. NoInfo \in InfoType /\ NoInfo.polling = 0
  BY DEF InfoType, NoInfo
<1>3. \A r \in Records : info[r] \in InfoType
  BY DEF TypeOK
<1>4. info' = [r \in Records |-> IF \E c \in Clients : clients'[c] = r
                                   THEN [info[r] EXCEPT !.polling = 0] ELSE NoInfo]
  BY DEF Restart
<1>5. QED
  BY <1>1, <1>2, <1>3, <1>4

\* Time marks the alerts of the file as well, and leaves all else in it alone.
LEMMA SavedMarked ==
  ASSUME TypeOK, NEW j \in Alerts, Expire(j) \/ RecallAges(j)
  PROVE  /\ saved' \in [list : SUBSET Alerts, alert : [Alerts -> AlertType]]
         /\ saved'.list = saved.list
         /\ \A i \in Alerts :
              LET a == saved.alert[i]
                  b == saved'.alert[i]
              IN /\ b.all = a.all /\ b.rules = a.rules
                 /\ b.deliv = a.deliv /\ b.archived = a.archived
                 /\ b.recalled = a.recalled /\ (a.over => b.over)
<1> DEFINE A == saved.alert
           Marked(B) ==
             /\ saved' = [list |-> saved.list, alert |-> B]
             /\ B \in [Alerts -> AlertType]
             /\ \A i \in Alerts :
                  /\ B[i].all = A[i].all /\ B[i].rules = A[i].rules
                  /\ B[i].deliv = A[i].deliv /\ B[i].archived = A[i].archived
                  /\ B[i].recalled = A[i].recalled /\ (A[i].over => B[i].over)
<1>1. /\ saved = [list |-> saved.list, alert |-> A]
      /\ saved.list \in SUBSET Alerts /\ A \in [Alerts -> AlertType]
  BY DEF TypeOK
<1>2. \E B : Marked(B)
  <2>1. CASE saved' = saved
    <3>1. Marked(A)
      BY <1>1, <2>1
    <3>2. QED
      BY <3>1
  <2>2. CASE saved' = [saved EXCEPT !.alert[j].over = TRUE]
    <3> DEFINE a == [A[j] EXCEPT !.over = TRUE]
               B == [A EXCEPT ![j] = a]
    <3>1. saved' = [list |-> saved.list, alert |-> B]
      BY <1>1, <2>2
    <3>2. /\ a \in AlertType
          /\ a.all = A[j].all /\ a.rules = A[j].rules
          /\ a.deliv = A[j].deliv /\ a.archived = A[j].archived
          /\ a.recalled = A[j].recalled /\ a.over
      BY <1>1 DEF AlertType
    <3> HIDE DEF a, A
    <3>3. Marked(B)
      BY <1>1, <3>1, <3>2
    <3>4. QED
      BY <3>3
  <2>3. CASE saved' = [saved EXCEPT !.alert[j].tooOld = TRUE]
    <3> DEFINE a == [A[j] EXCEPT !.tooOld = TRUE]
               B == [A EXCEPT ![j] = a]
    <3>1. saved' = [list |-> saved.list, alert |-> B]
      BY <1>1, <2>3
    <3>2. /\ a \in AlertType
          /\ a.all = A[j].all /\ a.rules = A[j].rules
          /\ a.deliv = A[j].deliv /\ a.archived = A[j].archived
          /\ a.recalled = A[j].recalled /\ a.over = A[j].over
      BY <1>1 DEF AlertType
    <3> HIDE DEF a, A
    <3>3. Marked(B)
      BY <1>1, <3>1, <3>2
    <3>4. QED
      BY <3>3
  <2>4. QED
    BY <2>1, <2>2, <2>3 DEF Expire, RecallAges
<1>3. PICK B : Marked(B)
  BY <1>2
<1>4. saved'.list = saved.list /\ saved'.alert = B
  BY <1>3
<1>5. saved' \in [list : SUBSET Alerts, alert : [Alerts -> AlertType]]
  BY <1>1, <1>3
<1>6. QED
  BY <1>3, <1>4, <1>5

\* Every step keeps the types.
LEMMA TypesKept == Known /\ Next => TypeOK'
<1> SUFFICES ASSUME Known, Next PROVE TypeOK'
  OBVIOUS
<1> USE DEF storeVars, history
<1>0. TypeOK /\ alert \in [Alerts -> AlertType]
  BY DEF Known, TypeOK
<1>1. ASSUME NEW g \in Groups, NEW R \in RuleSets, SaveGroup(g, R)
      PROVE  TypeOK'
  BY <1>0, <1>1, CleanRulesType DEF SaveGroup, TypeOK
<1>2. ASSUME NEW g \in Groups, DeleteGroup(g)
      PROVE  TypeOK'
  BY <1>0, <1>2 DEF DeleteGroup, TypeOK
<1>3. ASSUME NEW t \in Targets, Send(t)
      PROVE  TypeOK'
  <2> DEFINE R == FlattenTarget(t, groups)
             new == [NoAlert EXCEPT !.all = t.all, !.rules = R]
  <2>1. R \in SUBSET RuleType /\ t.all \in BOOLEAN
    BY <1>0, FlattenTargetType, HistoryAssumption DEF TypeOK, TargetType
  <2>2. new \in AlertType
    <3> HIDE DEF R
    <3>1. QED
      BY <2>1, AlertFacts DEF AlertType
  <2>3. alert' \in [Alerts -> AlertType]
    <3>1. alert' = [alert EXCEPT ![sent + 1] = new]
      BY <1>3 DEF Send
    <3> HIDE DEF new
    <3>2. QED
      BY <1>0, <2>2, <3>1
  <2>4. meant' \in [Alerts -> SUBSET Facts]
    BY <1>0, <1>3 DEF Send, TypeOK, Means
  <2>5. poll' \in [Polls -> [pc : {"idle", "look", "asleep", "end"},
                             rec : Records \cup {Nil}]]
    BY <1>0, <1>3, PollFacts DEF Send
  <2>6. sent' \in Nat /\ list' \subseteq Alerts /\ dirty' \in BOOLEAN
    BY <1>0, <1>3 DEF Send, TypeOK
  <2>7. QED
    BY <1>0, <1>3, <2>3, <2>4, <2>5, <2>6 DEF Send, TypeOK
<1>4. ASSUME NEW i \in Alerts, Recall(i)
      PROVE  TypeOK'
  <2>1. alert' \in [Alerts -> AlertType]
    BY <1>0, <1>4, AlertTypes DEF Recall
  <2>2. poll' \in [Polls -> [pc : {"idle", "look", "asleep", "end"},
                             rec : Records \cup {Nil}]]
    BY <1>0, <1>4, PollFacts DEF Recall
  <2>3. QED
    BY <1>0, <1>4, <2>1, <2>2 DEF Recall, TypeOK
<1>5. ASSUME NEW c \in Clients, Forget(c)
      PROVE  TypeOK'
  BY <1>0, <1>5 DEF Forget, TypeOK
<1>6. ASSUME NEW i \in Alerts, Expire(i) \/ RecallAges(i)
      PROVE  TypeOK'
  <2>1. alert' \in [Alerts -> AlertType]
    BY <1>0, <1>6, AlertTypes DEF Expire, RecallAges
  <2>2. saved' \in [list : SUBSET Alerts, alert : [Alerts -> AlertType]]
    BY <1>0, <1>6, SavedMarked
  <2>3. QED
    BY <1>0, <1>6, <2>1, <2>2 DEF Expire, RecallAges, TypeOK
<1>7. ASSUME NEW c \in Clients, SeenAges(c)
      PROVE  TypeOK'
  <2>1. clients[c] \in Records /\ info[clients[c]] \in InfoType
    BY <1>0, <1>7 DEF SeenAges, TypeOK
  <2>2. info' \in [Records -> InfoType]
    BY <1>0, <1>7, <2>1 DEF SeenAges, TypeOK, InfoType
  <2>3. QED
    BY <1>0, <1>7, <2>2 DEF SeenAges, TypeOK
<1>8. ASSUME NEW p \in Polls, NEW c \in Clients, NEW f \in Facts,
             NEW batch \in Batches(c), CheckIn(p, c, f, batch)
      PROVE  TypeOK'
  <2>1. /\ clients' \in [Clients -> Records \cup {Nil}]
        /\ info' \in [Records -> InfoType]
        /\ poll' \in [Polls -> [pc : {"idle", "look", "asleep", "end"},
                                rec : Records \cup {Nil}]]
    <3>1. PICK r \in Records :
            /\ clients' = [clients EXCEPT ![c] = r]
            /\ info' \in [Records -> InfoType]
            /\ poll' = [poll EXCEPT ![p] = [pc |-> "look", rec |-> r]]
      BY <1>8, CheckInFacts
    <3>2. QED
      BY <1>0, <3>1 DEF TypeOK
  <2>2. alert' \in [Alerts -> AlertType]
    BY <1>0, <1>8, CheckInAlerts DEF CheckIn
  <2>3. ended' \subseteq Alerts \X Clients
    <3>1. \A j \in DOMAIN batch : batch[j][1] \in Alerts
      BY <1>0 DEF Batches, TypeOK
    <3>2. QED
      BY <1>0, <1>8, <3>1 DEF CheckIn, TypeOK
  <2>4. dirty' \in BOOLEAN
    BY <1>0, <1>8 DEF CheckIn, TypeOK
  <2>5. QED
    BY <1>0, <1>8, <2>1, <2>2, <2>3, <2>4 DEF CheckIn, TypeOK
<1>9. ASSUME NEW p \in Polls, Look(p)
      PROVE  TypeOK'
  <2> DEFINE r == poll[p].rec
             c == info[r].client
  <2>1. /\ c \in Clients /\ info[r].facts \in Facts
        /\ ToSend(r) \subseteq Alerts /\ ToRecall(r) \subseteq Alerts
    BY <1>0, <1>9, LookFacts DEF TypeOK
  <2>2. alert' \in [Alerts -> AlertType]
    BY <1>9, LookAlert DEF Look
  <2>3. poll' \in [Polls -> [pc : {"idle", "look", "asleep", "end"},
                             rec : Records \cup {Nil}]]
    BY <1>0, <1>9, PollFacts DEF Look
  <2>4. /\ handed' \subseteq [alert : Alerts, client : Clients, facts : Facts]
        /\ told' \subseteq Alerts \X Clients /\ ended' \subseteq Alerts \X Clients
        /\ unrecorded' \subseteq Alerts \X Clients
    <3> HIDE DEF c
    <3>1. QED
      BY <1>0, <1>9, <2>1 DEF Look, TypeOK, Pairs, c
  <2>5. dirty' \in BOOLEAN
    BY <1>0, <1>9 DEF Look, TypeOK
  <2>6. QED
    BY <1>0, <1>9, <2>2, <2>3, <2>4, <2>5 DEF Look, TypeOK
<1>10. ASSUME NEW p \in Polls, HoldOver(p)
       PROVE  TypeOK'
  BY <1>0, <1>10, PollFacts DEF HoldOver, TypeOK
<1>11. ASSUME NEW p \in Polls, EndPoll(p)
       PROVE  TypeOK'
  <2>1. /\ info' \in [Records -> InfoType]
        /\ poll' \in [Polls -> [pc : {"idle", "look", "asleep", "end"},
                                rec : Records \cup {Nil}]]
    BY <1>0, <1>11, EndPollFacts DEF TypeOK, NoPoll
  <2>2. QED
    BY <1>0, <1>11, <2>1 DEF EndPoll, TypeOK
<1>12. ASSUME Compact
       PROVE  TypeOK'
  <2>1. alert' \in [Alerts -> AlertType]
    BY <1>0, <1>12, CompactAlert DEF Compact
  <2>2. list' \subseteq Alerts /\ clients' \in [Clients -> Records \cup {Nil}]
    BY <1>0, <1>12 DEF Compact, Newest, TypeOK
  <2>3. /\ meant' \in [Alerts -> SUBSET Facts]
        /\ handed' \subseteq [alert : Alerts, client : Clients, facts : Facts]
        /\ told' \subseteq Alerts \X Clients /\ ended' \subseteq Alerts \X Clients
        /\ unrecorded' \subseteq Alerts \X Clients
    BY <1>0, <1>12 DEF Compact, Forgotten, TypeOK
  <2>4. saved' \in [list : SUBSET Alerts, alert : [Alerts -> AlertType]]
    <3>1. saved' = saved \/ saved' = [list |-> list', alert |-> alert']
      BY <1>12 DEF Compact
    <3>2. QED
      BY <1>0, <2>1, <2>2, <3>1 DEF TypeOK
  <2>5. QED
    BY <1>0, <1>12, <2>1, <2>2, <2>3, <2>4 DEF Compact, TypeOK
<1>13. ASSUME Restart
       PROVE  TypeOK'
  <2>1. alert' \in [Alerts -> AlertType]
    BY <1>0, <1>13, AlertTypes, AlertFacts DEF Restart, TypeOK
  <2>2. info' \in [Records -> InfoType]
    BY <1>0, <1>13, RestartRecords
  <2>3. poll' \in [Polls -> [pc : {"idle", "look", "asleep", "end"},
                             rec : Records \cup {Nil}]]
    BY <1>13 DEF Restart, NoPoll
  <2>4. clients' \in [Clients -> Records \cup {Nil}]
    BY <1>0, <1>13 DEF Restart, TypeOK
  <2>5. /\ meant' \in [Alerts -> SUBSET Facts]
        /\ handed' \subseteq [alert : Alerts, client : Clients, facts : Facts]
        /\ told' \subseteq Alerts \X Clients /\ ended' \subseteq Alerts \X Clients
    BY <1>0, <1>13 DEF Restart, Forgotten, TypeOK
  <2>6. unrecorded' \subseteq Alerts \X Clients
    BY <1>13, <2>5 DEF Restart
  <2>7. list' \subseteq Alerts /\ lost' \subseteq Alerts /\ UNCHANGED <<sent, groups, saved>>
    BY <1>0, <1>13 DEF Restart, TypeOK
  <2>8. dirty' \in BOOLEAN
    BY <1>13 DEF Restart
  <2>9. QED
    BY <1>0, <2>1, <2>2, <2>3, <2>4, <2>5, <2>6, <2>7, <2>8 DEF TypeOK
<1>14. QED
  BY <1>1, <1>2, <1>3, <1>4, <1>5, <1>6, <1>7, <1>8, <1>9, <1>10, <1>11, <1>12,
     <1>13 DEF Next, StaffStep, PollStep

-----------------------------------------------------------------------------
(* The polls a record counts *)

\* As long as no handler changes its record, the polls on each are the same.
LEMMA SamePolls ==
  ASSUME \A q \in Polls : poll'[q].rec = poll[q].rec
  PROVE  \A r : PollsOn(r)' = PollsOn(r)
  BY DEF PollsOn

\* A step that leaves the handlers their records and the records their polls,
\* and gives no client another record, keeps what is counted.
LEMMA CountsKept ==
  ASSUME PollsKnown, PollingIsHeld,
         \A q \in Polls : /\ poll'[q].rec = poll[q].rec
                          /\ poll'[q].pc = "idle" <=> poll[q].pc = "idle",
         \A c \in Clients : clients'[c] \in {clients[c], Nil},
         \A r \in Records : /\ info'[r].polling = info[r].polling
                            /\ info'[r].client = info[r].client
                            /\ info'[r].facts = info[r].facts,
         TypeOK
  PROVE  PollsKnown' /\ PollingIsHeld'
<1>1. PollsKnown'
  BY DEF PollsKnown, TypeOK
<1>2. ASSUME NEW r \in Records,
             \/ \E p \in Polls : poll'[p].rec = r
             \/ \E c \in Clients : clients'[c] = r
      PROVE  info'[r].polling = Cardinality({p \in Polls : poll'[p].rec = r})
  <2>1. {p \in Polls : poll'[p].rec = r} = {p \in Polls : poll[p].rec = r}
    OBVIOUS
  <2>2. r # Nil
    BY HistoryAssumption
  <2>3. info[r].polling = Cardinality({p \in Polls : poll[p].rec = r})
    BY <1>2, <2>2 DEF PollingIsHeld
  <2>4. QED
    BY <2>1, <2>3
<1>3. QED
  BY <1>1, <1>2 DEF PollingIsHeld

\* A check-in adds its poll to the one record,
LEMMA CheckInCounts ==
  ASSUME Known, NEW p \in Polls, NEW c \in Clients, NEW f \in Facts, NEW batch,
         CheckIn(p, c, f, batch)
  PROVE  PollsKnown' /\ PollingIsHeld'
<1>1. PICK r \in Records :
        /\ clients[c] \in {Nil, r}
        /\ clients[c] = Nil =>
             /\ \A x \in Clients : clients[x] # r
             /\ \A q \in Polls : poll[q].rec # r
        /\ clients' = [clients EXCEPT ![c] = r]
        /\ info' \in [Records -> InfoType]
        /\ \A x \in Records \ {r} : info'[x] = info[x]
        /\ info'[r].client = c /\ info'[r].facts = f
        /\ info'[r].polling = Cardinality(PollsOn(r)) + 1
        /\ poll' = [poll EXCEPT ![p] = [pc |-> "look", rec |-> r]]
  BY CheckInFacts
<1>2. r # Nil /\ poll[p].rec = Nil
  BY HistoryAssumption DEF Known, PollsKnown, CheckIn
<1>3. /\ poll'[p] = [pc |-> "look", rec |-> r]
      /\ \A q \in Polls \ {p} : poll'[q] = poll[q]
      /\ clients'[c] = r
      /\ \A x \in Clients \ {c} : clients'[x] = clients[x]
  BY <1>1 DEF Known, TypeOK
<1>4. PollsKnown'
  <2>1. ASSUME NEW q \in Polls \ {p}, poll[q].rec # Nil
        PROVE  info'[poll[q].rec].client \in Clients /\ info'[poll[q].rec].facts \in Facts
    <3>1. poll[q].rec \in Records
      BY <2>1 DEF Known, TypeOK
    <3>2. info[poll[q].rec].client \in Clients /\ info[poll[q].rec].facts \in Facts
      BY <2>1 DEF Known, PollsKnown
    <3>3. QED
      BY <1>1, <3>1, <3>2
  <2>2. \A q \in Polls \ {p} : poll[q].pc = "idle" <=> poll[q].rec = Nil
    BY DEF Known, PollsKnown
  <2>3. QED
    BY <1>1, <1>2, <1>3, <2>1, <2>2 DEF PollsKnown
<1>5. ASSUME NEW x \in Records,
             \/ \E q \in Polls : poll'[q].rec = x
             \/ \E y \in Clients : clients'[y] = x
      PROVE  info'[x].polling = Cardinality(PollsOn(x)')
  <2>1. CASE x = r
    <3>1. PollsOn(r)' = PollsOn(r) \cup {p} /\ p \notin PollsOn(r)
      BY <1>2, <1>3 DEF PollsOn
    <3>2. QED
      <4>1. IsFiniteSet(PollsOn(r))
        BY PollsOnFacts
      <4>2. Cardinality(PollsOn(r)') = Cardinality(PollsOn(r)) + 1
        BY <3>1, <4>1, FS_AddElement
      <4>3. QED
        BY <1>1, <2>1, <4>2
  <2>2. CASE x # r
    <3>1. PollsOn(x)' = PollsOn(x)
      BY <1>2, <1>3, <2>2, HistoryAssumption DEF PollsOn
    <3>2. \/ \E q \in Polls : poll[q].rec = x
          \/ \E y \in Clients : clients[y] = x
      BY <1>3, <1>5, <2>2
    <3>3. info[x].polling = Cardinality(PollsOn(x))
      BY <3>2 DEF Known, PollingIsHeld, PollsOn
    <3>4. QED
      BY <1>1, <2>2, <3>1, <3>3
  <2>3. QED
    BY <2>1, <2>2
<1>6. QED
  BY <1>4, <1>5 DEF PollingIsHeld, PollsOn

\* and the end of a poll takes it from the one it was added to.
LEMMA EndPollCounts ==
  ASSUME Known, NEW p \in Polls, EndPoll(p)
  PROVE  PollsKnown' /\ PollingIsHeld'
<1> DEFINE r == poll[p].rec
           kept == \/ \E c \in Clients : clients[c] = r
                   \/ \E q \in Polls \ {p} : poll[q].rec = r
<1>1. /\ r \in Records
      /\ Cardinality(PollsOn(r)) \in Nat \ {0}
      /\ poll' = [poll EXCEPT ![p] = NoPoll]
      /\ \A x \in Records \ {r} : info'[x] = info[x]
      /\ kept => /\ info'[r].client = info[r].client
                 /\ info'[r].facts = info[r].facts
                 /\ info'[r].polling = Cardinality(PollsOn(r)) - 1
  BY EndPollFacts
<1>2. /\ poll'[p].pc = "idle" /\ poll'[p].rec = Nil
      /\ \A q \in Polls \ {p} : poll'[q] = poll[q]
      /\ clients' = clients
  BY <1>1 DEF Known, TypeOK, NoPoll, EndPoll
<1>3. r # Nil
  BY <1>1, HistoryAssumption
<1>4. PollsKnown'
  <2>1. ASSUME NEW q \in Polls \ {p}, poll[q].rec # Nil
        PROVE  info'[poll[q].rec].client \in Clients /\ info'[poll[q].rec].facts \in Facts
    <3>1. poll[q].rec \in Records
      BY <2>1 DEF Known, TypeOK
    <3>2. info[poll[q].rec].client \in Clients /\ info[poll[q].rec].facts \in Facts
      BY <2>1 DEF Known, PollsKnown
    <3>3. QED
      BY <1>1, <3>1, <3>2
  <2>2. \A q \in Polls \ {p} : poll[q].pc = "idle" <=> poll[q].rec = Nil
    BY DEF Known, PollsKnown
  <2> HIDE DEF r, kept
  <2>3. QED
    BY <1>2, <2>1, <2>2 DEF PollsKnown
<1>5. ASSUME NEW x \in Records,
             \/ \E q \in Polls : poll'[q].rec = x
             \/ \E y \in Clients : clients'[y] = x
      PROVE  info'[x].polling = Cardinality(PollsOn(x)')
  <2>0. x # Nil
    BY HistoryAssumption
  <2>1. CASE x = r
    <3>1. PollsOn(x)' = PollsOn(x) \ {p} /\ p \in PollsOn(x)
      BY <1>2, <1>3, <2>1 DEF PollsOn
    <3>2. kept
      BY <1>2, <1>5, <2>0, <2>1
    <3> HIDE DEF r, kept
    <3>3. QED
      BY <1>1, <2>1, <3>1, <3>2, PollsOnFacts, FS_RemoveElement
  <2>2. CASE x # r
    <3>1. PollsOn(x)' = PollsOn(x)
      BY <1>2, <2>0, <2>2 DEF PollsOn
    <3>2. \/ \E q \in Polls : poll[q].rec = x
          \/ \E y \in Clients : clients[y] = x
      BY <1>2, <1>5, <2>0
    <3>3. info[x].polling = Cardinality(PollsOn(x))
      BY <3>2 DEF Known, PollingIsHeld, PollsOn
    <3> HIDE DEF r, kept
    <3>4. QED
      BY <1>1, <2>2, <3>1, <3>3
  <2>3. QED
    BY <2>1, <2>2
<1>6. QED
  BY <1>4, <1>5 DEF PollingIsHeld, PollsOn

\* After a restart no poll is held, and no record counts one.
LEMMA RestartCounts ==
  ASSUME Known, Restart
  PROVE  PollsKnown' /\ PollingIsHeld'
<1>1. /\ \A p \in Polls : poll'[p].pc = "idle" /\ poll'[p].rec = Nil
      /\ \A r \in Records : info'[r].polling = 0
  BY RestartRecords DEF Known, Restart, NoPoll
<1>2. ASSUME NEW r \in Records
      PROVE  Cardinality({p \in Polls : poll'[p].rec = r}) = 0
  <2>1. {p \in Polls : poll'[p].rec = r} = {}
    BY <1>1, HistoryAssumption
  <2>2. QED
    BY <2>1, FS_EmptySet
<1>3. QED
  BY <1>1, <1>2 DEF PollsKnown, PollingIsHeld

\* Every step keeps the count.
LEMMA CountsRight == Known /\ Next => PollsKnown' /\ PollingIsHeld'
<1> SUFFICES ASSUME Known, Next PROVE PollsKnown' /\ PollingIsHeld'
  OBVIOUS
<1>0. TypeOK /\ PollsKnown /\ PollingIsHeld
  BY DEF Known
<1>1. ASSUME \/ \E g \in Groups, R \in RuleSets : SaveGroup(g, R)
             \/ \E g \in Groups : DeleteGroup(g)
             \/ \E i \in Alerts : Expire(i) \/ RecallAges(i)
      PROVE  PollsKnown' /\ PollingIsHeld'
  <2>1. UNCHANGED <<clients, info, poll>>
    BY <1>1 DEF SaveGroup, DeleteGroup, Expire, RecallAges
  <2>2. QED
    BY <1>0, <2>1, CountsKept
<1>2. ASSUME \/ \E t \in Targets : Send(t)
             \/ \E i \in Alerts : Recall(i)
      PROVE  PollsKnown' /\ PollingIsHeld'
  <2>1. UNCHANGED <<clients, info>> /\ poll' = AllAwake
    BY <1>2 DEF Send, Recall
  <2>2. \A q \in Polls : /\ poll'[q].rec = poll[q].rec
                         /\ poll'[q].pc = "idle" <=> poll[q].pc = "idle"
    BY <1>0, <2>1, PollFacts
  <2>3. QED
    BY <1>0, <2>1, <2>2, CountsKept
<1>3. ASSUME \/ \E c \in Clients : Forget(c)
             \/ Compact
      PROVE  PollsKnown' /\ PollingIsHeld'
  <2>1. UNCHANGED <<info, poll>> /\ \A c \in Clients : clients'[c] \in {clients[c], Nil}
    BY <1>0, <1>3 DEF Forget, Compact, TypeOK
  <2>2. QED
    BY <1>0, <2>1, CountsKept
<1>4. ASSUME NEW c \in Clients, SeenAges(c)
      PROVE  PollsKnown' /\ PollingIsHeld'
  <2>1. UNCHANGED <<clients, poll>>
        /\ clients[c] \in Records
        /\ info' = [info EXCEPT ![clients[c]].seen = "long ago"]
    BY <1>0, <1>4 DEF SeenAges, TypeOK
  <2>2. \A r \in Records : /\ info'[r].polling = info[r].polling
                           /\ info'[r].client = info[r].client
                           /\ info'[r].facts = info[r].facts
    <3>1. info \in [Records -> InfoType]
      BY <1>0 DEF TypeOK
    <3>2. \A x \in InfoType : LET y == [x EXCEPT !.seen = "long ago"] IN
            y.polling = x.polling /\ y.client = x.client /\ y.facts = x.facts
      BY DEF InfoType
    <3>3. \A r \in Records :
            info'[r] = info[r] \/ info'[r] = [info[r] EXCEPT !.seen = "long ago"]
      BY <2>1, <3>1
    <3>4. QED
      BY <3>1, <3>2, <3>3
  <2>3. QED
    BY <1>0, <2>1, <2>2, CountsKept
<1>5. ASSUME NEW p \in Polls, Look(p) \/ HoldOver(p)
      PROVE  PollsKnown' /\ PollingIsHeld'
  <2>1. UNCHANGED <<clients, info>> /\ poll[p].pc # "idle"
        /\ \E s \in {"asleep", "end"} : poll' = [poll EXCEPT ![p].pc = s]
    BY <1>5 DEF Look, HoldOver, storeVars
  <2>2. \A q \in Polls : /\ poll'[q].rec = poll[q].rec
                         /\ poll'[q].pc = "idle" <=> poll[q].pc = "idle"
    BY <1>0, <2>1, PollFacts
  <2>3. QED
    BY <1>0, <2>1, <2>2, CountsKept
<1>6. QED
  BY <1>1, <1>2, <1>3, <1>4, <1>5, CheckInCounts, EndPollCounts, RestartCounts
  DEF Next, StaffStep, PollStep

-----------------------------------------------------------------------------
(* The variables have their types, and a record counts the polls that       *)
(* checked in on it and are not over, never below zero.                     *)

LEMMA KnownAtFirst == Init => Known
<1> SUFFICES ASSUME Init PROVE Known
  OBVIOUS
<1>1. TypeOK
  BY AlertFacts DEF Init, TypeOK, NoInfo, InfoType, NoPoll
<1>2. PollsKnown /\ PollingIsHeld
  <2>1. /\ \A p \in Polls : poll[p].pc = "idle" /\ poll[p].rec = Nil
        /\ \A c \in Clients : clients[c] = Nil
    BY DEF Init, NoPoll
  <2>2. QED
    BY <2>1, HistoryAssumption DEF PollsKnown, PollingIsHeld
<1>3. QED
  BY <1>1, <1>2 DEF Known

LEMMA KnownKept == Known /\ [Next]_vars => Known'
<1>1. CASE Next
  BY <1>1, TypesKept, CountsRight DEF Known
<1>2. CASE UNCHANGED vars
  BY <1>2 DEF vars, storeVars, history, Known, TypeOK, PollsKnown, PollingIsHeld
<1>3. QED
  BY <1>1, <1>2

\* The variables have their types.
THEOREM HistoryTypes == Spec => []TypeOK
<1>1. Known => TypeOK
  BY DEF Known
<1>2. QED
  BY <1>1, KnownAtFirst, KnownKept, PTL DEF Spec

\* A record counts the polls that checked in on it and are not over, also when
\* its computer has been forgotten, and has another record, in the meantime.
THEOREM PollsAreCounted == Spec => []PollingIsHeld
<1>1. Known => PollingIsHeld
  BY DEF Known
<1>2. QED
  BY <1>1, KnownAtFirst, KnownKept, PTL DEF Spec

-----------------------------------------------------------------------------
(* What becomes of an alert in the list *)

\* Ids are given out from 1 on.
IdsInOrder ==
  /\ sent \in 0..Cardinality(Alerts)
  /\ list \cup saved.list \subseteq 1..sent

\* An alert has either its delivery records or, finished and old, its totals.
Whole(a, i) ==
  /\ a.archived = Nil <=> a.deliv # Nil
  /\ a.archived # Nil => (a.recalled \/ a.over) /\ ~Within(i, MaxWithDeliveries)

\* So it is of the alerts in the file, as of those in the list.
SavedWhole == \A i \in saved.list : Whole(saved.alert[i], i)

Ordered == Known /\ IdsInOrder /\ HistoryKept /\ SavedWhole

\* There are so many ids.
LEMMA AlertIds == Cardinality(Alerts) \in Nat /\ Alerts = 1..Cardinality(Alerts)
  BY FS_CardinalityType, AlertSpecsAssumption, HistoryAssumption

\* An alert comes back from the disk as it was, in particular with delivery
\* records to work with where it had some, or none yet.
LEMMA LoadedSame ==
  ASSUME NEW a \in AlertType, a.archived = Nil <=> a.deliv # Nil
  PROVE  Loaded(a) = a
<1> DEFINE read == IF a.deliv = NoRecords THEN Nil ELSE a.deliv
           D == IF read = Nil /\ a.archived = Nil THEN NoRecords ELSE read
<1>1. D = a.deliv
  <2>1. NoRecords # Nil
    BY AlertFacts, HistoryAssumption
  <2>2. CASE a.archived = Nil
    BY <2>2
  <2>3. CASE a.archived # Nil
    BY <2>1, <2>3
  <2>4. QED
    BY <2>2, <2>3
<1>2. Loaded(a) = [a EXCEPT !.deliv = D]
  BY DEF Loaded
<1> HIDE DEF D
<1>3. [a EXCEPT !.deliv = a.deliv] = a
  BY DEF AlertType
<1>4. QED
  BY <1>1, <1>2, <1>3

\* So a restart makes the list that the file has, and forgets nothing of that.
LEMMA Restarted ==
  ASSUME Ordered, Restart
  PROVE  /\ list' = saved.list /\ saved' = saved /\ sent' = sent
         /\ \A i \in saved.list : /\ i \in Alerts /\ alert'[i] = saved.alert[i]
                                 /\ meant'[i] = meant[i]
<1>1. saved.list \subseteq Alerts /\ saved.alert \in [Alerts -> AlertType]
  BY DEF Ordered, Known, TypeOK
<1>2. \A i \in saved.list : Loaded(saved.alert[i]) = saved.alert[i]
  BY <1>1, LoadedSame DEF Ordered, SavedWhole, Whole
<1>3. \A i \in saved.list : alert'[i] = saved.alert[i]
  BY <1>1, <1>2 DEF Restart
<1>4. \A i \in saved.list : meant'[i] = meant[i]
  BY <1>1 DEF Restart, Forgotten
<1>5. QED
  BY <1>1, <1>3, <1>4 DEF Restart

\* The file is left alone but for what time marks, or has what the list has.
LEMMA FileStays ==
  ASSUME Ordered, Next
  PROVE  \/ /\ saved'.list = saved.list
            /\ \A i \in Alerts :
                 LET a == saved.alert[i]
                     b == saved'.alert[i]
                 IN /\ b.all = a.all /\ b.rules = a.rules
                    /\ b.deliv = a.deliv /\ b.archived = a.archived
                    /\ b.recalled = a.recalled /\ (a.over => b.over)
         \/ Compact /\ saved'.list = list' /\ saved'.alert = alert'
<1>0. TypeOK
  BY DEF Ordered, Known
<1>1. CASE \E i \in Alerts : Expire(i) \/ RecallAges(i)
  BY <1>0, <1>1, SavedMarked
<1>2. CASE Compact
  <2>1. saved' = saved \/ saved' = [list |-> list', alert |-> alert']
    BY <1>2 DEF Compact
  <2>2. QED
    BY <1>2, <2>1
<1>3. CASE ~Compact /\ ~\E i \in Alerts : Expire(i) \/ RecallAges(i)
  <2>1. StaffStep => saved' = saved
    BY DEF StaffStep, SaveGroup, DeleteGroup, Send, Recall, Forget
  <2>2. ASSUME NEW p \in Polls, PollStep(p)
        PROVE  saved' = saved
    BY <2>2 DEF PollStep, CheckIn, Look, HoldOver, EndPoll, storeVars
  <2>3. (\E c \in Clients : SeenAges(c)) \/ Restart => saved' = saved
    BY DEF SeenAges, Restart
  <2>4. QED
    BY <1>3, <2>1, <2>2, <2>3 DEF Next
<1>4. QED
  BY <1>1, <1>2, <1>3

\* What an alert was sent as stays, and so does its end; a recall wakes all.
StaysAsSent(i) ==
  /\ alert'[i].all = alert[i].all /\ alert'[i].rules = alert[i].rules
  /\ meant'[i] = meant[i]
  /\ alert[i].over => alert'[i].over
  /\ alert[i].recalled => alert'[i].recalled
  /\ alert'[i].recalled => alert[i].recalled \/ poll' = AllAwake
  /\ alert[i].tooOld => alert'[i].tooOld

\* A recall, an expiry and time leave all else of the alerts alone.
LEMMA MarkedAlerts ==
  ASSUME TypeOK, NEW j \in Alerts, Recall(j) \/ Expire(j) \/ RecallAges(j),
         NEW i \in Alerts
  PROVE  LET a == alert[i]
             b == alert'[i]
         IN /\ b.all = a.all /\ b.rules = a.rules
            /\ b.deliv = a.deliv /\ b.archived = a.archived
            /\ (a.over => b.over) /\ (a.recalled => b.recalled)
            /\ (a.tooOld => b.tooOld)
            /\ (b.recalled => a.recalled \/ poll' = AllAwake)
<1>1. alert[i] \in AlertType /\ alert \in [Alerts -> AlertType]
  BY DEF TypeOK
<1>2. CASE Recall(j)
  <2>1. alert' = [alert EXCEPT ![j].recalled = TRUE] /\ poll' = AllAwake
    BY <1>2 DEF Recall
  <2>2. QED
    BY <1>1, <2>1 DEF AlertType
<1>3. CASE Expire(j)
  <2>1. alert' = [alert EXCEPT ![j].over = TRUE]
    BY <1>3 DEF Expire
  <2>2. QED
    BY <1>1, <2>1 DEF AlertType
<1>4. CASE RecallAges(j)
  <2>1. alert' = [alert EXCEPT ![j].tooOld = TRUE]
    BY <1>4 DEF RecallAges
  <2>2. QED
    BY <1>1, <2>1 DEF AlertType
<1>5. QED
  BY <1>2, <1>3, <1>4

\* But for restarts, only trimming takes alerts away, or their records.
LEMMA AlertsStay ==
  ASSUME Ordered, Next
  PROVE  \/ \E t \in Targets : Send(t)
         \/ Restart
         \/ /\ sent' = sent /\ list' \subseteq list
            /\ ~Compact => list' = list
            /\ \A i \in list' :
                 /\ StaysAsSent(i)
                 /\ \/ /\ alert'[i].archived = alert[i].archived
                       /\ alert'[i].deliv = Nil <=> alert[i].deliv = Nil
                    \/ /\ Compact /\ Archivable(i, list')
                       /\ alert'[i] = Archive(alert[i])
<1> DEFINE Stays ==
             /\ sent' = sent /\ list' \subseteq list
             /\ ~Compact => list' = list
             /\ \A i \in list' :
                  /\ StaysAsSent(i)
                  /\ \/ /\ alert'[i].archived = alert[i].archived
                        /\ alert'[i].deliv = Nil <=> alert[i].deliv = Nil
                     \/ /\ Compact /\ Archivable(i, list')
                        /\ alert'[i] = Archive(alert[i])
<1>0. TypeOK /\ Known /\ Nil \notin [Clients -> DeliveryType]
  BY HistoryAssumption DEF Ordered, Known
<1>1. ASSUME UNCHANGED <<sent, list, alert, meant>>
      PROVE  Stays
  BY <1>1 DEF StaysAsSent
<1>2. ASSUME NEW i \in Alerts, Recall(i) \/ Expire(i) \/ RecallAges(i)
      PROVE  Stays
  <2>1. UNCHANGED <<sent, list, meant>>
    BY <1>2 DEF Recall, Expire, RecallAges, history
  <2>2. \A j \in Alerts :
          LET a == alert[j]
              b == alert'[j]
          IN /\ b.all = a.all /\ b.rules = a.rules
             /\ b.deliv = a.deliv /\ b.archived = a.archived
             /\ (a.over => b.over) /\ (a.recalled => b.recalled)
             /\ (a.tooOld => b.tooOld)
             /\ (b.recalled => a.recalled \/ poll' = AllAwake)
    BY <1>0, <1>2, MarkedAlerts
  <2>3. list \subseteq Alerts
    BY <1>0 DEF TypeOK
  <2>4. QED
    BY <2>1, <2>2, <2>3 DEF StaysAsSent
<1>3. ASSUME NEW p \in Polls, NEW c \in Clients, NEW f \in Facts,
             NEW batch \in Batches(c), CheckIn(p, c, f, batch)
      PROVE  Stays
  <2>1. UNCHANGED <<sent, list, meant>>
    BY <1>3 DEF CheckIn
  <2>2. \A j \in Alerts :
          LET a == alert[j]
              b == alert'[j]
          IN /\ b.all = a.all /\ b.rules = a.rules
             /\ b.deliv = Nil <=> a.deliv = Nil
             /\ b.archived = a.archived
             /\ b.over = a.over /\ b.recalled = a.recalled /\ b.tooOld = a.tooOld
    BY <1>0, <1>3, CheckInAlerts
  <2>3. list \subseteq Alerts
    BY <1>0 DEF TypeOK
  <2>4. QED
    BY <2>1, <2>2, <2>3 DEF StaysAsSent
<1>4. ASSUME NEW p \in Polls, Look(p)
      PROVE  Stays
  <2>1. UNCHANGED <<sent, list, meant>>
    BY <1>4 DEF Look
  <2>2. \A j \in Alerts :
          LET a == alert[j]
              b == alert'[j]
          IN /\ b.all = a.all /\ b.rules = a.rules
             /\ b.deliv = Nil <=> a.deliv = Nil
             /\ b.archived = a.archived
             /\ b.over = a.over /\ b.recalled = a.recalled /\ b.tooOld = a.tooOld
    BY <1>0, <1>4, LookAlert
  <2>3. list \subseteq Alerts
    BY <1>0 DEF TypeOK
  <2>4. QED
    BY <2>1, <2>2, <2>3 DEF StaysAsSent
<1>5. ASSUME Compact
      PROVE  Stays
  <2>1. sent' = sent /\ list' = Newest(list, MaxKept) /\ list' \subseteq list
    BY <1>5 DEF Compact, Newest
  <2>2. ASSUME NEW i \in list'
        PROVE  /\ meant'[i] = meant[i]
               /\ \/ alert'[i] = alert[i]
                  \/ /\ Archivable(i, list')
                     /\ alert'[i] = Archive(alert[i])
    <3>1. i \in Alerts /\ i \notin Alerts \ (list' \cup saved'.list)
      BY <1>0, <2>1, <2>2 DEF TypeOK
    <3>2. meant'[i] = meant[i]
      BY <1>5, <3>1 DEF Compact, Forgotten
    <3>3. alert'[i] = IF Archivable(i, list') THEN Archive(alert[i]) ELSE alert[i]
      BY <1>5, <2>1, <2>2, <3>1 DEF Compact
    <3>4. QED
      BY <3>2, <3>3
  <2>3. \A i \in list' : alert[i] \in AlertType
    BY <1>0, <2>1 DEF TypeOK
  <2>4. \A a \in AlertType :
          /\ Archive(a).all = a.all /\ Archive(a).rules = a.rules
          /\ Archive(a).over = a.over /\ Archive(a).recalled = a.recalled
          /\ Archive(a).tooOld = a.tooOld
    BY DEF Archive, AlertType
  <2>5. QED
    BY <1>5, <2>1, <2>2, <2>3, <2>4 DEF StaysAsSent
<1>6. ASSUME \/ \E g \in Groups : DeleteGroup(g) \/ \E R \in RuleSets : SaveGroup(g, R)
             \/ \E c \in Clients : Forget(c) \/ SeenAges(c)
             \/ \E p \in Polls : HoldOver(p) \/ EndPoll(p)
      PROVE  Stays
  <2>1. UNCHANGED <<sent, list, alert, meant>>
    BY <1>6 DEF DeleteGroup, SaveGroup, Forget, SeenAges, HoldOver, EndPoll,
                storeVars, history
  <2>2. QED
    BY <1>1, <2>1
<1>7. QED
  BY <1>2, <1>3, <1>4, <1>5, <1>6 DEF Next, StaffStep, PollStep

-----------------------------------------------------------------------------
(* What trimming keeps *)

\* Of the alerts in the list, fewer came after one than have been sent since.
LEMMA Newer ==
  ASSUME IdsInOrder, NEW S \in SUBSET list, NEW i \in Nat, i <= sent
  PROVE  /\ Cardinality({j \in S : j > i}) \in Nat
         /\ Cardinality({j \in S : j > i}) <= sent - i
<1> DEFINE T == {j \in S : j > i}
<1>1. sent \in Nat /\ \A j \in S : j \in 1..sent
  BY AlertIds DEF IdsInOrder
<1>2. T \in SUBSET ((i + 1)..sent)
  BY <1>1
<1>3. /\ IsFiniteSet((i + 1)..sent)
      /\ Cardinality((i + 1)..sent) = sent - i
  <2>1. i + 1 \in Int /\ sent \in Int
    BY <1>1
  <2>2. /\ IsFiniteSet((i + 1)..sent)
        /\ Cardinality((i + 1)..sent) =
             IF i + 1 > sent THEN 0 ELSE sent - (i + 1) + 1
    BY <2>1, FS_Interval
  <2>3. QED
    BY <1>1, <2>2
<1> HIDE DEF T
<1>4. IsFiniteSet(T) /\ Cardinality(T) <= sent - i
  BY <1>2, <1>3, FS_Subset
<1>5. QED
  BY <1>4, FS_CardinalityType DEF T

\* What a crash has taken stays taken.
LEMMA OnlyMoreLost == Next => lost \subseteq lost'
<1>1. StaffStep => lost' = lost
  BY DEF StaffStep, SaveGroup, DeleteGroup, Send, Recall, Forget, history
<1>2. ASSUME NEW p \in Polls, PollStep(p)
      PROVE  lost' = lost
  BY <1>2 DEF PollStep, CheckIn, Look, HoldOver, EndPoll, history
<1>3. (\E i \in Alerts : Expire(i) \/ RecallAges(i)) \/ (\E c \in Clients : SeenAges(c))
        => lost' = lost
  BY DEF Expire, RecallAges, SeenAges, history
<1>4. Compact => lost' = lost
  BY DEF Compact
<1>5. Restart => lost \subseteq lost'
  BY DEF Restart
<1>6. QED
  BY <1>1, <1>2, <1>3, <1>4, <1>5 DEF Next

\* Every step keeps the order of the list, and what trimming promises of it.
LEMMA OrderedKept == Ordered /\ Next => IdsInOrder' /\ HistoryKept' /\ SavedWhole'
<1> SUFFICES ASSUME Ordered, Next PROVE IdsInOrder' /\ HistoryKept' /\ SavedWhole'
  OBVIOUS
<1>0. /\ TypeOK /\ TypeOK' /\ IdsInOrder /\ HistoryKept /\ SavedWhole
      /\ saved.list \subseteq Alerts
      /\ list \subseteq Alerts /\ sent \in Nat /\ Alerts \subseteq Nat
      /\ MaxKept \in Nat \ {0} /\ MaxWithDeliveries \in Nat
  <2>1. TypeOK /\ TypeOK' /\ IdsInOrder /\ HistoryKept /\ SavedWhole
    BY TypesKept DEF Ordered, Known
  <2>2. MaxKept \in Nat \ {0} /\ MaxWithDeliveries \in Nat /\ Alerts \subseteq Nat
    BY AlertIds, HistoryAssumption
  <2>3. QED
    BY <2>1, <2>2 DEF TypeOK
<1>1. ASSUME NEW t \in Targets, Send(t)
      PROVE  IdsInOrder' /\ HistoryKept'
  <2> DEFINE new == [NoAlert EXCEPT !.all = t.all,
                                    !.rules = FlattenTarget(t, groups)]
  <2>1. /\ sent' = sent + 1 /\ list' = list \cup {sent + 1} /\ sent + 1 \in Alerts
        /\ sent + 1 \notin list /\ saved' = saved /\ lost' = lost
        /\ alert'[sent + 1] = new /\ \A i \in list : alert'[i] = alert[i]
    BY <1>0, <1>1 DEF Send, TypeOK, IdsInOrder
  <2>2. IdsInOrder'
    BY <1>0, <2>1, AlertIds DEF IdsInOrder
  <2>3. \A i \in Alerts : Within(i, MaxKept)' => i = sent + 1 \/ Within(i, MaxKept)
    BY <1>0, <2>1 DEF Within
  <2>4. \A i \in list :
          alert[i].archived # Nil => ~Active(i)' /\ ~Within(i, MaxWithDeliveries)'
    BY <1>0, <2>1 DEF HistoryKept, Within, Active, IdsInOrder
  <2>5. new.archived = Nil /\ new.deliv # Nil
    BY AlertFacts, HistoryAssumption DEF NoAlert, NoRecords
  <2> HIDE DEF new
  <2>6. QED
    BY <1>0, <2>1, <2>2, <2>3, <2>4, <2>5 DEF HistoryKept
<1>2. ASSUME /\ sent' = sent /\ list' \subseteq list
             /\ ~Compact => list' = list
             /\ \A i \in list' :
                  /\ StaysAsSent(i)
                  /\ \/ /\ alert'[i].archived = alert[i].archived
                        /\ alert'[i].deliv = Nil <=> alert[i].deliv = Nil
                     \/ /\ Compact /\ Archivable(i, list')
                        /\ alert'[i] = Archive(alert[i])
      PROVE  IdsInOrder' /\ HistoryKept'
  <2>1. IdsInOrder'
    <3>1. saved'.list = saved.list \/ saved'.list = list'
      BY FileStays
    <3>2. QED
      BY <1>0, <1>2, <3>1 DEF IdsInOrder
  <2>2. ASSUME NEW i \in Alerts, Within(i, MaxKept)', i \notin lost
        PROVE  i \in list'
    <3>1. i <= sent /\ i + MaxKept > sent /\ i \in list
      BY <1>0, <1>2, <2>2 DEF Within, HistoryKept
    <3>2. CASE Compact
      <4> DEFINE n == Cardinality({j \in list : j > i})
      <4>0. n \in Nat /\ n <= sent - i
        BY <1>0, <3>1, Newer
      <4> HIDE DEF n
      <4>1. n < MaxKept
        BY <1>0, <3>1, <4>0
      <4>2. QED
        BY <3>1, <3>2, <4>1 DEF Compact, Newest, n
    <3>3. QED
      BY <1>2, <3>1, <3>2
  <2>3. ASSUME NEW i \in list'
        PROVE  /\ alert'[i].archived = Nil <=> alert'[i].deliv # Nil
               /\ alert'[i].archived # Nil =>
                    ~Active(i)' /\ ~Within(i, MaxWithDeliveries)'
    <3>1. i \in list /\ i <= sent
      BY <1>0, <1>2 DEF IdsInOrder
    <3>2. ~Active(i) => ~Active(i)'
      BY <1>2, <1>0, <2>3 DEF StaysAsSent, Active
    <3>3. CASE /\ alert'[i].archived = alert[i].archived
               /\ alert'[i].deliv = Nil <=> alert[i].deliv = Nil
      BY <1>0, <1>2, <3>1, <3>2, <3>3 DEF HistoryKept, Within
    <3>4. CASE /\ Archivable(i, list')
               /\ alert'[i] = Archive(alert[i])
      <4>1. ~Active(i) /\ ~(Cardinality({j \in list' : j > i}) < MaxWithDeliveries)
        BY <2>3, <3>4 DEF Archivable, Newest
      <4>2. /\ Cardinality({j \in list' : j > i}) \in Nat
            /\ Cardinality({j \in list' : j > i}) <= sent - i
        BY <1>0, <1>2, <3>1, Newer
      <4>3. ~(i <= sent /\ i + MaxWithDeliveries > sent)
        BY <1>0, <3>1, <4>1, <4>2
      <4>4. alert[i] \in AlertType
        BY <1>0, <3>1 DEF TypeOK
      <4>5. alert'[i].archived = Totals(alert[i]) /\ alert'[i].deliv = Nil
        BY <3>4, <4>4 DEF Archive, AlertType
      <4>6. Totals(alert[i]) # Nil
        BY <4>4, TotalsAreTotals, HistoryAssumption
      <4>7. QED
        BY <1>2, <3>2, <4>1, <4>3, <4>5, <4>6 DEF Within
    <3>5. QED
      BY <1>2, <2>3, <3>3, <3>4
  <2>4. lost \subseteq lost'
    BY OnlyMoreLost
  <2>5. QED
    BY <2>1, <2>2, <2>3, <2>4 DEF HistoryKept
<1>3. ASSUME Restart
      PROVE  IdsInOrder' /\ HistoryKept'
  <2>1. /\ list' = saved.list /\ saved' = saved /\ sent' = sent
        /\ \A i \in saved.list : alert'[i] = saved.alert[i]
    BY <1>3, Restarted
  <2>2. lost' = lost \cup (list \ saved.list)
    BY <1>3 DEF Restart
  <2>3. IdsInOrder'
    BY <1>0, <2>1 DEF IdsInOrder
  <2>4. \A i \in Alerts : Within(i, MaxKept)' => i \in list' \cup lost'
    BY <1>0, <2>1, <2>2 DEF HistoryKept, Within
  <2>5. \A i \in list' :
          /\ alert'[i].archived = Nil <=> alert'[i].deliv # Nil
          /\ alert'[i].archived # Nil => ~Active(i)' /\ ~Within(i, MaxWithDeliveries)'
    BY <1>0, <2>1 DEF SavedWhole, Whole, Active, Within
  <2>6. QED
    BY <2>3, <2>4, <2>5 DEF HistoryKept
<1>4. IdsInOrder' /\ HistoryKept'
  BY <1>1, <1>2, <1>3, AlertsStay
<1>5. SavedWhole'
  <2>1. ASSUME NEW i \in saved'.list
        PROVE  Whole(saved.alert[i], i)'
    <3>1. sent' \in {sent, sent + 1}
      BY <1>0, AlertsStay, Restarted DEF Send
    <3>2. CASE /\ saved'.list = saved.list
               /\ \A j \in Alerts :
                    LET a == saved.alert[j]
                        b == saved'.alert[j]
                    IN /\ b.deliv = a.deliv /\ b.archived = a.archived
                       /\ b.recalled = a.recalled /\ (a.over => b.over)
      <4>1. Whole(saved.alert[i], i) /\ i \in Alerts /\ i \in 1..sent
        BY <1>0, <2>1, <3>2 DEF SavedWhole, IdsInOrder
      <4>2. ~Within(i, MaxWithDeliveries) => ~Within(i, MaxWithDeliveries)'
        BY <1>0, <3>1, <4>1 DEF Within
      <4>3. QED
        BY <3>2, <4>1, <4>2 DEF Whole
    <3>3. CASE saved'.list = list' /\ saved'.alert = alert'
      BY <1>4, <2>1, <3>3 DEF HistoryKept, Whole, Active
    <3>4. QED
      BY <3>2, <3>3, FileStays
  <2>2. QED
    BY <2>1 DEF SavedWhole
<1>6. QED
  BY <1>4, <1>5

LEMMA OrderedAtFirst == Init => Ordered
<1>1. Init => IdsInOrder /\ HistoryKept /\ SavedWhole
  BY AlertIds DEF Init, IdsInOrder, HistoryKept, SavedWhole, Within
<1>2. QED
  BY <1>1, KnownAtFirst DEF Ordered

LEMMA OrderIsKept == Ordered /\ [Next]_vars => Ordered'
<1>1. CASE Next
  BY <1>1, OrderedKept, KnownKept DEF Ordered
<1>2. CASE UNCHANGED vars
  <2>1. Ordered => Known'
    BY <1>2, KnownKept DEF Ordered
  <2>2. Ordered => IdsInOrder' /\ HistoryKept' /\ SavedWhole'
    BY <1>2 DEF Ordered, IdsInOrder, HistoryKept, SavedWhole, Whole, Within, Active,
                vars, storeVars, history
  <2>3. QED
    BY <2>1, <2>2 DEF Ordered
<1>3. QED
  BY <1>1, <1>2

\* The newest alerts stay in the list but for those that a crash has taken;
\* what keeps only its totals is finished and old; every other alert has
\* delivery records to work with, also after it has been to disk without any.
THEOREM TrimmingKeepsHistory == Spec => []HistoryKept
<1>1. Ordered => HistoryKept
  BY DEF Ordered
<1>2. QED
  BY <1>1, OrderedAtFirst, OrderIsKept, PTL DEF Spec

-----------------------------------------------------------------------------
(* The totals of an alert *)

\* Only a check-in and a look write to the records of an alert; and a restart.
LEMMA WhoWrites ==
  ASSUME Ordered, Next, ~Restart, NEW i \in list, i \in list'
  PROVE  \/ \E p \in Polls, c \in Clients, f \in Facts : \E batch \in Batches(c) :
              CheckIn(p, c, f, batch)
         \/ \E p \in Polls : Look(p)
         \/ /\ alert'[i].deliv = alert[i].deliv
            /\ alert'[i].archived = alert[i].archived
         \/ Compact /\ Archivable(i, list') /\ alert'[i] = Archive(alert[i])
<1>0. TypeOK /\ i \in Alerts /\ i \notin list \ list' /\ i # sent + 1
  <2>1. sent \in Nat /\ i \in 1..sent
    BY AlertIds DEF Ordered, IdsInOrder
  <2>2. QED
    BY <2>1 DEF Ordered, Known, TypeOK
<1>1. ASSUME \/ \E t \in Targets : Send(t)
             \/ \E j \in Alerts : Recall(j) \/ Expire(j) \/ RecallAges(j)
      PROVE  /\ alert'[i].deliv = alert[i].deliv
             /\ alert'[i].archived = alert[i].archived
  <2>1. CASE \E t \in Targets : Send(t)
    BY <1>0, <2>1 DEF Send, TypeOK
  <2>2. ASSUME NEW j \in Alerts, Recall(j) \/ Expire(j) \/ RecallAges(j)
        PROVE  /\ alert'[i].deliv = alert[i].deliv
               /\ alert'[i].archived = alert[i].archived
    BY <1>0, <2>2, MarkedAlerts
  <2>3. QED
    BY <1>1, <2>1, <2>2
<1>2. ASSUME Compact
      PROVE  \/ alert'[i] = alert[i]
             \/ Archivable(i, list') /\ alert'[i] = Archive(alert[i])
  <2>1. list' = Newest(list, MaxKept)
    BY <1>2 DEF Compact
  <2>2. alert'[i] = IF Archivable(i, list') THEN Archive(alert[i]) ELSE alert[i]
    BY <1>0, <1>2, <2>1 DEF Compact
  <2>3. QED
    BY <2>2
<1>3. ASSUME \/ \E g \in Groups : DeleteGroup(g) \/ \E R \in RuleSets : SaveGroup(g, R)
             \/ \E c \in Clients : Forget(c) \/ SeenAges(c)
             \/ \E p \in Polls : HoldOver(p) \/ EndPoll(p)
      PROVE  alert' = alert
  BY <1>3 DEF DeleteGroup, SaveGroup, Forget, SeenAges, HoldOver, EndPoll, storeVars
<1>4. QED
  BY <1>1, <1>2, <1>3 DEF Next, StaffStep, PollStep

\* A record that is made, displayed or confirmed remains so.
LEMMA MarksStay ==
  ASSUME NEW d \in DeliveryType, NEW a, NEW batch
  PROVE  \A e \in {d, AfterBatch(d, a, batch), AfterSend(d, 1), AfterRecallSent(d)} :
           (d.made => e.made) /\ (d.displayed => e.displayed) /\ (d.acked => e.acked)
  BY DEF AfterBatch, AfterSend, AfterRecallSent, DeliveryType

\* Its totals are written once, and its records go then.
LEMMA ArchivedOnce ==
  ASSUME Ordered, Next, ~Restart, NEW i \in list, i \in list'
  PROVE  LET a == alert[i]
             b == alert'[i]
         IN \/ b.archived = a.archived /\ (b.deliv = Nil <=> a.deliv = Nil)
            \/ a.archived = Nil /\ b.archived = Totals(a) /\ b.deliv = Nil
<1>0. /\ TypeOK /\ Known /\ i \in Alerts /\ alert[i] \in AlertType
      /\ Nil \notin [Clients -> DeliveryType]
  BY HistoryAssumption DEF Ordered, Known, TypeOK
<1>1. CASE \E p \in Polls, c \in Clients, f \in Facts : \E batch \in Batches(c) :
             CheckIn(p, c, f, batch)
  BY <1>0, <1>1, CheckInAlerts
<1>2. CASE \E p \in Polls : Look(p)
  BY <1>0, <1>2, LookAlert
<1>3. CASE /\ Archivable(i, list')
           /\ alert'[i] = Archive(alert[i])
  BY <1>0, <1>3 DEF Archivable, Archive, AlertType
<1>4. QED
  BY <1>1, <1>2, <1>3, WhoWrites

\* As long as an alert has its records, what is marked on them remains so.
LEMMA RecordsGrow ==
  ASSUME Ordered, Next, ~Restart, NEW i \in list, i \in list',
         alert[i].archived = Nil, alert'[i].archived = Nil, NEW c \in Clients
  PROVE  LET d == alert[i].deliv[c]
             e == alert'[i].deliv[c]
         IN (d.made => e.made) /\ (d.displayed => e.displayed) /\ (d.acked => e.acked)
<1> DEFINE a == alert[i]
           b == alert'[i]
           d == a.deliv[c]
           e == b.deliv[c]
<1>0. TypeOK /\ Known /\ i \in Alerts /\ a \in AlertType
  BY DEF Ordered, Known, TypeOK
<1>1. a.deliv # Nil /\ d \in DeliveryType
  BY <1>0 DEF Ordered, HistoryKept, AlertType
<1>2. b # Archive(a)
  <2>1. Totals(a) # Nil
    BY <1>0, TotalsAreTotals, HistoryAssumption
  <2>2. Archive(a).archived = Totals(a)
    BY <1>0 DEF Archive, AlertType
  <2>3. QED
    BY <2>1, <2>2
<1>3. CASE \E p \in Polls, x \in Clients, f \in Facts : \E batch \in Batches(x) :
             CheckIn(p, x, f, batch)
  <2>1. PICK p \in Polls, x \in Clients, f \in Facts :
               \E batch \in Batches(x) : CheckIn(p, x, f, batch)
    BY <1>3
  <2>2. PICK batch \in Batches(x) : CheckIn(p, x, f, batch)
    BY <2>1
  <2>3. TypeOK /\ i \in Alerts /\ alert[i].deliv # Nil
    BY <1>0, <1>1
  <2>4. /\ alert'[i].deliv[x] = AfterBatch(alert[i].deliv[x], i, batch)
        /\ \A y \in Clients \ {x} : alert'[i].deliv[y] = alert[i].deliv[y]
    BY <2>2, <2>3, CheckInAlerts
  <2>5. e = d \/ e = AfterBatch(d, i, batch)
    BY <2>4
  <2> HIDE DEF d, e
  <2>6. QED
    BY <1>1, <2>5, MarksStay DEF d, e
<1>4. CASE \E p \in Polls : Look(p)
  <2>1. PICK p \in Polls : Look(p)
    BY <1>4
  <2>2. e \in {d, AfterSend(d, 1), AfterRecallSent(d)}
    BY <1>0, <1>1, <2>1, LookAlert
  <2> HIDE DEF d, e
  <2>3. QED
    BY <1>1, <2>2, MarksStay DEF d, e
<1>5. CASE b.deliv = a.deliv
  BY <1>5
<1>6. QED
  BY <1>2, <1>3, <1>4, <1>5, WhoWrites

\* What there is of alert a is still in b: no total has gone down, and as long
\* as there are records none has gone.
Grown(a, b) ==
  /\ AtMost(Totals(a), Totals(b))
  /\ b.deliv # Nil =>
       a.deliv # Nil /\ \A c \in Clients : a.deliv[c].made => b.deliv[c].made

\* So it is while records and totals stay as they are,
LEMMA GrownSame ==
  ASSUME NEW a \in AlertType, NEW b, b.deliv = a.deliv, b.archived = a.archived
  PROVE  Grown(a, b)
<1>1. Totals(b) = Totals(a)
  BY DEF Totals
<1>2. Totals(a) \in TotalsType
  BY TotalsAreTotals
<1>3. AtMost(Totals(a), Totals(b))
  BY <1>1, <1>2 DEF AtMost, TotalsType
<1>4. QED
  BY <1>3 DEF Grown

\* over several steps,
LEMMA GrownOn ==
  ASSUME NEW a \in AlertType, NEW b \in AlertType, NEW d \in AlertType,
         Grown(a, b), Grown(b, d)
  PROVE  Grown(a, d)
<1>1. Totals(a) \in TotalsType /\ Totals(b) \in TotalsType /\ Totals(d) \in TotalsType
  BY TotalsAreTotals
<1>2. \A t, u, v \in TotalsType : AtMost(t, u) /\ AtMost(u, v) => AtMost(t, v)
  BY DEF AtMost, TotalsType
<1>3. AtMost(Totals(a), Totals(d))
  BY <1>1, <1>2 DEF Grown
<1>4. QED
  BY <1>3 DEF Grown

\* and in every step but a restart.
LEMMA AlertGrows ==
  ASSUME Ordered, Next, ~Restart, NEW i \in list, i \in list'
  PROVE  Grown(alert[i], alert'[i])
<1> DEFINE a == alert[i]
           b == alert'[i]
<1>0. /\ TypeOK /\ i \in Alerts /\ a \in AlertType
      /\ a.archived = Nil <=> a.deliv # Nil
  BY DEF Ordered, Known, TypeOK, HistoryKept
<1>1. Totals(a) \in TotalsType
  BY <1>0, TotalsAreTotals
<1>2. Totals(a) # Nil
  BY <1>1, HistoryAssumption
<1>3. CASE b.archived # Nil
  <2>1. Totals(b) = Totals(a) /\ b.deliv = Nil
    BY <1>0, <1>3, ArchivedOnce DEF Totals
  <2>2. AtMost(Totals(a), Totals(b))
    BY <1>1, <2>1 DEF AtMost, TotalsType
  <2>3. QED
    BY <2>1, <2>2 DEF Grown
<1>4. CASE b.archived = Nil
  <2> DEFINE M(D) == {c \in Clients : D[c].made}
             S(D) == {c \in Clients : D[c].displayed}
             A(D) == {c \in Clients : D[c].acked}
  <2>0. a.archived = Nil /\ a.deliv # Nil
    BY <1>0, <1>2, <1>4, ArchivedOnce
  <2>1. /\ M(a.deliv) \in SUBSET M(b.deliv) /\ S(a.deliv) \in SUBSET S(b.deliv)
        /\ A(a.deliv) \in SUBSET A(b.deliv)
    BY <1>4, <2>0, RecordsGrow
  <2>2. \A D : /\ M(D) \in SUBSET Clients /\ S(D) \in SUBSET Clients
               /\ A(D) \in SUBSET Clients
    OBVIOUS
  <2>3. /\ IsFiniteSet(M(b.deliv)) /\ IsFiniteSet(S(b.deliv)) /\ IsFiniteSet(A(b.deliv))
    BY <2>2, FS_Subset, HistoryAssumption
  <2>4. /\ Totals(a) = [sent |-> Cardinality(M(a.deliv)),
                        displayed |-> Cardinality(S(a.deliv)),
                        acked |-> Cardinality(A(a.deliv))]
        /\ Totals(b) = [sent |-> Cardinality(M(b.deliv)),
                        displayed |-> Cardinality(S(b.deliv)),
                        acked |-> Cardinality(A(b.deliv))]
    BY <1>4, <2>0 DEF Totals
  <2>5. \A c \in Clients : a.deliv[c].made => b.deliv[c].made
    BY <2>1
  <2> HIDE DEF M, S, A
  <2>6. /\ Cardinality(M(a.deliv)) <= Cardinality(M(b.deliv))
        /\ Cardinality(S(a.deliv)) <= Cardinality(S(b.deliv))
        /\ Cardinality(A(a.deliv)) <= Cardinality(A(b.deliv))
    BY <2>1, <2>3, FS_Subset
  <2> HIDE DEF a, b
  <2>7. AtMost(Totals(a), Totals(b))
    BY <2>4, <2>6 DEF AtMost
  <2>8. QED
    BY <2>0, <2>5, <2>7 DEF Grown, a, b
<1>5. QED
  BY <1>3, <1>4

\* The list has at least what the file has.
SavedBelow == \A i \in list \cap saved.list : Grown(saved.alert[i], alert[i])

Backed == Ordered /\ SavedBelow

\* No step leaves less than the file had.
LEMMA AboveSaved ==
  ASSUME Backed, Next, NEW i \in saved.list, i \in list'
  PROVE  Grown(saved.alert[i], alert'[i])
<1>0. /\ Ordered /\ TypeOK /\ TypeOK' /\ i \in Alerts /\ i # sent + 1
      /\ saved.alert[i] \in AlertType /\ alert[i] \in AlertType /\ alert'[i] \in AlertType
  <2>1. sent \in Nat /\ i \in 1..sent
    BY AlertIds DEF Backed, Ordered, IdsInOrder
  <2>2. TypeOK /\ TypeOK'
    BY TypesKept DEF Backed, Ordered, Known
  <2>3. QED
    BY <2>1, <2>2 DEF Backed, TypeOK
<1>1. CASE Restart
  BY <1>0, <1>1, Restarted, GrownSame
<1>2. CASE ~Restart
  <2>1. i \in list
    BY <1>0, <1>2, AlertsStay DEF Send
  <2>2. Grown(saved.alert[i], alert[i]) /\ Grown(alert[i], alert'[i])
    BY <1>0, <1>2, <2>1, AlertGrows DEF Backed, SavedBelow
  <2>3. QED
    BY <1>0, <2>2, GrownOn
<1>3. QED
  BY <1>1, <1>2

LEMMA BackedAtFirst == Init => Backed
  BY OrderedAtFirst DEF Init, Backed, SavedBelow

LEMMA BackedKept == Backed /\ [Next]_vars => Backed'
<1>1. ASSUME Backed, Next
      PROVE  SavedBelow'
  <2> SUFFICES ASSUME NEW i \in list', i \in saved'.list
               PROVE  Grown(saved'.alert[i], alert'[i])
    BY DEF SavedBelow, Grown, AtMost, Totals
  <2>0. TypeOK' /\ i \in Alerts /\ alert'[i] \in AlertType /\ saved'.alert[i] \in AlertType
    <3>1. TypeOK'
      BY <1>1, TypesKept DEF Backed, Ordered, Known
    <3>2. QED
      BY <3>1 DEF TypeOK
  <2>1. CASE /\ saved'.list = saved.list
             /\ saved'.alert[i].deliv = saved.alert[i].deliv
             /\ saved'.alert[i].archived = saved.alert[i].archived
    <3>1. saved.alert[i] \in AlertType
      BY <1>1, <2>0 DEF Backed, Ordered, Known, TypeOK
    <3>2. Grown(saved'.alert[i], saved.alert[i])
      BY <2>0, <2>1, GrownSame
    <3>3. Grown(saved.alert[i], alert'[i])
      BY <1>1, <2>1, AboveSaved
    <3>4. QED
      BY <2>0, <3>1, <3>2, <3>3, GrownOn
  <2>2. CASE saved'.alert = alert'
    BY <2>0, <2>2, GrownSame
  <2>3. QED
    BY <1>1, <2>0, <2>1, <2>2, FileStays DEF Backed
<1>2. CASE Next
  BY <1>1, <1>2, OrderIsKept DEF Backed
<1>3. CASE UNCHANGED vars
  <2>1. Backed => Ordered'
    BY <1>3, OrderIsKept DEF Backed
  <2>2. ASSUME Backed, NEW i \in list', i \in saved'.list
        PROVE  Grown(saved'.alert[i], alert'[i])
    BY <1>3, <2>2 DEF Backed, SavedBelow, vars, storeVars
  <2>3. Backed => SavedBelow'
    BY <2>2 DEF SavedBelow, Grown, AtMost, Totals
  <2>4. QED
    BY <2>1, <2>3 DEF Backed
<1>4. QED
  BY <1>2, <1>3

\* Reports, trimming and the flushes only add to what the history shows of an
\* alert; a restart takes back what its file does not have, and no more.
THEOREM TotalsAreKept == Spec => TotalsKept
<1> DEFINE Step ==
             /\ \A i \in list \cap list' :
                  Restart \/ AtMost(Totals(alert[i]), Totals(alert'[i]))
             /\ \A i \in saved.list \cap list' :
                  AtMost(Totals(saved.alert[i]), Totals(alert'[i]))
<1>1. Backed /\ Next => Step
  BY AlertGrows, AboveSaved DEF Backed, Grown
<1>2. Backed /\ [Next]_vars => [Step]_vars
  BY <1>1
<1>3. TotalsKept <=> [][Step]_vars
  BY DEF TotalsKept
<1> HIDE DEF Step
<1>4. QED
  BY <1>2, <1>3, BackedAtFirst, BackedKept, PTL DEF Spec

-----------------------------------------------------------------------------
(* What the records of an alert tell of what has happened *)

\* The rules alert i was sent with say what its target meant then.
Faithful(a, i) == \A f \in Facts : AlertMatches(a, f) <=> f \in meant[i]

TargetsKept ==
  /\ \A i \in list : Faithful(alert[i], i)
  /\ \A i \in saved.list : Faithful(saved.alert[i], i)

WasHanded(i, c) == \E x \in handed : x.alert = i /\ x.client = c

\* No end has been reported.
IsOpen(d) == d.closed = ""

\* What is on the record of client c of alert i has happened, and nothing is on
\* the record of an alert that has not been handed out.
RecordTells(a, i, c) ==
  LET d == a.deliv[c] IN
    /\ d.made => WasHanded(i, c) /\ d.sid = 1 /\ ~d.stale
    /\ ~d.made => IsOpen(d) /\ ~d.recallSent
    /\ ~IsOpen(d) => <<i, c>> \in ended
    /\ d.recallSent => a.recalled /\ <<i, c>> \in told

\* What was handed out is on record, unless a crash has taken that.
OnRecord(i, c) ==
  LET d == alert[i].deliv[c] IN
    /\ d.made \/ <<i, c>> \in unrecorded \/ ~WasHanded(i, c)
    /\ ~d.made \/ <<i, c>> \notin unrecorded

\* What was handed out was meant.
HandedAsMeant ==
  \A x \in handed : x.alert \in list \cup saved.list /\ x.facts \in meant[x.alert]

ListTells ==
  \A i \in list : alert[i].deliv # Nil =>
    \A c \in Clients : RecordTells(alert[i], i, c) /\ OnRecord(i, c)

SavedTells ==
  \A i \in saved.list : saved.alert[i].deliv # Nil =>
    \A c \in Clients : RecordTells(saved.alert[i], i, c)

Told == Backed /\ TargetsKept /\ HandedAsMeant /\ ListTells /\ SavedTells

\* What an alert matches is a matter of what it was sent with.
LEMMA MatchesSame ==
  ASSUME NEW a, NEW b, a.all = b.all, a.rules = b.rules
  PROVE  \A f : AlertMatches(a, f) <=> AlertMatches(b, f)
  BY DEF AlertMatches, RulesMatch

\* The rules of the target, flattened, mean what the target means now.
LEMMA FlattenedMeansIt ==
  ASSUME NEW t \in Targets, NEW a, a.all = t.all,
         a.rules = FlattenTarget(t, groups), NEW f \in Facts
  PROVE  AlertMatches(a, f) <=> f \in Means(t)
  BY DEF AlertMatches, RulesMatch, FlattenTarget, Means

\* What is in the list or in the file has not been forgotten.
LEMMA MeantStays ==
  ASSUME Ordered, Next, NEW i \in Alerts, i \in list' \cup saved'.list, i # sent + 1
  PROVE  meant'[i] = meant[i]
<1>0. TypeOK
  BY DEF Ordered, Known
<1>1. CASE \E t \in Targets : Send(t)
  BY <1>0, <1>1 DEF Send, TypeOK
<1>2. CASE Compact
  BY <1>0, <1>2 DEF Compact, Forgotten, TypeOK
<1>3. CASE Restart
  BY <1>0, <1>3 DEF Restart, Forgotten, TypeOK
<1>4. CASE StaffStep /\ ~\E t \in Targets : Send(t)
  BY <1>4 DEF StaffStep, SaveGroup, DeleteGroup, Recall, Forget, history
<1>5. ASSUME NEW p \in Polls, PollStep(p)
      PROVE  meant' = meant
  BY <1>5 DEF PollStep, CheckIn, Look, HoldOver, EndPoll, history
<1>6. CASE (\E j \in Alerts : Expire(j) \/ RecallAges(j)) \/ \E c \in Clients : SeenAges(c)
  BY <1>6 DEF Expire, RecallAges, SeenAges, history
<1>7. QED
  BY <1>1, <1>2, <1>3, <1>4, <1>5, <1>6 DEF Next

\* Every step keeps what the rules say.
LEMMA TargetsAreKept == Ordered /\ TargetsKept /\ Next => TargetsKept'
<1> SUFFICES ASSUME Ordered, TargetsKept, Next PROVE TargetsKept'
  OBVIOUS
<1>0. /\ TypeOK /\ sent + 1 \notin list \cup saved.list /\ list \cup saved.list \subseteq Alerts
      /\ TypeOK' /\ list' \cup saved'.list \subseteq Alerts
  <2>1. sent \in Nat /\ list \cup saved.list \subseteq 1..sent
    BY AlertIds DEF Ordered, IdsInOrder
  <2>2. TypeOK /\ TypeOK'
    BY TypesKept DEF Ordered, Known
  <2>3. QED
    BY <2>1, <2>2 DEF TypeOK
<1>1. ASSUME NEW i \in list'
      PROVE  Faithful(alert[i], i)'
  <2>1. ASSUME NEW t \in Targets, Send(t)
        PROVE  Faithful(alert[i], i)'
    <3> DEFINE new == [NoAlert EXCEPT !.all = t.all,
                                      !.rules = FlattenTarget(t, groups)]
    <3>1. /\ list' = list \cup {sent + 1} /\ sent + 1 \in Alerts
          /\ alert'[sent + 1] = new /\ meant'[sent + 1] = Means(t)
          /\ \A j \in list : alert'[j] = alert[j] /\ meant'[j] = meant[j]
      BY <1>0, <2>1 DEF Send, TypeOK
    <3>2. new.all = t.all /\ new.rules = FlattenTarget(t, groups)
      BY DEF NoAlert
    <3> HIDE DEF new
    <3>3. \A f \in Facts : AlertMatches(new, f) <=> f \in Means(t)
      BY <3>2, FlattenedMeansIt
    <3>4. QED
      BY <1>1, <3>1, <3>3 DEF TargetsKept, Faithful
  <2>2. CASE Restart
    <3>1. i \in saved.list /\ alert'[i] = saved.alert[i] /\ meant'[i] = meant[i]
      BY <1>1, <2>2, Restarted
    <3>2. QED
      BY <3>1 DEF TargetsKept, Faithful
  <2>3. CASE i \in list /\ StaysAsSent(i)
    <3>1. \A f : AlertMatches(alert'[i], f) <=> AlertMatches(alert[i], f)
      BY <2>3, MatchesSame DEF StaysAsSent
    <3>2. QED
      BY <2>3, <3>1 DEF TargetsKept, Faithful, StaysAsSent
  <2>4. QED
    BY <1>1, <2>1, <2>2, <2>3, AlertsStay
<1>2. ASSUME NEW i \in saved'.list
      PROVE  Faithful(saved.alert[i], i)'
  <2>1. CASE /\ saved'.list = saved.list
             /\ saved'.alert[i].all = saved.alert[i].all
             /\ saved'.alert[i].rules = saved.alert[i].rules
    <3>1. \A f : AlertMatches(saved'.alert[i], f) <=> AlertMatches(saved.alert[i], f)
      BY <2>1, MatchesSame
    <3>2. meant'[i] = meant[i]
      BY <1>0, <1>2, <2>1, MeantStays
    <3>3. QED
      BY <1>2, <2>1, <3>1, <3>2 DEF TargetsKept, Faithful
  <2>2. CASE saved'.list = list' /\ saved'.alert = alert'
    BY <1>1, <1>2, <2>2 DEF Faithful
  <2>3. QED
    BY <1>0, <1>2, <2>1, <2>2, FileStays
<1>3. QED
  BY <1>1, <1>2 DEF TargetsKept

\* What a batch of reports makes of a record is what has been reported.
LEMMA ReportsTell ==
  ASSUME NEW d \in DeliveryType, NEW i \in Alerts, NEW c \in Clients,
         NEW batch \in Batches(c)
  PROVE  /\ AfterBatch(d, i, batch).made = d.made
         /\ AfterBatch(d, i, batch).recallSent = d.recallSent
         /\ AfterBatch(d, i, batch).sid = d.sid
         /\ AfterBatch(d, i, batch).stale = d.stale
         /\ ~d.made => AfterBatch(d, i, batch) = d
         /\ ~IsOpen(AfterBatch(d, i, batch)) =>
              \/ ~IsOpen(d)
              \/ \E j \in DOMAIN batch : batch[j][1] = i /\ batch[j][2] # "displayed"
<1> DEFINE e == AfterBatch(d, i, batch)
           k == ClosedAfter(d, i, batch)
<1>1. /\ e.made = d.made /\ e.recallSent = d.recallSent /\ e.closed \in {d.closed, k}
      /\ e.sid = d.sid /\ e.stale = d.stale /\ (~d.made => e = d)
  BY DEF AfterBatch, DeliveryType
<1> HIDE DEF e
<1>2. k = d.closed \/ (k # "displayed" /\ Says(batch, i, k))
  BY ClosedAfterFacts DEF Closings
<1> HIDE DEF k
<1>3. Says(batch, i, k) =>
        \E j \in DOMAIN batch : batch[j][1] = i /\ batch[j][2] = k
  BY DEF Says
<1>4. IsOpen(d) /\ e.closed = d.closed => IsOpen(e)
  BY Zenon DEF IsOpen
<1>5. QED
  BY <1>1, <1>2, <1>3, <1>4 DEF e

\* What was handed out was meant, in every step.
LEMMA HandedIsMeant == Told /\ Next => HandedAsMeant'
<1> SUFFICES ASSUME Told, Next, NEW x \in handed'
             PROVE  x.alert \in list' \cup saved'.list /\ x.facts \in meant'[x.alert]
  BY DEF HandedAsMeant
<1>0. /\ Ordered /\ Known /\ TypeOK /\ TypeOK' /\ x.alert \in Alerts
      /\ list \cup saved.list \subseteq Alerts /\ sent + 1 \notin list \cup saved.list
  <2>1. sent \in Nat /\ list \cup saved.list \subseteq 1..sent
    BY AlertIds DEF Told, Backed, Ordered, IdsInOrder
  <2>2. TypeOK /\ TypeOK'
    BY TypesKept DEF Told, Backed, Ordered, Known
  <2>3. QED
    BY <2>1, <2>2 DEF Told, Backed, Ordered, TypeOK
<1>1. ASSUME x \in handed
      PROVE  x.alert # sent + 1 /\ x.facts \in meant[x.alert]
  BY <1>0, <1>1 DEF Told, HandedAsMeant
<1>2. CASE Compact \/ Restart
  <2>1. x \in handed /\ x.alert \in list' \cup saved'.list
    BY <1>0, <1>2 DEF Compact, Restart, Forgotten
  <2>2. QED
    BY <1>0, <1>1, <2>1, MeantStays
<1>3. CASE ~Compact /\ ~Restart
  <2>1. list \cup saved.list \subseteq list' \cup saved'.list
    BY <1>0, <1>3, AlertsStay, FileStays DEF Send
  <2>2. CASE x \in handed
    <3>1. x.alert \in list' \cup saved'.list
      BY <2>1, <2>2 DEF Told, HandedAsMeant
    <3>2. QED
      BY <1>0, <1>1, <2>2, <3>1, MeantStays
  <2>3. ASSUME NEW p \in Polls, Look(p), x \notin handed
        PROVE  x.alert \in list' \cup saved'.list /\ x.facts \in meant'[x.alert]
    <3> DEFINE r == poll[p].rec
    <3>1. x.alert \in ToSend(r) /\ x.facts = info[r].facts /\ meant' = meant
      BY <2>3 DEF Look
    <3>2. info[r].facts \in Facts
      BY <1>0, <2>3, LookFacts
    <3> HIDE DEF r
    <3>3. x.alert \in list /\ AlertMatches(alert[x.alert], info[r].facts)
      BY <3>1 DEF ToSend
    <3>4. x.facts \in meant[x.alert]
      BY <3>1, <3>2, <3>3 DEF Told, TargetsKept, Faithful
    <3>5. QED
      BY <2>1, <3>1, <3>3, <3>4
  <2>4. CASE handed' = handed
    BY <2>2, <2>4
  <2>5. StaffStep \/ (\E i \in Alerts : Expire(i) \/ RecallAges(i))
          \/ (\E c \in Clients : SeenAges(c)) => handed' = handed
    BY DEF StaffStep, SaveGroup, DeleteGroup, Send, Recall, Forget, Expire,
           RecallAges, SeenAges, history
  <2>6. ASSUME NEW p \in Polls, PollStep(p)
        PROVE  Look(p) \/ handed' = handed
    BY <2>6 DEF PollStep, CheckIn, HoldOver, EndPoll, history
  <2>7. QED
    BY <1>3, <2>2, <2>3, <2>4, <2>5, <2>6 DEF Next
<1>4. QED
  BY <1>2, <1>3

\* But for looks and restarts, the history says the same of what is in the list
\* or in the file, and ends are only added.
LEMMA HistoryStays ==
  ASSUME Known, Next, ~Restart, \A p \in Polls : ~Look(p),
         NEW i \in list' \cup saved'.list, NEW c \in Clients
  PROVE  /\ WasHanded(i, c)' <=> WasHanded(i, c)
         /\ <<i, c>> \in ended => <<i, c>> \in ended'
         /\ <<i, c>> \in told => <<i, c>> \in told'
         /\ <<i, c>> \in unrecorded' <=> <<i, c>> \in unrecorded
<1>0. i \in Alerts
  BY TypesKept DEF TypeOK
<1>1. CASE UNCHANGED <<handed, told, unrecorded>> /\ ended \subseteq ended'
  BY <1>1 DEF WasHanded
<1>2. CASE Compact
  <2>1. /\ handed' = {x \in handed : x.alert \notin Alerts \ (list' \cup saved'.list)}
        /\ ended' = {x \in ended : x[1] \notin Alerts \ (list' \cup saved'.list)}
        /\ told' = {x \in told : x[1] \notin Alerts \ (list' \cup saved'.list)}
        /\ unrecorded' = {x \in unrecorded : x[1] \notin Alerts \ (list' \cup saved'.list)}
    BY <1>2 DEF Compact, Forgotten
  <2>2. WasHanded(i, c)' <=> WasHanded(i, c)
    BY <2>1 DEF WasHanded
  <2>3. QED
    BY <2>1, <2>2
<1>3. CASE \/ StaffStep \/ \E j \in Alerts : Expire(j) \/ RecallAges(j)
           \/ \E x \in Clients : SeenAges(x)
  <2>1. UNCHANGED <<handed, told, ended, unrecorded>>
    BY <1>3 DEF StaffStep, SaveGroup, DeleteGroup, Send, Recall, Forget, Expire,
                RecallAges, SeenAges, history
  <2>2. QED
    BY <1>1, <2>1
<1>4. ASSUME NEW p \in Polls, PollStep(p)
      PROVE  UNCHANGED <<handed, told, unrecorded>> /\ ended \subseteq ended'
  BY <1>4 DEF PollStep, CheckIn, HoldOver, EndPoll, history
<1>5. QED
  BY <1>1, <1>2, <1>3, <1>4 DEF Next

\* A look hands out what is not on record.
LEMMA WantedFirst ==
  ASSUME NEW d, NEW i, d.made => d.sid = 1 /\ ~d.stale, Wanted(d, i, 1)
  PROVE  ~d.made
  BY DEF Wanted

\* What a look does to the record of alert i and client c and to the history.
LEMMA LookTells ==
  ASSUME Told, NEW p \in Polls, Look(p), NEW i \in list, NEW c \in Clients,
         alert[i].deliv # Nil
  PROVE  LET r == poll[p].rec
             mine == c = info[r].client
             d == alert[i].deliv[c]
             e == alert'[i].deliv[c]
         IN /\ i \notin ToSend(r) \/ i \notin ToRecall(r)
            /\ mine /\ i \in ToSend(r) =>
                 e = AfterSend(d, 1) /\ ~d.made /\ ~alert[i].recalled
            /\ mine /\ i \in ToRecall(r) =>
                 e = AfterRecallSent(d) /\ d.made /\ alert[i].recalled
            /\ ~(mine /\ i \in ToSend(r) \cup ToRecall(r)) => e = d
            /\ d \in DeliveryType
            /\ alert'[i].recalled = alert[i].recalled
            /\ WasHanded(i, c)' <=> WasHanded(i, c) \/ (mine /\ i \in ToSend(r))
            /\ <<i, c>> \in told' <=>
                 \/ <<i, c>> \in told /\ ~(mine /\ i \in ToSend(r))
                 \/ mine /\ i \in ToRecall(r)
            /\ <<i, c>> \in ended' <=> <<i, c>> \in ended /\ ~(mine /\ i \in ToSend(r))
            /\ <<i, c>> \in unrecorded' <=>
                 <<i, c>> \in unrecorded /\ ~(mine /\ i \in ToSend(r))
<1> DEFINE r == poll[p].rec
           x == info[r].client
           S == ToSend(r)
           R == ToRecall(r)
<1>0. Known /\ TypeOK /\ i \in Alerts /\ RecordTells(alert[i], i, c)
  BY DEF Told, Backed, Ordered, Known, TypeOK, ListTells
<1>1. x \in Clients /\ S \cap R = {}
  BY <1>0, LookFacts
<1>2. alert[i].deliv[c] \in DeliveryType
  BY <1>0 DEF TypeOK, AlertType
<1>3. /\ i \notin S \cup R => alert'[i] = alert[i]
      /\ i \in S => alert'[i].deliv[x] = AfterSend(alert[i].deliv[x], 1)
      /\ i \in R => alert'[i].deliv[x] = AfterRecallSent(alert[i].deliv[x])
      /\ i \in S \cup R => \A y \in Clients \ {x} :
           alert'[i].deliv[y] = alert[i].deliv[y]
      /\ alert'[i].recalled = alert[i].recalled
  BY <1>0, LookAlert
<1>4. c = x /\ i \in S => ~alert[i].deliv[c].made /\ ~alert[i].recalled
  <2>1. c = x /\ i \in S => Wanted(alert[i].deliv[c], i, 1) /\ ~alert[i].recalled
    BY DEF ToSend, Active
  <2>2. QED
    BY <1>0, <2>1, WantedFirst DEF RecordTells
<1>5. c = x /\ i \in R => alert[i].deliv[c].made /\ alert[i].recalled
  BY DEF ToRecall, RecallDue
<1>6. /\ handed' = handed \cup
           {[alert |-> j, client |-> x, facts |-> info[r].facts] : j \in S}
      /\ told' = (told \ Pairs(S, x)) \cup Pairs(R, x)
      /\ ended' = ended \ Pairs(S, x)
      /\ unrecorded' = unrecorded \ Pairs(S, x)
  BY DEF Look
<1>7. \A T : <<i, c>> \in Pairs(T, x) <=> c = x /\ i \in T
  BY DEF Pairs
<1> HIDE DEF r, x, S, R
<1>8. WasHanded(i, c)' <=> WasHanded(i, c) \/ (c = x /\ i \in S)
  <2>1. i \in S => [alert |-> i, client |-> x, facts |-> info[r].facts] \in handed'
    BY <1>6
  <2>2. \A h \in handed' : h \in handed \/ (h.alert \in S /\ h.client = x)
    BY <1>6
  <2>3. \A h \in handed : h \in handed'
    BY <1>6
  <2>4. QED
    BY <2>1, <2>2, <2>3 DEF WasHanded
<1>9. /\ <<i, c>> \in told' <=>
           (<<i, c>> \in told /\ ~(c = x /\ i \in S)) \/ (c = x /\ i \in R)
      /\ <<i, c>> \in ended' <=> <<i, c>> \in ended /\ ~(c = x /\ i \in S)
      /\ <<i, c>> \in unrecorded' <=> <<i, c>> \in unrecorded /\ ~(c = x /\ i \in S)
  BY <1>6, <1>7
<1>10. QED
  BY <1>1, <1>2, <1>3, <1>4, <1>5, <1>8, <1>9 DEF r, x, S, R

\* What a record tells stays told while record and history stay as they are.
LEMMA SameTells ==
  ASSUME NEW i, NEW c, RecordTells(alert[i], i, c), OnRecord(i, c),
         alert'[i].deliv[c] = alert[i].deliv[c],
         alert[i].recalled => alert'[i].recalled,
         WasHanded(i, c)' <=> WasHanded(i, c),
         <<i, c>> \in ended => <<i, c>> \in ended',
         <<i, c>> \in told => <<i, c>> \in told',
         <<i, c>> \in unrecorded' <=> <<i, c>> \in unrecorded
  PROVE  RecordTells(alert[i], i, c)' /\ OnRecord(i, c)'
<1>1. RecordTells(alert[i], i, c)'
  BY DEF RecordTells
<1>2. OnRecord(i, c)'
  BY DEF OnRecord
<1>3. QED
  BY <1>1, <1>2

\* Every step keeps what the records of the list tell.
LEMMA ListTold == Told /\ Next => ListTells'
<1> SUFFICES ASSUME Told, Next, NEW i \in list', alert'[i].deliv # Nil, NEW c \in Clients
             PROVE  RecordTells(alert[i], i, c)' /\ OnRecord(i, c)'
  BY DEF ListTells
<1>0. /\ Ordered /\ Known /\ TypeOK /\ i \in Alerts /\ list \subseteq Alerts
      /\ sent + 1 \notin list \cup saved.list
  <2>1. sent \in Nat /\ list \cup saved.list \subseteq 1..sent
    BY AlertIds DEF Told, Backed, Ordered, IdsInOrder
  <2>2. TypeOK /\ TypeOK'
    BY TypesKept DEF Told, Backed, Ordered, Known
  <2>3. QED
    BY <2>1, <2>2 DEF Told, Backed, Ordered, TypeOK
<1>1. ASSUME i \in list, alert'[i].deliv[c] = alert[i].deliv[c], alert[i].deliv # Nil,
             alert[i].recalled => alert'[i].recalled,
             ~Restart, \A p \in Polls : ~Look(p)
      PROVE  RecordTells(alert[i], i, c)' /\ OnRecord(i, c)'
  BY <1>0, <1>1, HistoryStays, SameTells DEF Told, ListTells
<1>2. ASSUME NEW t \in Targets, Send(t)
      PROVE  RecordTells(alert[i], i, c)' /\ OnRecord(i, c)'
  <2>1. CASE i = sent + 1
    <3>1. alert'[i].deliv = NoRecords /\ handed' = handed
      BY <1>0, <1>2, <2>1 DEF Send, TypeOK, NoAlert
    <3>2. ~WasHanded(i, c) /\ (WasHanded(i, c)' <=> WasHanded(i, c))
      BY <1>0, <2>1, <3>1 DEF WasHanded, Told, HandedAsMeant
    <3>3. alert'[i].deliv[c] = NoDelivery
      BY <3>1 DEF NoRecords
    <3>4. NoDelivery.made = FALSE /\ IsOpen(NoDelivery) /\ NoDelivery.recallSent = FALSE
      BY DEF NoDelivery, IsOpen
    <3>5. RecordTells(alert[i], i, c)'
      BY <3>3, <3>4 DEF RecordTells
    <3>6. OnRecord(i, c)'
      BY <3>2, <3>3, <3>4 DEF OnRecord
    <3>7. QED
      BY <3>5, <3>6
  <2>2. CASE i # sent + 1
    <3>1. i \in list /\ alert'[i] = alert[i]
      BY <1>0, <1>2, <2>2 DEF Send, TypeOK
    <3>2. ~Restart /\ \A p \in Polls : ~Look(p)
      <4>1. sent + 1 # sent
        BY <1>0 DEF TypeOK
      <4>2. QED
        BY <1>2, <4>1 DEF Send, Restart, Look
    <3>3. QED
      BY <1>1, <3>1, <3>2
  <2>3. QED
    BY <2>1, <2>2
<1>3. ASSUME NEW p \in Polls, NEW x \in Clients, NEW f \in Facts,
             NEW batch \in Batches(x), CheckIn(p, x, f, batch)
      PROVE  RecordTells(alert[i], i, c)' /\ OnRecord(i, c)'
  <2>1. UNCHANGED <<list, saved, handed, told, unrecorded>> /\ ended \subseteq ended'
    BY <1>3 DEF CheckIn
  <2>2. i \in list /\ (WasHanded(i, c)' <=> WasHanded(i, c))
    BY <2>1 DEF WasHanded
  <2>3. /\ alert[i].deliv # Nil /\ alert'[i].recalled = alert[i].recalled
        /\ alert[i].deliv \in [Clients -> DeliveryType]
        /\ alert'[i].deliv[x] = AfterBatch(alert[i].deliv[x], i, batch)
        /\ \A y \in Clients \ {x} : alert'[i].deliv[y] = alert[i].deliv[y]
    BY <1>0, <1>3, CheckInAlerts
  <2>4. RecordTells(alert[i], i, c) /\ OnRecord(i, c)
    BY <2>2, <2>3 DEF Told, ListTells
  <2>5. CASE c # x
    BY <2>1, <2>2, <2>3, <2>4, <2>5, SameTells
  <2>6. CASE c = x
    <3> DEFINE d == alert[i].deliv[c]
               e == AfterBatch(d, i, batch)
    <3>0. d \in DeliveryType
      BY <2>3
    <3> HIDE DEF d
    <3>1. /\ e.made = d.made /\ e.recallSent = d.recallSent
          /\ e.sid = d.sid /\ e.stale = d.stale /\ (~d.made => e = d)
          /\ ~IsOpen(e) =>
               \/ ~IsOpen(d)
               \/ \E j \in DOMAIN batch : batch[j][1] = i /\ batch[j][2] # "displayed"
      BY <1>0, <2>6, <3>0, ReportsTell
    <3>2. (\E j \in DOMAIN batch : batch[j][1] = i /\ batch[j][2] # "displayed")
            => <<i, c>> \in ended'
      BY <1>3, <2>6 DEF CheckIn
    <3>3. alert'[i].deliv[c] = e
      BY <2>3, <2>6 DEF d
    <3>4. /\ d.made => WasHanded(i, c) /\ d.sid = 1 /\ ~d.stale
          /\ ~d.made => IsOpen(d) /\ ~d.recallSent
          /\ ~IsOpen(d) => <<i, c>> \in ended
          /\ d.recallSent => alert[i].recalled /\ <<i, c>> \in told
          /\ d.made \/ <<i, c>> \in unrecorded \/ ~WasHanded(i, c)
          /\ ~d.made \/ <<i, c>> \notin unrecorded
      BY <2>4 DEF RecordTells, OnRecord, d
    <3> HIDE DEF e
    <3>5. RecordTells(alert[i], i, c)'
      BY <2>1, <2>2, <2>3, <3>1, <3>2, <3>3, <3>4 DEF RecordTells
    <3>6. OnRecord(i, c)'
      BY <2>1, <2>2, <3>1, <3>3, <3>4 DEF OnRecord
    <3>7. QED
      BY <3>5, <3>6
  <2>7. QED
    BY <2>5, <2>6
<1>4. ASSUME NEW p \in Polls, Look(p)
      PROVE  RecordTells(alert[i], i, c)' /\ OnRecord(i, c)'
  <2> DEFINE r == poll[p].rec
             sends == c = info[r].client /\ i \in ToSend(r)
             recalls == c = info[r].client /\ i \in ToRecall(r)
             d == alert[i].deliv[c]
             e == alert'[i].deliv[c]
  <2>1. i \in list /\ alert[i].deliv # Nil
    <3>1. list' = list
      BY <1>4 DEF Look
    <3>2. alert[i].deliv = Nil => i \notin ToSend(r) \cup ToRecall(r)
      BY DEF ToSend, ToRecall
    <3>3. i \notin ToSend(r) \cup ToRecall(r) => alert'[i] = alert[i]
      BY <1>0, <1>4, LookAlert
    <3>4. QED
      BY <3>1, <3>2, <3>3
  <2>2. /\ ~sends \/ ~recalls
        /\ sends => e = AfterSend(d, 1) /\ ~d.made
        /\ recalls => e = AfterRecallSent(d) /\ d.made /\ alert[i].recalled
        /\ ~sends /\ ~recalls => e = d
        /\ d \in DeliveryType
        /\ alert'[i].recalled = alert[i].recalled
        /\ WasHanded(i, c)' <=> WasHanded(i, c) \/ sends
        /\ <<i, c>> \in told' <=> (<<i, c>> \in told /\ ~sends) \/ recalls
        /\ <<i, c>> \in ended' <=> <<i, c>> \in ended /\ ~sends
        /\ <<i, c>> \in unrecorded' <=> <<i, c>> \in unrecorded /\ ~sends
    BY <1>4, <2>1, LookTells
  <2>3. /\ d.made => WasHanded(i, c) /\ d.sid = 1 /\ ~d.stale
        /\ ~d.made => IsOpen(d) /\ ~d.recallSent
        /\ ~IsOpen(d) => <<i, c>> \in ended
        /\ d.recallSent => alert[i].recalled /\ <<i, c>> \in told
        /\ d.made \/ <<i, c>> \in unrecorded \/ ~WasHanded(i, c)
        /\ ~d.made \/ <<i, c>> \notin unrecorded
    BY <2>1 DEF Told, ListTells, RecordTells, OnRecord
  <2> HIDE DEF sends, recalls, d, r
  <2>4. /\ AfterSend(d, 1).made /\ AfterSend(d, 1).sid = 1 /\ ~AfterSend(d, 1).stale
        /\ AfterSend(d, 1).closed = d.closed
        /\ AfterSend(d, 1).recallSent = d.recallSent
        /\ AfterRecallSent(d).made = d.made /\ AfterRecallSent(d).closed = d.closed
        /\ AfterRecallSent(d).sid = d.sid /\ AfterRecallSent(d).stale = d.stale
    BY <2>2 DEF AfterSend, AfterRecallSent, DeliveryType
  <2>5. IsOpen(e) <=> IsOpen(d)
    <3>1. e.closed = d.closed
      BY <2>2, <2>4
    <3>2. QED
      BY <3>1 DEF IsOpen
  <2>6. CASE sends
    <3>1. /\ e.made /\ e.sid = 1 /\ ~e.stale /\ IsOpen(e) /\ ~e.recallSent
          /\ WasHanded(i, c)' /\ <<i, c>> \notin unrecorded'
      BY <2>2, <2>3, <2>4, <2>5, <2>6
    <3>2. QED
      BY <3>1 DEF RecordTells, OnRecord
  <2>7. CASE recalls
    <3>1. /\ e.made /\ e.sid = 1 /\ ~e.stale /\ WasHanded(i, c)'
          /\ ~IsOpen(e) => <<i, c>> \in ended'
          /\ alert'[i].recalled /\ <<i, c>> \in told' /\ <<i, c>> \notin unrecorded'
      BY <2>2, <2>3, <2>4, <2>5, <2>7
    <3>2. QED
      BY <3>1 DEF RecordTells, OnRecord
  <2>8. CASE ~sends /\ ~recalls
    <3>1. RecordTells(alert[i], i, c) /\ OnRecord(i, c)
      BY <2>1 DEF Told, ListTells
    <3>2. alert'[i].deliv[c] = alert[i].deliv[c]
      BY <2>2, <2>8 DEF d
    <3>3. QED
      BY <2>2, <2>8, <3>1, <3>2, SameTells
  <2>9. QED
    BY <2>6, <2>7, <2>8
<1>5. CASE Restart
  <2>1. i \in saved.list /\ alert'[i] = saved.alert[i]
    BY <1>0, <1>5, Restarted
  <2>2. RecordTells(saved.alert[i], i, c)
    BY <2>1 DEF Told, SavedTells
  <2>3. /\ handed' = {x \in handed : x.alert \notin Alerts \ saved.list}
        /\ ended' = {x \in ended : x[1] \notin Alerts \ saved.list}
        /\ told' = {x \in told : alert'[x[1]].recalled}
        /\ unrecorded' = {x \in {<<y.alert, y.client>> : y \in handed'} :
             alert'[x[1]].deliv # Nil /\ ~alert'[x[1]].deliv[x[2]].made}
    BY <1>5 DEF Restart, Forgotten
  <2>4. WasHanded(i, c)' <=> WasHanded(i, c)
    BY <2>1, <2>3 DEF WasHanded
  <2>5. <<i, c>> \in ended => <<i, c>> \in ended'
    BY <2>1, <2>3
  <2>6. <<i, c>> \in told /\ alert'[i].recalled => <<i, c>> \in told'
    BY <2>3
  <2>7. <<i, c>> \in unrecorded' <=> WasHanded(i, c)' /\ ~alert'[i].deliv[c].made
    <3>1. WasHanded(i, c)' <=> <<i, c>> \in {<<y.alert, y.client>> : y \in handed'}
      BY DEF WasHanded
    <3>2. QED
      BY <2>3, <3>1
  <2>8. RecordTells(alert[i], i, c)'
    BY <2>1, <2>2, <2>4, <2>5, <2>6 DEF RecordTells
  <2>9. OnRecord(i, c)'
    BY <2>7 DEF OnRecord
  <2>10. QED
    BY <2>8, <2>9
<1>6. CASE Compact /\ ~Restart
  <2>1. i \in list
    BY <1>6 DEF Compact, Newest
  <2>2. alert'[i] \in {alert[i], Archive(alert[i])} /\ alert[i] \in AlertType
    BY <1>0, <1>6, CompactAlert DEF TypeOK
  <2>3. Archive(alert[i]).deliv = Nil
    BY <2>2 DEF Archive, AlertType
  <2>4. alert'[i] = alert[i]
    BY <2>2, <2>3
  <2>5. ASSUME NEW p \in Polls PROVE ~Look(p)
    <3>1. Look(p) => poll'[p].pc # "look" /\ poll[p].pc = "look"
      BY <1>0, PollFacts DEF Look
    <3>2. poll' = poll
      BY <1>6 DEF Compact
    <3>3. QED
      BY <3>1, <3>2
  <2>6. QED
    BY <1>1, <1>6, <2>1, <2>4, <2>5
<1>7. CASE /\ ~Compact /\ ~Restart /\ ~\E t \in Targets : Send(t)
           /\ \A p \in Polls : ~Look(p)
           /\ ~\E p \in Polls, x \in Clients, f \in Facts : \E batch \in Batches(x) :
                 CheckIn(p, x, f, batch)
  <2>1. i \in list /\ StaysAsSent(i)
    BY <1>0, <1>7, AlertsStay
  <2>2. alert'[i].deliv = alert[i].deliv
    BY <1>0, <1>7, <2>1, WhoWrites
  <2>3. QED
    BY <1>1, <1>7, <2>1, <2>2 DEF StaysAsSent
<1>8. QED
  BY <1>2, <1>3, <1>4, <1>5, <1>6, <1>7

\* Every step keeps what the records of the file tell.
LEMMA SavedTold == Told /\ Next => SavedTells'
<1> SUFFICES ASSUME Told, Next, NEW i \in saved'.list, saved'.alert[i].deliv # Nil,
                    NEW c \in Clients
             PROVE  RecordTells(saved.alert[i], i, c)'
  BY DEF SavedTells
<1>0. /\ Ordered /\ Known /\ TypeOK /\ i \in Alerts
  <2>1. TypeOK /\ TypeOK'
    BY TypesKept DEF Told, Backed, Ordered, Known
  <2>2. QED
    BY <2>1 DEF Told, Backed, Ordered, TypeOK
<1>1. CASE saved'.list = list' /\ saved'.alert = alert'
  <2>1. RecordTells(alert[i], i, c)'
    BY <1>1, ListTold DEF ListTells
  <2>2. QED
    BY <1>1, <2>1 DEF RecordTells
<1>2. ASSUME /\ saved'.list = saved.list
             /\ saved'.alert[i].deliv = saved.alert[i].deliv
             /\ saved'.alert[i].recalled = saved.alert[i].recalled
      PROVE  RecordTells(saved.alert[i], i, c)'
  <2>0. i \in saved.list /\ RecordTells(saved.alert[i], i, c)
    BY <1>2 DEF Told, SavedTells
  <2>1. CASE ~Restart /\ \A p \in Polls : ~Look(p)
    <3>1. /\ WasHanded(i, c)' <=> WasHanded(i, c)
          /\ <<i, c>> \in ended => <<i, c>> \in ended'
          /\ <<i, c>> \in told => <<i, c>> \in told'
      BY <1>0, <2>1, HistoryStays
    <3>2. QED
      BY <1>2, <2>0, <3>1 DEF RecordTells
  <2>2. CASE Restart
    <3>1. /\ handed' = {x \in handed : x.alert \notin Alerts \ saved.list}
          /\ ended' = {x \in ended : x[1] \notin Alerts \ saved.list}
          /\ told' = {x \in told : alert'[x[1]].recalled}
          /\ alert'[i] = saved.alert[i]
      BY <1>0, <2>0, <2>2, Restarted DEF Restart, Forgotten
    <3>2. WasHanded(i, c)' <=> WasHanded(i, c)
      BY <2>0, <3>1 DEF WasHanded
    <3>3. <<i, c>> \in ended => <<i, c>> \in ended'
      BY <2>0, <3>1
    <3>4. <<i, c>> \in told /\ saved.alert[i].recalled => <<i, c>> \in told'
      BY <3>1
    <3>5. QED
      BY <1>2, <2>0, <3>2, <3>3, <3>4 DEF RecordTells
  <2>3. ASSUME NEW p \in Polls, Look(p)
        PROVE  RecordTells(saved.alert[i], i, c)'
    <3> DEFINE r == poll[p].rec
               sends == c = info[r].client /\ i \in ToSend(r)
    <3>1. /\ WasHanded(i, c) => WasHanded(i, c)'
          /\ ~sends => /\ <<i, c>> \in ended => <<i, c>> \in ended'
                       /\ <<i, c>> \in told => <<i, c>> \in told'
      <4>1. /\ handed \subseteq handed'
            /\ told' = (told \ Pairs(ToSend(r), info[r].client))
                         \cup Pairs(ToRecall(r), info[r].client)
            /\ ended' = ended \ Pairs(ToSend(r), info[r].client)
        BY <2>3 DEF Look
      <4>2. <<i, c>> \in Pairs(ToSend(r), info[r].client) => sends
        BY DEF Pairs
      <4>3. QED
        BY <4>1, <4>2 DEF WasHanded
    <3>2. CASE ~sends
      BY <1>2, <2>0, <3>1, <3>2 DEF RecordTells
    <3>3. CASE sends
      <4>1. i \in list /\ alert[i].deliv # Nil
        BY <3>3 DEF ToSend
      <4>2. ~alert[i].deliv[c].made
        BY <2>3, <3>3, <4>1, LookTells
      <4>3. Grown(saved.alert[i], alert[i])
        BY <2>0, <4>1 DEF Told, Backed, SavedBelow
      <4>4. ~saved.alert[i].deliv[c].made
        BY <4>1, <4>2, <4>3 DEF Grown
      <4>5. LET d == saved.alert[i].deliv[c] IN ~d.made /\ IsOpen(d) /\ ~d.recallSent
        BY <2>0, <4>4 DEF RecordTells
      <4>6. QED
        BY <1>2, <4>5 DEF RecordTells
    <3>4. QED
      BY <3>2, <3>3
  <2>4. QED
    BY <2>1, <2>2, <2>3
<1>3. QED
  BY <1>0, <1>1, <1>2, FileStays

LEMMA ToldAtFirst == Init => Told
<1>1. Init => TargetsKept /\ HandedAsMeant /\ ListTells /\ SavedTells
  BY DEF Init, TargetsKept, HandedAsMeant, ListTells, SavedTells
<1>2. QED
  BY <1>1, BackedAtFirst DEF Told

LEMMA ToldKept == Told /\ [Next]_vars => Told'
<1>1. CASE Next
  BY <1>1, BackedKept, TargetsAreKept, HandedIsMeant, ListTold, SavedTold DEF Told, Backed
<1>2. CASE UNCHANGED vars
  <2>1. Told => Backed'
    BY <1>2, BackedKept DEF Told
  <2>2. Told => TargetsKept' /\ HandedAsMeant' /\ ListTells' /\ SavedTells'
    BY <1>2 DEF Told, TargetsKept, Faithful, HandedAsMeant, ListTells, SavedTells,
                RecordTells, OnRecord, WasHanded, vars, storeVars, history
  <2>3. QED
    BY <2>1, <2>2 DEF Told
<1>3. QED
  BY <1>1, <1>2

-----------------------------------------------------------------------------
(* Where the polls of a record have looked *)

\* When the polls on record r have looked, its client has been handed all that
\* was meant for it, and that is on record;
AllHanded(r) ==
  LET c == info[r].client IN
    Settled(r) => \A i \in list :
      Active(i) /\ info[r].facts \in meant[i] =>
        WasHanded(i, c) /\ <<i, c>> \notin unrecorded

\* and it has been told of every recall of what it was handed that it may still
\* show, unless a crash has taken the record of that.
AllTold(r) ==
  LET c == info[r].client IN
    Settled(r) => \A i \in list :
      /\ WasHanded(i, c) /\ Within(i, MaxWithDeliveries)
      /\ alert[i].recalled /\ ~alert[i].tooOld
      => <<i, c>> \in told \cup ended \cup unrecorded

Looked == Told /\ \A r \in Records : AllHanded(r) /\ AllTold(r)

\* While all are awake none is.
LEMMA NoneAsleep ==
  ASSUME TypeOK, poll' = AllAwake, NEW r
  PROVE  ~Settled(r)'
  BY PollFacts DEF Settled

\* A step of poll p that does not make it sleep on record r, nor answer for
\* it, leaves the looking of the others.
LEMMA SettledBefore ==
  ASSUME NEW p \in Polls, NEW r,
         poll[p].rec = r => poll[p].pc # "look",
         poll'[p].rec = r => poll'[p].pc # "asleep",
         \A q \in Polls \ {p} : poll'[q] = poll[q],
         Settled(r)'
  PROVE  Settled(r) /\ \E q \in Polls \ {p} : poll[q].rec = r
  BY DEF Settled

\* The history says no less of the alerts that stay, but for those that are
\* delivered: they are handed out, and what was told of them is over.
Quiet ==
  \A i \in list', c \in Clients :
    /\ WasHanded(i, c) => WasHanded(i, c)'
    /\ WasHanded(i, c)' => WasHanded(i, c) \/ ~alert'[i].recalled
    /\ <<i, c>> \in unrecorded' => <<i, c>> \in unrecorded
    /\ <<i, c>> \in told \cup ended \cup unrecorded =>
         <<i, c>> \in told' \cup ended' \cup unrecorded' \/ ~alert'[i].recalled

\* So it is in every step but a restart.
LEMMA AlwaysQuiet == Told /\ Next /\ ~Restart => Quiet
<1> SUFFICES ASSUME Told, Next, ~Restart, NEW i \in list', NEW c \in Clients
             PROVE  /\ WasHanded(i, c) => WasHanded(i, c)'
                    /\ WasHanded(i, c)' => WasHanded(i, c) \/ ~alert'[i].recalled
                    /\ <<i, c>> \in unrecorded' => <<i, c>> \in unrecorded
                    /\ <<i, c>> \in told \cup ended \cup unrecorded =>
                         <<i, c>> \in told' \cup ended' \cup unrecorded' \/ ~alert'[i].recalled
  BY DEF Quiet
<1>0. Known
  BY DEF Told, Backed, Ordered
<1>1. CASE \A p \in Polls : ~Look(p)
  BY <1>0, <1>1, HistoryStays
<1>2. ASSUME NEW p \in Polls, Look(p)
      PROVE  /\ WasHanded(i, c) => WasHanded(i, c)'
             /\ WasHanded(i, c)' => WasHanded(i, c) \/ ~alert'[i].recalled
             /\ <<i, c>> \in unrecorded' => <<i, c>> \in unrecorded
             /\ <<i, c>> \in told \cup ended \cup unrecorded =>
                  <<i, c>> \in told' \cup ended' \cup unrecorded' \/ ~alert'[i].recalled
  <2> DEFINE r == poll[p].rec
             S == ToSend(r)
             x == info[r].client
  <2>1. /\ handed' = handed \cup
             {[alert |-> j, client |-> x, facts |-> info[r].facts] : j \in S}
        /\ told' = (told \ Pairs(S, x)) \cup Pairs(ToRecall(r), x)
        /\ ended' = ended \ Pairs(S, x)
        /\ unrecorded' = unrecorded \ Pairs(S, x)
    BY <1>2 DEF Look
  <2>2. i \in S => ~alert'[i].recalled
    <3>1. i \in S => i \in Alerts /\ ~alert[i].recalled
      BY <1>0 DEF ToSend, Active, Known, TypeOK
    <3>2. QED
      BY <1>0, <1>2, <3>1, LookAlert
  <2>3. <<i, c>> \in Pairs(S, x) => i \in S
    BY DEF Pairs
  <2> HIDE DEF S, x, r
  <2>4. WasHanded(i, c) => WasHanded(i, c)'
    BY <2>1 DEF WasHanded
  <2>5. WasHanded(i, c)' => WasHanded(i, c) \/ i \in S
    BY <2>1 DEF WasHanded
  <2>6. QED
    BY <2>1, <2>2, <2>3, <2>4, <2>5
<1>3. QED
  BY <1>1, <1>2

\* A step that adds nothing to what record r is owed keeps it so.
LEMMA NothingOwed ==
  ASSUME Told, Next, ~Restart, ~\E t \in Targets : Send(t),
         NEW r \in Records, AllHanded(r), AllTold(r),
         Settled(r)' => Settled(r),
         Settled(r)' => /\ info'[r].client = info[r].client
                        /\ info'[r].facts = info[r].facts
  PROVE  AllHanded(r)' /\ AllTold(r)'
<1>0. /\ sent' = sent /\ list' \subseteq list /\ \A i \in list' : StaysAsSent(i)
      /\ Quiet
      /\ Settled(r)' => poll' # AllAwake /\ info[r].client \in Clients
  <2>1. Ordered /\ TypeOK /\ PollsKnown /\ r # Nil
    BY HistoryAssumption DEF Told, Backed, Ordered, Known
  <2>2. Settled(r) => info[r].client \in Clients
    BY <2>1 DEF Settled, PollsKnown
  <2>3. QED
    BY <2>1, <2>2, NoneAsleep, AlertsStay, AlwaysQuiet
<1> DEFINE c == info[r].client
<1>1. ASSUME Settled(r)', NEW i \in list', Active(i)', info'[r].facts \in meant'[i]
      PROVE  WasHanded(i, c)' /\ <<i, c>> \notin unrecorded'
  <2>1. StaysAsSent(i) /\ i \in list
    BY <1>0
  <2>2. Active(i)
    BY <1>1, <2>1 DEF StaysAsSent, Active
  <2>3. info[r].facts \in meant[i]
    BY <1>1, <2>1 DEF StaysAsSent
  <2>4. WasHanded(i, c) /\ <<i, c>> \notin unrecorded
    BY <1>1, <2>1, <2>2, <2>3 DEF AllHanded
  <2>5. QED
    BY <1>0, <1>1, <2>4 DEF Quiet
<1>2. ASSUME Settled(r)', NEW i \in list', WasHanded(i, c)',
             Within(i, MaxWithDeliveries)', alert'[i].recalled, ~alert'[i].tooOld
      PROVE  <<i, c>> \in told' \cup ended' \cup unrecorded'
  <2>1. i \in list /\ StaysAsSent(i)
    BY <1>0
  <2>2. alert[i].recalled /\ ~alert[i].tooOld
    BY <1>0, <1>2, <2>1 DEF StaysAsSent
  <2>3. Within(i, MaxWithDeliveries) /\ WasHanded(i, c)
    BY <1>0, <1>2 DEF Within, Quiet
  <2>4. <<i, c>> \in told \cup ended \cup unrecorded
    BY <1>2, <2>1, <2>2, <2>3 DEF AllTold
  <2>5. QED
    BY <1>0, <1>2, <2>4 DEF Quiet
<1>3. AllHanded(r)'
  BY <1>1 DEF AllHanded
<1>4. AllTold(r)'
  BY <1>2 DEF AllTold
<1>5. QED
  BY <1>3, <1>4

\* The look of a poll on it pays what it is owed.
LEMMA LookPays ==
  ASSUME Told, NEW p \in Polls, Look(p), NEW r \in Records, r = poll[p].rec
  PROVE  AllHanded(r)' /\ AllTold(r)'
<1>0. Ordered /\ Known /\ TypeOK /\ HistoryKept /\ TargetsKept /\ ListTells
  BY DEF Told, Backed, Ordered, Known
<1>1. PICK c \in Clients : c = info[r].client
  BY <1>0, LookFacts
<1>2. info[r].facts \in Facts
  BY <1>0, LookFacts
<1>3. UNCHANGED <<list, sent, meant, info>>
  BY DEF Look
<1>4. \A i \in list : /\ i \in Alerts
                      /\ alert'[i].over = alert[i].over
                      /\ alert'[i].recalled = alert[i].recalled
                      /\ alert'[i].tooOld = alert[i].tooOld
  BY <1>0, LookAlert DEF TypeOK
<1>5. ASSUME NEW i \in list, Active(i), info[r].facts \in meant[i]
      PROVE  WasHanded(i, c)' /\ <<i, c>> \notin unrecorded'
  <2>1. AlertMatches(alert[i], info[r].facts)
    BY <1>0, <1>2, <1>5 DEF TargetsKept, Faithful
  <2>2. alert[i].deliv # Nil
    BY <1>0, <1>5 DEF HistoryKept
  <2>3. /\ WasHanded(i, c)' <=> WasHanded(i, c) \/ i \in ToSend(r)
        /\ <<i, c>> \in unrecorded' <=> <<i, c>> \in unrecorded /\ i \notin ToSend(r)
    BY <1>1, <2>2, LookTells
  <2>4. CASE i \notin ToSend(r)
    <3>1. ~Wanted(alert[i].deliv[c], i, 1)
      BY <1>1, <1>5, <2>1, <2>2, <2>4 DEF ToSend
    <3>2. alert[i].deliv[c].made
      BY <3>1 DEF Wanted
    <3>3. RecordTells(alert[i], i, c) /\ OnRecord(i, c)
      BY <1>0, <2>2 DEF ListTells
    <3>4. WasHanded(i, c) /\ <<i, c>> \notin unrecorded
      BY <3>2, <3>3 DEF RecordTells, OnRecord
    <3>5. QED
      BY <2>3, <3>4
  <2>5. QED
    BY <2>3, <2>4
<1>6. ASSUME NEW i \in list, WasHanded(i, c)', Within(i, MaxWithDeliveries),
             alert[i].recalled, ~alert[i].tooOld
      PROVE  <<i, c>> \in told' \cup ended' \cup unrecorded'
  <2>1. alert[i].deliv # Nil
    BY <1>0, <1>6 DEF HistoryKept
  <2>2. i \notin ToSend(r)
    BY <1>6 DEF ToSend, Active
  <2> DEFINE d == alert[i].deliv[c]
  <2>3. /\ WasHanded(i, c)
        /\ <<i, c>> \in told' <=> <<i, c>> \in told \/ i \in ToRecall(r)
        /\ <<i, c>> \in ended' <=> <<i, c>> \in ended
        /\ <<i, c>> \in unrecorded' <=> <<i, c>> \in unrecorded
    BY <1>1, <1>6, <2>1, <2>2, LookTells
  <2>4. RecordTells(alert[i], i, c) /\ OnRecord(i, c)
    BY <1>0, <2>1 DEF ListTells
  <2>5. /\ d.made \/ <<i, c>> \in unrecorded
        /\ ~IsOpen(d) => <<i, c>> \in ended
        /\ d.recallSent => <<i, c>> \in told
    BY <2>3, <2>4 DEF RecordTells, OnRecord
  <2>6. RecallDue(d) => i \in ToRecall(r)
    BY <1>1, <1>6, <2>1 DEF ToRecall
  <2> HIDE DEF d
  <2>7. RecallDue(d) \/ ~d.made \/ ~IsOpen(d) \/ d.recallSent
    BY Zenon DEF RecallDue, IsOpen
  <2>8. QED
    BY <2>3, <2>5, <2>6, <2>7
<1>7. AllHanded(r)'
  BY <1>1, <1>3, <1>4, <1>5 DEF AllHanded, Active
<1>8. AllTold(r)'
  BY <1>1, <1>3, <1>4, <1>6 DEF AllTold, Within
<1>9. QED
  BY <1>7, <1>8

\* Every step keeps what has been paid.
LEMMA StillPaid ==
  ASSUME Looked, Next, NEW r \in Records
  PROVE  AllHanded(r)' /\ AllTold(r)'
<1>0. /\ Told /\ Ordered /\ Known /\ TypeOK /\ PollsKnown /\ AllHanded(r) /\ AllTold(r)
      /\ r # Nil
  BY HistoryAssumption DEF Looked, Told, Backed, Ordered, Known
<1>1. ASSUME ~Settled(r)'
      PROVE  AllHanded(r)' /\ AllTold(r)'
  BY <1>1 DEF AllHanded, AllTold
<1>2. CASE (\E t \in Targets : Send(t)) \/ (\E i \in Alerts : Recall(i))
  <2>1. poll' = AllAwake
    BY <1>2 DEF Send, Recall
  <2>2. QED
    BY <1>0, <1>1, <2>1, NoneAsleep
<1>3. CASE Restart
  <2>1. \A p \in Polls : poll'[p].pc = "idle"
    BY <1>3 DEF Restart, NoPoll
  <2>2. QED
    BY <1>1, <2>1 DEF Settled
<1>4. ASSUME ~Restart, ~\E t \in Targets : Send(t),
             Settled(r)' => Settled(r),
             Settled(r)' => /\ info'[r].client = info[r].client
                            /\ info'[r].facts = info[r].facts
      PROVE  AllHanded(r)' /\ AllTold(r)'
  BY <1>0, <1>4, NothingOwed
<1>5. ASSUME ~Restart, ~\E t \in Targets : Send(t),
             NEW p \in Polls, PollStep(p)
      PROVE  AllHanded(r)' /\ AllTold(r)'
  <2>1. ASSUME Look(p), poll[p].rec # r
        PROVE  AllHanded(r)' /\ AllTold(r)'
    <3>1. /\ \A q \in Polls \ {p} : poll'[q] = poll[q]
          /\ poll'[p].rec # r /\ info' = info
      BY <1>0, <2>1, PollFacts DEF Look
    <3>2. Settled(r)' => Settled(r)
      BY <2>1, <3>1, SettledBefore
    <3>3. QED
      BY <1>4, <1>5, <3>1, <3>2
  <2>2. CASE Look(p) /\ poll[p].rec = r
    BY <1>0, <2>2, LookPays
  <2>3. CASE HoldOver(p)
    <3>1. /\ \A q \in Polls \ {p} : poll'[q] = poll[q]
          /\ poll'[p].pc = "end" /\ poll[p].pc = "asleep" /\ info' = info
      BY <1>0, <2>3, PollFacts DEF HoldOver, storeVars
    <3>2. Settled(r)' => Settled(r)
      BY <3>1, SettledBefore
    <3>3. QED
      BY <1>4, <1>5, <3>1, <3>2
  <2>4. CASE EndPoll(p)
    <3>1. /\ \A q \in Polls \ {p} : poll'[q] = poll[q]
          /\ poll'[p].pc = "idle" /\ poll[p].pc = "end"
      BY <1>0, <2>4 DEF TypeOK, NoPoll, EndPoll
    <3>2. Settled(r)' => Settled(r) /\ \E q \in Polls \ {p} : poll[q].rec = r
      BY <3>1, SettledBefore
    <3>3. Settled(r)' => /\ info'[r].client = info[r].client
                         /\ info'[r].facts = info[r].facts
      BY <1>0, <2>4, <3>2, EndPollFacts
    <3>4. QED
      BY <1>4, <1>5, <3>2, <3>3
  <2>5. ASSUME NEW c \in Clients, NEW f \in Facts, NEW batch \in Batches(c),
               CheckIn(p, c, f, batch)
        PROVE  AllHanded(r)' /\ AllTold(r)'
    <3>1. PICK s \in Records :
            /\ \A x \in Records \ {s} : info'[x] = info[x]
            /\ poll' = [poll EXCEPT ![p] = [pc |-> "look", rec |-> s]]
      BY <1>0, <2>5, CheckInFacts
    <3>2. /\ \A q \in Polls \ {p} : poll'[q] = poll[q]
          /\ poll'[p].pc = "look" /\ poll'[p].rec = s /\ poll[p].rec = Nil
      BY <1>0, <2>5, <3>1 DEF TypeOK, CheckIn, PollsKnown
    <3>3. CASE r = s
      <4>1. ~Settled(r)'
        BY <3>2, <3>3 DEF Settled
      <4>2. QED
        BY <1>1, <4>1
    <3>4. CASE r # s
      <4>1. Settled(r)' => Settled(r)
        BY <1>0, <3>2, SettledBefore
      <4>2. QED
        BY <1>4, <1>5, <3>1, <3>4, <4>1
    <3>5. QED
      BY <3>3, <3>4
  <2>6. QED
    BY <1>5, <2>1, <2>2, <2>3, <2>4, <2>5 DEF PollStep
<1>6. ASSUME ~Restart, ~\E t \in Targets : Send(t), poll' = poll,
             \A x \in Records : /\ info'[x].client = info[x].client
                                /\ info'[x].facts = info[x].facts
      PROVE  AllHanded(r)' /\ AllTold(r)'
  <2>1. Settled(r)' => Settled(r)
    BY <1>6 DEF Settled
  <2>2. QED
    BY <1>4, <1>6, <2>1
<1>7. ASSUME NEW c \in Clients, SeenAges(c)
      PROVE  /\ poll' = poll
             /\ \A x \in Records : /\ info'[x].client = info[x].client
                                   /\ info'[x].facts = info[x].facts
  <2>1. /\ poll' = poll /\ info \in [Records -> InfoType]
        /\ info' = [info EXCEPT ![clients[c]].seen = "long ago"]
    BY <1>0, <1>7 DEF SeenAges, TypeOK
  <2>2. \A x \in InfoType : LET y == [x EXCEPT !.seen = "long ago"] IN
          y.client = x.client /\ y.facts = x.facts
    BY DEF InfoType
  <2>3. \A x \in Records :
          info'[x] = info[x] \/ info'[x] = [info[x] EXCEPT !.seen = "long ago"]
    BY <2>1
  <2>4. QED
    BY <2>1, <2>2, <2>3
<1>8. CASE \/ \E g \in Groups : DeleteGroup(g) \/ \E R \in RuleSets : SaveGroup(g, R)
           \/ \E c \in Clients : Forget(c)
           \/ \E i \in Alerts : Expire(i) \/ RecallAges(i)
           \/ Compact
  <2>1. poll' = poll /\ info' = info
    BY <1>8 DEF DeleteGroup, SaveGroup, Forget, Expire, RecallAges, Compact
  <2>2. QED
    BY <1>2, <1>3, <1>6, <2>1
<1>9. QED
  BY <1>2, <1>3, <1>5, <1>6, <1>7, <1>8 DEF Next, StaffStep

LEMMA LookedAtFirst == Init => Looked
<1>1. Init => \A r \in Records : AllHanded(r) /\ AllTold(r)
  BY DEF Init, AllHanded, AllTold
<1>2. QED
  BY <1>1, ToldAtFirst DEF Looked

LEMMA LookedKept == Looked /\ [Next]_vars => Looked'
<1>1. CASE Next
  BY <1>1, ToldKept, StillPaid DEF Looked
<1>2. CASE UNCHANGED vars
  <2>1. Looked => Told'
    BY <1>2, ToldKept DEF Looked
  <2>2. Looked => \A r \in Records : AllHanded(r)' /\ AllTold(r)'
    BY <1>2 DEF Looked, AllHanded, AllTold, Settled, WasHanded, Within, Active,
                vars, storeVars, history
  <2>3. QED
    BY <2>1, <2>2 DEF Looked
<1>3. QED
  BY <1>1, <1>2

\* An alert goes to the computers its target meant when it was sent: to no
\* other, and to all that say so and have a poll held; again to those whose
\* record a crash has taken.
THEOREM DeliveryIsAsMeant == Spec => []DeliveredAsMeant
<1>1. Looked => DeliveredAsMeant
  BY DEF Looked, AllHanded, DeliveredAsMeant, WasHanded, Told, HandedAsMeant
<1>2. QED
  BY <1>1, LookedAtFirst, LookedKept, PTL DEF Spec

\* A recall is in the answer to a poll of every client that was handed the
\* alert, has not reported its end and has a poll held, unless the recall or
\* the alert is too old or a crash has taken the record of that client.
THEOREM RecallsAreTold == Spec => []RecallIsTold
<1>1. Looked => RecallIsTold
  <2> SUFFICES ASSUME Looked, NEW i \in list, alert[i].recalled, ~alert[i].tooOld,
                      Within(i, MaxWithDeliveries), NEW c \in Unaware(i)
               PROVE  <<i, c>> \in unrecorded
    BY DEF RecallIsTold
  <2>1. PICK r \in Records : info[r].client = c /\ Settled(r)
    BY DEF Unaware
  <2>2. WasHanded(i, c) /\ <<i, c>> \notin told \cup ended
    BY DEF Unaware, WasHanded
  <2>3. QED
    BY <2>1, <2>2 DEF Looked, AllTold
<1>2. QED
  BY <1>1, LookedAtFirst, LookedKept, PTL DEF Spec
=============================================================================
