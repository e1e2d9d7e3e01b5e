---------------------------- MODULE FoghornProofs ---------------------------
(***************************************************************************)
(* Proofs about Foghorn for any alerts, clients, connections and bounds:   *)
(* the types, the coherence of the server's records, what the server may   *)
(* hand out, that what it records has happened, that recalls are final,    *)
(* that no report is lost, and that all of it implements Ledger.           *)
(***************************************************************************)
EXTENDS FoghornLedger, EngineProofs

-----------------------------------------------------------------------------
(* Types, in the parts that the steps leave alone together *)

ServerOK ==
  /\ mem \in MemType /\ disk \in MemType
  /\ issued \in SUBSET Alerts /\ expired \in SUBSET Alerts
  /\ csid \in [Clients -> Nat]
ConnOK == conn \in [Conns -> ConnType]
PollOK ==
  /\ poller \in [Clients -> {"rest", "built", "sending"}]
  /\ current \in [Clients -> Conns \cup {None}]
  /\ pending \in [Clients -> Seq(Reports)]
  /\ sending \in [Clients -> Seq(Reports)]
  /\ aborted \in [Clients -> BOOLEAN]
ScreenOK ==
  /\ inbox \in [Clients -> Seq(BatchType)]
  /\ batch \in [Clients -> BatchType]
  /\ ui \in [Clients -> ScreenType]
  /\ said \in SUBSET (Clients \X Nat \X Alerts \X Kinds)
  /\ downed \in [Clients -> SUBSET Alerts]
UserOK == up \in [Clients -> BOOLEAN] /\ session \in [Clients -> Nat]
BoundOK == crashes \in 0..MaxCrash /\ faults \in 0..MaxFault

\* TypeOK is these parts, and so it is after a step.
LEMMA TypeParts ==
  /\ TypeOK <=> ServerOK /\ ConnOK /\ PollOK /\ ScreenOK /\ UserOK /\ BoundOK
  /\ ServerOK' /\ ConnOK' /\ PollOK' /\ ScreenOK' /\ UserOK' /\ BoundOK' => TypeOK'
BY DEF TypeOK, ServerOK, ConnOK, PollOK, ScreenOK, UserOK, BoundOK

\* A part keeps its types when its variables keep their values.
LEMMA Unchanged ==
  /\ ServerOK /\ UNCHANGED serverVars => ServerOK'
  /\ ConnOK /\ UNCHANGED conn => ConnOK'
  /\ PollOK /\ UNCHANGED pollVars => PollOK'
  /\ ScreenOK /\ UNCHANGED screenVars => ScreenOK'
  /\ UserOK /\ UNCHANGED userVars => UserOK'
  /\ BoundOK /\ UNCHANGED boundVars => BoundOK'
<1>1. ServerOK /\ UNCHANGED serverVars => ServerOK'
  BY DEF ServerOK, serverVars
<1>2. ConnOK /\ UNCHANGED conn => ConnOK'
  BY DEF ConnOK
<1>3. PollOK /\ UNCHANGED pollVars => PollOK'
  BY DEF PollOK, pollVars
<1>4. ScreenOK /\ UNCHANGED screenVars => ScreenOK'
  BY DEF ScreenOK, screenVars
<1>5. UserOK /\ UNCHANGED userVars => UserOK'
  BY DEF UserOK, userVars
<1>6. BoundOK /\ UNCHANGED boundVars => BoundOK'
  BY DEF BoundOK, boundVars
<1>7. QED
  BY <1>1, <1>2, <1>3, <1>4, <1>5, <1>6

\* The server, the connections and the clients start with their types.
LEMMA InitTypes == Init => TypeOK
<1> SUFFICES ASSUME Init PROVE TypeOK
  OBVIOUS
<1> USE FoghornAssumption DEF Init
<1>1. EmptyMem \in MemType
  <2>1. NoDelivery \in DeliveryType
    BY DEF NoDelivery, DeliveryType
  <2>2. QED
    BY <2>1 DEF EmptyMem, MemType
<1>2. FreeConn \in ConnType
  BY DEF FreeConn, ConnType
<1>3. EmptyBatch \in BatchType /\ EmptyScreen \in ScreenType
  BY DEF EmptyBatch, BatchType, EmptyScreen, ScreenType
<1>4. ServerOK /\ ConnOK
  BY <1>1, <1>2 DEF ServerOK, ConnOK
<1>5. PollOK /\ UserOK /\ BoundOK
  BY DEF PollOK, UserOK, BoundOK
<1>6. ScreenOK
  BY <1>3 DEF ScreenOK
<1>7. QED
  BY <1>4, <1>5, <1>6, TypeParts

\* Changing one field of the alert list, or the deliveries of one client.
LEMMA MemFacts ==
  ASSUME NEW m \in MemType
  PROVE  /\ \A s \in SUBSET Alerts :
              /\ [m EXCEPT !.posted = s] \in MemType
              /\ [m EXCEPT !.recalled = s] \in MemType
              /\ [m EXCEPT !.tooOld = s] \in MemType
         /\ \A D \in [Alerts -> [Clients -> DeliveryType]] :
              [m EXCEPT !.deliv = D] \in MemType
  BY DEF MemType

\* hub.wake makes connections of connections.
LEMMA AwakeFacts ==
  ASSUME ConnOK
  PROVE  AllAwake \in [Conns -> ConnType]
<1>1. ASSUME NEW x \in ConnType
      PROVE  [x EXCEPT !.stage = "look"] \in ConnType
  BY DEF ConnType
<1>2. QED
  BY <1>1 DEF AllAwake, ConnOK

\* The staff requests and the passing of time.
LEMMA StaffTypes ==
  ASSUME TypeOK, NEW a \in Alerts,
         \/ Post(a) \/ Recall(a) \/ Expire(a) \/ RecallAges(a)
         \/ \E c \in Clients : SendAges(a, c)
  PROVE  TypeOK'
<1> USE TypeParts
<1>1. CASE Post(a)
  <2>1. mem' \in MemType
    <3>1. mem.posted \cup {a} \in SUBSET Alerts
      BY DEF ServerOK, MemType
    <3>2. QED
      BY <1>1, <3>1, MemFacts DEF Post, ServerOK
  <2>2. ServerOK'
    BY <1>1, <2>1 DEF Post, ServerOK
  <2>3. ConnOK'
    BY <1>1, AwakeFacts DEF Post, ConnOK
  <2>4. QED
    BY <1>1, <2>2, <2>3, Unchanged DEF Post
<1>2. CASE Recall(a)
  <2>1. mem' \in MemType
    <3>1. mem.recalled \cup {a} \in SUBSET Alerts
      BY DEF ServerOK, MemType
    <3>2. QED
      BY <1>2, <3>1, MemFacts DEF Recall, ServerOK
  <2>2. ServerOK'
    BY <1>2, <2>1 DEF Recall, ServerOK
  <2>3. ConnOK'
    BY <1>2, AwakeFacts DEF Recall, ConnOK
  <2>4. QED
    BY <1>2, <2>2, <2>3, Unchanged DEF Recall
<1>3. CASE Expire(a)
  <2>1. ServerOK'
    BY <1>3 DEF Expire, ServerOK
  <2>2. QED
    BY <1>3, <2>1, Unchanged DEF Expire
<1>4. CASE RecallAges(a)
  <2>1. mem' \in MemType
    <3>1. mem.tooOld \cup {a} \in SUBSET Alerts
      BY DEF ServerOK, MemType
    <3>2. QED
      BY <1>4, <3>1, MemFacts DEF RecallAges, ServerOK
  <2>2. ServerOK'
    BY <1>4, <2>1 DEF RecallAges, ServerOK
  <2>3. QED
    BY <1>4, <2>2, Unchanged DEF RecallAges
<1>5. ASSUME NEW c \in Clients, SendAges(a, c)
      PROVE  TypeOK'
  <2>1. mem' \in MemType
    <3>1. mem.deliv \in [Alerts -> [Clients -> DeliveryType]]
      BY DEF ServerOK, MemType
    <3>2. [mem.deliv[a][c] EXCEPT !.stale = TRUE] \in DeliveryType
      BY <3>1, DeliveryTypes
    <3>3. [mem.deliv EXCEPT ![a][c] = [mem.deliv[a][c] EXCEPT !.stale = TRUE]]
            \in [Alerts -> [Clients -> DeliveryType]]
      BY <3>1, <3>2
    <3>4. mem' = [mem EXCEPT !.deliv =
                   [mem.deliv EXCEPT ![a][c] =
                      [mem.deliv[a][c] EXCEPT !.stale = TRUE]]]
      BY <1>5 DEF SendAges, ServerOK, MemType
    <3>5. QED
      BY <3>3, <3>4, MemFacts DEF ServerOK
  <2>2. ServerOK'
    BY <1>5, <2>1 DEF SendAges, ServerOK
  <2>3. QED
    BY <1>5, <2>2, Unchanged DEF SendAges
<1>6. QED
  BY <1>1, <1>2, <1>3, <1>4, <1>5

\* What pendingFor returns are alerts.
LEMMA AnswerFacts ==
  ASSUME TypeOK, NEW c
  PROVE  ToSend(c) \in SUBSET Alerts /\ ToRecall(c) \in SUBSET Alerts
  BY DEF TypeOK, MemType, ToSend, ToRecall

\* So does writeJSON.
LEMMA AnswerTypes ==
  ASSUME ConnOK, NEW k \in Conns, NEW s \in SUBSET Alerts, NEW r \in SUBSET Alerts,
         Answer(k, s, r)
  PROVE  ConnOK'
<1>1. FreeConn \in ConnType
  BY DEF FreeConn, ConnType
<1>2. [conn[k] EXCEPT !.stage = "reply", !.alerts = s, !.recalls = r] \in ConnType
  BY DEF ConnOK, ConnType
<1>3. QED
  BY <1>1, <1>2 DEF Answer, ConnOK

\* The handler of a poll.
LEMMA HandlerTypes ==
  ASSUME TypeOK, NEW k \in Conns, ServerStep(k) \/ Vanish(k)
  PROVE  TypeOK'
<1> USE TypeParts
<1> DEFINE c == conn[k].client
<1>1. CASE Arrive(k)
  <2>1. mem' \in MemType
    <3> DEFINE D == [a \in Alerts |->
                 [mem.deliv[a] EXCEPT ![c] = AfterBatch(@, a, Kept(conn[k].events))]]
    <3>1. D \in [Alerts -> [Clients -> DeliveryType]]
      BY DeliveryTypes DEF ServerOK, MemType
    <3>2. mem' = [mem EXCEPT !.deliv = D]
      BY <1>1 DEF Arrive
    <3>3. QED
      BY <3>1, <3>2, MemFacts DEF ServerOK
  <2>2. csid' \in [Clients -> Nat]
    BY <1>1 DEF Arrive, ServerOK, ConnOK, ConnType
  <2>3. ServerOK'
    BY <1>1, <2>1, <2>2 DEF Arrive, ServerOK
  <2>4. ConnOK'
    <3>1. \A e \in Seq(Reports) :
            [conn[k] EXCEPT !.stage = "look", !.events = e] \in ConnType
      BY DEF ConnOK, ConnType
    <3>2. <<>> \in Seq(Reports)
      OBVIOUS
    <3>3. conn' = [conn EXCEPT ![k] =
                     [conn[k] EXCEPT !.stage = "look", !.events = <<>>]]
      BY <1>1 DEF Arrive, ConnOK, ConnType
    <3>4. QED
      BY <3>1, <3>2, <3>3 DEF ConnOK
  <2>5. QED
    BY <1>1, <2>3, <2>4, Unchanged DEF Arrive
<1>2. CASE Look(k)
  <2> DEFINE s == ToSend(c)
             r == ToRecall(c)
  <2>1. mem' \in MemType
    <3> DEFINE D == [a \in Alerts |->
                 [mem.deliv[a] EXCEPT ![c] =
                    IF a \in s THEN AfterSend(@, csid[c])
                    ELSE IF a \in r THEN AfterRecallSent(@) ELSE @]]
    <3>1. D \in [Alerts -> [Clients -> DeliveryType]]
      BY DeliveryTypes DEF ServerOK, MemType
    <3>2. mem' = [mem EXCEPT !.deliv = D]
      BY <1>2 DEF Look
    <3>3. QED
      BY <3>1, <3>2, MemFacts DEF ServerOK
  <2>2. ServerOK'
    BY <1>2, <2>1 DEF Look, ServerOK
  <2>3. ConnOK'
    <3>1. CASE conn' = [conn EXCEPT ![k].stage = "asleep"]
      BY <3>1 DEF ConnOK, ConnType
    <3>2. CASE Answer(k, s, r)
      BY <3>2, AnswerFacts, AnswerTypes
    <3>3. QED
      BY <1>2, <3>1, <3>2 DEF Look
  <2>4. QED
    BY <1>2, <2>2, <2>3, Unchanged DEF Look
<1>3. CASE HoldOver(k)
  <2>1. ConnOK'
    BY <1>3, AnswerTypes DEF HoldOver
  <2>2. QED
    BY <1>3, <2>1, Unchanged DEF HoldOver
<1>4. CASE Vanish(k)
  <2>1. ConnOK'
    BY <1>4 DEF Vanish, ConnOK, FreeConn, ConnType
  <2>2. QED
    BY <1>4, <2>1, Unchanged DEF Vanish
<1>5. QED
  BY <1>1, <1>2, <1>3, <1>4 DEF ServerStep

\* The server's process.
LEMMA ProcessTypes ==
  ASSUME TypeOK, Flush \/ Crash
  PROVE  TypeOK'
<1> USE TypeParts
<1>1. CASE Flush
  <2>1. ServerOK'
    BY <1>1 DEF Flush, ServerOK
  <2>2. QED
    BY <1>1, <2>1, Unchanged DEF Flush
<1>2. CASE Crash
  <2>1. ServerOK'
    BY <1>2 DEF Crash, ServerOK
  <2>2. ConnOK'
    <3>1. FreeConn \in ConnType
      BY DEF FreeConn, ConnType
    <3>2. \A x \in ConnType : [x EXCEPT !.stage = "dead"] \in ConnType
      BY DEF ConnType
    <3>3. QED
      BY <1>2, <3>1, <3>2 DEF Crash, ConnOK
  <2>3. BoundOK'
    BY <1>2, FoghornAssumption DEF Crash, BoundOK
  <2>4. QED
    BY <1>2, <2>1, <2>2, <2>3, Unchanged DEF Crash
<1>3. QED
  BY <1>1, <1>2

\* What the poller's steps share.
LEMMA PutBackTypes ==
  ASSUME PollOK, NEW c \in Clients, PutBack(c), aborted' \in [Clients -> BOOLEAN]
  PROVE  PollOK'
<1>1. sending[c] \o pending[c] \in Seq(Reports)
  BY ConcatProperties DEF PollOK
<1>2. PICK s \in Seq(Reports) : pending' = [pending EXCEPT ![c] = s]
  BY <1>1 DEF PutBack
<1>3. pending' \in [Clients -> Seq(Reports)]
  BY <1>2 DEF PollOK
<1>4. <<>> \in Seq(Reports)
  OBVIOUS
<1>5. QED
  BY <1>3, <1>4 DEF PutBack, PollOK

\* So does the client that lets go of one.
LEMMA LetGoTypes ==
  ASSUME ConnOK, NEW k \in Conns, LetGo(k)
  PROVE  ConnOK'
  BY DEF LetGo, ConnOK, FreeConn, ConnType

\* The poller's thread, and its failures.
LEMMA PollerTypes ==
  ASSUME TypeOK, NEW c \in Clients, PollerStep(c) \/ \E k \in Conns : Fault(c, k)
  PROVE  TypeOK'
<1> USE TypeParts
<1>1. CASE Take(c)
  <2>1. PollOK'
    BY <1>1 DEF Take, PollOK
  <2>2. QED
    BY <1>1, <2>1, Unchanged DEF Take
<1>2. CASE NotYet(c)
  <2>1. PollOK'
    BY <1>2, PutBackTypes DEF NotYet, PollOK
  <2>2. QED
    BY <1>2, <2>1, Unchanged DEF NotYet
<1>3. ASSUME NEW k \in Conns, Submit(c, k)
      PROVE  TypeOK'
  <2>1. ConnOK'
    <3>1. [stage |-> "request", client |-> c, sid |-> session[c],
           events |-> sending[c], alerts |-> {}, recalls |-> {}] \in ConnType
      BY DEF ConnType, PollOK, UserOK
    <3>2. QED
      BY <1>3, <3>1 DEF Submit, ConnOK
  <2>2. PollOK'
    BY <1>3 DEF Submit, PollOK
  <2>3. QED
    BY <1>3, <2>1, <2>2, Unchanged DEF Submit
<1>4. ASSUME NEW k \in Conns, Receive(c, k)
      PROVE  TypeOK'
  <2>1. ConnOK'
    BY <1>4 DEF Receive, ConnOK, FreeConn, ConnType
  <2>2. PollOK'
    BY <1>4 DEF Receive, PollOK
  <2>3. ScreenOK'
    <3> DEFINE r == [alerts |-> conn[k].alerts, recalls |-> conn[k].recalls]
    <3>1. r \in BatchType
      BY DEF ConnOK, ConnType, BatchType
    <3>2. Append(inbox[c], r) \in Seq(BatchType)
      BY <3>1, AppendProperties DEF ScreenOK
    <3>3. inbox' \in [Clients -> Seq(BatchType)]
      BY <1>4, <3>2 DEF Receive, ScreenOK
    <3>4. QED
      BY <1>4, <3>3 DEF Receive, ScreenOK
  <2>4. QED
    BY <1>4, <2>1, <2>2, <2>3, Unchanged DEF Receive
<1>5. ASSUME NEW k \in Conns, Fail(c, k)
      PROVE  TypeOK'
  <2>1. ConnOK'
    BY <1>5, LetGoTypes DEF Fail
  <2>2. PollOK'
    BY <1>5, PutBackTypes DEF Fail, PollOK
  <2>3. QED
    BY <1>5, <2>1, <2>2, Unchanged DEF Fail
<1>6. ASSUME NEW k \in Conns, Fault(c, k)
      PROVE  TypeOK'
  <2>1. ConnOK'
    BY <1>6, LetGoTypes DEF Fault
  <2>2. PollOK'
    BY <1>6, PutBackTypes DEF Fault, PollOK
  <2>3. BoundOK'
    BY <1>6, FoghornAssumption DEF Fault, BoundOK
  <2>4. QED
    BY <1>6, <2>1, <2>2, <2>3, Unchanged DEF Fault
<1>7. QED
  BY <1>1, <1>2, <1>3, <1>4, <1>5, <1>6 DEF PollerStep

\* A report joins the list, and the history.
LEMMA ReportStepTypes ==
  ASSUME TypeOK, NEW c \in Clients, NEW r \in Seq(Reports), Report(c, r),
         UNCHANGED <<poller, current, sending>>
  PROVE  PollOK' /\ said' \in SUBSET (Clients \X Nat \X Alerts \X Kinds)
<1> USE TypeParts
<1>1. pending' \in [Clients -> Seq(Reports)]
  <2>1. pending[c] \o r \in Seq(Reports)
    BY ConcatProperties DEF PollOK
  <2>2. PICK s \in Seq(Reports) : pending' = [pending EXCEPT ![c] = s]
    BY <2>1 DEF Report
  <2>3. QED
    BY <2>2 DEF PollOK
<1>2. aborted' \in [Clients -> BOOLEAN]
  <2>1. PICK b \in BOOLEAN : aborted' = [aborted EXCEPT ![c] = b]
    BY DEF Report, PollOK
  <2>2. QED
    BY <2>1 DEF PollOK
<1>3. \A i \in DOMAIN r : r[i][1] \in Alerts /\ r[i][2] \in Kinds
  <2>1. \A i \in DOMAIN r : r[i] \in Alerts \X Kinds
    BY DEF Reports
  <2>2. QED
    BY <2>1
<1>4. said' \in SUBSET (Clients \X Nat \X Alerts \X Kinds)
  BY <1>3 DEF Report, ScreenOK, UserOK
<1>5. QED
  BY <1>1, <1>2, <1>4 DEF PollOK

\* The windows of a client.
LEMMA UITypes ==
  ASSUME TypeOK, NEW c \in Clients,
         UIStep(c) \/ \E a \in Alerts : Press(c, a) \/ LifeOver(c, a)
  PROVE  TypeOK'
<1> USE TypeParts
<1>1. EmptyBatch \in BatchType /\ ui[c] \in ScreenType /\ batch[c] \in BatchType
  BY DEF EmptyBatch, BatchType, ScreenOK
<1>2. CASE TakeBatch(c)
  <2>1. Head(inbox[c]) \in BatchType /\ Tail(inbox[c]) \in Seq(BatchType)
    BY <1>2, HeadTailProperties DEF TakeBatch, ScreenOK
  <2>2. ScreenOK'
    BY <1>2, <2>1 DEF TakeBatch, ScreenOK
  <2>3. QED
    BY <1>2, <2>2, Unchanged DEF TakeBatch, UIFrame
<1>3. CASE OpenNext(c)
  <2>1. PICK i \in DOMAIN ui[c].waiting :
          /\ ui' = [ui EXCEPT ![c] = AfterOpenNext(@, i)]
          /\ Report(c, OpenReport(ui[c].waiting[i]))
    BY <1>3 DEF OpenNext
  <2>2. ui[c].waiting[i] \in Alerts
    BY <1>1 DEF ScreenType
  <2>3. AfterOpenNext(ui[c], i) \in ScreenType
    BY <1>1, <2>2, ScreenTypes
  <2>4. PollOK' /\ said' \in SUBSET (Clients \X Nat \X Alerts \X Kinds)
    BY <1>3, <2>1, <2>2, ReportTypes, ReportStepTypes DEF OpenNext, UIFrame
  <2>5. ScreenOK'
    BY <1>3, <2>1, <2>3, <2>4 DEF OpenNext, ScreenOK
  <2>6. QED
    BY <1>3, <2>4, <2>5, Unchanged DEF OpenNext, UIFrame
<1>4. CASE LoopEnds(c)
  <2>1. AfterLoop(ui[c]) \in ScreenType
    BY <1>1 DEF AfterLoop, ScreenType
  <2>2. ScreenOK'
    BY <1>4, <2>1 DEF LoopEnds, ScreenOK
  <2>3. QED
    BY <1>4, <2>2, Unchanged DEF LoopEnds, UIFrame
<1>5. ASSUME NEW a \in Alerts, HandleRecall(c, a)
      PROVE  TypeOK'
  <2>1. AfterRecall(ui[c], a) \in ScreenType
    BY <1>1, ScreenTypes
  <2>2. PollOK' /\ said' \in SUBSET (Clients \X Nat \X Alerts \X Kinds)
    BY <1>5, ReportTypes, ReportStepTypes DEF HandleRecall, UIFrame
  <2>3. batch' \in [Clients -> BatchType]
    BY <1>5 DEF HandleRecall, ScreenOK, BatchType
  <2>4. ScreenOK'
    BY <1>5, <2>1, <2>2, <2>3 DEF HandleRecall, ScreenOK
  <2>5. QED
    BY <1>5, <2>2, <2>4, Unchanged DEF HandleRecall, UIFrame
<1>6. ASSUME NEW a \in Alerts, HandleAlert(c, a)
      PROVE  TypeOK'
  <2>1. AfterShow(ui[c], a) \in ScreenType
    BY <1>1, ScreenTypes
  <2>2. PollOK' /\ said' \in SUBSET (Clients \X Nat \X Alerts \X Kinds)
    BY <1>6, ReportTypes, ReportStepTypes DEF HandleAlert, UIFrame
  <2>3. batch' \in [Clients -> BatchType]
    BY <1>6 DEF HandleAlert, ScreenOK, BatchType
  <2>4. ScreenOK'
    BY <1>6, <2>1, <2>2, <2>3 DEF HandleAlert, ScreenOK
  <2>5. QED
    BY <1>6, <2>2, <2>4, Unchanged DEF HandleAlert, UIFrame
<1>7. ASSUME NEW a \in Alerts, NEW k \in Kinds, Close(c, a, k)
      PROVE  TypeOK'
  <2>1. AfterFinish(ui[c], a) \in ScreenType
    BY <1>1, ScreenTypes
  <2>2. <<<<a, k>>>> \in Seq(Reports)
    BY ReportTypes
  <2>3. PollOK' /\ said' \in SUBSET (Clients \X Nat \X Alerts \X Kinds)
    BY <1>7, <2>2, ReportStepTypes DEF Close, UIFrame
  <2>4. ScreenOK'
    BY <1>7, <2>1, <2>3 DEF Close, ScreenOK
  <2>5. QED
    BY <1>7, <2>3, <2>4, Unchanged DEF Close, UIFrame
<1>8. \A a \in Alerts : Press(c, a) \/ LifeOver(c, a) =>
        \E k \in Kinds : Close(c, a, k)
  BY DEF Press, LifeOver, Kinds, Closings
<1>9. QED
  BY <1>2, <1>3, <1>4, <1>5, <1>6, <1>7, <1>8 DEF UIStep

\* Logging on and off.
LEMMA UserTypes ==
  ASSUME TypeOK, NEW c \in Clients, Logon(c) \/ Logoff(c)
  PROVE  TypeOK'
<1> USE TypeParts
<1>1. CASE Logon(c)
  <2>1. UserOK'
    BY <1>1 DEF Logon, UserOK
  <2>2. QED
    BY <1>1, <2>1, Unchanged DEF Logon
<1>2. CASE Logoff(c)
  <2>1. ConnOK'
    BY <1>2, LetGoTypes DEF Logoff, PollOK, ConnOK
  <2>2. PollOK'
    <3>1. <<>> \in Seq(Reports)
      OBVIOUS
    <3>2. QED
      BY <1>2, <3>1 DEF Logoff, PollOK
  <2>3. ScreenOK'
    <3>1. EmptyBatch \in BatchType /\ EmptyScreen \in ScreenType
      BY DEF EmptyBatch, BatchType, EmptyScreen, ScreenType
    <3>2. <<>> \in Seq(BatchType)
      OBVIOUS
    <3>3. QED
      BY <1>2, <3>1, <3>2 DEF Logoff, ScreenOK
  <2>4. UserOK'
    BY <1>2 DEF Logoff, UserOK
  <2>5. QED
    BY <1>2, <2>1, <2>2, <2>3, <2>4, Unchanged DEF Logoff
<1>3. QED
  BY <1>1, <1>2

\* All together.
LEMMA StepTypes == TypeOK /\ [Next]_vars => TypeOK'
<1> SUFFICES ASSUME TypeOK, [Next]_vars PROVE TypeOK'
  OBVIOUS
<1>1. CASE UNCHANGED vars
  BY <1>1, TypeParts, Unchanged DEF vars
<1>2. ASSUME NEW a \in Alerts, Post(a) \/ Recall(a) \/ Expire(a) \/ RecallAges(a)
      PROVE  TypeOK'
  BY <1>2, StaffTypes
<1>3. ASSUME NEW a \in Alerts, NEW c \in Clients,
             SendAges(a, c) \/ Press(c, a) \/ LifeOver(c, a)
      PROVE  TypeOK'
  BY <1>3, StaffTypes, UITypes
<1>4. ASSUME NEW k \in Conns, ServerStep(k) \/ Vanish(k)
      PROVE  TypeOK'
  BY <1>4, HandlerTypes
<1>5. ASSUME NEW c \in Clients,
             PollerStep(c) \/ UIStep(c) \/ Logon(c) \/ Logoff(c)
      PROVE  TypeOK'
  BY <1>5, PollerTypes, UITypes, UserTypes
<1>6. ASSUME NEW c \in Clients, NEW k \in Conns, Fault(c, k)
      PROVE  TypeOK'
  BY <1>6, PollerTypes
<1>7. CASE Flush \/ Crash
  BY <1>7, ProcessTypes
<1>8. QED
  BY <1>1, <1>2, <1>3, <1>4, <1>5, <1>6, <1>7 DEF Next

\* Foghorn's variables have their types in every reachable state, for any
\* alerts, clients, connections, sessions, crashes and failures.
THEOREM TypeCorrect == Spec => []TypeOK
<1>1. QED
  BY InitTypes, StepTypes, PTL DEF Spec

-----------------------------------------------------------------------------
(* The records *)

\* What a step that keeps the server's memory can make of record d of alert a
\* and client c.
Becomes(d, e, a, c) ==
  \/ e = d
  \/ d.made /\ e = [d EXCEPT !.stale = TRUE]
  \/ \E k \in Conns :
       /\ conn[k].stage = "request" /\ conn[k].client = c
       /\ e = AfterBatch(d, a, Kept(conn[k].events))
  \/ a \in ToSend(c) /\ e = AfterSend(d, csid[c])
  \/ a \in ToRecall(c) /\ e = AfterRecallSent(d)

\* The list in memory only grows, and its records go through those steps.
MemGrows ==
  /\ mem.posted \subseteq mem'.posted /\ mem.recalled \subseteq mem'.recalled
  /\ \A a \in Alerts, c \in Clients :
       Becomes(mem.deliv[a][c], mem'.deliv[a][c], a, c)

\* A step that leaves the records alone.
LEMMA SameRecords ==
  ASSUME mem'.deliv = mem.deliv, mem.posted \subseteq mem'.posted,
         mem.recalled \subseteq mem'.recalled
  PROVE  MemGrows
  BY DEF MemGrows, Becomes

\* A step lets the list in memory grow, or is a crash; what is on disk is
\* what was there or in memory.
LEMMA MemStep ==
  ASSUME TypeOK, [Next]_vars
  PROVE  \/ MemGrows /\ disk' \in {disk, mem}
         \/ mem' = disk /\ disk' = disk /\ crashes' = crashes + 1
<1>1. CASE UNCHANGED <<mem, disk>>
  BY <1>1, SameRecords
<1>2. ASSUME NEW a \in Alerts, Post(a) \/ Recall(a) \/ RecallAges(a)
      PROVE  MemGrows /\ disk' = disk
  <2>1. /\ disk' = disk /\ mem'.deliv = mem.deliv
        /\ mem.posted \subseteq mem'.posted /\ mem.recalled \subseteq mem'.recalled
    <3>1. mem \in MemType
      BY DEF TypeOK
    <3>2. CASE Post(a)
      BY <3>1, <3>2 DEF Post, MemType
    <3>3. CASE Recall(a)
      BY <3>1, <3>3 DEF Recall, MemType
    <3>4. CASE RecallAges(a)
      BY <3>1, <3>4 DEF RecallAges, MemType
    <3>5. QED
      BY <1>2, <3>2, <3>3, <3>4
  <2>2. QED
    BY <2>1, SameRecords
<1>3. ASSUME NEW a \in Alerts, NEW c \in Clients, SendAges(a, c)
      PROVE  MemGrows /\ disk' = disk
  <2>1. \A b \in Alerts, x \in Clients :
          mem'.deliv[b][x] = IF b = a /\ x = c
                               THEN [mem.deliv[a][c] EXCEPT !.stale = TRUE]
                               ELSE mem.deliv[b][x]
    BY <1>3 DEF SendAges, TypeOK, MemType
  <2>2. /\ mem'.posted = mem.posted /\ mem'.recalled = mem.recalled /\ disk' = disk
        /\ mem.deliv[a][c].made
    BY <1>3 DEF SendAges, TypeOK, MemType
  <2>3. QED
    BY <2>1, <2>2 DEF MemGrows, Becomes
<1>4. ASSUME NEW k \in Conns, Arrive(k)
      PROVE  MemGrows /\ disk' = disk
  <2>1. \A b \in Alerts, x \in Clients :
          mem'.deliv[b][x] = IF x = conn[k].client
                               THEN AfterBatch(mem.deliv[b][x], b, Kept(conn[k].events))
                               ELSE mem.deliv[b][x]
    BY <1>4 DEF Arrive, TypeOK, MemType
  <2>2. /\ mem'.posted = mem.posted /\ mem'.recalled = mem.recalled /\ disk' = disk
        /\ conn[k].stage = "request"
    BY <1>4 DEF Arrive, TypeOK, MemType
  <2>3. QED
    BY <2>1, <2>2 DEF MemGrows, Becomes
<1>5. ASSUME NEW k \in Conns, Look(k)
      PROVE  MemGrows /\ disk' = disk
  <2> DEFINE c == conn[k].client
  <2>1. \A b \in Alerts, x \in Clients :
          mem'.deliv[b][x] =
            IF x = c THEN IF b \in ToSend(c) THEN AfterSend(mem.deliv[b][x], csid[c])
                          ELSE IF b \in ToRecall(c) THEN AfterRecallSent(mem.deliv[b][x])
                          ELSE mem.deliv[b][x]
            ELSE mem.deliv[b][x]
    BY <1>5 DEF Look, TypeOK, MemType
  <2>2. mem'.posted = mem.posted /\ mem'.recalled = mem.recalled /\ disk' = disk
    BY <1>5 DEF Look, TypeOK, MemType
  <2>3. QED
    BY <2>1, <2>2 DEF MemGrows, Becomes
<1>6. CASE Flush
  BY <1>6, SameRecords DEF Flush
<1>7. CASE Crash
  BY <1>7 DEF Crash
<1>8. ASSUME NEW a \in Alerts, Expire(a)
      PROVE  UNCHANGED <<mem, disk>>
  BY <1>8 DEF Expire
<1>9. ASSUME NEW a \in Alerts, NEW c \in Clients, Press(c, a) \/ LifeOver(c, a)
      PROVE  UNCHANGED <<mem, disk>>
  BY <1>9 DEF Press, LifeOver, Close, UIFrame, serverVars
<1>10. ASSUME NEW k \in Conns, HoldOver(k) \/ Vanish(k)
       PROVE  UNCHANGED <<mem, disk>>
  BY <1>10 DEF HoldOver, Vanish, serverVars
<1>11. ASSUME NEW c \in Clients, PollerStep(c) \/ \E k \in Conns : Fault(c, k)
       PROVE  UNCHANGED <<mem, disk>>
  BY <1>11 DEF PollerStep, Take, NotYet, Submit, Receive, Fail, Fault, serverVars
<1>12. ASSUME NEW c \in Clients, UIStep(c)
       PROVE  UNCHANGED <<mem, disk>>
  BY <1>12 DEF UIStep, TakeBatch, OpenNext, LoopEnds, HandleRecall, HandleAlert,
               UIFrame, serverVars
<1>13. ASSUME NEW c \in Clients, Logon(c) \/ Logoff(c)
       PROVE  UNCHANGED <<mem, disk>>
  BY <1>13 DEF Logon, Logoff, serverVars
<1>14. UNCHANGED vars => UNCHANGED <<mem, disk>>
  BY DEF vars, serverVars
<1>15. QED
  BY <1>1, <1>2, <1>3, <1>4, <1>5, <1>6, <1>7, <1>8, <1>9, <1>10, <1>11, <1>12,
     <1>13, <1>14 DEF Next, ServerStep

\* The records of a list, in memory or on disk.
AllCoherent(m) == \A a \in Alerts, c \in Clients : Coherent(m.deliv[a][c])

\* Every step keeps the records in memory and on disk coherent.
LEMMA CoherentStep ==
  ASSUME TypeOK, [Next]_vars, AllCoherent(mem), AllCoherent(disk)
  PROVE  AllCoherent(mem') /\ AllCoherent(disk')
<1>1. CASE mem' = disk /\ disk' = disk
  BY <1>1
<1>2. CASE MemGrows /\ disk' \in {disk, mem}
  <2>1. ASSUME NEW a \in Alerts, NEW c \in Clients
        PROVE  Coherent(mem'.deliv[a][c])
    <3> DEFINE d == mem.deliv[a][c]
               e == mem'.deliv[a][c]
    <3>1. d \in DeliveryType /\ Coherent(d)
      BY DEF TypeOK, MemType, AllCoherent
    <3>2. Becomes(d, e, a, c)
      BY <1>2 DEF MemGrows
    <3>3. a \in ToRecall(c) => d.made
      BY DEF ToRecall, RecallDue
    <3> HIDE DEF d, e
    <3>4. Coherent(e)
      BY <3>1, <3>2, <3>3, AfterBatchCoherent, SendingCoherent DEF Becomes
    <3>5. QED
      BY <3>4 DEF e
  <2>2. QED
    BY <1>2, <2>1 DEF AllCoherent
<1>3. QED
  BY <1>1, <1>2, MemStep

\* No records, or coherent ones, at the start.
LEMMA InitCoherent == Init => AllCoherent(mem) /\ AllCoherent(disk)
<1>1. Coherent(NoDelivery)
  BY DEF Coherent, NoDelivery
<1>2. QED
  BY <1>1 DEF Init, EmptyMem, AllCoherent

\* A confirmation implies a display and is the reason of the close, and
\* nothing precedes the send: of any records, whatever requests applyEvents
\* and pendingFor are given by however many handlers.
THEOREM RecordsStayCoherent == Spec => []RecordsCoherent
<1> DEFINE I == TypeOK /\ AllCoherent(mem) /\ AllCoherent(disk)
<1>1. Init => I
  BY InitTypes, InitCoherent
<1>2. I /\ [Next]_vars => I'
  BY StepTypes, CoherentStep DEF AllCoherent
<1>3. I => RecordsCoherent
  BY DEF AllCoherent, RecordsCoherent
<1>4. QED
  BY <1>1, <1>2, <1>3, PTL DEF Spec

-----------------------------------------------------------------------------
(* The connections *)

\* What a step can make of connection x: an answer that was not there is what
\* pendingFor returns and has put on record, and a list of events that was not
\* there is what the poller of the client sends.
ConnBecomes(x, y) ==
  /\ \/ y.alerts \subseteq x.alerts /\ y.recalls \subseteq x.recalls
     \/ /\ y.alerts = ToSend(x.client) /\ y.recalls = ToRecall(x.client)
        /\ \A a \in y.alerts : mem'.deliv[a][x.client].made
  /\ y.alerts = {} \/ y.client = x.client
  /\ \/ y.events = <<>>
     \/ y.events = x.events /\ y.client = x.client
     \/ y.client \in Clients /\ y.events = sending[y.client]

\* Every step treats connections like that.
LEMMA ConnStep ==
  ASSUME TypeOK, [Next]_vars, NEW k \in Conns
  PROVE  ConnBecomes(conn[k], conn'[k])
<1> USE DEF ConnBecomes
<1>1. conn \in [Conns -> ConnType]
  BY DEF TypeOK
<1>2. CASE UNCHANGED conn
  BY <1>2
<1>3. CASE conn' = AllAwake
  BY <1>1, <1>3 DEF AllAwake, ConnType
<1>4. ASSUME NEW h \in Conns, Arrive(h)
      PROVE  ConnBecomes(conn[k], conn'[k])
  BY <1>1, <1>4 DEF Arrive, ConnType
<1>5. ASSUME NEW h \in Conns, NEW s, NEW r, Answer(h, s, r),
             \/ s = {} /\ r = {}
             \/ /\ s = ToSend(conn[h].client) /\ r = ToRecall(conn[h].client)
                /\ \A a \in s : mem'.deliv[a][conn[h].client].made
      PROVE  ConnBecomes(conn[k], conn'[k])
  BY <1>1, <1>5 DEF Answer, FreeConn, ConnType
<1>6. ASSUME NEW h \in Conns, Look(h)
      PROVE  ConnBecomes(conn[k], conn'[k])
  <2>1. CASE conn' = [conn EXCEPT ![h].stage = "asleep"]
    BY <1>1, <2>1 DEF ConnType
  <2>2. CASE Answer(h, ToSend(conn[h].client), ToRecall(conn[h].client))
    <3> DEFINE c == conn[h].client
    <3>1. ASSUME NEW a \in ToSend(c)
          PROVE  mem'.deliv[a][c].made
      <4>1. a \in Alerts /\ c \in Clients
        BY <3>1, FoghornAssumption DEF ToSend, TypeOK, MemType
      <4>2. mem'.deliv[a][c] = AfterSend(mem.deliv[a][c], csid[c])
        BY <1>6, <4>1 DEF Look, TypeOK, MemType
      <4>3. mem.deliv[a][c] \in DeliveryType
        BY <4>1 DEF TypeOK, MemType
      <4>4. QED
        BY <4>2, <4>3 DEF AfterSend, DeliveryType
    <3>2. QED
      BY <1>5, <2>2, <3>1
  <2>3. QED
    BY <1>6, <2>1, <2>2 DEF Look
<1>7. ASSUME NEW h \in Conns, HoldOver(h)
      PROVE  ConnBecomes(conn[k], conn'[k])
  BY <1>5, <1>7 DEF HoldOver
<1>8. ASSUME NEW h \in Conns, LetGo(h) \/ conn' = [conn EXCEPT ![h] = FreeConn]
      PROVE  ConnBecomes(conn[k], conn'[k])
  BY <1>1, <1>8 DEF LetGo, FreeConn, ConnType
<1>9. CASE Crash
  BY <1>1, <1>9 DEF Crash, FreeConn, ConnType
<1>10. ASSUME NEW c \in Clients, NEW h \in Conns, Submit(c, h)
       PROVE  ConnBecomes(conn[k], conn'[k])
  BY <1>1, <1>10 DEF Submit, ConnType
<1>11. ASSUME NEW a \in Alerts,
              Post(a) \/ Recall(a) \/ Expire(a) \/ RecallAges(a)
       PROVE  UNCHANGED conn \/ conn' = AllAwake
  BY <1>11 DEF Post, Recall, Expire, RecallAges
<1>12. ASSUME NEW a \in Alerts, NEW c \in Clients,
              SendAges(a, c) \/ Press(c, a) \/ LifeOver(c, a)
       PROVE  UNCHANGED conn
  BY <1>12 DEF SendAges, Press, LifeOver, Close, UIFrame
<1>13. ASSUME NEW c \in Clients, Take(c) \/ NotYet(c) \/ UIStep(c) \/ Logon(c)
       PROVE  UNCHANGED conn
  BY <1>13 DEF Take, NotYet, UIStep, TakeBatch, OpenNext, LoopEnds, HandleRecall,
               HandleAlert, UIFrame, Logon
<1>14. ASSUME NEW c \in Clients, Logoff(c)
       PROVE  UNCHANGED conn \/ \E h \in Conns : LetGo(h)
  BY <1>14 DEF Logoff, TypeOK
<1>15. ASSUME NEW c \in Clients, NEW h \in Conns,
              Receive(c, h) \/ Fail(c, h) \/ Fault(c, h)
       PROVE  LetGo(h) \/ conn' = [conn EXCEPT ![h] = FreeConn]
  BY <1>15 DEF Receive, Fail, Fault
<1>16. ASSUME NEW h \in Conns, Vanish(h)
       PROVE  conn' = [conn EXCEPT ![h] = FreeConn]
  BY <1>16 DEF Vanish
<1>17. Flush => UNCHANGED conn
  BY DEF Flush
<1>18. UNCHANGED vars => UNCHANGED conn
  BY DEF vars
<1> HIDE DEF ConnBecomes
<1>19. QED
  BY <1>2, <1>3, <1>4, <1>6, <1>7, <1>8, <1>9, <1>10, <1>11, <1>12, <1>13, <1>14,
     <1>15, <1>16, <1>17, <1>18 DEF Next, ServerStep, PollerStep

\* No answer carries an alert that is recalled, over or confirmed, or that
\* has been displayed and needs no confirmation, of any alerts, sessions and
\* handlers.  It rests on the coherence of the records, for pendingFor does
\* not look at AckedAt when it sends an alert to the same session again.
THEOREM HandedOutRightly == Spec => HandedOutRight
<1> DEFINE I == TypeOK /\ AllCoherent(mem) /\ AllCoherent(disk)
           Right == \A k \in Conns : \A a \in conn'[k].alerts \ conn[k].alerts :
             LET d == mem.deliv[a][conn[k].client] IN
               /\ a \in mem.posted /\ a \notin mem.recalled \cup expired
               /\ ~d.acked
               /\ d.displayed => a \in RequireAck
<1>1. Init => I
  BY InitTypes, InitCoherent
<1>2. I /\ [Next]_vars => I'
  BY StepTypes, CoherentStep DEF AllCoherent
<1>3. ASSUME I, [Next]_vars
      PROVE  Right
  <2> SUFFICES ASSUME NEW k \in Conns, NEW a \in conn'[k].alerts \ conn[k].alerts
               PROVE  LET d == mem.deliv[a][conn[k].client] IN
                        /\ a \in mem.posted /\ a \notin mem.recalled \cup expired
                        /\ ~d.acked
                        /\ d.displayed => a \in RequireAck
    OBVIOUS
  <2> DEFINE c == conn[k].client
             d == mem.deliv[a][c]
  <2>1. a \in ToSend(c)
    BY <1>3, ConnStep DEF ConnBecomes
  <2>2. /\ a \in Alerts /\ a \in mem.posted /\ a \notin mem.recalled \cup expired
        /\ c \in Audience[a] /\ Wanted(d, a, csid[c])
    BY <1>3, <2>1 DEF ToSend, TypeOK, MemType
  <2>3. c \in Clients
    BY <2>2, FoghornAssumption
  <2>4. d \in DeliveryType /\ Coherent(d)
    BY <1>3, <2>2, <2>3 DEF TypeOK, MemType, AllCoherent
  <2>5. ~d.acked /\ (d.displayed => a \in RequireAck)
    BY <2>2, <2>4, WantedRight
  <2>6. QED
    BY <2>2, <2>5
<1>4. QED
  BY <1>1, <1>2, <1>3, PTL DEF Spec, HandedOutRight

-----------------------------------------------------------------------------
(* What the history claims *)

\* Everything in list s of reports has happened on the screen of c.
Heard(c, s) == \A i \in DOMAIN s : SaidBy(c, s[i][1], s[i][2])

\* What is on its way to the server has happened.
QueuesHeard ==
  /\ \A c \in Clients : Heard(c, pending[c]) /\ Heard(c, sending[c])
  /\ \A k \in Conns : Heard(conn[k].client, conn[k].events)

\* A window that is open has been reported, and so has one that was confirmed.
ScreensHeard ==
  \A c \in Clients :
    /\ \A a \in ui[c].open : SaidBy(c, a, "displayed")
    /\ \A a \in Alerts :
         SaidBy(c, a, "acknowledged") => SaidBy(c, a, "displayed")

\* What one alert list claims has happened.
Truthful(m) ==
  \A a \in Alerts, c \in Clients :
    LET d == m.deliv[a][c] IN
      /\ d.made => c \in Audience[a] /\ a \in m.posted
      /\ d.displayed => SaidBy(c, a, "displayed")
      /\ d.acked => SaidBy(c, a, "acknowledged")
      /\ d.closed # "" => SaidBy(c, a, d.closed)

IInv == TypeOK /\ QueuesHeard /\ ScreensHeard /\ Truthful(mem) /\ Truthful(disk)

\* At the start nothing is claimed and nothing has happened.
LEMMA InitHeard == Init => IInv
<1> SUFFICES ASSUME Init PROVE IInv
  OBVIOUS
<1>1. QueuesHeard
  BY DEF Init, QueuesHeard, Heard, FreeConn
<1>2. ScreensHeard
  BY DEF Init, ScreensHeard, EmptyScreen, SaidBy
<1>3. Truthful(mem) /\ Truthful(disk)
  BY DEF Init, Truthful, EmptyMem, NoDelivery
<1>4. QED
  BY <1>1, <1>2, <1>3, InitTypes DEF IInv

-----------------------------------------------------------------------------
(* What has happened has happened *)

\* What has happened after a step.
SaidNext(c, a, k) == \E r \in said' : r[1] = c /\ r[3] = a /\ r[4] = k

\* A report that a step makes, by client c.
LEMMA ReportSays ==
  ASSUME NEW c, NEW r, Report(c, r)
  PROVE  /\ said \subseteq said'
         /\ \A x, a, k : SaidNext(x, a, k) <=>
              \/ SaidBy(x, a, k)
              \/ x = c /\ \E i \in DOMAIN r : r[i][1] = a /\ r[i][2] = k
<1>1. said' = said \cup {<<c, session[c], r[i][1], r[i][2]>> : i \in DOMAIN r}
  BY DEF Report
<1>2. ASSUME NEW x, NEW a, NEW k, SaidNext(x, a, k)
      PROVE  \/ SaidBy(x, a, k)
             \/ x = c /\ \E i \in DOMAIN r : r[i][1] = a /\ r[i][2] = k
  <2>1. PICK t \in said' : t[1] = x /\ t[3] = a /\ t[4] = k
    BY <1>2 DEF SaidBy, SaidNext
  <2>2. CASE t \in said
    BY <2>1, <2>2 DEF SaidBy, SaidNext
  <2>3. CASE \E i \in DOMAIN r : t = <<c, session[c], r[i][1], r[i][2]>>
    BY <2>1, <2>3
  <2>4. QED
    BY <1>1, <2>1, <2>2, <2>3
<1>3. ASSUME NEW i \in DOMAIN r
      PROVE  SaidNext(c, r[i][1], r[i][2])
  <2> DEFINE t == <<c, session[c], r[i][1], r[i][2]>>
  <2>1. t \in said' /\ t[1] = c /\ t[3] = r[i][1] /\ t[4] = r[i][2]
    BY <1>1
  <2>2. QED
    BY <2>1 DEF SaidBy, SaidNext
<1>4. \A x, a, k : SaidBy(x, a, k) => SaidNext(x, a, k)
  BY <1>1 DEF SaidBy, SaidNext
<1>5. QED
  BY <1>1, <1>2, <1>3, <1>4

\* No step takes a report back.
LEMMA SaidGrows ==
  ASSUME [Next]_vars
  PROVE  said \subseteq said'
<1>1. ASSUME NEW c \in Clients, NEW r, Report(c, r)
      PROVE  said \subseteq said'
  BY <1>1, ReportSays
<1>2. ASSUME NEW c \in Clients, UIStep(c)
      PROVE  said \subseteq said'
  BY <1>1, <1>2 DEF UIStep, TakeBatch, OpenNext, LoopEnds, HandleRecall, HandleAlert
<1>3. ASSUME NEW c \in Clients, NEW a \in Alerts, Press(c, a) \/ LifeOver(c, a)
      PROVE  said \subseteq said'
  BY <1>1, <1>3 DEF Press, LifeOver, Close
<1>4. ASSUME NEW a \in Alerts, Post(a) \/ Recall(a) \/ Expire(a) \/ RecallAges(a)
      PROVE  UNCHANGED said
  BY <1>4 DEF Post, Recall, Expire, RecallAges, screenVars
<1>5. ASSUME NEW a \in Alerts, NEW c \in Clients, SendAges(a, c)
      PROVE  UNCHANGED said
  BY <1>5 DEF SendAges, screenVars
<1>6. ASSUME NEW k \in Conns, ServerStep(k) \/ Vanish(k)
      PROVE  UNCHANGED said
  BY <1>6 DEF ServerStep, Arrive, Look, HoldOver, Vanish, screenVars
<1>7. ASSUME NEW c \in Clients, PollerStep(c) \/ \E k \in Conns : Fault(c, k)
      PROVE  UNCHANGED said
  BY <1>7 DEF PollerStep, Take, NotYet, Submit, Receive, Fail, Fault, screenVars
<1>8. ASSUME NEW c \in Clients, Logon(c) \/ Logoff(c)
      PROVE  UNCHANGED said
  BY <1>8 DEF Logon, Logoff, screenVars
<1>9. Flush \/ Crash \/ UNCHANGED vars => UNCHANGED said
  BY DEF Flush, Crash, vars, screenVars
<1>10. QED
  BY <1>2, <1>3, <1>4, <1>5, <1>6, <1>7, <1>8, <1>9 DEF Next

\* What has happened still has after such a step,
LEMMA StaysSaid ==
  ASSUME said \subseteq said', NEW c, NEW a, NEW k, SaidBy(c, a, k)
  PROVE  SaidNext(c, a, k)
  BY DEF SaidBy, SaidNext

\* for a whole list as well.
LEMMA StaysHeard ==
  ASSUME said \subseteq said', NEW c, NEW s, Heard(c, s)
  PROVE  \A i \in DOMAIN s : SaidNext(c, s[i][1], s[i][2])
  BY StaysSaid DEF Heard

\* Two lists of what has happened, one after the other.
LEMMA HeardTogether ==
  ASSUME NEW c, NEW s \in Seq(Reports), NEW t \in Seq(Reports),
         Heard(c, s), Heard(c, t)
  PROVE  Heard(c, s \o t)
<1>1. /\ s \o t \in Seq(Reports)
      /\ Len(s \o t) = Len(s) + Len(t)
      /\ \A i \in 1..(Len(s) + Len(t)) :
           (s \o t)[i] = IF i <= Len(s) THEN s[i] ELSE t[i - Len(s)]
  BY ConcatProperties
<1>2. SUFFICES ASSUME NEW i \in 1..(Len(s) + Len(t))
               PROVE  SaidBy(c, (s \o t)[i][1], (s \o t)[i][2])
  BY <1>1 DEF Heard
<1>3. CASE i <= Len(s)
  <2>1. i \in DOMAIN s /\ (s \o t)[i] = s[i]
    BY <1>1, <1>3
  <2>2. QED
    BY <2>1 DEF Heard
<1>4. CASE ~(i <= Len(s))
  <2>1. i - Len(s) \in DOMAIN t /\ (s \o t)[i] = t[i - Len(s)]
    BY <1>1, <1>4
  <2>2. QED
    BY <2>1 DEF Heard
<1>5. QED
  BY <1>3, <1>4

-----------------------------------------------------------------------------
(* The poller's lists *)

\* What a step can make of the two lists of client c.
ListsBecome(c) ==
  /\ sending'[c] \in {sending[c], pending[c], <<>>}
  /\ \/ pending'[c] \in {pending[c], <<>>, sending[c] \o pending[c]}
     \/ \E r \in Seq(Reports) : Report(c, r) /\ pending'[c] = pending[c] \o r

\* Every step treats the lists like that.
LEMMA ListsStep ==
  ASSUME TypeOK, [Next]_vars, NEW c \in Clients
  PROVE  ListsBecome(c)
<1> USE DEF ListsBecome
<1>1. pending \in [Clients -> Seq(Reports)] /\ sending \in [Clients -> Seq(Reports)]
  BY DEF TypeOK
<1>2. CASE UNCHANGED <<pending, sending>>
  BY <1>2
<1>3. ASSUME NEW x \in Clients, NEW r \in Seq(Reports), Report(x, r),
             UNCHANGED sending
      PROVE  ListsBecome(c)
  <2>1. CASE x = c
    BY <1>1, <1>3, <2>1 DEF Report
  <2>2. CASE x # c
    BY <1>1, <1>3, <2>2 DEF Report
  <2>3. QED
    BY <2>1, <2>2
<1>4. ASSUME NEW x \in Clients, Take(x)
      PROVE  ListsBecome(c)
  BY <1>1, <1>4 DEF Take
<1>5. ASSUME NEW x \in Clients, PutBack(x)
      PROVE  ListsBecome(c)
  BY <1>1, <1>5 DEF PutBack
<1>6. ASSUME NEW x \in Clients, Logoff(x)
      PROVE  ListsBecome(c)
  BY <1>1, <1>6 DEF Logoff
<1>7. ASSUME NEW x \in Clients, NEW k \in Conns, Receive(x, k)
      PROVE  ListsBecome(c)
  BY <1>1, <1>7 DEF Receive
<1>8. ASSUME NEW x \in Clients, NEW k \in Conns,
             NotYet(x) \/ Fail(x, k) \/ Fault(x, k)
      PROVE  PutBack(x)
  BY <1>8 DEF NotYet, Fail, Fault
<1>9. ASSUME NEW x \in Clients, NotYet(x)
      PROVE  PutBack(x)
  BY <1>9 DEF NotYet
<1>10. ASSUME NEW x \in Clients, OpenNext(x)
       PROVE  ListsBecome(c)
  <2>1. PICK i \in DOMAIN ui[x].waiting : Report(x, OpenReport(ui[x].waiting[i]))
    BY <1>10 DEF OpenNext
  <2>2. ui[x].waiting[i] \in Alerts
    BY DEF TypeOK, ScreenType
  <2>3. OpenReport(ui[x].waiting[i]) \in Seq(Reports) /\ UNCHANGED sending
    BY <1>10, <2>2, ReportTypes DEF OpenNext, UIFrame
  <2>4. QED
    BY <1>3, <2>1, <2>3
<1>11. ASSUME NEW x \in Clients, NEW a \in Alerts, HandleRecall(x, a)
       PROVE  ListsBecome(c)
  BY <1>3, <1>11, ReportTypes DEF HandleRecall, UIFrame
<1>12. ASSUME NEW x \in Clients, NEW a \in Alerts, HandleAlert(x, a)
       PROVE  ListsBecome(c)
  BY <1>3, <1>12, ReportTypes DEF HandleAlert, UIFrame
<1>13. ASSUME NEW x \in Clients, NEW a \in Alerts, NEW k \in Kinds, Close(x, a, k)
       PROVE  ListsBecome(c)
  BY <1>3, <1>13, ReportTypes DEF Close, UIFrame
<1>14. ASSUME NEW x \in Clients, NEW a \in Alerts, Press(x, a) \/ LifeOver(x, a)
       PROVE  ListsBecome(c)
  <2>1. \E k \in Kinds : Close(x, a, k)
    BY <1>14 DEF Press, LifeOver, Kinds, Closings
  <2>2. QED
    BY <1>13, <2>1
<1>15. ASSUME NEW a \in Alerts,
              \/ Post(a) \/ Recall(a) \/ Expire(a) \/ RecallAges(a)
              \/ \E x \in Clients : SendAges(a, x)
       PROVE  UNCHANGED <<pending, sending>>
  BY <1>15 DEF Post, Recall, Expire, RecallAges, SendAges, pollVars
<1>16. ASSUME NEW k \in Conns, ServerStep(k) \/ Vanish(k)
       PROVE  UNCHANGED <<pending, sending>>
  BY <1>16 DEF ServerStep, Arrive, Look, HoldOver, Vanish, pollVars
<1>17. ASSUME NEW x \in Clients,
              \/ TakeBatch(x) \/ LoopEnds(x) \/ Logon(x)
              \/ \E k \in Conns : Submit(x, k)
       PROVE  UNCHANGED <<pending, sending>>
  BY <1>17 DEF TakeBatch, LoopEnds, Logon, Submit, pollVars
<1>18. Flush \/ Crash \/ UNCHANGED vars => UNCHANGED <<pending, sending>>
  BY DEF Flush, Crash, vars, pollVars
<1> HIDE DEF ListsBecome
<1>19. QED
  BY <1>2, <1>4, <1>5, <1>6, <1>7, <1>8, <1>9, <1>10, <1>11, <1>12, <1>14, <1>15,
     <1>16, <1>17, <1>18 DEF Next, PollerStep, UIStep

\* What is on its way has happened, after any step.
LEMMA QueuesStep ==
  ASSUME TypeOK, [Next]_vars, QueuesHeard
  PROVE  QueuesHeard'
<1>0. said \subseteq said'
  BY SaidGrows
<1>1. ASSUME NEW c \in Clients
      PROVE  Heard(c, pending[c])' /\ Heard(c, sending[c])'
  <2>1. Heard(c, pending[c]) /\ Heard(c, sending[c])
    BY DEF QueuesHeard
  <2>2. pending[c] \in Seq(Reports) /\ sending[c] \in Seq(Reports)
    BY DEF TypeOK
  <2>3. ASSUME NEW s, Heard(c, s)
        PROVE  \A i \in DOMAIN s : SaidNext(c, s[i][1], s[i][2])
    BY <1>0, <2>3, StaysHeard
  <2>4. Heard(c, <<>>)
    BY DEF Heard
  <2>5. ListsBecome(c)
    BY ListsStep
  <2>6. Heard(c, sending[c])'
    BY <2>1, <2>3, <2>4, <2>5 DEF ListsBecome, Heard, SaidBy, SaidNext
  <2>7. CASE pending'[c] \in {pending[c], <<>>, sending[c] \o pending[c]}
    <3>1. Heard(c, sending[c] \o pending[c])
      BY <2>1, <2>2, HeardTogether
    <3>2. Heard(c, pending'[c])
      BY <2>1, <2>4, <2>7, <3>1
    <3>3. \A i \in DOMAIN pending'[c] :
            SaidNext(c, pending'[c][i][1], pending'[c][i][2])
      BY <2>3, <3>2
    <3>4. QED
      BY <2>6, <3>3 DEF Heard, SaidBy, SaidNext
  <2>8. ASSUME NEW r \in Seq(Reports), Report(c, r), pending'[c] = pending[c] \o r
        PROVE  Heard(c, pending[c])'
    <3>1. \A i \in DOMAIN r : SaidNext(c, r[i][1], r[i][2])
      BY <2>8, ReportSays
    <3>2. \A i \in DOMAIN pending[c] : SaidNext(c, pending[c][i][1], pending[c][i][2])
      BY <2>1, <2>3
    <3>3. /\ Len(pending[c] \o r) = Len(pending[c]) + Len(r)
          /\ pending[c] \o r \in Seq(Reports)
          /\ \A i \in 1..(Len(pending[c]) + Len(r)) :
               (pending[c] \o r)[i] = IF i <= Len(pending[c]) THEN pending[c][i]
                                      ELSE r[i - Len(pending[c])]
      BY <2>2, ConcatProperties
    <3>4. ASSUME NEW i \in DOMAIN (pending[c] \o r)
          PROVE  \/ \E j \in DOMAIN pending[c] : (pending[c] \o r)[i] = pending[c][j]
                 \/ \E j \in DOMAIN r : (pending[c] \o r)[i] = r[j]
      <4>1. i \in Nat /\ 1 <= i /\ i <= Len(pending[c]) + Len(r)
        BY <3>3
      <4>2. CASE i <= Len(pending[c])
        BY <2>2, <3>3, <4>1, <4>2
      <4>3. CASE ~(i <= Len(pending[c]))
        <5>1. i - Len(pending[c]) \in DOMAIN r
          BY <2>2, <4>1, <4>3
        <5>2. (pending[c] \o r)[i] = r[i - Len(pending[c])]
          BY <2>2, <3>3, <4>1, <4>3
        <5>3. QED
          BY <5>1, <5>2
      <4>4. QED
        BY <4>2, <4>3
    <3>5. \A i \in DOMAIN pending'[c] :
            SaidNext(c, pending'[c][i][1], pending'[c][i][2])
      <4>1. SUFFICES ASSUME NEW i \in DOMAIN (pending[c] \o r)
                     PROVE  SaidNext(c, (pending[c] \o r)[i][1], (pending[c] \o r)[i][2])
        BY <2>8
      <4>2. QED
        BY <3>1, <3>2, <3>4
    <3>6. QED
      BY <3>5 DEF Heard, SaidBy, SaidNext
  <2>9. QED
    BY <2>5, <2>6, <2>7, <2>8 DEF ListsBecome
<1>2. ASSUME NEW k \in Conns
      PROVE  Heard(conn[k].client, conn[k].events)'
  <2>1. ConnBecomes(conn[k], conn'[k])
    BY ConnStep
  <2>2. CASE conn'[k].events = <<>>
    BY <2>2 DEF Heard
  <2>3. CASE conn'[k].events = conn[k].events /\ conn'[k].client = conn[k].client
    <3>1. Heard(conn[k].client, conn[k].events)
      BY DEF QueuesHeard
    <3>2. QED
      BY <1>0, <2>3, <3>1, StaysHeard DEF Heard, SaidBy, SaidNext
  <2>4. CASE /\ conn'[k].client \in Clients
             /\ conn'[k].events = sending[conn'[k].client]
    <3>1. Heard(conn'[k].client, sending[conn'[k].client])
      BY <2>4 DEF QueuesHeard
    <3>2. QED
      BY <1>0, <2>4, <3>1, StaysHeard DEF Heard, SaidBy, SaidNext
  <2>5. QED
    BY <2>1, <2>2, <2>3, <2>4 DEF ConnBecomes
<1>3. QED
  BY <1>1, <1>2 DEF QueuesHeard

-----------------------------------------------------------------------------
(* The screens *)

\* A step on the screen of c reports the windows it opens, and confirms only
\* what is open.
LEMMA ScreenReport ==
  ASSUME ScreensHeard, ui \in [Clients -> ScreenType],
         ui' \in [Clients -> ScreenType],
         NEW c \in Clients, NEW r, Report(c, r),
         \A x \in Clients \ {c} : ui'[x] = ui[x],
         \A a \in ui'[c].open :
           a \in ui[c].open \/ \E i \in DOMAIN r : r[i] = <<a, "displayed">>,
         \A i \in DOMAIN r : r[i][2] = "acknowledged" => r[i][1] \in ui[c].open
  PROVE  ScreensHeard'
<1>1. said \subseteq said' /\ \A x, a, k : SaidBy(x, a, k) => SaidNext(x, a, k)
  BY ReportSays
<1>2. \A i \in DOMAIN r : SaidNext(c, r[i][1], r[i][2])
  BY ReportSays
<1>3. ASSUME NEW x \in Clients, NEW a \in ui'[x].open
      PROVE  SaidNext(x, a, "displayed")
  <2>1. CASE a \in ui[x].open
    BY <1>1, <2>1 DEF ScreensHeard
  <2>2. CASE a \notin ui[x].open
    <3>1. PICK i \in DOMAIN r : x = c /\ r[i] = <<a, "displayed">>
      BY <1>3, <2>2
    <3>2. r[i][1] = a /\ r[i][2] = "displayed"
      BY <3>1
    <3>3. QED
      BY <1>2, <3>1, <3>2
  <2>3. QED
    BY <2>1, <2>2
<1>4. ASSUME NEW x \in Clients, NEW a \in Alerts, SaidNext(x, a, "acknowledged")
      PROVE  SaidNext(x, a, "displayed")
  <2>1. CASE SaidBy(x, a, "acknowledged")
    BY <1>1, <2>1 DEF ScreensHeard
  <2>2. CASE ~SaidBy(x, a, "acknowledged")
    <3>1. PICK i \in DOMAIN r : x = c /\ r[i][1] = a /\ r[i][2] = "acknowledged"
      BY <1>4, <2>2, ReportSays
    <3>2. SaidBy(x, a, "displayed")
      BY <3>1 DEF ScreensHeard
    <3>3. QED
      BY <1>1, <3>2
  <2>3. QED
    BY <2>1, <2>2
<1>5. QED
  BY <1>3, <1>4 DEF ScreensHeard, SaidBy, SaidNext

\* A step that opens no window and reports nothing.
LEMMA ScreenRests ==
  ASSUME ScreensHeard, UNCHANGED said,
         \A x \in Clients : ui'[x].open \subseteq ui[x].open
  PROVE  ScreensHeard'
  BY DEF ScreensHeard, SaidBy

\* What is open has been reported, after any step.
LEMMA ScreensStep ==
  ASSUME TypeOK, TypeOK', [Next]_vars, ScreensHeard
  PROVE  ScreensHeard'
<1>1. ui \in [Clients -> ScreenType] /\ ui' \in [Clients -> ScreenType]
  BY DEF TypeOK
<1>2. CASE UNCHANGED <<ui, said>>
  BY <1>2, ScreenRests
<1>3. ASSUME NEW c \in Clients, OpenNext(c)
      PROVE  ScreensHeard'
  <2>1. PICK i \in DOMAIN ui[c].waiting :
          /\ ui' = [ui EXCEPT ![c] = AfterOpenNext(@, i)]
          /\ Report(c, OpenReport(ui[c].waiting[i]))
    BY <1>3 DEF OpenNext
  <2> DEFINE b == ui[c].waiting[i]
             r == OpenReport(b)
  <2>2. ui'[c] = AfterOpenNext(ui[c], i) /\ \A x \in Clients \ {c} : ui'[x] = ui[x]
    BY <1>1, <2>1
  <2>3. ui'[c].open = IF b \in Unbuildable THEN ui[c].open ELSE ui[c].open \cup {b}
    BY <1>1, <2>2 DEF AfterOpenNext, AfterOpen, ScreenType
  <2>4. r = IF b \in Unbuildable THEN <<>> ELSE <<<<b, "displayed">>>>
    BY DEF OpenReport, Displayed
  <2>5. Report(c, r)
    BY <2>1
  <2> HIDE DEF b, r
  <2>6. \A a \in ui'[c].open :
          a \in ui[c].open \/ \E j \in DOMAIN r : r[j] = <<a, "displayed">>
    BY <2>3, <2>4
  <2>7. \A j \in DOMAIN r : r[j][2] # "acknowledged"
    BY <2>4
  <2>8. QED
    BY <1>1, <2>2, <2>5, <2>6, <2>7, ScreenReport
<1>4. ASSUME NEW c \in Clients, NEW a \in Alerts, HandleRecall(c, a)
      PROVE  ScreensHeard'
  <2> DEFINE r == RecallReport(ui[c], a)
  <2>1. ui'[c] = AfterRecall(ui[c], a) /\ \A x \in Clients \ {c} : ui'[x] = ui[x]
    BY <1>1, <1>4 DEF HandleRecall
  <2>2. ui'[c].open \subseteq ui[c].open
    BY <1>1, <2>1 DEF AfterRecall, AfterFinish, ScreenType
  <2>3. \A i \in DOMAIN r : r[i][2] # "acknowledged"
    BY DEF RecallReport
  <2>4. Report(c, r)
    BY <1>4 DEF HandleRecall
  <2> HIDE DEF r
  <2>5. QED
    BY <1>1, <2>1, <2>2, <2>3, <2>4, ScreenReport
<1>5. ASSUME NEW c \in Clients, NEW a \in Alerts, HandleAlert(c, a)
      PROVE  ScreensHeard'
  <2> DEFINE r == ShowReport(ui[c], a)
  <2>1. ui'[c] = AfterShow(ui[c], a) /\ \A x \in Clients \ {c} : ui'[x] = ui[x]
    BY <1>1, <1>5 DEF HandleAlert
  <2>2. ui'[c].open = IF a \notin ui[c].seen /\ HasRoom(ui[c], a) /\ a \notin Unbuildable
                        THEN ui[c].open \cup {a} ELSE ui[c].open
    BY <1>1, <2>1 DEF AfterShow, AfterOpen, ScreenType
  <2>3. a \notin ui[c].seen /\ HasRoom(ui[c], a) /\ a \notin Unbuildable =>
          r = <<<<a, "displayed">>>>
    BY DEF ShowReport, OpenReport, Displayed
  <2>4. r = <<>> \/ r = <<<<a, "displayed">>>>
    BY DEF ShowReport, OpenReport, Displayed
  <2>5. Report(c, r)
    BY <1>5 DEF HandleAlert
  <2> HIDE DEF r
  <2>6. \A b \in ui'[c].open :
          b \in ui[c].open \/ \E j \in DOMAIN r : r[j] = <<b, "displayed">>
    BY <2>2, <2>3
  <2>7. \A j \in DOMAIN r : r[j][2] # "acknowledged"
    BY <2>4
  <2>8. QED
    BY <1>1, <2>1, <2>5, <2>6, <2>7, ScreenReport
<1>6. ASSUME NEW c \in Clients, NEW a \in Alerts, NEW k \in Kinds, Close(c, a, k)
      PROVE  ScreensHeard'
  <2> DEFINE r == <<<<a, k>>>>
  <2>1. ui'[c] = AfterFinish(ui[c], a) /\ \A x \in Clients \ {c} : ui'[x] = ui[x]
    BY <1>1, <1>6 DEF Close
  <2>2. ui'[c].open \subseteq ui[c].open
    BY <1>1, <2>1 DEF AfterFinish, ScreenType
  <2>3. \A i \in DOMAIN r : r[i][1] \in ui[c].open
    BY <1>6 DEF Close
  <2>4. Report(c, r)
    BY <1>6 DEF Close
  <2> HIDE DEF r
  <2>5. QED
    BY <1>1, <2>1, <2>2, <2>3, <2>4, ScreenReport
<1>7. ASSUME NEW c \in Clients, NEW a \in Alerts, Press(c, a) \/ LifeOver(c, a)
      PROVE  ScreensHeard'
  <2>1. \E k \in Kinds : Close(c, a, k)
    BY <1>7 DEF Press, LifeOver, Kinds, Closings
  <2>2. QED
    BY <1>6, <2>1
<1>8. ASSUME NEW c \in Clients, LoopEnds(c)
      PROVE  ScreensHeard'
  <2>1. \A x \in Clients : ui'[x].open = ui[x].open
    BY <1>1, <1>8 DEF LoopEnds, AfterLoop, ScreenType
  <2>2. QED
    BY <1>8, <2>1, ScreenRests DEF LoopEnds
<1>9. ASSUME NEW c \in Clients, Logoff(c)
      PROVE  ScreensHeard'
  <2>1. \A x \in Clients : ui'[x].open \subseteq ui[x].open
    BY <1>1, <1>9 DEF Logoff, EmptyScreen
  <2>2. QED
    BY <1>9, <2>1, ScreenRests DEF Logoff
<1>10. ASSUME NEW a \in Alerts,
              \/ Post(a) \/ Recall(a) \/ Expire(a) \/ RecallAges(a)
              \/ \E x \in Clients : SendAges(a, x)
       PROVE  UNCHANGED <<ui, said>>
  BY <1>10 DEF Post, Recall, Expire, RecallAges, SendAges, screenVars
<1>11. ASSUME NEW k \in Conns, ServerStep(k) \/ Vanish(k)
       PROVE  UNCHANGED <<ui, said>>
  BY <1>11 DEF ServerStep, Arrive, Look, HoldOver, Vanish, screenVars
<1>12. ASSUME NEW c \in Clients, PollerStep(c) \/ \E k \in Conns : Fault(c, k)
       PROVE  UNCHANGED <<ui, said>>
  BY <1>12 DEF PollerStep, Take, NotYet, Submit, Receive, Fail, Fault, screenVars
<1>13. ASSUME NEW c \in Clients, TakeBatch(c) \/ Logon(c)
       PROVE  UNCHANGED <<ui, said>>
  BY <1>13 DEF TakeBatch, Logon, screenVars
<1>14. Flush \/ Crash \/ UNCHANGED vars => UNCHANGED <<ui, said>>
  BY DEF Flush, Crash, vars, screenVars
<1>15. QED
  BY <1>2, <1>3, <1>4, <1>5, <1>7, <1>8, <1>9, <1>10, <1>11, <1>12, <1>13, <1>14
     DEF Next, UIStep

-----------------------------------------------------------------------------
(* The records *)

\* The two parts of a report.
LEMMA PairFacts ==
  ASSUME NEW x, NEW y
  PROVE  <<x, y>>[1] = x /\ <<x, y>>[2] = y
OBVIOUS

\* What a batch of reports that have happened does to a truthful record.
LEMMA BatchTruthful ==
  ASSUME NEW d \in DeliveryType, NEW a \in Alerts, NEW c \in Clients,
         NEW s \in Seq(Reports), Heard(c, s), ScreensHeard,
         d.displayed => SaidBy(c, a, "displayed"),
         d.acked => SaidBy(c, a, "acknowledged"),
         d.closed # "" => SaidBy(c, a, d.closed)
  PROVE  LET e == AfterBatch(d, a, Kept(s)) IN
           /\ e.made = d.made
           /\ e.displayed => SaidBy(c, a, "displayed")
           /\ e.acked => SaidBy(c, a, "acknowledged")
           /\ e.closed # "" => SaidBy(c, a, e.closed)
<1> DEFINE e == AfterBatch(d, a, Kept(s))
<1>1. \A k : Says(Kept(s), a, k) => SaidBy(c, a, k)
  <2> SUFFICES ASSUME NEW k, Says(Kept(s), a, k) PROVE SaidBy(c, a, k)
    OBVIOUS
  <2>1. PICK i \in DOMAIN Kept(s) : Kept(s)[i] = <<a, k>>
    BY DEF Says
  <2>2. i \in DOMAIN s /\ s[i] = <<a, k>>
    BY <2>1, KeptFacts
  <2>3. s[i][1] = a /\ s[i][2] = k
    <3>1. s[i] = <<a, k>>
      BY <2>2
    <3>2. <<a, k>>[1] = a /\ <<a, k>>[2] = k
      BY PairFacts
    <3>3. QED
      BY <3>1, <3>2, Zenon
  <2>4. QED
    BY <2>2, <2>3 DEF Heard
<1>2. CASE ~d.made
  BY <1>2 DEF AfterBatch
<1>3. CASE d.made
  <2>1. /\ e.made = d.made
        /\ e.displayed = (d.displayed \/ Says(Kept(s), a, "displayed")
                                      \/ Says(Kept(s), a, "acknowledged"))
        /\ e.acked = (d.acked \/ Says(Kept(s), a, "acknowledged"))
        /\ e.closed = ClosedAfter(d, a, Kept(s))
    BY <1>3 DEF AfterBatch, DeliveryType
  <2> HIDE DEF e
  <2>2. e.displayed => SaidBy(c, a, "displayed")
    BY <1>1, <2>1 DEF ScreensHeard
  <2>3. e.acked => SaidBy(c, a, "acknowledged")
    BY <1>1, <2>1
  <2>4. e.closed # "" => SaidBy(c, a, e.closed)
    BY <1>1, <2>1, ClosedAfterFacts
  <2>5. QED
    BY <2>1, <2>2, <2>3, <2>4 DEF e
<1>4. QED
  BY <1>2, <1>3

\* A list that is truthful now is so after the step.
LEMMA StaysTruthful ==
  ASSUME [Next]_vars
  PROVE  /\ Truthful(mem') => Truthful(mem)'
         /\ Truthful(disk') => Truthful(disk)'
<1>1. \A c, a, k : SaidBy(c, a, k) => SaidNext(c, a, k)
  BY SaidGrows DEF SaidBy, SaidNext
<1>2. ASSUME Truthful(mem')
      PROVE  \A a \in Alerts, c \in Clients :
               LET d == mem'.deliv[a][c] IN
                 /\ d.made => c \in Audience[a] /\ a \in mem'.posted
                 /\ d.displayed => SaidNext(c, a, "displayed")
                 /\ d.acked => SaidNext(c, a, "acknowledged")
                 /\ d.closed # "" => SaidNext(c, a, d.closed)
  BY <1>1, <1>2 DEF Truthful
<1>3. ASSUME Truthful(disk')
      PROVE  \A a \in Alerts, c \in Clients :
               LET d == disk'.deliv[a][c] IN
                 /\ d.made => c \in Audience[a] /\ a \in disk'.posted
                 /\ d.displayed => SaidNext(c, a, "displayed")
                 /\ d.acked => SaidNext(c, a, "acknowledged")
                 /\ d.closed # "" => SaidNext(c, a, d.closed)
  BY <1>1, <1>3 DEF Truthful
<1>4. QED
  BY <1>2, <1>3 DEF Truthful, SaidBy, SaidNext

\* What a record claims after a step that keeps the server's memory.
LEMMA ClaimsStep ==
  ASSUME IInv, MemGrows, NEW a \in Alerts, NEW c \in Clients
  PROVE  LET e == mem'.deliv[a][c] IN
           /\ e.made => c \in Audience[a] /\ a \in mem'.posted
           /\ e.displayed => SaidBy(c, a, "displayed")
           /\ e.acked => SaidBy(c, a, "acknowledged")
           /\ e.closed # "" => SaidBy(c, a, e.closed)
<1> USE DEF IInv
<1> DEFINE d == mem.deliv[a][c]
           e == mem'.deliv[a][c]
<1>1. /\ d \in DeliveryType
      /\ d.made => c \in Audience[a] /\ a \in mem.posted
      /\ d.displayed => SaidBy(c, a, "displayed")
      /\ d.acked => SaidBy(c, a, "acknowledged")
      /\ d.closed # "" => SaidBy(c, a, d.closed)
  <2>1. d \in DeliveryType
    BY DEF TypeOK, MemType
  <2>2. QED
    BY <2>1 DEF Truthful
<1>2. Becomes(d, e, a, c) /\ mem.posted \subseteq mem'.posted
  BY DEF MemGrows
<1>3. a \in ToSend(c) => c \in Audience[a] /\ a \in mem.posted
  BY DEF ToSend
<1> HIDE DEF d, e
<1>4. CASE e = d \/ (d.made /\ e = [d EXCEPT !.stale = TRUE])
  <2>1. /\ e.made = d.made /\ e.displayed = d.displayed
        /\ e.acked = d.acked /\ e.closed = d.closed
    BY <1>1, <1>4 DEF DeliveryType
  <2>2. QED
    BY <1>1, <1>2, <2>1 DEF e
<1>5. ASSUME NEW k \in Conns, conn[k].client = c,
             e = AfterBatch(d, a, Kept(conn[k].events))
      PROVE  /\ e.made = d.made
             /\ e.displayed => SaidBy(c, a, "displayed")
             /\ e.acked => SaidBy(c, a, "acknowledged")
             /\ e.closed # "" => SaidBy(c, a, e.closed)
  <2>1. conn[k].events \in Seq(Reports)
    BY DEF TypeOK, ConnType
  <2>2. Heard(c, conn[k].events)
    BY <1>5 DEF QueuesHeard
  <2>3. QED
    BY <1>1, <1>5, <2>1, <2>2, BatchTruthful
<1>6. CASE a \in ToSend(c) /\ e = AfterSend(d, csid[c])
  <2>1. e.displayed = d.displayed /\ e.acked = d.acked /\ e.closed = d.closed
    BY <1>1, <1>6 DEF AfterSend, DeliveryType
  <2>2. QED
    BY <1>1, <1>2, <1>3, <1>6, <2>1 DEF e
<1>7. CASE a \in ToRecall(c) /\ e = AfterRecallSent(d)
  <2>1. /\ e.made = d.made /\ e.displayed = d.displayed
        /\ e.acked = d.acked /\ e.closed = d.closed
    BY <1>1, <1>7 DEF AfterRecallSent, DeliveryType
  <2>2. QED
    BY <1>1, <1>2, <2>1 DEF e
<1>8. QED
  BY <1>1, <1>2, <1>4, <1>5, <1>6, <1>7 DEF Becomes, e

\* The lists in memory and on disk stay truthful.
LEMMA TruthfulStep ==
  ASSUME IInv, [Next]_vars
  PROVE  Truthful(mem)' /\ Truthful(disk)'
<1>1. ASSUME MemGrows
      PROVE  Truthful(mem)'
  <2>1. ASSUME NEW a \in Alerts, NEW c \in Clients
        PROVE  LET e == mem'.deliv[a][c] IN
                 /\ e.made => c \in Audience[a] /\ a \in mem'.posted
                 /\ e.displayed => SaidBy(c, a, "displayed")
                 /\ e.acked => SaidBy(c, a, "acknowledged")
                 /\ e.closed # "" => SaidBy(c, a, e.closed)
    BY <1>1, ClaimsStep
  <2>2. Truthful(mem')
    BY <2>1 DEF Truthful
  <2>3. QED
    BY <2>2, StaysTruthful
<1>2. disk' \in {disk, mem} => Truthful(disk)'
  BY StaysTruthful DEF IInv
<1>3. mem' = disk => Truthful(mem)'
  BY StaysTruthful DEF IInv
<1>4. QED
  BY <1>1, <1>2, <1>3, MemStep DEF IInv

\* Each receipt of each alert list, in memory or on disk, has been made on
\* the screen of that client, and only the clients an alert is for have a
\* record of it: through aborted, repeated and overtaken requests, any number
\* of sessions, and restarts from whatever was last on disk.
THEOREM HistoryIsTruthful == Spec => []ReceiptsTruthful
<1>1. Init => IInv
  BY InitHeard
<1>2. IInv /\ [Next]_vars => IInv'
  BY StepTypes, QueuesStep, ScreensStep, TruthfulStep DEF IInv
<1>3. IInv => ReceiptsTruthful
  BY DEF IInv, Truthful, ReceiptsTruthful
<1>4. QED
  BY <1>1, <1>2, <1>3, PTL DEF Spec

-----------------------------------------------------------------------------
(* A recall is final on a screen that has had it *)

\* What connection k brings its client, and what the client waits for.
Brings(k) == [alerts |-> conn[k].alerts, recalls |-> conn[k].recalls]
Coming(c) == IF current[c] = None THEN EmptyBatch ELSE Brings(current[c])

\* The replies of a client in the order in which it handles them: the batch b
\* it has begun, the queue q of its UI thread, and the one that is coming.
Nth(b, q, l, i) == IF i = 0 THEN b ELSE IF i \in DOMAIN q THEN q[i] ELSE l
Places(q) == 0..(Len(q) + 1)

\* Of a line of replies: the recalls it brings, and those the client has had
\* (the set down), are recalls of the server, and none comes before its alert.
RecallsLast(b, q, l, down, recalled) ==
  /\ down \subseteq recalled
  /\ \A i \in Places(q) : Nth(b, q, l, i).recalls \subseteq recalled
  /\ \A i \in Places(q) : down \cap Nth(b, q, l, i).alerts = {}
  /\ \A i, j \in Places(q) :
       i <= j => Nth(b, q, l, i).recalls \cap Nth(b, q, l, j).alerts = {}

LinesInOrder ==
  crashes = 0 =>
    \A c \in Clients :
      RecallsLast(batch[c], inbox[c], Coming(c), downed[c], mem.recalled)

\* What a screen has taken down on a recall is not on it.
ScreensInOrder ==
  \A c \in Clients :
    /\ Tidy(ui[c])
    /\ crashes = 0 => downed[c] \cap Standing(ui[c]) = {}

\* Where the replies of a line are.
NthIs(b, q, l) ==
  /\ Nth(b, q, l, 0) = b
  /\ \A i \in DOMAIN q : Nth(b, q, l, i) = q[i]
  /\ Nth(b, q, l, Len(q) + 1) = l

LEMMA NthFacts ==
  ASSUME NEW b \in BatchType, NEW q \in Seq(BatchType), NEW l \in BatchType
  PROVE  NthIs(b, q, l)
<1>1. DOMAIN q = 1..Len(q) /\ Len(q) \in Nat
  OBVIOUS
<1>2. QED
  BY <1>1 DEF Nth, NthIs

LEMMA PlacesFacts ==
  ASSUME NEW q \in Seq(BatchType)
  PROVE  /\ \A i \in Places(q) : i \in Nat /\ i <= Len(q) + 1
         /\ \A i \in Places(q) : i = 0 \/ i \in DOMAIN q \/ i = Len(q) + 1
         /\ 0 \in Places(q) /\ Len(q) + 1 \in Places(q)
         /\ \A i \in DOMAIN q : i \in Places(q)
<1>1. DOMAIN q = 1..Len(q) /\ Len(q) \in Nat
  OBVIOUS
<1>2. QED
  BY <1>1 DEF Places

\* Replies that are lost or partly handled leave the rest in order, and so
\* does a new answer at the end: it brings recalls of the server, and no
\* alert that is recalled.
LEMMA LineShrinks ==
  ASSUME NEW b \in BatchType, NEW q \in Seq(BatchType), NEW l \in BatchType,
         NEW d \in SUBSET Alerts, NEW R \in SUBSET Alerts, RecallsLast(b, q, l, d, R),
         NEW b2 \in BatchType, NEW l2 \in BatchType, NEW R2 \in SUBSET Alerts,
         b2.alerts \subseteq b.alerts, b2.recalls \subseteq b.recalls,
         \/ l2.alerts \subseteq l.alerts /\ l2.recalls \subseteq l.recalls
         \/ l2.alerts \cap R = {} /\ l2.recalls \subseteq R /\ l2.alerts \cap l2.recalls = {},
         R \subseteq R2
  PROVE  RecallsLast(b2, q, l2, d, R2)
<1> DEFINE N(i) == Nth(b, q, l, i)
           M(i) == Nth(b2, q, l2, i)
           P == Places(q)
           e == Len(q) + 1
<1>1. /\ \A i \in P : i = 0 \/ i \in DOMAIN q \/ i = e
      /\ N(0) = b /\ N(e) = l /\ \A i \in DOMAIN q : N(i) = q[i]
      /\ M(0) = b2 /\ M(e) = l2 /\ \A i \in DOMAIN q : M(i) = q[i]
      /\ \A i \in P : i \in Nat
  <2>1. NthIs(b, q, l) /\ NthIs(b2, q, l2)
    BY NthFacts
  <2>2. \A i \in P : i \in Nat /\ (i = 0 \/ i \in DOMAIN q \/ i = e)
    BY PlacesFacts
  <2>3. QED
    BY <2>1, <2>2 DEF NthIs
<1>2. /\ d \subseteq R /\ \A i \in P : N(i).recalls \subseteq R
      /\ \A i \in P : d \cap N(i).alerts = {}
      /\ \A i, j \in P : i <= j => N(i).recalls \cap N(j).alerts = {}
  BY DEF RecallsLast
<1>3. \A i \in P : i <= e
  BY PlacesFacts
<1> HIDE DEF N, M, P, e
<1>4. \A i \in P : M(i).recalls \subseteq N(i).recalls \/ (i = e /\ M(i).recalls \subseteq R)
  BY <1>1
<1>5. \A i \in P : \/ M(i).alerts \subseteq N(i).alerts
                   \/ /\ i = e /\ M(i).alerts \cap R = {}
                      /\ M(i).alerts \cap M(i).recalls = {}
  BY <1>1
<1>6. \A i \in P : M(i).recalls \subseteq R
  BY <1>2, <1>4
<1>7. \A i \in P : d \cap M(i).alerts = {}
  BY <1>2, <1>5
<1>8. ASSUME NEW i \in P, NEW j \in P, i <= j
      PROVE  M(i).recalls \cap M(j).alerts = {}
  <2>1. CASE M(j).alerts \cap R = {}
    BY <1>6, <2>1
  <2>2. CASE M(j).alerts \subseteq N(j).alerts
    <3>1. CASE M(i).recalls \subseteq N(i).recalls
      BY <1>2, <1>8, <2>2, <3>1
    <3>2. CASE i = e /\ ~(M(i).recalls \subseteq N(i).recalls)
      <4>1. j = e
        BY <1>1, <1>3, <1>8, <3>2
      <4>2. QED
        BY <1>1, <1>5, <2>2, <3>2, <4>1
    <3>3. QED
      BY <1>4, <3>1, <3>2
  <2>3. QED
    BY <1>5, <2>1, <2>2
<1>9. QED
  BY <1>2, <1>6, <1>7, <1>8 DEF RecallsLast, M, P

\* Each reply of the second line is one of the first, in the same order, or
\* is empty.
LEMMA LineKept ==
  ASSUME NEW b \in BatchType, NEW q \in Seq(BatchType), NEW l \in BatchType,
         NEW d \in SUBSET Alerts, NEW R \in SUBSET Alerts, RecallsLast(b, q, l, d, R),
         NEW b2 \in BatchType, NEW q2 \in Seq(BatchType), NEW l2 \in BatchType,
         NEW s \in {0, 1},
         \A i \in Places(q2) :
           \/ Nth(b2, q2, l2, i) = EmptyBatch
           \/ i + s \in Places(q) /\ Nth(b2, q2, l2, i) = Nth(b, q, l, i + s)
  PROVE  RecallsLast(b2, q2, l2, d, R)
<1> DEFINE N(i) == Nth(b, q, l, i)
           M(i) == Nth(b2, q2, l2, i)
           P == Places(q)
           Q == Places(q2)
<1>1. /\ d \subseteq R /\ \A i \in P : N(i).recalls \subseteq R
      /\ \A i \in P : d \cap N(i).alerts = {}
      /\ \A i, j \in P : i <= j => N(i).recalls \cap N(j).alerts = {}
  BY DEF RecallsLast
<1>2. \A i \in Q : i \in Nat
  BY PlacesFacts
<1>3. \A i \in Q : \/ M(i).alerts = {} /\ M(i).recalls = {}
                   \/ i + s \in P /\ M(i) = N(i + s)
  BY DEF EmptyBatch
<1> HIDE DEF N, M, P, Q
<1>4. (\A i \in Q : M(i).recalls \subseteq R) /\ (\A i \in Q : d \cap M(i).alerts = {})
  BY <1>1, <1>3
<1>5. ASSUME NEW i \in Q, NEW j \in Q, i <= j
      PROVE  M(i).recalls \cap M(j).alerts = {}
  <2>1. CASE M(i).recalls = {} \/ M(j).alerts = {}
    BY <2>1
  <2>2. CASE /\ i + s \in P /\ M(i) = N(i + s)
             /\ j + s \in P /\ M(j) = N(j + s)
    <3>1. i + s <= j + s
      BY <1>2, <1>5
    <3>2. QED
      BY <1>1, <2>2, <3>1
  <2>3. QED
    BY <1>3, <2>1, <2>2
<1>6. QED
  BY <1>1, <1>4, <1>5 DEF RecallsLast, M, Q

\* The UI thread begins with the oldest reply.
LEMMA LineMoves ==
  ASSUME NEW b \in BatchType, NEW q \in Seq(BatchType), NEW l \in BatchType,
         NEW d \in SUBSET Alerts, NEW R \in SUBSET Alerts, RecallsLast(b, q, l, d, R),
         q # <<>>
  PROVE  RecallsLast(Head(q), Tail(q), l, d, R)
<1> DEFINE t == Tail(q)
           h == Head(q)
<1>1. /\ h \in BatchType /\ t \in Seq(BatchType) /\ h = q[1]
      /\ Len(t) = Len(q) - 1 /\ \A i \in 1..(Len(q) - 1) : t[i] = q[i + 1]
      /\ DOMAIN q = 1..Len(q) /\ DOMAIN t = 1..(Len(q) - 1) /\ Len(q) \in Nat /\ Len(q) >= 1
  BY HeadTailProperties
<1> HIDE DEF t, h
<1>2. NthIs(b, q, l) /\ NthIs(h, t, l)
  BY <1>1, NthFacts
<1>3. ASSUME NEW i \in Places(t)
      PROVE  i + 1 \in Places(q) /\ Nth(h, t, l, i) = Nth(b, q, l, i + 1)
  <2>1. i \in Nat /\ i <= Len(q)
    BY <1>1, PlacesFacts
  <2>2. i + 1 \in Places(q)
    BY <1>1, <2>1 DEF Places
  <2>3. PICK j \in Nat : j = i + 1
    BY <2>1
  <2>4. Nth(h, t, l, i) = Nth(b, q, l, j)
    <3>1. CASE i = 0
      <4>1. j = 1 /\ j \in DOMAIN q
        BY <1>1, <2>3, <3>1
      <4>2. QED
        BY <1>1, <1>2, <3>1, <4>1 DEF NthIs
    <3>2. CASE i \in DOMAIN t
      <4>1. t[i] = q[j] /\ j \in DOMAIN q
        BY <1>1, <2>3, <3>2
      <4>2. QED
        BY <1>2, <3>2, <4>1 DEF NthIs
    <3>3. CASE i = Len(t) + 1
      <4>1. j = Len(q) + 1
        BY <1>1, <2>3, <3>3
      <4>2. QED
        BY <1>2, <3>3, <4>1 DEF NthIs
    <3>4. QED
      BY <1>1, <3>1, <3>2, <3>3, PlacesFacts
  <2>5. QED
    BY <2>2, <2>3, <2>4
<1>4. RecallsLast(h, t, l, d, R)
  BY <1>1, <1>3, LineKept
<1>5. QED
  BY <1>4 DEF h, t

\* The answer has arrived, and none is coming.
LEMMA LineGrows ==
  ASSUME NEW b \in BatchType, NEW q \in Seq(BatchType), NEW l \in BatchType,
         NEW d \in SUBSET Alerts, NEW R \in SUBSET Alerts, RecallsLast(b, q, l, d, R)
  PROVE  RecallsLast(b, Append(q, l), EmptyBatch, d, R)
<1> DEFINE t == Append(q, l)
<1>0. EmptyBatch \in BatchType
  BY DEF EmptyBatch, BatchType
<1>1. /\ t \in Seq(BatchType) /\ Len(t) = Len(q) + 1 /\ t[Len(q) + 1] = l
      /\ \A i \in 1..Len(q) : t[i] = q[i]
      /\ DOMAIN q = 1..Len(q) /\ DOMAIN t = 1..(Len(q) + 1) /\ Len(q) \in Nat
  BY AppendProperties
<1> HIDE DEF t
<1>2. NthIs(b, q, l) /\ NthIs(b, t, EmptyBatch)
  BY <1>0, <1>1, NthFacts
<1>3. ASSUME NEW i \in Places(t)
      PROVE  \/ Nth(b, t, EmptyBatch, i) = EmptyBatch
             \/ i + 0 \in Places(q) /\ Nth(b, t, EmptyBatch, i) = Nth(b, q, l, i + 0)
  <2>1. i \in Nat /\ i + 0 = i
    BY <1>1, PlacesFacts
  <2>2. CASE i = 0
    BY <1>2, <2>1, <2>2, PlacesFacts DEF NthIs
  <2>3. CASE i \in 1..Len(q)
    BY <1>1, <1>2, <2>1, <2>3, PlacesFacts DEF NthIs
  <2>4. CASE i = Len(q) + 1
    BY <1>1, <1>2, <2>1, <2>4, PlacesFacts DEF NthIs
  <2>5. CASE i = Len(t) + 1
    BY <1>2, <2>5 DEF NthIs
  <2>6. i = 0 \/ i \in DOMAIN t \/ i = Len(t) + 1
    BY <1>1, PlacesFacts
  <2>7. i = 0 \/ i \in 1..Len(q) \/ i = Len(q) + 1 \/ i = Len(t) + 1
    BY <1>1, <2>6
  <2>8. QED
    BY <2>2, <2>3, <2>4, <2>5, <2>7
<1>4. RecallsLast(b, t, EmptyBatch, d, R)
  BY <1>0, <1>1, <1>3, LineKept
<1>5. QED
  BY <1>4 DEF t

\* A recall has been handled.
LEMMA LineRecalled ==
  ASSUME NEW b \in BatchType, NEW q \in Seq(BatchType), NEW l \in BatchType,
         NEW d \in SUBSET Alerts, NEW R \in SUBSET Alerts, RecallsLast(b, q, l, d, R),
         NEW a \in b.recalls
  PROVE  RecallsLast([b EXCEPT !.recalls = @ \ {a}], q, l, d \cup {a}, R)
<1> DEFINE b2 == [b EXCEPT !.recalls = @ \ {a}]
<1>1. b2 \in BatchType /\ b2.alerts = b.alerts /\ b2.recalls \subseteq b.recalls
  BY DEF BatchType
<1> HIDE DEF b2
<1>2. RecallsLast(b2, q, l, d, R)
  BY <1>1, LineShrinks
<1>3. /\ \A i \in Places(q) : i \in Nat /\ 0 <= i
      /\ 0 \in Places(q) /\ Nth(b, q, l, 0) = b
  BY PlacesFacts, NthFacts DEF NthIs
<1>4. a \in R /\ \A i \in Places(q) : a \notin Nth(b, q, l, i).alerts
  BY <1>3 DEF RecallsLast
<1>5. \A i \in Places(q) : Nth(b2, q, l, i).alerts = Nth(b, q, l, i).alerts
  BY <1>1 DEF Nth
<1>6. QED
  BY <1>2, <1>4, <1>5 DEF RecallsLast, b2

\* No step but a crash takes back a recall.
LEMMA RecalledStays ==
  ASSUME TypeOK, TypeOK', [Next]_vars, crashes' = 0
  PROVE  crashes = 0 /\ mem.recalled \subseteq mem'.recalled /\ MemGrows
<1>1. crashes \in Nat
  BY FoghornAssumption DEF TypeOK
<1>2. crashes' = crashes \/ crashes' = crashes + 1
  <2>1. ASSUME NEW a \in Alerts, Post(a) \/ Recall(a) \/ Expire(a) \/ RecallAges(a)
        PROVE  UNCHANGED crashes
    BY <2>1 DEF Post, Recall, Expire, RecallAges, boundVars
  <2>2. ASSUME NEW a \in Alerts, NEW c \in Clients,
               SendAges(a, c) \/ Press(c, a) \/ LifeOver(c, a)
        PROVE  UNCHANGED crashes
    BY <2>2 DEF SendAges, Press, LifeOver, Close, UIFrame, boundVars
  <2>3. ASSUME NEW k \in Conns, ServerStep(k) \/ Vanish(k)
        PROVE  UNCHANGED crashes
    BY <2>3 DEF ServerStep, Arrive, Look, HoldOver, Vanish, boundVars
  <2>4. ASSUME NEW c \in Clients, PollerStep(c) \/ \E k \in Conns : Fault(c, k)
        PROVE  UNCHANGED crashes
    BY <2>4 DEF PollerStep, Take, NotYet, Submit, Receive, Fail, Fault, boundVars
  <2>5. ASSUME NEW c \in Clients, UIStep(c)
        PROVE  UNCHANGED crashes
    BY <2>5 DEF UIStep, TakeBatch, OpenNext, LoopEnds, HandleRecall, HandleAlert,
                UIFrame, boundVars
  <2>6. ASSUME NEW c \in Clients, Logon(c) \/ Logoff(c)
        PROVE  UNCHANGED crashes
    BY <2>6 DEF Logon, Logoff, boundVars
  <2>7. Flush \/ UNCHANGED vars => UNCHANGED crashes
    BY DEF Flush, vars, boundVars
  <2>8. Crash => crashes' = crashes + 1
    BY DEF Crash
  <2>9. QED
    BY <2>1, <2>2, <2>3, <2>4, <2>5, <2>6, <2>7, <2>8 DEF Next
<1>3. crashes = 0 /\ ~(crashes' = crashes + 1)
  BY <1>1, <1>2
<1>4. MemGrows
  BY <1>3, MemStep
<1>5. QED
  BY <1>3, <1>4 DEF MemGrows

\* A client keeps the connection it waits on, lets go of it, or takes a new
\* one, that has nothing for it yet.
LEMMA CurrentStep ==
  ASSUME TypeOK, [Next]_vars, NEW c \in Clients
  PROVE  \/ current'[c] \in {current[c], None}
         \/ /\ current'[c] \in Conns /\ current'[c] # None
            /\ conn'[current'[c]].client = c
            /\ conn'[current'[c]].alerts = {} /\ conn'[current'[c]].recalls = {}
<1>0. /\ current \in [Clients -> Conns \cup {None}]
      /\ conn \in [Conns -> ConnType] /\ None \notin Conns
  BY FoghornAssumption DEF TypeOK
<1>1. ASSUME NEW a \in Alerts, Post(a) \/ Recall(a) \/ Expire(a) \/ RecallAges(a)
      PROVE  UNCHANGED current
  BY <1>1 DEF Post, Recall, Expire, RecallAges, pollVars
<1>2. ASSUME NEW a \in Alerts, NEW x \in Clients,
             SendAges(a, x) \/ Press(x, a) \/ LifeOver(x, a)
      PROVE  UNCHANGED current
  BY <1>2 DEF SendAges, Press, LifeOver, Close, UIFrame, pollVars
<1>3. ASSUME NEW k \in Conns, ServerStep(k) \/ Vanish(k)
      PROVE  UNCHANGED current
  BY <1>3 DEF ServerStep, Arrive, Look, HoldOver, Vanish, pollVars
<1>4. ASSUME NEW x \in Clients, Take(x) \/ UIStep(x) \/ Logon(x)
      PROVE  UNCHANGED current
  BY <1>4 DEF Take, UIStep, TakeBatch, OpenNext, LoopEnds, HandleRecall, HandleAlert,
              UIFrame, Logon, pollVars
<1>5. ASSUME NEW x \in Clients, NEW k \in Conns,
             NotYet(x) \/ Receive(x, k) \/ Fail(x, k) \/ Fault(x, k) \/ Logoff(x)
      PROVE  current'[c] \in {current[c], None}
  <2>1. current' = [current EXCEPT ![x] = None]
    BY <1>5 DEF NotYet, Receive, Fail, Fault, Logoff, PutBack
  <2>2. QED
    BY <1>0, <2>1
<1>6. ASSUME NEW x \in Clients, NotYet(x) \/ Logoff(x)
      PROVE  current'[c] \in {current[c], None}
  <2>1. current' = [current EXCEPT ![x] = None]
    BY <1>6 DEF NotYet, Logoff, PutBack
  <2>2. QED
    BY <1>0, <2>1
<1>7. ASSUME NEW x \in Clients, NEW k \in Conns, Submit(x, k)
      PROVE  \/ current'[c] \in {current[c], None}
             \/ /\ current'[c] \in Conns /\ current'[c] # None
                /\ conn'[current'[c]].client = c
                /\ conn'[current'[c]].alerts = {} /\ conn'[current'[c]].recalls = {}
  <2>1. CASE x = c
    <3>1. current'[c] = k
      BY <1>0, <1>7, <2>1 DEF Submit
    <3>2. conn'[k] = [stage |-> "request", client |-> c, sid |-> session[c],
                      events |-> sending[c], alerts |-> {}, recalls |-> {}]
      BY <1>0, <1>7, <2>1 DEF Submit
    <3>3. QED
      BY <1>0, <3>1, <3>2
  <2>2. CASE x # c
    BY <1>0, <1>7, <2>2 DEF Submit
  <2>3. QED
    BY <2>1, <2>2
<1>8. Flush \/ Crash \/ UNCHANGED vars => UNCHANGED current
  BY DEF Flush, Crash, vars, pollVars
<1>9. QED
  BY <1>1, <1>2, <1>3, <1>4, <1>5, <1>6, <1>7, <1>8 DEF Next, PollerStep

\* What is coming to a client only gets less, or is the answer of pendingFor.
LEMMA ComingStep ==
  ASSUME TypeOK, [Next]_vars, NEW c \in Clients
  PROVE  \/ /\ Coming(c)'.alerts \subseteq Coming(c).alerts
            /\ Coming(c)'.recalls \subseteq Coming(c).recalls
         \/ /\ Coming(c)'.alerts = ToSend(conn[current[c]].client)
            /\ Coming(c)'.recalls = ToRecall(conn[current[c]].client)
            /\ current'[c] = current[c] /\ current[c] \in Conns
<1>0. current[c] \in Conns \cup {None}
  BY DEF TypeOK
<1>1. CASE current'[c] = None
  BY <1>1 DEF Coming, EmptyBatch
<1>2. CASE current'[c] = current[c] /\ current[c] # None
  <2>1. ConnBecomes(conn[current[c]], conn'[current[c]])
    BY <1>0, <1>2, ConnStep
  <2>2. /\ Coming(c).alerts = conn[current[c]].alerts
        /\ Coming(c).recalls = conn[current[c]].recalls
        /\ Coming(c)'.alerts = conn'[current[c]].alerts
        /\ Coming(c)'.recalls = conn'[current[c]].recalls
    BY <1>2 DEF Coming, Brings
  <2>3. QED
    BY <1>0, <1>2, <2>1, <2>2 DEF ConnBecomes
<1>3. CASE /\ current'[c] \in Conns /\ current'[c] # None
           /\ conn'[current'[c]].alerts = {} /\ conn'[current'[c]].recalls = {}
  <2>1. Coming(c)'.alerts = {} /\ Coming(c)'.recalls = {}
    BY <1>3 DEF Coming, Brings
  <2>2. QED
    BY <2>1
<1>4. QED
  BY <1>1, <1>2, <1>3, CurrentStep

\* What is coming is a reply.
LEMMA ComingTypes ==
  ASSUME TypeOK, NEW c \in Clients
  PROVE  Coming(c) \in BatchType
<1>1. conn \in [Conns -> ConnType] /\ current[c] \in Conns \cup {None}
  BY DEF TypeOK
<1>2. EmptyBatch \in BatchType
  BY DEF EmptyBatch, BatchType
<1>3. ASSUME NEW k \in Conns
      PROVE  Brings(k) \in BatchType
  BY <1>1 DEF Brings, BatchType, ConnType
<1>4. QED
  BY <1>1, <1>2, <1>3 DEF Coming

\* The replies stay in order through every step of server, connections and
\* clients.
LEMMA LinesStep ==
  ASSUME TypeOK, TypeOK', [Next]_vars, LinesInOrder
  PROVE  LinesInOrder'
<1> SUFFICES ASSUME crashes' = 0, NEW c \in Clients
             PROVE  RecallsLast(batch'[c], inbox'[c], Coming(c)', downed'[c], mem'.recalled)
  BY DEF LinesInOrder
<1> DEFINE l == Coming(c)
           R == mem.recalled
<1>0. /\ batch \in [Clients -> BatchType] /\ batch' \in [Clients -> BatchType]
      /\ inbox \in [Clients -> Seq(BatchType)]
      /\ downed \in [Clients -> SUBSET Alerts]
      /\ mem.recalled \in SUBSET Alerts /\ mem'.recalled \in SUBSET Alerts
      /\ l \in BatchType /\ Coming(c)' \in BatchType
      /\ conn \in [Conns -> ConnType] /\ current[c] \in Conns \cup {None}
  <2>1. l \in BatchType
    BY ComingTypes
  <2>2. Coming(c)' \in BatchType
    <3>1. conn' \in [Conns -> ConnType] /\ current'[c] \in Conns \cup {None}
      BY DEF TypeOK
    <3>2. EmptyBatch \in BatchType
      BY DEF EmptyBatch, BatchType
    <3>3. \A k \in Conns :
            [alerts |-> conn'[k].alerts, recalls |-> conn'[k].recalls] \in BatchType
      BY <3>1 DEF BatchType, ConnType
    <3>4. QED
      BY <3>1, <3>2, <3>3 DEF Coming, Brings
  <2>3. QED
    BY <2>1, <2>2 DEF TypeOK, MemType
<1>1. /\ crashes = 0 /\ R \subseteq mem'.recalled
      /\ RecallsLast(batch[c], inbox[c], l, downed[c], R)
  BY RecalledStays DEF LinesInOrder
<1>2. \/ Coming(c)'.alerts \subseteq l.alerts /\ Coming(c)'.recalls \subseteq l.recalls
      \/ /\ Coming(c)'.alerts \cap R = {} /\ Coming(c)'.recalls \subseteq R
         /\ Coming(c)'.alerts \cap Coming(c)'.recalls = {}
  BY ComingStep DEF ToSend, ToRecall
<1>3. ASSUME UNCHANGED <<inbox, downed>>, batch'[c].alerts \subseteq batch[c].alerts,
             batch'[c].recalls \subseteq batch[c].recalls
      PROVE  RecallsLast(batch'[c], inbox'[c], Coming(c)', downed'[c], mem'.recalled)
  <2> HIDE DEF l, R
  <2>1. PICK n \in BatchType : n = Coming(c)'
    BY <1>0
  <2>2. RecallsLast(batch'[c], inbox[c], n, downed[c], mem'.recalled)
    BY <1>0, <1>1, <1>2, <1>3, <2>1, LineShrinks DEF R
  <2>3. QED
    BY <1>3, <2>1, <2>2
<1>4. CASE UNCHANGED <<batch, inbox, downed>>
  BY <1>3, <1>4
<1>5. ASSUME NEW x \in Clients, TakeBatch(x)
      PROVE  RecallsLast(batch'[c], inbox'[c], Coming(c)', downed'[c], mem'.recalled)
  <2>1. UNCHANGED <<mem, conn, current, downed>>
    BY <1>5 DEF TakeBatch, UIFrame, serverVars
  <2>2. Coming(c)' = l
    BY <2>1 DEF Coming, Brings
  <2>3. CASE x = c
    <3>1. batch'[c] = Head(inbox[c]) /\ inbox'[c] = Tail(inbox[c]) /\ inbox[c] # <<>>
      BY <1>0, <1>5, <2>3 DEF TakeBatch
    <3> HIDE DEF l
    <3>2. RecallsLast(Head(inbox[c]), Tail(inbox[c]), l, downed[c], R)
      BY <1>0, <1>1, <3>1, LineMoves
    <3>3. QED
      BY <2>1, <2>2, <3>1, <3>2
  <2>4. CASE x # c
    <3>1. batch'[c] = batch[c] /\ inbox'[c] = inbox[c]
      BY <1>0, <1>5, <2>4 DEF TakeBatch
    <3>2. QED
      BY <1>1, <2>1, <2>2, <3>1
  <2>5. QED
    BY <2>3, <2>4
<1>6. ASSUME NEW x \in Clients, NEW a \in Alerts, HandleRecall(x, a)
      PROVE  RecallsLast(batch'[c], inbox'[c], Coming(c)', downed'[c], mem'.recalled)
  <2>1. UNCHANGED <<mem, conn, current, inbox>>
    BY <1>6 DEF HandleRecall, UIFrame, serverVars
  <2>2. Coming(c)' = l
    BY <2>1 DEF Coming, Brings
  <2>3. CASE x = c
    <3>1. /\ batch'[c] = [batch[c] EXCEPT !.recalls = @ \ {a}]
          /\ downed'[c] = downed[c] \cup {a} /\ a \in batch[c].recalls
      BY <1>0, <1>6, <2>3 DEF HandleRecall, BatchType
    <3> HIDE DEF l
    <3>2. RecallsLast([batch[c] EXCEPT !.recalls = @ \ {a}], inbox[c], l,
                      downed[c] \cup {a}, R)
      BY <1>0, <1>1, <3>1, LineRecalled
    <3>3. QED
      BY <2>1, <2>2, <3>1, <3>2
  <2>4. CASE x # c
    <3>1. batch'[c] = batch[c] /\ downed'[c] = downed[c]
      BY <1>0, <1>6, <2>4 DEF HandleRecall
    <3>2. QED
      BY <1>1, <2>1, <2>2, <3>1
  <2>5. QED
    BY <2>3, <2>4
<1>7. ASSUME NEW x \in Clients, NEW a \in Alerts, HandleAlert(x, a)
      PROVE  RecallsLast(batch'[c], inbox'[c], Coming(c)', downed'[c], mem'.recalled)
  <2>1. UNCHANGED <<inbox, downed>>
    BY <1>7 DEF HandleAlert
  <2>2. /\ batch'[c].alerts \subseteq batch[c].alerts
        /\ batch'[c].recalls \subseteq batch[c].recalls
    BY <1>0, <1>7 DEF HandleAlert, BatchType
  <2>3. QED
    BY <1>3, <2>1, <2>2
<1>8. ASSUME NEW x \in Clients, NEW k \in Conns, Receive(x, k)
      PROVE  RecallsLast(batch'[c], inbox'[c], Coming(c)', downed'[c], mem'.recalled)
  <2>1. UNCHANGED <<mem, batch, downed>>
    BY <1>8 DEF Receive, serverVars
  <2>2. CASE inbox'[c] = inbox[c]
    <3>1. PICK n \in BatchType : n = Coming(c)'
      BY <1>0
    <3> HIDE DEF l, R
    <3>2. RecallsLast(batch[c], inbox[c], n, downed[c], mem'.recalled)
      BY <1>0, <1>1, <1>2, <3>1, LineShrinks DEF R
    <3>3. QED
      BY <2>1, <2>2, <3>1, <3>2
  <2>3. CASE inbox'[c] # inbox[c]
    <3>1. x = c
      BY <1>0, <1>8, <2>3 DEF Receive
    <3>1a. inbox' = [inbox EXCEPT ![c] = Append(@, Brings(k))]
      BY <1>8, <2>3, <3>1 DEF Receive, Brings
    <3>1b. current[c] = k /\ current' = [current EXCEPT ![c] = None]
      BY <1>8, <3>1 DEF Receive
    <3>1c. current[c] = k /\ current'[c] = None
      BY <3>1b DEF TypeOK
    <3>1d. inbox'[c] = Append(inbox[c], Brings(k))
      BY <1>0, <3>1a
    <3>2. l = Brings(k) /\ Coming(c)' = EmptyBatch
      BY <3>1c, FoghornAssumption DEF Coming
    <3> HIDE DEF l
    <3>3. RecallsLast(batch[c], Append(inbox[c], l), EmptyBatch, downed[c], R)
      BY <1>0, <1>1, LineGrows
    <3>4. QED
      BY <2>1, <3>1d, <3>2, <3>3
  <2>4. QED
    BY <2>2, <2>3
<1>9. ASSUME NEW x \in Clients, Logoff(x)
      PROVE  RecallsLast(batch'[c], inbox'[c], Coming(c)', downed'[c], mem'.recalled)
  <2>1. CASE x = c
    <3>1. /\ batch'[c] = EmptyBatch /\ inbox'[c] = <<>> /\ downed'[c] = {}
          /\ current'[c] = None
      BY <1>0, <1>9, <2>1 DEF Logoff, TypeOK
    <3>2. Coming(c)' = EmptyBatch
      BY <3>1 DEF Coming
    <3>3. \A i : /\ Nth(EmptyBatch, <<>>, EmptyBatch, i).recalls = {}
                 /\ Nth(EmptyBatch, <<>>, EmptyBatch, i).alerts = {}
      BY DEF Nth, EmptyBatch
    <3>4. QED
      BY <3>1, <3>2, <3>3 DEF RecallsLast
  <2>2. CASE x # c
    <3>1. batch'[c] = batch[c] /\ inbox'[c] = inbox[c] /\ downed'[c] = downed[c]
      BY <1>0, <1>9, <2>2 DEF Logoff
    <3>2. PICK n \in BatchType : n = Coming(c)'
      BY <1>0
    <3> HIDE DEF l, R
    <3>3. RecallsLast(batch[c], inbox[c], n, downed[c], mem'.recalled)
      BY <1>0, <1>1, <1>2, <3>2, LineShrinks DEF R
    <3>4. QED
      BY <3>1, <3>2, <3>3
  <2>3. QED
    BY <2>1, <2>2
<1>10. ASSUME NEW a \in Alerts,
              \/ Post(a) \/ Recall(a) \/ Expire(a) \/ RecallAges(a)
              \/ \E x \in Clients : SendAges(a, x) \/ Press(x, a) \/ LifeOver(x, a)
       PROVE  UNCHANGED <<batch, inbox, downed>>
  BY <1>10 DEF Post, Recall, Expire, RecallAges, SendAges, Press, LifeOver, Close,
               screenVars
<1>11. ASSUME NEW k \in Conns, ServerStep(k) \/ Vanish(k)
       PROVE  UNCHANGED <<batch, inbox, downed>>
  BY <1>11 DEF ServerStep, Arrive, Look, HoldOver, Vanish, screenVars
<1>12. ASSUME NEW x \in Clients,
              \/ Take(x) \/ NotYet(x) \/ OpenNext(x) \/ LoopEnds(x) \/ Logon(x)
              \/ \E k \in Conns : Submit(x, k) \/ Fail(x, k) \/ Fault(x, k)
       PROVE  UNCHANGED <<batch, inbox, downed>>
  BY <1>12 DEF Take, NotYet, OpenNext, LoopEnds, Logon, Submit, Fail, Fault, screenVars
<1>13. Flush \/ Crash \/ UNCHANGED vars => UNCHANGED <<batch, inbox, downed>>
  BY DEF Flush, Crash, vars, screenVars
<1>14. QED
  BY <1>4, <1>5, <1>6, <1>7, <1>8, <1>9, <1>10, <1>11, <1>12, <1>13
     DEF Next, PollerStep, UIStep

\* What a recall has taken down stays off the screen: an alert that comes
\* after it would be out of order.
LEMMA TidyStep ==
  ASSUME TypeOK, TypeOK', [Next]_vars, LinesInOrder, ScreensInOrder
  PROVE  ScreensInOrder'
<1> SUFFICES ASSUME NEW c \in Clients
             PROVE  /\ Tidy(ui'[c])
                    /\ crashes' = 0 => downed'[c] \cap Standing(ui'[c]) = {}
  BY DEF ScreensInOrder
<1>0. /\ ui \in [Clients -> ScreenType] /\ downed \in [Clients -> SUBSET Alerts]
      /\ Tidy(ui[c])
      /\ crashes = 0 => downed[c] \cap Standing(ui[c]) = {}
      /\ crashes' = 0 => crashes = 0
  BY RecalledStays DEF TypeOK, ScreensInOrder
<1>1. ASSUME ui'[c] = ui[c], downed'[c] = downed[c]
      PROVE  /\ Tidy(ui'[c])
             /\ crashes' = 0 => downed'[c] \cap Standing(ui'[c]) = {}
  BY <1>0, <1>1
<1>2. ASSUME NEW x \in Clients, NEW u, ui' = [ui EXCEPT ![x] = u], UNCHANGED downed,
             x = c => Tidy(u) /\ Standing(u) \subseteq Standing(ui[x])
      PROVE  /\ Tidy(ui'[c])
             /\ crashes' = 0 => downed'[c] \cap Standing(ui'[c]) = {}
  <2>1. CASE x = c
    BY <1>0, <1>2, <2>1
  <2>2. CASE x # c
    BY <1>0, <1>1, <1>2, <2>2
  <2>3. QED
    BY <2>1, <2>2
<1>3. ASSUME NEW x \in Clients, OpenNext(x)
      PROVE  /\ Tidy(ui'[c])
             /\ crashes' = 0 => downed'[c] \cap Standing(ui'[c]) = {}
  <2>1. PICK i \in DOMAIN ui[x].waiting :
          ui' = [ui EXCEPT ![x] = AfterOpenNext(ui[x], i)] /\ UNCHANGED downed
    BY <1>3 DEF OpenNext
  <2>2. PICK a \in Alerts : a = ui[x].waiting[i]
    BY <1>0 DEF ScreenType
  <2>3. x = c => /\ Tidy(AfterOpenNext(ui[x], i))
                 /\ Standing(AfterOpenNext(ui[x], i)) \subseteq Standing(ui[x])
    BY <1>0, <2>2, ScreensStayTidy
  <2>4. QED
    BY <1>2, <2>1, <2>3
<1>4. ASSUME NEW x \in Clients, LoopEnds(x)
      PROVE  /\ Tidy(ui'[c])
             /\ crashes' = 0 => downed'[c] \cap Standing(ui'[c]) = {}
  <2>1. ui' = [ui EXCEPT ![x] = AfterLoop(ui[x])] /\ UNCHANGED downed
    BY <1>4 DEF LoopEnds
  <2>2. x = c => Tidy(AfterLoop(ui[x])) /\ Standing(AfterLoop(ui[x])) \subseteq Standing(ui[x])
    <3>1. /\ AfterLoop(ui[x]).waiting = ui[x].waiting /\ AfterLoop(ui[x]).open = ui[x].open
          /\ AfterLoop(ui[x]).seen = ui[x].seen
      BY <1>0 DEF AfterLoop, ScreenType
    <3>2. QED
      BY <1>0, <3>1 DEF Tidy, Standing
  <2>3. QED
    BY <1>2, <2>1, <2>2
<1>5. ASSUME NEW x \in Clients, NEW a \in Alerts, Press(x, a) \/ LifeOver(x, a)
      PROVE  /\ Tidy(ui'[c])
             /\ crashes' = 0 => downed'[c] \cap Standing(ui'[c]) = {}
  <2>1. ui' = [ui EXCEPT ![x] = AfterFinish(ui[x], a)] /\ UNCHANGED downed
    BY <1>5 DEF Press, LifeOver, Close
  <2>2. x = c => Tidy(AfterFinish(ui[x], a)) /\ Standing(AfterFinish(ui[x], a)) \subseteq Standing(ui[x])
    BY <1>0, ScreensStayTidy
  <2>3. QED
    BY <1>2, <2>1, <2>2
<1>6. ASSUME NEW x \in Clients, NEW a \in Alerts, HandleRecall(x, a)
      PROVE  /\ Tidy(ui'[c])
             /\ crashes' = 0 => downed'[c] \cap Standing(ui'[c]) = {}
  <2>1. CASE x = c
    <3>1. ui'[c] = AfterRecall(ui[c], a) /\ downed'[c] = downed[c] \cup {a}
      BY <1>0, <1>6, <2>1 DEF HandleRecall
    <3>2. Tidy(AfterRecall(ui[c], a)) /\ Standing(AfterRecall(ui[c], a)) \subseteq Standing(ui[c]) \ {a}
      BY <1>0, ScreensStayTidy
    <3>3. QED
      BY <1>0, <3>1, <3>2
  <2>2. CASE x # c
    BY <1>0, <1>1, <1>6, <2>2 DEF HandleRecall
  <2>3. QED
    BY <2>1, <2>2
<1>7. ASSUME NEW x \in Clients, NEW a \in Alerts, HandleAlert(x, a)
      PROVE  /\ Tidy(ui'[c])
             /\ crashes' = 0 => downed'[c] \cap Standing(ui'[c]) = {}
  <2>1. CASE x = c
    <3>1. ui'[c] = AfterShow(ui[c], a) /\ downed'[c] = downed[c] /\ a \in batch[c].alerts
      BY <1>0, <1>7, <2>1 DEF HandleAlert
    <3>2. Tidy(AfterShow(ui[c], a)) /\ Standing(AfterShow(ui[c], a)) \subseteq Standing(ui[c]) \cup {a}
      BY <1>0, ScreensStayTidy
    <3>3. crashes = 0 => a \notin downed[c]
      <4>1. batch[c] \in BatchType /\ inbox[c] \in Seq(BatchType) /\ Coming(c) \in BatchType
        BY ComingTypes DEF TypeOK
      <4>2. 0 \in Places(inbox[c]) /\ Nth(batch[c], inbox[c], Coming(c), 0) = batch[c]
        BY <4>1, PlacesFacts, NthFacts DEF NthIs
      <4>3. QED
        BY <3>1, <4>2 DEF LinesInOrder, RecallsLast
    <3>4. QED
      BY <1>0, <3>1, <3>2, <3>3
  <2>2. CASE x # c
    BY <1>0, <1>1, <1>7, <2>2 DEF HandleAlert
  <2>3. QED
    BY <2>1, <2>2
<1>8. ASSUME NEW x \in Clients, Logoff(x)
      PROVE  /\ Tidy(ui'[c])
             /\ crashes' = 0 => downed'[c] \cap Standing(ui'[c]) = {}
  <2>1. CASE x = c
    <3>1. ui'[c] = EmptyScreen /\ downed'[c] = {}
      BY <1>0, <1>8, <2>1 DEF Logoff
    <3>2. Tidy(EmptyScreen)
      BY DEF Tidy, Standing, NoneTwice, Entries, EmptyScreen
    <3>3. QED
      BY <3>1, <3>2
  <2>2. CASE x # c
    BY <1>0, <1>1, <1>8, <2>2 DEF Logoff
  <2>3. QED
    BY <2>1, <2>2
<1>9. ASSUME NEW a \in Alerts,
              \/ Post(a) \/ Recall(a) \/ Expire(a) \/ RecallAges(a)
              \/ \E x \in Clients : SendAges(a, x)
      PROVE  UNCHANGED <<ui, downed>>
  BY <1>9 DEF Post, Recall, Expire, RecallAges, SendAges, screenVars
<1>10. ASSUME NEW k \in Conns, ServerStep(k) \/ Vanish(k)
       PROVE  UNCHANGED <<ui, downed>>
  BY <1>10 DEF ServerStep, Arrive, Look, HoldOver, Vanish, screenVars
<1>11. ASSUME NEW x \in Clients,
              PollerStep(x) \/ TakeBatch(x) \/ Logon(x) \/ \E k \in Conns : Fault(x, k)
       PROVE  UNCHANGED <<ui, downed>>
  BY <1>11 DEF PollerStep, Take, NotYet, Submit, Receive, Fail, Fault, TakeBatch,
               Logon, screenVars
<1>12. Flush \/ Crash \/ UNCHANGED vars => UNCHANGED <<ui, downed>>
  BY DEF Flush, Crash, vars, screenVars
<1>13. QED
  BY <1>1, <1>3, <1>4, <1>5, <1>6, <1>7, <1>8, <1>9, <1>10, <1>11, <1>12
     DEF Next, UIStep

LEMMA InitInOrder == Init => LinesInOrder /\ ScreensInOrder
<1> SUFFICES ASSUME Init PROVE LinesInOrder /\ ScreensInOrder
  OBVIOUS
<1>1. ASSUME NEW c \in Clients
      PROVE  /\ RecallsLast(batch[c], inbox[c], Coming(c), downed[c], mem.recalled)
             /\ Tidy(ui[c]) /\ downed[c] = {}
  <2>1. /\ batch[c] = EmptyBatch /\ inbox[c] = <<>> /\ Coming(c) = EmptyBatch
        /\ downed[c] = {} /\ ui[c] = EmptyScreen
    BY DEF Init, Coming
  <2>2. \A i : /\ Nth(EmptyBatch, <<>>, EmptyBatch, i).recalls = {}
               /\ Nth(EmptyBatch, <<>>, EmptyBatch, i).alerts = {}
    BY DEF Nth, EmptyBatch
  <2>3. Tidy(EmptyScreen)
    BY DEF Tidy, Standing, NoneTwice, Entries, EmptyScreen
  <2>4. QED
    BY <2>1, <2>2, <2>3 DEF RecallsLast
<1>2. QED
  BY <1>1 DEF LinesInOrder, ScreensInOrder

\* While the server keeps its memory, an alert that a recall has taken off a
\* screen stays off it for the rest of the session: the replies that are on
\* their way are in order, and pendingFor sends nothing that is recalled.
THEOREM RecallsAreFinal == Spec => []RecallFinal
<1> DEFINE I == TypeOK /\ LinesInOrder /\ ScreensInOrder
<1>1. Init => I
  BY InitTypes, InitInOrder
<1>2. I /\ [Next]_vars => I'
  BY StepTypes, LinesStep, TidyStep
<1>3. I => RecallFinal
  BY DEF ScreensInOrder, RecallFinal, Standing, Entries
<1>4. QED
  BY <1>1, <1>2, <1>3, PTL DEF Spec

-----------------------------------------------------------------------------
(* The request a poller waits on *)

\* It is its own and still there; at rest nothing is being sent.
Linked ==
  \A c \in Clients :
    /\ poller[c] = "rest" => sending[c] = <<>>
    /\ current[c] # None =>
         /\ poller[c] = "sending"
         /\ conn[current[c]].client = c /\ conn[current[c]].stage # "free"

\* What a step can make of the request of client c: it is over, is still the
\* same, or is new.
Over(c) == current'[c] = None /\ (poller'[c] = "rest" => sending'[c] = <<>>)
Same(c) == /\ current'[c] = current[c] /\ current[c] # None
           /\ poller'[c] = poller[c] /\ sending'[c] = sending[c]
Fresh(c) ==
  /\ current'[c] \in Conns /\ poller'[c] = "sending" /\ sending'[c] = sending[c]
  /\ conn'[current'[c]].client = c /\ conn'[current'[c]].stage = "request"
  /\ conn'[current'[c]].events = sending[c]

\* Every step does one of these with it.
LEMMA RequestStep ==
  ASSUME TypeOK, Linked, [Next]_vars, NEW c \in Clients
  PROVE  Over(c) \/ Same(c) \/ Fresh(c)
<1>0. /\ current \in [Clients -> Conns \cup {None}] /\ None \notin Conns
      /\ poller \in [Clients -> {"rest", "built", "sending"}]
      /\ sending \in [Clients -> Seq(Reports)] /\ conn \in [Conns -> ConnType]
      /\ poller[c] = "rest" => sending[c] = <<>>
      /\ current[c] # None => poller[c] = "sending"
  BY FoghornAssumption DEF TypeOK, Linked
<1>1. ASSUME current'[c] = current[c], poller'[c] = poller[c], sending'[c] = sending[c]
      PROVE  Over(c) \/ Same(c)
  BY <1>0, <1>1 DEF Over, Same
<1>2. ASSUME NEW a \in Alerts,
             \/ Post(a) \/ Recall(a) \/ Expire(a) \/ RecallAges(a)
             \/ \E x \in Clients : SendAges(a, x) \/ Press(x, a) \/ LifeOver(x, a)
      PROVE  UNCHANGED <<current, poller, sending>>
  BY <1>2 DEF Post, Recall, Expire, RecallAges, SendAges, Press, LifeOver, Close,
              UIFrame, pollVars
<1>3. ASSUME NEW k \in Conns, ServerStep(k) \/ Vanish(k)
      PROVE  UNCHANGED <<current, poller, sending>>
  BY <1>3 DEF ServerStep, Arrive, Look, HoldOver, Vanish, pollVars
<1>4. ASSUME NEW x \in Clients, UIStep(x) \/ Logon(x)
      PROVE  UNCHANGED <<current, poller, sending>>
  BY <1>4 DEF UIStep, TakeBatch, OpenNext, LoopEnds, HandleRecall, HandleAlert,
              UIFrame, Logon, pollVars
<1>5. Flush \/ Crash \/ UNCHANGED vars => UNCHANGED <<current, poller, sending>>
  BY DEF Flush, Crash, vars, pollVars
<1>6. ASSUME NEW x \in Clients, Take(x)
      PROVE  Over(c) \/ Same(c)
  <2>1. CASE x = c
    BY <1>0, <1>6, <2>1 DEF Take, Over
  <2>2. CASE x # c
    BY <1>0, <1>1, <1>6, <2>2 DEF Take
  <2>3. QED
    BY <2>1, <2>2
<1>7. ASSUME NEW x \in Clients, current' = [current EXCEPT ![x] = None],
             poller' = [poller EXCEPT ![x] = "rest"],
             sending' = [sending EXCEPT ![x] = <<>>]
      PROVE  Over(c) \/ Same(c)
  <2>1. CASE x = c
    BY <1>0, <1>7, <2>1 DEF Over
  <2>2. CASE x # c
    BY <1>0, <1>1, <1>7, <2>2
  <2>3. QED
    BY <2>1, <2>2
<1>8. ASSUME NEW x \in Clients,
             \/ NotYet(x) \/ Logoff(x)
             \/ \E k \in Conns : Receive(x, k) \/ Fail(x, k) \/ Fault(x, k)
      PROVE  Over(c) \/ Same(c)
  BY <1>7, <1>8 DEF NotYet, Logoff, Receive, Fail, Fault, PutBack
<1>9. ASSUME NEW x \in Clients, NEW k \in Conns, Submit(x, k)
      PROVE  Over(c) \/ Same(c) \/ Fresh(c)
  <2>1. CASE x = c
    <3>1. /\ current'[c] = k /\ poller'[c] = "sending" /\ sending'[c] = sending[c]
          /\ conn'[k] = [stage |-> "request", client |-> c, sid |-> session[c],
                         events |-> sending[c], alerts |-> {}, recalls |-> {}]
      BY <1>0, <1>9, <2>1 DEF Submit
    <3>2. QED
      BY <3>1 DEF Fresh
  <2>2. CASE x # c
    BY <1>0, <1>1, <1>9, <2>2 DEF Submit
  <2>3. QED
    BY <2>1, <2>2
<1>10. QED
  BY <1>1, <1>2, <1>3, <1>4, <1>5, <1>6, <1>8, <1>9 DEF Next, PollerStep

\* What a step can make of a request somebody waits for.
Served(k) ==
  /\ conn'[k].client = conn[k].client /\ conn'[k].stage # "free"
  /\ \/ conn'[k].stage = conn[k].stage /\ conn'[k].events = conn[k].events
     \/ conn'[k].stage = "dead"
     \/ Arrive(k) /\ conn'[k].stage = "look"
     \/ conn[k].stage \in {"look", "asleep"} /\ conn'[k].stage \in {"look", "asleep", "reply"}

\* Every step serves it, or leaves it.
LEMMA ServedStep ==
  ASSUME TypeOK, Linked, [Next]_vars, NEW c \in Clients, NEW k \in Conns,
         current[c] = k, current'[c] = k
  PROVE  Served(k)
<1>0. /\ current \in [Clients -> Conns \cup {None}] /\ None \notin Conns
      /\ conn \in [Conns -> ConnType] /\ ~Abandoned(k)
      /\ conn[k].client = c /\ conn[k].stage # "free"
  BY FoghornAssumption DEF TypeOK, Linked, Abandoned
<1>1. ASSUME conn'[k] = conn[k]
      PROVE  Served(k)
  BY <1>0, <1>1 DEF Served
<1>2. ASSUME conn' = AllAwake
      PROVE  Served(k)
  BY <1>0, <1>2 DEF Served, AllAwake, ConnType
<1>3. ASSUME NEW a \in Alerts, Post(a) \/ Recall(a) \/ Expire(a) \/ RecallAges(a)
      PROVE  conn' = AllAwake \/ conn' = conn
  BY <1>3 DEF Post, Recall, Expire, RecallAges
<1>4. ASSUME NEW x \in Clients,
             \/ Take(x) \/ NotYet(x) \/ UIStep(x) \/ Logon(x)
             \/ \E a \in Alerts : SendAges(a, x) \/ Press(x, a) \/ LifeOver(x, a)
      PROVE  conn' = conn
  BY <1>4 DEF Take, NotYet, UIStep, TakeBatch, OpenNext, LoopEnds, HandleRecall,
              HandleAlert, UIFrame, Logon, SendAges, Press, LifeOver, Close
<1>5. Flush \/ UNCHANGED vars => conn' = conn
  BY DEF Flush, vars
<1>6. CASE Crash
  BY <1>0, <1>6 DEF Crash, Served, ConnType
<1>7. ASSUME NEW h \in Conns, Arrive(h)
      PROVE  Served(k)
  <2>1. CASE h = k
    BY <1>0, <1>7, <2>1 DEF Arrive, Served, ConnType
  <2>2. CASE h # k
    BY <1>0, <1>1, <1>7, <2>2 DEF Arrive
  <2>3. QED
    BY <2>1, <2>2
<1>8. ASSUME NEW h \in Conns, NEW s, NEW r, Answer(h, s, r),
             conn[h].stage \in {"look", "asleep"}
      PROVE  Served(k)
  <2>1. CASE h = k
    BY <1>0, <1>8, <2>1 DEF Answer, Served, ConnType
  <2>2. CASE h # k
    BY <1>0, <1>1, <1>8, <2>2 DEF Answer
  <2>3. QED
    BY <2>1, <2>2
<1>9. ASSUME NEW h \in Conns, Look(h)
      PROVE  Served(k)
  <2>1. CASE conn' = [conn EXCEPT ![h].stage = "asleep"]
    BY <1>0, <1>9, <2>1 DEF Look, Served, ConnType
  <2>2. CASE \E s, r : Answer(h, s, r)
    BY <1>8, <1>9, <2>2 DEF Look
  <2>3. QED
    BY <1>9, <2>1, <2>2 DEF Look
<1>10. ASSUME NEW h \in Conns, HoldOver(h)
       PROVE  Served(k)
  BY <1>8, <1>10 DEF HoldOver
<1>11. ASSUME NEW h \in Conns, Vanish(h)
       PROVE  conn'[k] = conn[k]
  BY <1>0, <1>11 DEF Vanish
<1>12. ASSUME NEW x \in Clients, NEW h \in Conns, Submit(x, h)
       PROVE  conn'[k] = conn[k]
  BY <1>0, <1>12 DEF Submit
<1>13. ASSUME NEW x \in Clients, NEW h \in Conns, current[x] = h,
              current' = [current EXCEPT ![x] = None]
       PROVE  h # k
  <2>1. x # c
    BY <1>0, <1>13
  <2>2. h = k => conn[k].client = x
    BY <1>0, <1>13 DEF Linked
  <2>3. QED
    BY <1>0, <2>1, <2>2
<1>14. ASSUME NEW x \in Clients, NEW h \in Conns,
              Receive(x, h) \/ Fail(x, h) \/ Fault(x, h)
       PROVE  conn'[k] = conn[k]
  <2>1. h # k
    BY <1>13, <1>14 DEF Receive, Fail, Fault, PutBack
  <2>2. LetGo(h) \/ conn' = [conn EXCEPT ![h] = FreeConn]
    BY <1>14 DEF Receive, Fail, Fault
  <2>3. QED
    BY <1>0, <2>1, <2>2 DEF LetGo
<1>15. ASSUME NEW x \in Clients, Logoff(x)
       PROVE  conn'[k] = conn[k]
  <2>1. CASE current[x] = None
    BY <1>15, <2>1 DEF Logoff
  <2>2. CASE current[x] \in Conns
    <3>1. current[x] # k
      BY <1>13, <1>15, <2>2 DEF Logoff
    <3>2. LetGo(current[x])
      BY <1>0, <1>15, <2>2 DEF Logoff
    <3>3. QED
      BY <1>0, <2>2, <3>1, <3>2 DEF LetGo
  <2>3. QED
    BY <1>0, <2>1, <2>2
<1>16. QED
  BY <1>1, <1>2, <1>3, <1>4, <1>5, <1>6, <1>7, <1>9, <1>10, <1>11, <1>12, <1>14, <1>15
     DEF Next, ServerStep, PollerStep

\* A poller waits only on a request of its own, through every step.
LEMMA LinkedStep ==
  ASSUME TypeOK, TypeOK', Linked, [Next]_vars
  PROVE  Linked'
<1> SUFFICES ASSUME NEW c \in Clients
             PROVE  /\ poller'[c] = "rest" => sending'[c] = <<>>
                    /\ current'[c] # None =>
                         /\ poller'[c] = "sending"
                         /\ conn'[current'[c]].client = c
                         /\ conn'[current'[c]].stage # "free"
  BY DEF Linked
<1>1. CASE Over(c)
  BY <1>1 DEF Over
<1>2. CASE Fresh(c)
  BY <1>2 DEF Fresh
<1>3. CASE Same(c)
  <2>1. PICK k \in Conns : current[c] = k /\ current'[c] = k /\ current[c] # None
    BY <1>3 DEF Same, TypeOK
  <2>2. Served(k)
    BY <2>1, ServedStep
  <2>3. QED
    BY <1>3, <2>1, <2>2 DEF Same, Served, Linked
<1>4. QED
  BY <1>1, <1>2, <1>3, RequestStep

-----------------------------------------------------------------------------
(* What is recorded *)

LEMMA RecordedIs ==
  ASSUME NEW d
  PROVE  /\ Recorded(d, "displayed") = d.displayed
         /\ Recorded(d, "acknowledged") = d.acked
         /\ \A k \in Closings : Recorded(d, k) = ~Empty(d.closed)
<1>1. \A k \in Closings : k # "displayed" /\ k # "acknowledged"
  BY DEF Closings
<1>2. Empty(d.closed) <=> d.closed = ""
  BY Zenon DEF Empty
<1>3. QED
  BY <1>1, <1>2, Zenon DEF Recorded

\* The records whose receipts are the same have the same recorded.
LEMMA SameReceipts ==
  ASSUME NEW d, NEW e, e.displayed = d.displayed, e.acked = d.acked,
         e.closed = d.closed, NEW k
  PROVE  Recorded(e, k) = Recorded(d, k)
  BY Zenon DEF Recorded

\* A batch of reports takes nothing back, and a record that exists has what
\* the batch says.
LEMMA BatchRecords ==
  ASSUME NEW d \in DeliveryType, NEW a, NEW s \in Seq(Reports), NEW k \in Kinds
  PROVE  LET e == AfterBatch(d, a, s) IN
           /\ e.made = d.made
           /\ Recorded(d, k) => Recorded(e, k)
           /\ d.made /\ Says(s, a, k) => Recorded(e, k)
<1> DEFINE e == AfterBatch(d, a, s)
<1>1. CASE ~d.made
  BY <1>1 DEF AfterBatch
<1>2. CASE d.made
  <2>1. /\ e.made = d.made
        /\ e.displayed = (d.displayed \/ Says(s, a, "displayed")
                                      \/ Says(s, a, "acknowledged"))
        /\ e.acked = (d.acked \/ Says(s, a, "acknowledged"))
        /\ e.closed = ClosedAfter(d, a, s)
    BY <1>2 DEF AfterBatch, DeliveryType
  <2>2. e.closed = IF ~d.acked /\ Says(s, a, "acknowledged") THEN "acknowledged"
                   ELSE IF Empty(d.closed) /\ Closes(s, a) THEN Reason(s, a)
                   ELSE d.closed
    BY <2>1, ClosedAfterIs
  <2> HIDE DEF e
  <2>3. Closes(s, a) => ~Empty(Reason(s, a))
    BY FirstReason, ReasonOf, FullReasons
  <2>4. /\ ~Empty(d.closed) => ~Empty(e.closed)
        /\ Closes(s, a) => ~Empty(e.closed)
    BY <2>2, <2>3, FullReasons
  <2>5. CASE k = "displayed"
    BY <2>1, <2>5, RecordedIs DEF e
  <2>6. CASE k = "acknowledged"
    BY <2>1, <2>6, RecordedIs DEF e
  <2>7. CASE k \in Closings
    <3>1. Says(s, a, k) => Closes(s, a)
      BY <2>7 DEF Says, Closes
    <3>2. QED
      BY <2>1, <2>4, <2>7, <3>1, RecordedIs DEF e
  <2>8. QED
    BY <2>5, <2>6, <2>7 DEF Kinds
<1>3. QED
  BY <1>1, <1>2

\* What a step makes of a record keeps what is recorded, and the record.
LEMMA RecordStays ==
  ASSUME TypeOK, NEW a \in Alerts, NEW c \in Clients, NEW d \in DeliveryType, NEW e,
         Becomes(d, e, a, c)
  PROVE  /\ d.made => e.made
         /\ \A k \in Kinds : Recorded(d, k) => Recorded(e, k)
<1>1. ASSUME e.made = d.made \/ e.made, e.displayed = d.displayed, e.acked = d.acked,
             e.closed = d.closed
      PROVE  /\ d.made => e.made
             /\ \A k \in Kinds : Recorded(d, k) => Recorded(e, k)
  BY <1>1, SameReceipts
<1>2. CASE e = d
  BY <1>2
<1>3. CASE e = [d EXCEPT !.stale = TRUE]
  BY <1>1, <1>3 DEF DeliveryType
<1>4. CASE e = AfterSend(d, csid[c])
  BY <1>1, <1>4 DEF AfterSend, DeliveryType
<1>5. CASE e = AfterRecallSent(d)
  BY <1>1, <1>5 DEF AfterRecallSent, DeliveryType
<1>6. ASSUME NEW h \in Conns, e = AfterBatch(d, a, Kept(conn[h].events))
      PROVE  /\ d.made => e.made
             /\ \A k \in Kinds : Recorded(d, k) => Recorded(e, k)
  <2>1. conn[h].events \in Seq(Reports)
    BY DEF TypeOK, ConnType
  <2>2. PICK s \in Seq(Reports) : s = Kept(conn[h].events)
    BY <2>1, KeptFacts
  <2>3. e = AfterBatch(d, a, s)
    BY <1>6, <2>2
  <2>4. ASSUME NEW k \in Kinds
        PROVE  e.made = d.made /\ (Recorded(d, k) => Recorded(e, k))
    BY <2>3, BatchRecords
  <2>5. Kinds # {}
    BY DEF Kinds
  <2>6. QED
    BY <2>4, <2>5
<1>7. QED
  BY <1>2, <1>3, <1>4, <1>5, <1>6 DEF Becomes

\* While the server keeps its memory, so for every record in it.
LEMMA RecordsStay ==
  ASSUME TypeOK, MemGrows, NEW a \in Alerts, NEW c \in Clients
  PROVE  /\ mem.deliv[a][c].made => mem'.deliv[a][c].made
         /\ \A k \in Kinds : Recorded(mem.deliv[a][c], k) => Recorded(mem'.deliv[a][c], k)
<1>1. mem.deliv[a][c] \in DeliveryType
  BY DEF TypeOK, MemType
<1>2. QED
  BY <1>1, RecordStays DEF MemGrows

-----------------------------------------------------------------------------
(* The alerts a client has been given are on record *)

\* The alerts that a list of reports is about, and that a queue of replies
\* brings.
About(s) == {s[i][1] : i \in DOMAIN s}
InLine(q) == {a \in Alerts : \E i \in DOMAIN q : a \in q[i].alerts}

\* All the alerts the process of client c knows of.
Held(c) == ui[c].seen \cup batch[c].alerts \cup InLine(inbox[c])
             \cup About(pending[c]) \cup About(sending[c])

LEMMA AboutFacts ==
  ASSUME NEW s \in Seq(Reports), NEW t \in Seq(Reports)
  PROVE  About(s \o t) \subseteq About(s) \cup About(t)
<1>1. /\ s \o t \in Seq(Reports) /\ Len(s \o t) = Len(s) + Len(t)
      /\ \A i \in 1..(Len(s) + Len(t)) :
           (s \o t)[i] = IF i <= Len(s) THEN s[i] ELSE t[i - Len(s)]
  BY ConcatProperties
<1>2. ASSUME NEW i \in DOMAIN (s \o t)
      PROVE  (s \o t)[i][1] \in About(s) \cup About(t)
  <2>1. i \in 1..(Len(s) + Len(t))
    BY <1>1
  <2>2. CASE i <= Len(s)
    BY <1>1, <2>1, <2>2 DEF About
  <2>3. CASE ~(i <= Len(s))
    <3>1. PICK j \in DOMAIN t : j = i - Len(s)
      BY <2>1, <2>3
    <3>2. (s \o t)[i] = t[j]
      BY <1>1, <2>1, <2>3, <3>1
    <3>3. QED
      BY <3>2 DEF About
  <2>4. QED
    BY <2>2, <2>3
<1>3. QED
  BY <1>2 DEF About

LEMMA InLineFacts ==
  ASSUME NEW q \in Seq(BatchType)
  PROVE  /\ \A b \in BatchType : InLine(Append(q, b)) \subseteq InLine(q) \cup b.alerts
         /\ q # <<>> => /\ Head(q).alerts \subseteq InLine(q)
                        /\ InLine(Tail(q)) \subseteq InLine(q)
<1>1. ASSUME NEW b \in BatchType, NEW a \in InLine(Append(q, b))
      PROVE  a \in InLine(q) \cup b.alerts
  <2>1. PICK i \in DOMAIN Append(q, b) : a \in Append(q, b)[i].alerts
    BY DEF InLine
  <2>2. CASE i \in DOMAIN q
    BY <2>1, <2>2, AppendProperties DEF InLine
  <2>3. CASE i = Len(q) + 1
    BY <2>1, <2>3, AppendProperties
  <2>4. QED
    BY <2>1, <2>2, <2>3, AppendProperties
<1>2. ASSUME q # <<>>
      PROVE  /\ Head(q).alerts \subseteq InLine(q)
             /\ InLine(Tail(q)) \subseteq InLine(q)
  <2>1. /\ Head(q) = q[1] /\ 1 \in DOMAIN q /\ Head(q) \in BatchType
        /\ Len(q) \in Nat /\ DOMAIN Tail(q) = 1..(Len(q) - 1)
        /\ \A i \in 1..(Len(q) - 1) : Tail(q)[i] = q[i + 1] /\ i + 1 \in DOMAIN q
    BY <1>2, HeadTailProperties
  <2>2. Head(q).alerts \subseteq InLine(q)
    BY <2>1 DEF InLine, BatchType
  <2>3. ASSUME NEW a \in InLine(Tail(q))
        PROVE  a \in InLine(q)
    <3>1. PICK i \in 1..(Len(q) - 1) : a \in Tail(q)[i].alerts
      BY <2>1 DEF InLine
    <3>2. PICK j \in DOMAIN q : j = i + 1
      BY <2>1
    <3>3. a \in q[j].alerts /\ a \in Alerts
      BY <2>1, <2>3, <3>1, <3>2 DEF InLine
    <3>4. QED
      BY <3>3 DEF InLine
  <2>4. QED
    BY <2>2, <2>3
<1>3. QED
  BY <1>1, <1>2

\* A screen has seen what it shows, and what it is given it has seen.
LEMMA SeenFacts ==
  ASSUME NEW u \in ScreenType, Tidy(u), NEW a \in Alerts
  PROVE  /\ AfterShow(u, a).seen \subseteq u.seen \cup {a}
         /\ AfterRecall(u, a).seen = u.seen
         /\ AfterFinish(u, a).seen = u.seen
         /\ AfterLoop(u).seen = u.seen
         /\ \A i \in DOMAIN u.waiting :
              AfterOpenNext(u, i).seen = u.seen /\ u.waiting[i] \in u.seen
         /\ u.open \subseteq u.seen
         /\ About(ShowReport(u, a)) \subseteq {a}
         /\ About(RecallReport(u, a)) \subseteq u.open
         /\ About(OpenReport(a)) \subseteq {a}
         /\ \A k : About(<<<<a, k>>>>) = {a}
<1>1. /\ AfterShow(u, a).seen \subseteq u.seen \cup {a}
      /\ AfterRecall(u, a).seen = u.seen
      /\ AfterFinish(u, a).seen = u.seen /\ AfterLoop(u).seen = u.seen
  BY DEF ScreenType, AfterShow, AfterOpen, AfterRecall, AfterFinish, AfterLoop
<1>2. \A i \in DOMAIN u.waiting :
        AfterOpenNext(u, i).seen = u.seen /\ u.waiting[i] \in u.seen
  BY DEF ScreenType, AfterOpenNext, AfterOpen, Tidy, Standing, Entries
<1>3. u.open \subseteq u.seen
  BY DEF Tidy, Standing
<1>4. \A k : About(<<<<a, k>>>>) = {a}
  <2>1. \A k : DOMAIN <<<<a, k>>>> = {1} /\ <<<<a, k>>>>[1][1] = a
    OBVIOUS
  <2>2. QED
    BY <2>1 DEF About
<1>5. About(<<>>) = {}
  BY DEF About
<1>6. About(OpenReport(a)) \subseteq {a}
  BY <1>4, <1>5 DEF OpenReport, Displayed
<1>7. About(ShowReport(u, a)) \subseteq {a}
  BY <1>4, <1>5, <1>6 DEF ShowReport, Displayed
<1>8. About(RecallReport(u, a)) \subseteq u.open
  BY <1>4, <1>5 DEF RecallReport
<1>9. QED
  BY <1>1, <1>2, <1>3, <1>6, <1>7, <1>8, <1>4

\* A step tells the process of client c of no alerts but those of the reply
\* that is coming.
Learns(c) ==
  LET H == Held(c) \cup Coming(c).alerts IN
    /\ ui'[c].seen \subseteq H /\ batch'[c].alerts \subseteq H
    /\ InLine(inbox'[c]) \subseteq H
    /\ About(pending'[c]) \subseteq H /\ About(sending'[c]) \subseteq H

LEMMA HeldStep ==
  ASSUME TypeOK, ScreensInOrder, [Next]_vars, NEW c \in Clients
  PROVE  Learns(c)
<1> DEFINE H == Held(c) \cup Coming(c).alerts
<1>0. /\ ui \in [Clients -> ScreenType] /\ batch \in [Clients -> BatchType]
      /\ inbox \in [Clients -> Seq(BatchType)]
      /\ pending \in [Clients -> Seq(Reports)] /\ sending \in [Clients -> Seq(Reports)]
      /\ Tidy(ui[c])
  BY DEF TypeOK, ScreensInOrder
<1>h. /\ ui[c].seen \subseteq H /\ batch[c].alerts \subseteq H
      /\ InLine(inbox[c]) \subseteq H
      /\ About(pending[c]) \subseteq H /\ About(sending[c]) \subseteq H
      /\ About(<<>>) = {} /\ InLine(<<>>) = {}
  BY DEF Held, About, InLine
<1>l. ASSUME /\ ui'[c].seen \subseteq H /\ batch'[c].alerts \subseteq H
             /\ InLine(inbox'[c]) \subseteq H
             /\ About(pending'[c]) \subseteq H /\ About(sending'[c]) \subseteq H
      PROVE  Learns(c)
  BY <1>l DEF Learns
<1>i. /\ \A b \in BatchType : InLine(Append(inbox[c], b)) \subseteq InLine(inbox[c]) \cup b.alerts
      /\ inbox[c] # <<>> => /\ Head(inbox[c]).alerts \subseteq InLine(inbox[c])
                            /\ InLine(Tail(inbox[c])) \subseteq InLine(inbox[c])
  BY <1>0, InLineFacts
<1> HIDE DEF H
<1>1. ASSUME ui'[c] = ui[c], batch'[c] = batch[c], inbox'[c] = inbox[c],
             pending'[c] = pending[c], sending'[c] = sending[c]
      PROVE  Learns(c)
  BY <1>h, <1>l, <1>1
<1>2. ASSUME NEW x \in Clients, NEW r \in Seq(Reports), Report(x, r),
             ui' = [ui EXCEPT ![x] = ui'[x]], batch' = [batch EXCEPT ![x] = batch'[x]],
             UNCHANGED <<inbox, sending>>,
             x = c => /\ ui'[c].seen \subseteq H /\ batch'[c].alerts \subseteq H
                      /\ About(r) \subseteq H
      PROVE  Learns(c)
  <2>1. CASE x = c
    <3>1. pending'[c] = pending[c] \o r
      BY <1>0, <1>2, <2>1 DEF Report
    <3>2. About(pending[c] \o r) \subseteq About(pending[c]) \cup About(r)
      BY <1>0, AboutFacts
    <3>3. QED
      BY <1>h, <1>l, <1>2, <2>1, <3>1, <3>2
  <2>2. CASE x # c
    <3>1. pending'[c] = pending[c]
      BY <1>0, <1>2, <2>2 DEF Report
    <3>2. QED
      BY <1>0, <1>1, <1>2, <2>2, <3>1
  <2>3. QED
    BY <2>1, <2>2
<1>3. ASSUME NEW x \in Clients, NEW a \in Alerts, HandleRecall(x, a)
      PROVE  Learns(c)
  <2>1. x = c => /\ ui'[c] = AfterRecall(ui[c], a) /\ batch'[c].alerts = batch[c].alerts
                 /\ About(RecallReport(ui[c], a)) \subseteq ui[c].open
                 /\ ui[c].open \subseteq ui[c].seen
                 /\ AfterRecall(ui[c], a).seen = ui[c].seen
    BY <1>0, <1>3, SeenFacts DEF HandleRecall, BatchType
  <2>2. /\ Report(x, RecallReport(ui[x], a)) /\ RecallReport(ui[x], a) \in Seq(Reports)
        /\ ui' = [ui EXCEPT ![x] = ui'[x]] /\ batch' = [batch EXCEPT ![x] = batch'[x]]
        /\ UNCHANGED <<inbox, sending>>
    BY <1>0, <1>3, ReportTypes DEF HandleRecall, UIFrame
  <2>3. QED
    BY <1>h, <1>2, <2>1, <2>2
<1>4. ASSUME NEW x \in Clients, NEW a \in Alerts, HandleAlert(x, a)
      PROVE  Learns(c)
  <2>1. x = c => /\ ui'[c] = AfterShow(ui[c], a) /\ batch'[c].alerts \subseteq batch[c].alerts
                 /\ a \in batch[c].alerts /\ About(ShowReport(ui[c], a)) \subseteq {a}
                 /\ AfterShow(ui[c], a).seen \subseteq ui[c].seen \cup {a}
    BY <1>0, <1>4, SeenFacts DEF HandleAlert, BatchType
  <2>2. /\ Report(x, ShowReport(ui[x], a)) /\ ShowReport(ui[x], a) \in Seq(Reports)
        /\ ui' = [ui EXCEPT ![x] = ui'[x]] /\ batch' = [batch EXCEPT ![x] = batch'[x]]
        /\ UNCHANGED <<inbox, sending>>
    BY <1>0, <1>4, ReportTypes DEF HandleAlert, UIFrame
  <2>3. QED
    BY <1>h, <1>2, <2>1, <2>2
<1>5. ASSUME NEW x \in Clients, OpenNext(x)
      PROVE  Learns(c)
  <2>1. PICK i \in DOMAIN ui[x].waiting :
          /\ ui' = [ui EXCEPT ![x] = AfterOpenNext(ui[x], i)]
          /\ Report(x, OpenReport(ui[x].waiting[i]))
          /\ UNCHANGED <<inbox, batch, sending>>
    BY <1>5 DEF OpenNext, UIFrame
  <2>2. PICK a \in Alerts : a = ui[x].waiting[i]
    BY <1>0 DEF ScreenType
  <2>3. x = c => /\ ui'[c] = AfterOpenNext(ui[c], i) /\ AfterOpenNext(ui[c], i).seen = ui[c].seen
                 /\ a \in ui[c].seen /\ About(OpenReport(a)) \subseteq {a}
    BY <1>0, <2>1, <2>2, SeenFacts
  <2>4. /\ Report(x, OpenReport(a)) /\ OpenReport(a) \in Seq(Reports)
        /\ ui' = [ui EXCEPT ![x] = ui'[x]] /\ batch' = [batch EXCEPT ![x] = batch'[x]]
    BY <1>0, <2>1, <2>2, ReportTypes
  <2>5. QED
    BY <1>h, <1>2, <2>1, <2>3, <2>4
<1>6. ASSUME NEW x \in Clients, NEW a \in Alerts, NEW k \in Kinds, Close(x, a, k)
      PROVE  Learns(c)
  <2>1. x = c => /\ ui'[c] = AfterFinish(ui[c], a) /\ AfterFinish(ui[c], a).seen = ui[c].seen
                 /\ a \in ui[c].open /\ ui[c].open \subseteq ui[c].seen
                 /\ About(<<<<a, k>>>>) = {a}
    BY <1>0, <1>6, SeenFacts DEF Close
  <2>2. /\ Report(x, <<<<a, k>>>>) /\ <<<<a, k>>>> \in Seq(Reports)
        /\ ui' = [ui EXCEPT ![x] = ui'[x]] /\ batch' = [batch EXCEPT ![x] = batch'[x]]
        /\ UNCHANGED <<inbox, batch, sending>>
    BY <1>0, <1>6, ReportTypes DEF Close, UIFrame
  <2>3. QED
    BY <1>h, <1>2, <2>1, <2>2
<1>7. ASSUME NEW x \in Clients, NEW a \in Alerts, Press(x, a) \/ LifeOver(x, a)
      PROVE  Learns(c)
  <2>1. \E k \in Kinds : Close(x, a, k)
    BY <1>7 DEF Press, LifeOver, Kinds, Closings
  <2>2. QED
    BY <1>6, <2>1
<1>8. ASSUME NEW x \in Clients, LoopEnds(x)
      PROVE  Learns(c)
  <2>1. ui'[c].seen = ui[c].seen
    BY <1>0, <1>8 DEF LoopEnds, AfterLoop, ScreenType
  <2>2. QED
    BY <1>h, <1>l, <1>8, <2>1 DEF LoopEnds, pollVars
<1>9. ASSUME NEW x \in Clients, TakeBatch(x)
      PROVE  Learns(c)
  <2>1. CASE x = c
    <3>1. /\ batch'[c] = Head(inbox[c]) /\ inbox'[c] = Tail(inbox[c]) /\ inbox[c] # <<>>
          /\ UNCHANGED <<ui, pending, sending>>
      BY <1>0, <1>9, <2>1 DEF TakeBatch, pollVars
    <3>2. QED
      BY <1>h, <1>i, <1>l, <3>1
  <2>2. CASE x # c
    BY <1>0, <1>1, <1>9, <2>2 DEF TakeBatch, pollVars
  <2>3. QED
    BY <2>1, <2>2
<1>10. ASSUME NEW x \in Clients, Take(x) \/ PutBack(x), UNCHANGED <<ui, batch, inbox>>
       PROVE  Learns(c)
  <2>1. About(sending[c] \o pending[c]) \subseteq H
    BY <1>0, <1>h, AboutFacts
  <2>2. /\ sending'[c] \in {sending[c], pending[c], <<>>}
        /\ pending'[c] \in {pending[c], <<>>, sending[c] \o pending[c]}
    BY <1>0, <1>10 DEF Take, PutBack
  <2>3. QED
    BY <1>h, <1>l, <1>10, <2>1, <2>2
<1>11. ASSUME NEW x \in Clients,
              Take(x) \/ NotYet(x) \/ \E k \in Conns : Fail(x, k) \/ Fault(x, k)
       PROVE  (Take(x) \/ PutBack(x)) /\ UNCHANGED <<ui, batch, inbox>>
  BY <1>11 DEF Take, NotYet, Fail, Fault, screenVars
<1>12. ASSUME NEW x \in Clients, NEW k \in Conns, Receive(x, k)
       PROVE  Learns(c)
  <2>1. UNCHANGED <<ui, batch, pending>> /\ sending'[c] \in {sending[c], <<>>}
    BY <1>0, <1>12 DEF Receive
  <2>2. CASE inbox'[c] = inbox[c]
    BY <1>h, <1>l, <2>1, <2>2
  <2>3. CASE inbox'[c] # inbox[c]
    <3>1. x = c
      BY <1>0, <1>12, <2>3 DEF Receive
    <3>2. inbox' = [inbox EXCEPT ![c] = Append(@, Brings(k))]
      BY <1>12, <2>3, <3>1 DEF Receive, Brings
    <3>3. Coming(c) = Brings(k)
      BY <1>12, <3>1, FoghornAssumption DEF Receive, Coming
    <3>4. Coming(c) \in BatchType
      BY ComingTypes
    <3>5. inbox'[c] = Append(inbox[c], Coming(c))
      BY <1>0, <3>2, <3>3
    <3>6. InLine(inbox'[c]) \subseteq H
      BY <1>h, <1>i, <3>4, <3>5 DEF H
    <3>7. QED
      BY <1>h, <1>l, <2>1, <3>6
  <2>4. QED
    BY <2>2, <2>3
<1>13. ASSUME NEW x \in Clients, Logoff(x)
       PROVE  Learns(c)
  <2>1. CASE x = c
    <3>1. /\ ui'[c] = EmptyScreen /\ batch'[c] = EmptyBatch /\ inbox'[c] = <<>>
          /\ pending'[c] = <<>> /\ sending'[c] = <<>>
      BY <1>0, <1>13, <2>1 DEF Logoff
    <3>2. QED
      BY <1>h, <1>l, <3>1 DEF EmptyScreen, EmptyBatch
  <2>2. CASE x # c
    BY <1>0, <1>1, <1>13, <2>2 DEF Logoff
  <2>3. QED
    BY <2>1, <2>2
<1>14. ASSUME NEW a \in Alerts,
              \/ Post(a) \/ Recall(a) \/ Expire(a) \/ RecallAges(a)
              \/ \E x \in Clients : SendAges(a, x)
       PROVE  UNCHANGED <<ui, batch, inbox, pending, sending>>
  BY <1>14 DEF Post, Recall, Expire, RecallAges, SendAges, screenVars, pollVars
<1>15. ASSUME NEW k \in Conns, ServerStep(k) \/ Vanish(k)
       PROVE  UNCHANGED <<ui, batch, inbox, pending, sending>>
  BY <1>15 DEF ServerStep, Arrive, Look, HoldOver, Vanish, screenVars, pollVars
<1>16. ASSUME NEW x \in Clients, Logon(x) \/ \E k \in Conns : Submit(x, k)
       PROVE  UNCHANGED <<ui, batch, inbox, pending, sending>>
  BY <1>16 DEF Logon, Submit, screenVars, pollVars
<1>17. Flush \/ Crash \/ UNCHANGED vars => UNCHANGED <<ui, batch, inbox, pending, sending>>
  BY DEF Flush, Crash, vars, screenVars, pollVars
<1>18. QED
  BY <1>1, <1>3, <1>4, <1>5, <1>7, <1>8, <1>9, <1>10, <1>11, <1>12, <1>13, <1>14,
     <1>15, <1>16, <1>17 DEF Next, PollerStep, UIStep

\* A client knows only of alerts the server has a record of for it, and only
\* of such does a connection bring news.
Known ==
  crashes = 0 =>
    /\ \A c \in Clients : \A a \in Held(c) : a \in Alerts => mem.deliv[a][c].made
    /\ \A k \in Conns : \A a \in conn[k].alerts :
         conn[k].client \in Clients /\ mem.deliv[a][conn[k].client].made

LEMMA KnownStep ==
  ASSUME TypeOK, TypeOK', Linked, ScreensInOrder, Known, [Next]_vars
  PROVE  Known'
<1> SUFFICES ASSUME crashes' = 0
             PROVE  /\ \A c \in Clients : \A a \in Held(c)' :
                         a \in Alerts => mem'.deliv[a][c].made
                    /\ \A k \in Conns : \A a \in conn'[k].alerts :
                         conn'[k].client \in Clients /\ mem'.deliv[a][conn'[k].client].made
  BY DEF Known
<1>0. /\ crashes = 0 /\ MemGrows /\ current \in [Clients -> Conns \cup {None}]
      /\ conn \in [Conns -> ConnType]
      /\ \A a \in Alerts, c \in Clients : mem.deliv[a][c].made => mem'.deliv[a][c].made
  BY RecalledStays, RecordsStay DEF TypeOK
<1>1. ASSUME NEW c \in Clients, NEW a \in Held(c)', a \in Alerts
      PROVE  mem'.deliv[a][c].made
  <2>1. a \in Held(c) \cup Coming(c).alerts
    <3>1. Learns(c)
      BY HeldStep
    <3>2. QED
      BY <1>1, <3>1 DEF Learns, Held
  <2>2. a \in Coming(c).alerts => mem.deliv[a][c].made
    BY <1>0 DEF Coming, Brings, EmptyBatch, Known, Linked
  <2>3. QED
    BY <1>0, <1>1, <2>1, <2>2 DEF Known
<1>2. ASSUME NEW k \in Conns, NEW a \in conn'[k].alerts
      PROVE  conn'[k].client \in Clients /\ mem'.deliv[a][conn'[k].client].made
  <2>1. ConnBecomes(conn[k], conn'[k]) /\ a \in Alerts
    BY ConnStep DEF TypeOK, ConnType
  <2>2. CASE a \in conn[k].alerts
    BY <1>0, <1>2, <2>1, <2>2 DEF ConnBecomes, Known
  <2>3. CASE a \notin conn[k].alerts
    <3>1. a \in ToSend(conn[k].client) /\ mem'.deliv[a][conn[k].client].made
      BY <1>2, <2>1, <2>3 DEF ConnBecomes
    <3>2. conn[k].client \in Clients
      BY <2>1, <3>1, FoghornAssumption DEF ToSend
    <3>3. QED
      BY <1>2, <2>1, <3>1, <3>2 DEF ConnBecomes
  <2>4. QED
    BY <2>2, <2>3
<1>3. QED
  BY <1>1, <1>2

-----------------------------------------------------------------------------
(* Nothing is lost *)

\* No request carries more events than the server reads of it.
NoneCutOff == \A k \in Conns : Len(conn[k].events) <= MaxEvents

\* The server has what list s of client c reports.
AllRecorded(c, s) == \A i \in DOMAIN s : Recorded(mem.deliv[s[i][1]][c], s[i][2])

\* The request a poller waits on carries what it is sending, and once the
\* server has taken it, has it all.
Sent ==
  crashes = 0 =>
    \A c \in Clients : current[c] # None =>
      /\ conn[current[c]].stage = "request" => conn[current[c]].events = sending[c]
      /\ conn[current[c]].stage \in {"look", "asleep", "reply"} =>
           AllRecorded(c, sending[c])

\* What is recorded of such a list stays so.
LEMMA AllStays ==
  ASSUME TypeOK, MemGrows, NEW c \in Clients, NEW s \in Seq(Reports), AllRecorded(c, s)
  PROVE  \A i \in DOMAIN s : Recorded(mem'.deliv[s[i][1]][c], s[i][2])
<1> SUFFICES ASSUME NEW i \in DOMAIN s
             PROVE  Recorded(mem'.deliv[s[i][1]][c], s[i][2])
  OBVIOUS
<1>1. PICK a \in Alerts, k \in Kinds : s[i] = <<a, k>>
  <2>1. s[i] \in Alerts \X Kinds
    BY DEF Reports
  <2>2. QED
    BY <2>1
<1>2. a = s[i][1] /\ k = s[i][2]
  BY <1>1
<1>3. Recorded(mem.deliv[a][c], k)
  BY <1>2 DEF AllRecorded
<1>4. Recorded(mem'.deliv[a][c], k)
  BY <1>3, RecordsStay
<1>5. QED
  BY <1>2, <1>4

\* A request that is taken is recorded as a whole.
LEMMA ArriveRecords ==
  ASSUME TypeOK, Known, crashes = 0, NoneCutOff, NEW c \in Clients, NEW k \in Conns,
         Arrive(k), conn[k].client = c, conn[k].events = sending[c]
  PROVE  \A i \in DOMAIN sending[c] :
           Recorded(mem'.deliv[sending[c][i][1]][c], sending[c][i][2])
<1> SUFFICES ASSUME NEW i \in DOMAIN sending[c]
             PROVE  Recorded(mem'.deliv[sending[c][i][1]][c], sending[c][i][2])
  OBVIOUS
<1>0. PICK s \in Seq(Reports) : s = sending[c]
  BY DEF TypeOK
<1>1. PICK a \in Alerts, h \in Kinds : s[i] = <<a, h>>
  <2>1. s[i] \in Alerts \X Kinds
    BY <1>0 DEF Reports
  <2>2. QED
    BY <2>1
<1>2. a = s[i][1] /\ h = s[i][2]
  BY <1>1
<1>3. Kept(conn[k].events) = s
  <2>1. Len(s) <= MaxEvents /\ Len(s) \in Nat /\ conn[k].events = s
    BY <1>0 DEF NoneCutOff
  <2>2. QED
    BY <2>1, DeliveryAssumption DEF Kept
<1>4. mem'.deliv[a][c] = AfterBatch(mem.deliv[a][c], a, s)
  BY <1>3 DEF Arrive, TypeOK, MemType
<1>5. mem.deliv[a][c] \in DeliveryType
  BY DEF TypeOK, MemType
<1>6. mem.deliv[a][c].made
  <2>1. a \in Held(c)
    BY <1>0, <1>2 DEF Held, About
  <2>2. QED
    BY <2>1 DEF Known
<1>7. Says(s, a, h)
  BY <1>0, <1>1 DEF Says
<1>8. PICK e : e = AfterBatch(mem.deliv[a][c], a, s)
  OBVIOUS
<1>9. Recorded(e, h)
  BY <1>5, <1>6, <1>7, <1>8, BatchRecords
<1>10. QED
  BY <1>0, <1>2, <1>4, <1>8, <1>9

LEMMA SentStep ==
  ASSUME TypeOK, TypeOK', Linked, Known, Sent, NoneCutOff, [Next]_vars
  PROVE  Sent'
<1> SUFFICES ASSUME crashes' = 0, NEW c \in Clients, current'[c] # None
             PROVE  /\ conn'[current'[c]].stage = "request" =>
                         conn'[current'[c]].events = sending'[c]
                    /\ conn'[current'[c]].stage \in {"look", "asleep", "reply"} =>
                         \A i \in DOMAIN sending'[c] :
                           Recorded(mem'.deliv[sending'[c][i][1]][c], sending'[c][i][2])
  BY DEF Sent, AllRecorded
<1>0. /\ crashes = 0 /\ MemGrows /\ sending[c] \in Seq(Reports)
      /\ current[c] \in Conns \cup {None}
  BY RecalledStays DEF TypeOK
<1>1. CASE Fresh(c)
  BY <1>1 DEF Fresh
<1>2. CASE Same(c)
  <2>1. PICK k \in Conns : current[c] = k /\ current'[c] = k /\ k # None
    BY <1>0, <1>2 DEF Same
  <2>2. Served(k) /\ sending'[c] = sending[c] /\ conn[k].client = c
    BY <1>2, <2>1, ServedStep DEF Same, Linked
  <2>3. /\ conn[k].stage = "request" => conn[k].events = sending[c]
        /\ conn[k].stage \in {"look", "asleep", "reply"} => AllRecorded(c, sending[c])
    BY <1>0, <2>1 DEF Sent
  <2>4. CASE /\ conn'[k].stage = conn[k].stage /\ conn'[k].events = conn[k].events
    BY <1>0, <2>1, <2>2, <2>3, <2>4, AllStays
  <2>5. CASE Arrive(k) /\ conn'[k].stage = "look"
    <3>1. conn[k].events = sending[c]
      BY <2>3, <2>5 DEF Arrive
    <3>2. \A i \in DOMAIN sending[c] :
            Recorded(mem'.deliv[sending[c][i][1]][c], sending[c][i][2])
      BY <1>0, <2>2, <2>5, <3>1, ArriveRecords
    <3>3. QED
      BY <2>1, <2>2, <2>5, <3>2
  <2>6. CASE /\ conn[k].stage \in {"look", "asleep"}
             /\ conn'[k].stage \in {"look", "asleep", "reply"}
    BY <1>0, <2>1, <2>2, <2>3, <2>6, AllStays
  <2>7. CASE conn'[k].stage = "dead"
    BY <2>1, <2>7
  <2>8. QED
    BY <2>2, <2>4, <2>5, <2>6, <2>7 DEF Served
<1>3. QED
  BY <1>1, <1>2, RequestStep DEF Over

\* Two lists of reports, one after the other, hold the reports of both.
LEMMA TogetherHold ==
  ASSUME NEW s \in Seq(Reports), NEW t \in Seq(Reports)
  PROVE  Entries(s) \cup Entries(t) \subseteq Entries(s \o t)
<1>1. /\ DOMAIN (s \o t) = 1..(Len(s) + Len(t)) /\ Len(s) \in Nat /\ Len(t) \in Nat
      /\ \A i \in 1..(Len(s) + Len(t)) :
           (s \o t)[i] = IF i <= Len(s) THEN s[i] ELSE t[i - Len(s)]
  BY ConcatProperties
<1>2. ASSUME NEW i \in DOMAIN s
      PROVE  s[i] \in Entries(s \o t)
  <2>1. i \in 1..(Len(s) + Len(t)) /\ i <= Len(s)
    BY <1>1
  <2>2. QED
    BY <1>1, <2>1 DEF Entries
<1>3. ASSUME NEW i \in DOMAIN t
      PROVE  t[i] \in Entries(s \o t)
  <2>1. PICK j \in 1..(Len(s) + Len(t)) : j = Len(s) + i /\ ~(j <= Len(s)) /\ j - Len(s) = i
    BY <1>1
  <2>2. (s \o t)[j] = t[i]
    BY <1>1, <2>1
  <2>3. QED
    BY <1>1, <2>2 DEF Entries
<1>4. QED
  BY <1>2, <1>3 DEF Entries

\* What the poller holds of client c after a step, while its process lives:
\* a report leaves it only when the server has it.
QueueKept(c) ==
  \A r \in Queued(c) :
    \/ r \in Entries(pending'[c]) \cup Entries(sending'[c])
    \/ r \in Entries(sending[c]) /\ AllRecorded(c, sending[c])

LEMMA QueueStep ==
  ASSUME TypeOK, Linked, Sent, [Next]_vars, crashes = 0, NEW c \in Clients, up'[c]
  PROVE  QueueKept(c)
<1>0. /\ pending \in [Clients -> Seq(Reports)] /\ sending \in [Clients -> Seq(Reports)]
      /\ up \in [Clients -> BOOLEAN]
      /\ Queued(c) = Entries(pending[c]) \cup Entries(sending[c])
      /\ Entries(<<>>) = {}
      /\ Entries(sending[c]) \cup Entries(pending[c]) \subseteq Entries(sending[c] \o pending[c])
  <2>1. /\ pending \in [Clients -> Seq(Reports)] /\ sending \in [Clients -> Seq(Reports)]
        /\ up \in [Clients -> BOOLEAN]
    BY DEF TypeOK
  <2>2. /\ Queued(c) = Entries(pending[c]) \cup Entries(sending[c])
        /\ Entries(<<>>) = {}
    BY DEF Queued, Entries
  <2>3. QED
    BY <2>1, <2>2, TogetherHold
<1>1. ASSUME pending'[c] = pending[c], sending'[c] = sending[c]
      PROVE  QueueKept(c)
  BY <1>0, <1>1 DEF QueueKept
<1>2. ASSUME NEW x \in Clients, NEW r \in Seq(Reports), Report(x, r), UNCHANGED sending
      PROVE  QueueKept(c)
  <2>1. CASE x = c
    <3>1. pending'[c] = pending[c] \o r
      BY <1>0, <1>2, <2>1 DEF Report
    <3>2. Entries(pending[c]) \subseteq Entries(pending[c] \o r)
      BY <1>0, TogetherHold
    <3>3. QED
      BY <1>0, <1>2, <3>1, <3>2 DEF QueueKept
  <2>2. CASE x # c
    BY <1>0, <1>1, <1>2, <2>2 DEF Report
  <2>3. QED
    BY <2>1, <2>2
<1>3. ASSUME NEW x \in Clients, Take(x)
      PROVE  QueueKept(c)
  <2>1. CASE x = c
    <3>1. sending'[c] = pending[c] /\ sending[c] = <<>>
      BY <1>0, <1>3, <2>1 DEF Take, Linked
    <3>2. QED
      BY <1>0, <3>1 DEF QueueKept
  <2>2. CASE x # c
    BY <1>0, <1>1, <1>3, <2>2 DEF Take
  <2>3. QED
    BY <2>1, <2>2
<1>4. ASSUME NEW x \in Clients, PutBack(x)
      PROVE  QueueKept(c)
  <2>1. CASE x = c
    <3>1. pending'[c] = sending[c] \o pending[c]
      BY <1>0, <1>4, <2>1 DEF PutBack
    <3>2. QED
      BY <1>0, <3>1 DEF QueueKept
  <2>2. CASE x # c
    BY <1>0, <1>1, <1>4, <2>2 DEF PutBack
  <2>3. QED
    BY <2>1, <2>2
<1>5. ASSUME NEW x \in Clients, NotYet(x) \/ \E k \in Conns : Fail(x, k) \/ Fault(x, k)
      PROVE  PutBack(x)
  BY <1>5 DEF NotYet, Fail, Fault
<1>6. ASSUME NEW x \in Clients, NEW k \in Conns, Receive(x, k)
      PROVE  QueueKept(c)
  <2>1. CASE x = c
    <3>1. pending'[c] = pending[c]
      BY <1>6 DEF Receive
    <3>2. AllRecorded(c, sending[c])
      BY <1>6, <2>1, FoghornAssumption DEF Receive, Sent
    <3>3. QED
      BY <1>0, <3>1, <3>2 DEF QueueKept
  <2>2. CASE x # c
    BY <1>0, <1>1, <1>6, <2>2 DEF Receive
  <2>3. QED
    BY <2>1, <2>2
<1>7. ASSUME NEW x \in Clients, Logoff(x)
      PROVE  QueueKept(c)
  <2>1. x # c
    BY <1>0, <1>7 DEF Logoff
  <2>2. QED
    BY <1>0, <1>1, <1>7, <2>1 DEF Logoff
<1>8. ASSUME NEW x \in Clients, OpenNext(x)
      PROVE  QueueKept(c)
  <2>1. PICK i \in DOMAIN ui[x].waiting : Report(x, OpenReport(ui[x].waiting[i]))
    BY <1>8 DEF OpenNext
  <2>2. ui[x].waiting[i] \in Alerts
    BY DEF TypeOK, ScreenType
  <2>3. OpenReport(ui[x].waiting[i]) \in Seq(Reports) /\ UNCHANGED sending
    BY <1>8, <2>2, ReportTypes DEF OpenNext, UIFrame
  <2>4. QED
    BY <1>2, <2>1, <2>3
<1>9. ASSUME NEW x \in Clients, NEW a \in Alerts, HandleRecall(x, a) \/ HandleAlert(x, a)
      PROVE  QueueKept(c)
  BY <1>2, <1>9, ReportTypes DEF HandleRecall, HandleAlert, UIFrame
<1>10. ASSUME NEW x \in Clients, NEW a \in Alerts, Press(x, a) \/ LifeOver(x, a)
       PROVE  QueueKept(c)
  <2>1. PICK k \in Kinds : Close(x, a, k)
    BY <1>10 DEF Press, LifeOver, Kinds, Closings
  <2>2. QED
    BY <1>2, <2>1, ReportTypes DEF Close, UIFrame
<1>11. ASSUME NEW a \in Alerts,
              \/ Post(a) \/ Recall(a) \/ Expire(a) \/ RecallAges(a)
              \/ \E x \in Clients : SendAges(a, x)
       PROVE  UNCHANGED <<pending, sending>>
  BY <1>11 DEF Post, Recall, Expire, RecallAges, SendAges, pollVars
<1>12. ASSUME NEW k \in Conns, ServerStep(k) \/ Vanish(k)
       PROVE  UNCHANGED <<pending, sending>>
  BY <1>12 DEF ServerStep, Arrive, Look, HoldOver, Vanish, pollVars
<1>13. ASSUME NEW x \in Clients,
              \/ TakeBatch(x) \/ LoopEnds(x) \/ Logon(x)
              \/ \E k \in Conns : Submit(x, k)
       PROVE  UNCHANGED <<pending, sending>>
  BY <1>13 DEF TakeBatch, LoopEnds, Logon, Submit, pollVars
<1>14. Flush \/ Crash \/ UNCHANGED vars => UNCHANGED <<pending, sending>>
  BY DEF Flush, Crash, vars, pollVars
<1>15. QED
  BY <1>1, <1>3, <1>4, <1>5, <1>6, <1>7, <1>8, <1>9, <1>10, <1>11, <1>12, <1>13, <1>14
     DEF Next, PollerStep, UIStep

\* Every report ever made is from a session that has begun.
SaidInTime == \A r \in said : r[2] <= session[r[1]]

\* What is said in a step is said in the session that goes on, and is with
\* the poller.
JustSaid(r) ==
  /\ UNCHANGED <<up, session>> /\ r[1] \in Clients /\ r[2] = session[r[1]]
  /\ <<r[3], r[4]>> \in Entries(pending'[r[1]])

LEMMA SaidStep ==
  ASSUME TypeOK, [Next]_vars, NEW r \in said', r \notin said
  PROVE  JustSaid(r)
<1>0. pending \in [Clients -> Seq(Reports)]
  BY DEF TypeOK
<1>1. ASSUME NEW x \in Clients, NEW s \in Seq(Reports), Report(x, s), UNCHANGED userVars
      PROVE  JustSaid(r)
  <2>1. PICK i \in DOMAIN s : r = <<x, session[x], s[i][1], s[i][2]>>
    BY <1>1 DEF Report
  <2>2. r[1] = x /\ r[2] = session[x] /\ r[3] = s[i][1] /\ r[4] = s[i][2]
    BY <2>1
  <2>3. s[i] = <<r[3], r[4]>>
    <3>1. s[i] \in Alerts \X Kinds
      BY DEF Reports
    <3>2. QED
      BY <2>2, <3>1
  <2>4. pending'[x] = pending[x] \o s
    BY <1>0, <1>1 DEF Report
  <2>5. Entries(s) \subseteq Entries(pending[x] \o s)
    BY <1>0, TogetherHold
  <2>6. s[i] \in Entries(s)
    BY DEF Entries
  <2>7. QED
    BY <1>1, <2>2, <2>3, <2>4, <2>5, <2>6 DEF JustSaid, userVars
<1>2. ASSUME NEW x \in Clients, OpenNext(x)
      PROVE  JustSaid(r)
  <2>1. PICK i \in DOMAIN ui[x].waiting : Report(x, OpenReport(ui[x].waiting[i]))
    BY <1>2 DEF OpenNext
  <2>2. ui[x].waiting[i] \in Alerts
    BY DEF TypeOK, ScreenType
  <2>3. OpenReport(ui[x].waiting[i]) \in Seq(Reports) /\ UNCHANGED userVars
    BY <1>2, <2>2, ReportTypes DEF OpenNext, UIFrame
  <2>4. QED
    BY <1>1, <2>1, <2>3
<1>3. ASSUME NEW x \in Clients, NEW a \in Alerts, HandleRecall(x, a) \/ HandleAlert(x, a)
      PROVE  JustSaid(r)
  BY <1>1, <1>3, ReportTypes DEF HandleRecall, HandleAlert, UIFrame
<1>4. ASSUME NEW x \in Clients, NEW a \in Alerts, Press(x, a) \/ LifeOver(x, a)
      PROVE  JustSaid(r)
  <2>1. PICK k \in Kinds : Close(x, a, k)
    BY <1>4 DEF Press, LifeOver, Kinds, Closings
  <2>2. QED
    BY <1>1, <2>1, ReportTypes DEF Close, UIFrame
<1>5. ASSUME NEW a \in Alerts,
             \/ Post(a) \/ Recall(a) \/ Expire(a) \/ RecallAges(a)
             \/ \E x \in Clients : SendAges(a, x)
      PROVE  UNCHANGED said
  BY <1>5 DEF Post, Recall, Expire, RecallAges, SendAges, screenVars
<1>6. ASSUME NEW k \in Conns, ServerStep(k) \/ Vanish(k)
      PROVE  UNCHANGED said
  BY <1>6 DEF ServerStep, Arrive, Look, HoldOver, Vanish, screenVars
<1>7. ASSUME NEW x \in Clients,
             \/ PollerStep(x) \/ TakeBatch(x) \/ LoopEnds(x) \/ Logon(x) \/ Logoff(x)
             \/ \E k \in Conns : Fault(x, k)
      PROVE  UNCHANGED said
  BY <1>7 DEF PollerStep, Take, NotYet, Submit, Receive, Fail, Fault, TakeBatch,
              LoopEnds, Logon, Logoff, screenVars
<1>8. Flush \/ Crash \/ UNCHANGED vars => UNCHANGED said
  BY DEF Flush, Crash, vars, screenVars
<1>9. QED
  BY <1>2, <1>3, <1>4, <1>5, <1>6, <1>7, <1>8 DEF Next, UIStep

\* A session only gives way to a later one, of a process that was not there.
LEMMA SessionStep ==
  ASSUME TypeOK, [Next]_vars, NEW c \in Clients
  PROVE  \/ session'[c] = session[c] /\ (up'[c] => up[c])
         \/ session'[c] = session[c] + 1
<1>0. session \in [Clients -> Nat] /\ up \in [Clients -> BOOLEAN]
  BY DEF TypeOK
<1>1. CASE UNCHANGED userVars
  BY <1>1 DEF userVars
<1>2. ASSUME NEW x \in Clients, Logon(x)
      PROVE  \/ session'[c] = session[c] /\ (up'[c] => up[c])
             \/ session'[c] = session[c] + 1
  BY <1>0, <1>2 DEF Logon
<1>3. ASSUME NEW x \in Clients, Logoff(x)
      PROVE  session'[c] = session[c] /\ (up'[c] => up[c])
  BY <1>0, <1>3 DEF Logoff
<1>4. ASSUME NEW a \in Alerts,
             \/ Post(a) \/ Recall(a) \/ Expire(a) \/ RecallAges(a)
             \/ \E x \in Clients : SendAges(a, x) \/ Press(x, a) \/ LifeOver(x, a)
      PROVE  UNCHANGED userVars
  BY <1>4 DEF Post, Recall, Expire, RecallAges, SendAges, Press, LifeOver, Close, UIFrame
<1>5. ASSUME NEW k \in Conns, ServerStep(k) \/ Vanish(k)
      PROVE  UNCHANGED userVars
  BY <1>5 DEF ServerStep, Arrive, Look, HoldOver, Vanish
<1>6. ASSUME NEW x \in Clients, PollerStep(x) \/ UIStep(x) \/ \E k \in Conns : Fault(x, k)
      PROVE  UNCHANGED userVars
  BY <1>6 DEF PollerStep, Take, NotYet, Submit, Receive, Fail, Fault, UIStep, TakeBatch,
              OpenNext, LoopEnds, HandleRecall, HandleAlert, UIFrame
<1>7. Flush \/ Crash \/ UNCHANGED vars => UNCHANGED userVars
  BY DEF Flush, Crash, vars
<1>8. QED
  BY <1>1, <1>2, <1>3, <1>4, <1>5, <1>6, <1>7 DEF Next

LEMMA InTimeStep ==
  ASSUME TypeOK, TypeOK', SaidInTime, [Next]_vars
  PROVE  SaidInTime'
<1> SUFFICES ASSUME NEW r \in said' PROVE r[2] <= session'[r[1]]
  BY DEF SaidInTime
<1>1. CASE r \in said
  <2>1. r[1] \in Clients /\ r[2] \in Nat /\ r[2] <= session[r[1]]
    BY <1>1 DEF TypeOK, SaidInTime
  <2>2. session[r[1]] \in Nat
    BY <2>1 DEF TypeOK
  <2>3. session'[r[1]] = session[r[1]] \/ session'[r[1]] = session[r[1]] + 1
    BY <2>1, SessionStep
  <2>4. QED
    BY <2>1, <2>2, <2>3
<1>2. CASE r \notin said
  <2>1. JustSaid(r)
    BY <1>2, SaidStep
  <2>2. session'[r[1]] \in Nat /\ r[2] = session'[r[1]]
    BY <2>1 DEF JustSaid, TypeOK
  <2>3. QED
    BY <2>2
<1>3. QED
  BY <1>1, <1>2

\* What keeps the reports.
Keeping ==
  /\ TypeOK /\ Linked /\ LinesInOrder /\ ScreensInOrder /\ Known /\ Sent
  /\ SaidInTime /\ ReportsKept

LEMMA InitKeeping == Init => Keeping
<1> SUFFICES ASSUME Init PROVE Keeping
  OBVIOUS
<1>1. Linked /\ Sent /\ SaidInTime /\ ReportsKept
  BY DEF Init, Linked, Sent, SaidInTime, ReportsKept
<1>2. Known
  <2>1. \A c \in Clients : Held(c) = {}
    BY DEF Init, Held, About, InLine, EmptyScreen, EmptyBatch
  <2>2. \A k \in Conns : conn[k].alerts = {}
    BY DEF Init, FreeConn
  <2>3. QED
    BY <2>1, <2>2 DEF Known
<1>3. QED
  BY <1>1, <1>2, InitTypes, InitInOrder DEF Keeping

\* A report that was kept is kept, and so is one that has just been made.
LEMMA KeptStep ==
  ASSUME Keeping, TypeOK', [Next]_vars
  PROVE  ReportsKept'
<1> USE DEF Keeping
<1> SUFFICES ASSUME crashes' = 0, NEW r \in said', up'[r[1]], session'[r[1]] = r[2]
             PROVE  \/ Recorded(mem'.deliv[r[3]][r[1]], r[4])
                    \/ <<r[3], r[4]>> \in Entries(pending'[r[1]]) \cup Entries(sending'[r[1]])
  BY DEF ReportsKept, Queued, Entries
<1>1. PICK c \in Clients, a \in Alerts, k \in Kinds : c = r[1] /\ a = r[3] /\ k = r[4]
  BY DEF TypeOK
<1>2. crashes = 0 /\ MemGrows
  BY RecalledStays
<1>3. CASE r \notin said
  BY <1>3, SaidStep DEF JustSaid
<1>4. CASE r \in said
  <2>1. session[c] \in Nat /\ r[2] \in Nat /\ r[2] <= session[c]
    BY <1>1, <1>4 DEF TypeOK, SaidInTime
  <2>2. up[c] /\ session[c] = r[2]
    BY <1>1, <2>1, SessionStep
  <2>3. Recorded(mem.deliv[a][c], k) \/ <<a, k>> \in Queued(c)
    BY <1>1, <1>2, <1>4, <2>2 DEF ReportsKept
  <2>4. CASE Recorded(mem.deliv[a][c], k)
    BY <1>1, <1>2, <2>4, RecordsStay
  <2>5. CASE <<a, k>> \in Queued(c)
    <3>1. QueueKept(c)
      BY <1>1, <1>2, QueueStep
    <3>2. CASE <<a, k>> \in Entries(sending[c]) /\ AllRecorded(c, sending[c])
      <4>1. PICK i \in DOMAIN sending[c] : sending[c][i] = <<a, k>>
        BY <3>2 DEF Entries
      <4>2. sending[c][i][1] = a /\ sending[c][i][2] = k
        BY <4>1
      <4>3. Recorded(mem.deliv[a][c], k)
        BY <3>2, <4>2 DEF AllRecorded
      <4>4. QED
        BY <2>4, <4>3
    <3>3. QED
      BY <1>1, <2>5, <3>1, <3>2 DEF QueueKept
  <2>6. QED
    BY <2>3, <2>4, <2>5
<1>5. QED
  BY <1>3, <1>4

\* While the server keeps its memory and reads every request to its end, a
\* report is with the poller of the process that made it or recorded on the
\* server, for as long as that process lives: through aborted, failed and
\* repeated requests, and whatever happens to the replies.
THEOREM ReportsStay == Spec /\ []NoneCutOff => []ReportsKept
<1>1. Init => Keeping
  BY InitKeeping
<1>2. Keeping /\ NoneCutOff /\ [Next]_vars => Keeping'
  <2> SUFFICES ASSUME Keeping, NoneCutOff, [Next]_vars PROVE Keeping'
    OBVIOUS
  <2>1. TypeOK'
    BY StepTypes DEF Keeping
  <2>2. Linked' /\ LinesInOrder' /\ ScreensInOrder'
    BY <2>1, LinkedStep, LinesStep, TidyStep DEF Keeping
  <2>3. Known' /\ Sent' /\ SaidInTime'
    BY <2>1, KnownStep, SentStep, InTimeStep DEF Keeping
  <2>4. ReportsKept'
    BY <2>1, KeptStep
  <2>5. QED
    BY <2>1, <2>2, <2>3, <2>4 DEF Keeping
<1>3. Keeping => ReportsKept
  BY DEF Keeping
<1>4. QED
  BY <1>1, <1>2, <1>3, PTL DEF Spec

-----------------------------------------------------------------------------
(* Foghorn implements Ledger *)

\* What happened and the records, as the ledger has them.
Happened == {<<r[1], r[3], r[4]>> : r \in said}
Records(m) == [a \in Alerts |-> [c \in Clients |-> Shown(m.deliv[a][c])]]

LEMMA LedgerIs ==
  /\ \A a : L!Post(a) <=>
       /\ mem'.posted = mem.posted \cup {a} /\ mem'.recalled = mem.recalled
       /\ Happened' = Happened /\ Records(mem)' = Records(mem)
  /\ \A a : L!Recall(a) <=>
       /\ a \in mem.posted /\ mem'.recalled = mem.recalled \cup {a}
       /\ mem'.posted = mem.posted
       /\ Happened' = Happened /\ Records(mem)' = Records(mem)
  /\ \A c, a, k : L!Happen(c, a, k) <=>
       /\ L!May(c, a, k) /\ Happened' = Happened \cup {<<c, a, k>>}
       /\ mem'.posted = mem.posted /\ mem'.recalled = mem.recalled
       /\ Records(mem)' = Records(mem)
  /\ \A c : L!Learn(c) <=>
       /\ Records(mem)' \in [Alerts -> [Clients -> L!Record]]
       /\ \A a \in Alerts :
            /\ L!Justified(Records(mem)'[a][c], c, a)
            /\ L!Extends(Records(mem)'[a][c], Records(mem)[a][c])
            /\ \A x \in Clients \ {c} : Records(mem)'[a][x] = Records(mem)[a][x]
       /\ mem'.posted = mem.posted /\ mem'.recalled = mem.recalled
       /\ Happened' = Happened
BY DEF L!Post, L!Recall, L!Happen, L!Learn, Happened, Records

LEMMA HappenedIs ==
  ASSUME TypeOK, NEW c \in Clients, NEW a \in Alerts, NEW k \in Kinds
  PROVE  <<c, a, k>> \in Happened <=> SaidBy(c, a, k)
<1>1. ASSUME NEW r \in said
      PROVE  <<c, a, k>> = <<r[1], r[3], r[4]>> <=> r[1] = c /\ r[3] = a /\ r[4] = k
  OBVIOUS
<1>2. QED
  BY <1>1 DEF Happened, SaidBy

\* The history after a step, in terms of the records after it.
LEMMA RecordsNext ==
  /\ Records(mem)' = [a \in Alerts |-> [c \in Clients |-> Shown(mem'.deliv[a][c])]]
  /\ Happened' = {<<r[1], r[3], r[4]>> : r \in said'}
BY DEF Records, Happened

\* A step that the ledger does not see.
Unseen ==
  /\ mem'.posted = mem.posted /\ mem'.recalled = mem.recalled /\ said' = said
  /\ \A a \in Alerts, c \in Clients : Shown(mem'.deliv[a][c]) = Shown(mem.deliv[a][c])

LEMMA UnseenStep == Unseen => UNCHANGED L!vars
<1> SUFFICES ASSUME Unseen PROVE UNCHANGED L!vars
  OBVIOUS
<1>1. Records(mem)' = Records(mem) /\ Happened' = Happened
  BY RecordsNext DEF Unseen, Records, Happened
<1>2. QED
  BY <1>1 DEF Unseen, Records, Happened, L!vars

\* A report is one more thing that happened.
LEMMA ReportHappens ==
  ASSUME NEW c \in Clients, NEW a \in Alerts, NEW k \in Kinds,
         Report(c, <<<<a, k>>>>), UNCHANGED mem, L!May(c, a, k)
  PROVE  L!Happen(c, a, k)
<1>1. said' = said \cup {<<c, session[c], a, k>>}
  <2> DEFINE s == <<<<a, k>>>>
  <2>1. DOMAIN s = {1} /\ s[1][1] = a /\ s[1][2] = k
    OBVIOUS
  <2>2. said' = said \cup {<<c, session[c], s[i][1], s[i][2]>> : i \in DOMAIN s}
    BY DEF Report
  <2> HIDE DEF s
  <2>3. QED
    BY <2>1, <2>2
<1>2. Happened' = Happened \cup {<<c, a, k>>}
  <2> DEFINE t == <<c, session[c], a, k>>
  <2>1. <<t[1], t[3], t[4]>> = <<c, a, k>> /\ said' = said \cup {t}
    BY <1>1
  <2> HIDE DEF t
  <2>2. QED
    BY <2>1, RecordsNext DEF Happened
<1>3. Records(mem)' = Records(mem)
  BY RecordsNext DEF Records
<1>4. QED
  BY <1>2, <1>3, LedgerIs

\* What the ledger needs to know of Foghorn.
Agreeing ==
  /\ IInv /\ AllCoherent(mem) /\ AllCoherent(disk)
  /\ Linked /\ LinesInOrder /\ ScreensInOrder /\ Known

\* What a client has been given was posted for it.
LEMMA HeldMay ==
  ASSUME Agreeing, crashes = 0, NEW c \in Clients, NEW a \in Alerts, a \in Held(c)
  PROVE  a \in mem.posted /\ c \in Audience[a]
<1>1. mem.deliv[a][c].made
  BY DEF Agreeing, Known
<1>2. QED
  BY <1>1 DEF Agreeing, IInv, Truthful

\* The steps of a screen are what a screen may do.
LEMMA ScreenHappens ==
  ASSUME Agreeing, crashes = 0, [Next]_vars, NEW c \in Clients,
         UIStep(c) \/ \E a \in Alerts : Press(c, a) \/ LifeOver(c, a)
  PROVE  UNCHANGED L!vars \/ \E a \in Alerts, k \in Kinds : L!Happen(c, a, k)
<1>0. /\ ui[c] \in ScreenType /\ TypeOK /\ Tidy(ui[c])
      /\ ui[c].seen \subseteq Held(c) /\ batch[c].alerts \subseteq Held(c)
  BY DEF Agreeing, IInv, TypeOK, ScreensInOrder, Held
<1>1. ASSUME UNCHANGED <<mem, said>>
      PROVE  UNCHANGED L!vars
  BY <1>1, UnseenStep DEF Unseen
<1>2. ASSUME Report(c, <<>>), UNCHANGED mem
      PROVE  UNCHANGED L!vars
  BY <1>1, <1>2 DEF Report
<1>3. ASSUME NEW a \in Alerts, a \in Held(c), Report(c, <<<<a, "displayed">>>>), UNCHANGED mem
      PROVE  \E k \in Kinds : L!Happen(c, a, k)
  <2>1. "displayed" \in Kinds
    BY DEF Kinds
  <2>2. L!May(c, a, "displayed")
    BY <1>3, HeldMay DEF L!May
  <2>3. QED
    BY <1>3, <2>1, <2>2, ReportHappens
<1>4. ASSUME NEW a \in Alerts, NEW k \in Closings \cup {"acknowledged"}, a \in ui[c].open,
             Report(c, <<<<a, k>>>>), UNCHANGED mem,
             /\ k = "acknowledged" => a \in RequireAck
             /\ k = "dismissed" => a \notin RequireAck
             /\ k = "timeout" => a \in Timed
             /\ k = "recalled" => a \in mem.recalled
      PROVE  \E h \in Kinds : L!Happen(c, a, h)
  <2>1. k \in Kinds /\ "displayed" \in Kinds
    BY DEF Kinds
  <2>2. <<c, a, "displayed">> \in Happened
    <3>1. SaidBy(c, a, "displayed")
      BY <1>4 DEF Agreeing, IInv, ScreensHeard
    <3>2. QED
      BY <1>0, <2>1, <3>1, HappenedIs
  <2>3. a \in Held(c)
    BY <1>0, <1>4, SeenFacts
  <2>4. L!May(c, a, k)
    BY <1>4, <2>2, <2>3, HeldMay DEF L!May, Happened
  <2>5. QED
    BY <1>4, <2>1, <2>4, ReportHappens
<1>5. CASE TakeBatch(c) \/ LoopEnds(c)
  BY <1>1, <1>5 DEF TakeBatch, LoopEnds, UIFrame, serverVars
<1>6. CASE OpenNext(c)
  <2>1. PICK i \in DOMAIN ui[c].waiting : Report(c, OpenReport(ui[c].waiting[i]))
    BY <1>6 DEF OpenNext
  <2>2. PICK a \in Alerts : a = ui[c].waiting[i]
    BY <1>0 DEF ScreenType
  <2>3. a \in Held(c) /\ UNCHANGED mem
    BY <1>0, <1>6, <2>1, <2>2, SeenFacts DEF OpenNext, UIFrame, serverVars
  <2>4. Report(c, <<>>) \/ Report(c, <<<<a, "displayed">>>>)
    BY <2>1, <2>2 DEF OpenReport, Displayed
  <2>5. QED
    BY <1>2, <1>3, <2>3, <2>4
<1>7. ASSUME NEW a \in Alerts, HandleAlert(c, a)
      PROVE  UNCHANGED L!vars \/ \E k \in Kinds : L!Happen(c, a, k)
  <2>1. a \in Held(c) /\ UNCHANGED mem
    BY <1>0, <1>7 DEF HandleAlert, UIFrame, serverVars
  <2>2. Report(c, <<>>) \/ Report(c, <<<<a, "displayed">>>>)
    BY <1>7 DEF HandleAlert, ShowReport, OpenReport, Displayed
  <2>3. QED
    BY <1>2, <1>3, <2>1, <2>2
<1>8. ASSUME NEW a \in Alerts, HandleRecall(c, a)
      PROVE  UNCHANGED L!vars \/ \E k \in Kinds : L!Happen(c, a, k)
  <2>1. UNCHANGED mem /\ Report(c, RecallReport(ui[c], a))
    BY <1>8 DEF HandleRecall, UIFrame, serverVars
  <2>2. CASE a \in ui[c].open
    <3>1. a \in mem.recalled
      <4>1. batch[c] \in BatchType /\ inbox[c] \in Seq(BatchType) /\ Coming(c) \in BatchType
        BY <1>0, ComingTypes DEF TypeOK
      <4>2. 0 \in Places(inbox[c]) /\ Nth(batch[c], inbox[c], Coming(c), 0) = batch[c]
        BY <4>1, PlacesFacts, NthFacts DEF NthIs
      <4>3. batch[c].recalls \subseteq mem.recalled
        BY <4>2 DEF Agreeing, LinesInOrder, RecallsLast
      <4>4. QED
        BY <1>8, <4>3 DEF HandleRecall
    <3>2. Report(c, <<<<a, "recalled">>>>) /\ "recalled" \in Closings
      BY <2>1, <2>2 DEF RecallReport, Closings
    <3>3. QED
      BY <1>4, <2>1, <2>2, <3>1, <3>2
  <2>3. CASE a \notin ui[c].open
    BY <1>2, <2>1, <2>3 DEF RecallReport
  <2>4. QED
    BY <2>2, <2>3
<1>9. ASSUME NEW a \in Alerts, Press(c, a)
      PROVE  \E k \in Kinds : L!Happen(c, a, k)
  <2>1. CASE a \in RequireAck
    <3>1. Report(c, <<<<a, "acknowledged">>>>) /\ a \in ui[c].open /\ UNCHANGED mem
      BY <1>9, <2>1 DEF Press, Close, UIFrame, serverVars
    <3>2. QED
      BY <1>4, <2>1, <3>1
  <2>2. CASE a \notin RequireAck
    <3>1. Report(c, <<<<a, "dismissed">>>>) /\ a \in ui[c].open /\ UNCHANGED mem
      BY <1>9, <2>2 DEF Press, Close, UIFrame, serverVars
    <3>2. "dismissed" \in Closings
      BY DEF Closings
    <3>3. QED
      BY <1>4, <2>2, <3>1, <3>2
  <2>3. QED
    BY <2>1, <2>2
<1>10. ASSUME NEW a \in Alerts, LifeOver(c, a)
       PROVE  \E k \in Kinds : L!Happen(c, a, k)
  <2>1. /\ Report(c, <<<<a, "timeout">>>>) /\ a \in ui[c].open /\ UNCHANGED mem
        /\ a \in Timed
    BY <1>10 DEF LifeOver, Close, UIFrame, serverVars
  <2>2. "timeout" \in Closings
    BY DEF Closings
  <2>3. QED
    BY <1>4, <2>1, <2>2
<1>11. QED
  BY <1>5, <1>6, <1>7, <1>8, <1>9, <1>10 DEF UIStep

\* A batch of reports extends a record.
LEMMA BatchExtends ==
  ASSUME NEW d \in DeliveryType, NEW a, NEW s
  PROVE  L!Extends(Shown(AfterBatch(d, a, s)), Shown(d))
<1> DEFINE e == AfterBatch(d, a, s)
<1>1. /\ d.displayed => e.displayed
      /\ d.acked => e.acked
      /\ e.closed = d.closed \/ e.closed = "acknowledged" \/ d.closed = ""
  <2>1. CASE ~d.made
    BY <2>1 DEF AfterBatch
  <2>2. CASE d.made
    <3>1. /\ d.displayed => e.displayed
          /\ d.acked => e.acked
          /\ e.closed = ClosedAfter(d, a, s)
      BY <2>2 DEF AfterBatch, DeliveryType
    <3>2. \/ ClosedAfter(d, a, s) = d.closed \/ ClosedAfter(d, a, s) = "acknowledged"
          \/ d.closed = ""
      BY Zenon DEF ClosedAfter
    <3> HIDE DEF e
    <3>3. QED
      BY <3>1, <3>2
  <2>3. QED
    BY <2>1, <2>2
<1> HIDE DEF e
<1>2. /\ Shown(e).displayed = e.displayed /\ Shown(e).acked = e.acked
      /\ Shown(e).closed = e.closed /\ Shown(d).displayed = d.displayed
      /\ Shown(d).acked = d.acked /\ Shown(d).closed = d.closed
  BY DEF Shown
<1>3. L!Extends(Shown(e), Shown(d))
  BY <1>1, <1>2, Zenon DEF L!Extends
<1>4. QED
  BY <1>3 DEF e

\* A record that claims what has happened, and is coherent, is justified.
LEMMA RecordJustified ==
  ASSUME TypeOK, NEW d \in DeliveryType, NEW c \in Clients, NEW a \in Alerts,
         Coherent(d),
         d.displayed => SaidBy(c, a, "displayed"),
         d.closed # "" => SaidBy(c, a, d.closed)
  PROVE  L!Justified(Shown(d), c, a) /\ Shown(d) \in L!Record
<1>1. d.closed # "" => d.closed \in Kinds
  BY DEF DeliveryType, Kinds
<1>2. "displayed" \in Kinds
  BY DEF Kinds
<1>3. /\ d.displayed => <<c, a, "displayed">> \in Happened
      /\ d.closed # "" => <<c, a, d.closed>> \in Happened
  BY <1>1, <1>2, HappenedIs
<1>4. (d.acked <=> d.closed = "acknowledged") /\ (d.acked => d.displayed)
  BY DEF Coherent
<1>5. /\ Shown(d).displayed = d.displayed /\ Shown(d).acked = d.acked
      /\ Shown(d).closed = d.closed
  BY DEF Shown
<1>6. L!Justified(Shown(d), c, a)
  BY <1>3, <1>4, <1>5 DEF L!Justified, Happened
<1>7. Shown(d) \in L!Record
  <2>1. L!Record = [displayed : BOOLEAN, acked : BOOLEAN,
                    closed : Closings \cup {"", "acknowledged"}]
    BY DEF L!Record, L!Closings, Closings
  <2>2. d.closed \in Closings \cup {"", "acknowledged"}
    BY DEF DeliveryType
  <2>3. d.displayed \in BOOLEAN /\ d.acked \in BOOLEAN
    BY DEF DeliveryType
  <2>4. QED
    BY <2>1, <2>2, <2>3 DEF Shown
<1>8. QED
  BY <1>6, <1>7

\* The requests of a client are what the server learns.
LEMMA ArriveLearns ==
  ASSUME Agreeing, Agreeing', [Next]_vars, crashes' = 0, NEW k \in Conns, Arrive(k)
  PROVE  UNCHANGED L!vars \/ \E c \in Clients : L!Learn(c)
<1> DEFINE c == conn[k].client
<1>0. /\ TypeOK /\ TypeOK' /\ said' = said
      /\ mem'.posted = mem.posted /\ mem'.recalled = mem.recalled
      /\ mem.deliv \in [Alerts -> [Clients -> DeliveryType]]
      /\ \A a \in Alerts, x \in Clients :
           mem'.deliv[a][x] = IF x = c THEN AfterBatch(mem.deliv[a][x], a, Kept(conn[k].events))
                              ELSE mem.deliv[a][x]
  BY DEF Agreeing, IInv, Arrive, TypeOK, MemType, screenVars
<1>1. CASE c \notin Clients
  <2>1. Unseen
    BY <1>0, <1>1 DEF Unseen
  <2>2. QED
    BY <2>1, UnseenStep
<1>2. CASE c \in Clients
  <2>1. ASSUME NEW a \in Alerts, NEW x \in Clients
        PROVE  /\ L!Justified(Shown(mem'.deliv[a][x]), x, a)
               /\ Shown(mem'.deliv[a][x]) \in L!Record
    <3>1. PICK e \in DeliveryType : e = mem'.deliv[a][x]
      BY <1>0 DEF TypeOK, MemType
    <3>2. Coherent(e)
      BY <3>1 DEF Agreeing, AllCoherent
    <3>3. /\ e.displayed => SaidBy(x, a, "displayed")
          /\ e.closed # "" => SaidBy(x, a, e.closed)
      <4>1. MemGrows /\ IInv
        BY RecalledStays DEF Agreeing, IInv, Arrive, boundVars
      <4>2. QED
        BY <3>1, <4>1, ClaimsStep
    <3>4. L!Justified(Shown(e), x, a) /\ Shown(e) \in L!Record
      BY <1>0, <3>2, <3>3, RecordJustified
    <3>5. QED
      BY <3>1, <3>4
  <2>2. ASSUME NEW a \in Alerts
        PROVE  /\ L!Extends(Shown(mem'.deliv[a][c]), Shown(mem.deliv[a][c]))
               /\ \A x \in Clients \ {c} : Shown(mem'.deliv[a][x]) = Shown(mem.deliv[a][x])
    <3>1. PICK d \in DeliveryType : d = mem.deliv[a][c]
      BY <1>0, <1>2
    <3>2. L!Extends(Shown(AfterBatch(d, a, Kept(conn[k].events))), Shown(d))
      BY BatchExtends
    <3>3. QED
      BY <1>0, <1>2, <3>1, <3>2
  <2>3. \A a \in Alerts, x \in Clients :
          /\ Records(mem)'[a][x] = Shown(mem'.deliv[a][x])
          /\ Records(mem)[a][x] = Shown(mem.deliv[a][x])
    BY RecordsNext DEF Records
  <2>4. Records(mem)' \in [Alerts -> [Clients -> L!Record]]
    BY <2>1, RecordsNext
  <2>5. Happened' = Happened
    BY <1>0, RecordsNext DEF Happened
  <2> HIDE DEF c
  <2>6. L!Learn(c)
    BY <1>0, <1>2, <2>1, <2>2, <2>3, <2>4, <2>5, LedgerIs
  <2>7. QED
    BY <1>2, <2>6
<1>3. QED
  BY <1>1, <1>2

\* The other steps of the server.
LEMMA ServerUnseen ==
  ASSUME TypeOK, NEW k \in Conns, Look(k) \/ HoldOver(k) \/ Vanish(k)
  PROVE  Unseen
<1>1. CASE Look(k)
  <2> DEFINE c == conn[k].client
  <2>1. /\ mem'.posted = mem.posted /\ mem'.recalled = mem.recalled /\ said' = said
        /\ \A a \in Alerts, x \in Clients :
             mem'.deliv[a][x] \in {mem.deliv[a][x], AfterSend(mem.deliv[a][x], csid[c]),
                                   AfterRecallSent(mem.deliv[a][x])}
    BY <1>1 DEF Look, TypeOK, MemType, screenVars
  <2>2. \A d \in DeliveryType : /\ Shown(AfterSend(d, csid[c])) = Shown(d)
                                /\ Shown(AfterRecallSent(d)) = Shown(d)
    BY DEF DeliveryType, AfterSend, AfterRecallSent, Shown
  <2> HIDE DEF c
  <2>3. \A a \in Alerts, x \in Clients : mem.deliv[a][x] \in DeliveryType
    BY DEF TypeOK, MemType
  <2>4. QED
    BY <2>1, <2>2, <2>3 DEF Unseen
<1>2. CASE HoldOver(k) \/ Vanish(k)
  BY <1>2 DEF HoldOver, Vanish, Unseen, serverVars, screenVars
<1>3. QED
  BY <1>1, <1>2

\* The staff's steps, and what time does to the records.
LEMMA StaffLedger ==
  ASSUME TypeOK, NEW a \in Alerts
  PROVE  /\ Post(a) => L!Post(a)
         /\ Recall(a) => L!Recall(a)
         /\ Expire(a) \/ RecallAges(a) \/ (\E c \in Clients : SendAges(a, c)) => Unseen
<1>0. mem \in MemType
  BY DEF TypeOK
<1>1. ASSUME mem'.deliv = mem.deliv, said' = said
      PROVE  Records(mem)' = Records(mem) /\ Happened' = Happened
  BY <1>1, RecordsNext DEF Records, Happened
<1>2. ASSUME Post(a)
      PROVE  L!Post(a)
  <2>1. /\ mem'.posted = mem.posted \cup {a} /\ mem'.recalled = mem.recalled
        /\ mem'.deliv = mem.deliv /\ said' = said
    BY <1>0, <1>2 DEF Post, MemType, screenVars
  <2>2. QED
    BY <1>1, <2>1, LedgerIs
<1>3. ASSUME Recall(a)
      PROVE  L!Recall(a)
  <2>1. /\ mem'.recalled = mem.recalled \cup {a} /\ mem'.posted = mem.posted
        /\ mem'.deliv = mem.deliv /\ said' = said /\ a \in mem.posted
    BY <1>0, <1>3 DEF Recall, MemType, screenVars
  <2>2. QED
    BY <1>1, <2>1, LedgerIs
<1>4. ASSUME Expire(a) \/ RecallAges(a)
      PROVE  Unseen
  <2>1. /\ mem'.recalled = mem.recalled /\ mem'.posted = mem.posted
        /\ mem'.deliv = mem.deliv /\ said' = said
    BY <1>0, <1>4 DEF Expire, RecallAges, MemType, screenVars
  <2>2. QED
    BY <2>1 DEF Unseen
<1>5. ASSUME NEW c \in Clients, SendAges(a, c)
      PROVE  Unseen
  <2>1. /\ mem'.recalled = mem.recalled /\ mem'.posted = mem.posted /\ said' = said
        /\ \A b \in Alerts, x \in Clients :
             mem'.deliv[b][x] \in {mem.deliv[b][x], [mem.deliv[b][x] EXCEPT !.stale = TRUE]}
    BY <1>0, <1>5 DEF SendAges, MemType, screenVars
  <2>2. \A d \in DeliveryType : Shown([d EXCEPT !.stale = TRUE]) = Shown(d)
    BY DEF DeliveryType, Shown
  <2>3. \A b \in Alerts, x \in Clients : mem.deliv[b][x] \in DeliveryType
    BY <1>0 DEF MemType
  <2>4. QED
    BY <2>1, <2>2, <2>3 DEF Unseen
<1>6. QED
  BY <1>2, <1>3, <1>4, <1>5

\* While the server keeps its memory, every step of Foghorn is one of the
\* ledger or leaves it alone.
LEMMA LedgerStep ==
  ASSUME Agreeing, Agreeing', [Next]_vars, crashes' = 0
  PROVE  [L!Next]_(L!vars)
<1>0. TypeOK /\ TypeOK' /\ crashes = 0 /\ L!Kinds = Kinds
  BY RecalledStays DEF Agreeing, IInv, L!Kinds, L!Closings, Kinds, Closings
<1>1. ASSUME UNCHANGED <<mem, said>>
      PROVE  UNCHANGED L!vars
  BY <1>1, UnseenStep DEF Unseen
<1>2. ASSUME NEW a \in Alerts, Post(a) \/ Recall(a) \/ Expire(a) \/ RecallAges(a)
      PROVE  L!Next \/ UNCHANGED L!vars
  BY <1>0, <1>2, StaffLedger, UnseenStep DEF L!Next
<1>3. ASSUME NEW a \in Alerts, NEW c \in Clients, SendAges(a, c)
      PROVE  UNCHANGED L!vars
  BY <1>0, <1>3, StaffLedger, UnseenStep
<1>4. ASSUME NEW c \in Clients,
             UIStep(c) \/ \E a \in Alerts : Press(c, a) \/ LifeOver(c, a)
      PROVE  L!Next \/ UNCHANGED L!vars
  <2>1. UNCHANGED L!vars \/ \E a \in Alerts, k \in Kinds : L!Happen(c, a, k)
    BY <1>0, <1>4, ScreenHappens
  <2>2. QED
    BY <1>0, <2>1 DEF L!Next
<1>5. ASSUME NEW k \in Conns, Arrive(k)
      PROVE  L!Next \/ UNCHANGED L!vars
  BY <1>5, ArriveLearns DEF L!Next
<1>6. ASSUME NEW k \in Conns, Look(k) \/ HoldOver(k) \/ Vanish(k)
      PROVE  UNCHANGED L!vars
  BY <1>0, <1>6, ServerUnseen, UnseenStep
<1>7. ASSUME NEW c \in Clients,
             PollerStep(c) \/ Logon(c) \/ Logoff(c) \/ \E k \in Conns : Fault(c, k)
      PROVE  UNCHANGED <<mem, said>>
  BY <1>7 DEF PollerStep, Take, NotYet, Submit, Receive, Fail, Fault, Logon, Logoff,
              serverVars, screenVars
<1>8. Flush \/ UNCHANGED vars => UNCHANGED <<mem, said>>
  BY DEF Flush, vars, serverVars, screenVars
<1>9. ~Crash
  BY <1>0 DEF Crash
<1>10. L!Next \/ UNCHANGED L!vars
  BY <1>1, <1>2, <1>3, <1>4, <1>5, <1>6, <1>7, <1>8, <1>9 DEF Next, ServerStep
<1>11. QED
  BY <1>10

LEMMA InitLedger == Init => L!Init
<1> SUFFICES ASSUME Init PROVE L!Init
  OBVIOUS
<1>1. Shown(NoDelivery) = L!Blank
  BY DEF Shown, NoDelivery, L!Blank
<1>2. mem.posted = {} /\ mem.recalled = {} /\ said = {}
  BY DEF Init, EmptyMem
<1>3. \A a \in Alerts, c \in Clients : mem.deliv[a][c] = NoDelivery
  BY DEF Init, EmptyMem
<1>4. QED
  BY <1>1, <1>2, <1>3 DEF L!Init

\* While the server keeps its memory, Foghorn is an implementation of the
\* ledger: sessions, requests, queues and replies added, the history page
\* follows what happened on the screens, and takes nothing back.
THEOREM FoghornKeepsTheLedger == Spec /\ [](crashes = 0) => ImplementsLedger
<1>1. Init => Agreeing
  BY InitHeard, InitCoherent, InitKeeping DEF Agreeing, Keeping
<1>2. Agreeing /\ [Next]_vars => Agreeing'
  <2> SUFFICES ASSUME Agreeing, [Next]_vars PROVE Agreeing'
    OBVIOUS
  <2>1. TypeOK /\ TypeOK'
    BY StepTypes DEF Agreeing, IInv
  <2>2. IInv'
    BY <2>1, QueuesStep, ScreensStep, TruthfulStep DEF Agreeing, IInv
  <2>3. AllCoherent(mem)' /\ AllCoherent(disk)'
    BY <2>1, CoherentStep DEF Agreeing, AllCoherent
  <2>4. Linked' /\ LinesInOrder' /\ ScreensInOrder'
    BY <2>1, LinkedStep, LinesStep, TidyStep DEF Agreeing
  <2>5. Known'
    BY <2>1, KnownStep DEF Agreeing
  <2>6. QED
    BY <2>2, <2>3, <2>4, <2>5 DEF Agreeing
<1>3. Agreeing /\ Agreeing' /\ [Next]_vars /\ (crashes = 0)' => [L!Next]_(L!vars)
  BY LedgerStep
<1>4. Init => L!Init
  BY InitLedger
<1>5. QED
  BY <1>1, <1>2, <1>3, <1>4, PTL DEF Spec, ImplementsLedger, L!Spec
=============================================================================
