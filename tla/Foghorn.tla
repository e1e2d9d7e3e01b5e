------------------------------ MODULE Foghorn -------------------------------
(***************************************************************************)
(* An alert from the staff request that sends it to the screens that show  *)
(* it, and what happened there back into the server's history: the store   *)
(* and handlePoll of the server (server/api_client.go, api_admin.go), the  *)
(* poller and the UI thread of each client (client/src/Poller.cs,          *)
(* Program.cs, AlertForm.cs), and the HTTP connections between them.       *)
(*                                                                         *)
(* One step is one critical section of the store lock or of the poller's   *)
(* gate, or one turn of the UI thread between two reports.  The sleep of a *)
(* held poll is a single stage here: LongPoll.tla shows that a wake-up is  *)
(* never lost.  The hold timer, the resend age, the expiry and the recall  *)
(* window are steps that may come at any time.                             *)
(*                                                                         *)
(* A connection outlives the client's interest in it: the handler of a     *)
(* request the client has aborted may still run, before or after newer     *)
(* requests, on the same client record.                                    *)
(***************************************************************************)
EXTENDS Delivery, AlertManager

CONSTANTS Clients,     \* one per computer and user (clientIDFor)
          Conns,       \* the connections that can exist at a time
          None,
          Audience,    \* the clients whose facts match an alert's rules
          Recallable,  \* bound: the alerts staff may recall
          Expiring,    \* bound: the alerts whose delivery may end by time
          MaxSession,  \* bound: logons per client
          MaxCrash,    \* bound: crashes of the server
          MaxFault,    \* bound: polls that fail by the network or a timeout
          MaxInbox     \* bound: replies the UI thread has not taken yet

ASSUME FoghornAssumption ==
  /\ None \notin Clients \cup Conns
  /\ Audience \in [Alerts -> SUBSET Clients]
  /\ Recallable \subseteq Alerts /\ Expiring \subseteq Alerts
  /\ MaxSession \in Nat /\ MaxCrash \in Nat /\ MaxFault \in Nat
  /\ MaxInbox \in Nat \ {0}

VARIABLES
  \* the server
  mem,       \* the alert list in memory: posted, recalled, tooOld, deliv
  disk,      \* the alert list a restart would read
  issued,    \* the alert ids ever given out
  expired,   \* the alerts whose ExpiresAt has passed
  csid,      \* ClientInfo.SID: the session of the last request
  \* between them
  conn,
  \* the clients
  up,        \* the user is logged on
  session,   \* Identity.SessionId of the current or last process
  poller,    \* where Loop is
  current,   \* Poller.current: the connection of the request it waits on
  pending,   \* Poller.pending
  sending,   \* the local list of Loop
  aborted,   \* Poller.abortedByUs
  inbox,     \* the replies posted to the UI thread
  batch,     \* what is left of the one it is handling
  ui,        \* its AlertManager
  \* history, read by no action
  said,      \* every report ever made
  downed,    \* the alerts each screen took down on a recall, this session
  \* what is used up of the bounds
  crashes, faults

serverVars == <<mem, disk, issued, expired, csid>>
pollVars   == <<poller, current, pending, sending, aborted>>
screenVars == <<inbox, batch, ui, said, downed>>
userVars   == <<up, session>>
boundVars  == <<crashes, faults>>
vars == <<serverVars, conn, pollVars, screenVars, userVars, boundVars>>

EmptyMem == [posted |-> {}, recalled |-> {}, tooOld |-> {},
             deliv |-> [a \in Alerts |-> [c \in Clients |-> NoDelivery]]]

FreeConn == [stage |-> "free", client |-> None, sid |-> 0,
             events |-> <<>>, alerts |-> {}, recalls |-> {}]

EmptyBatch == [alerts |-> {}, recalls |-> {}]

Init ==
  /\ mem = EmptyMem /\ disk = EmptyMem
  /\ issued = {} /\ expired = {}
  /\ csid = [c \in Clients |-> 0]
  /\ conn = [k \in Conns |-> FreeConn]
  /\ up = [c \in Clients |-> FALSE]
  /\ session = [c \in Clients |-> 0]
  /\ poller = [c \in Clients |-> "rest"]
  /\ current = [c \in Clients |-> None]
  /\ pending = [c \in Clients |-> <<>>]
  /\ sending = [c \in Clients |-> <<>>]
  /\ aborted = [c \in Clients |-> FALSE]
  /\ inbox = [c \in Clients |-> <<>>]
  /\ batch = [c \in Clients |-> EmptyBatch]
  /\ ui = [c \in Clients |-> EmptyScreen]
  /\ said = {}
  /\ downed = [c \in Clients |-> {}]
  /\ crashes = 0 /\ faults = 0

\* No client reads from connection k any more.
Abandoned(k) == \A c \in Clients : current[c] # k

-----------------------------------------------------------------------------
(* Staff *)

\* hub.wake: every held poll looks again.
AllAwake == [k \in Conns |-> IF conn[k].stage = "asleep"
                               THEN [conn[k] EXCEPT !.stage = "look"]
                               ELSE conn[k]]

\* handleSendAlert: a new id, in the list, no deliveries yet.
Post(a) ==
  /\ a \notin issued
  /\ issued' = issued \cup {a}
  /\ mem' = [mem EXCEPT !.posted = @ \cup {a}]
  /\ conn' = AllAwake
  /\ UNCHANGED <<disk, expired, csid, pollVars, screenVars, userVars, boundVars>>

\* handleRecallAlert.
Recall(a) ==
  /\ a \in (mem.posted \cap Recallable) \ mem.recalled
  /\ mem' = [mem EXCEPT !.recalled = @ \cup {a}]
  /\ conn' = AllAwake
  /\ UNCHANGED <<disk, issued, expired, csid, pollVars, screenVars, userVars,
                 boundVars>>

-----------------------------------------------------------------------------
(* Time *)

Expire(a) ==
  /\ a \in (issued \cap Expiring) \ expired
  /\ expired' = expired \cup {a}
  /\ UNCHANGED <<mem, disk, issued, csid, conn, pollVars, screenVars, userVars,
                 boundVars>>

\* recallWindow after RecalledAt.
RecallAges(a) ==
  /\ a \in mem.recalled \ mem.tooOld
  /\ mem' = [mem EXCEPT !.tooOld = @ \cup {a}]
  /\ UNCHANGED <<disk, issued, expired, csid, conn, pollVars, screenVars,
                 userVars, boundVars>>

\* resendAfter after SentAt; read only while the display is not confirmed.
SendAges(a, c) ==
  /\ mem.deliv[a][c].made
  /\ ~mem.deliv[a][c].stale
  /\ ~mem.deliv[a][c].displayed
  /\ mem' = [mem EXCEPT !.deliv[a][c].stale = TRUE]
  /\ UNCHANGED <<disk, issued, expired, csid, conn, pollVars, screenVars,
                 userVars, boundVars>>

-----------------------------------------------------------------------------
(* handlePoll, on connection k *)

\* touchClient and applyEvents, one critical section.
Arrive(k) ==
  /\ conn[k].stage = "request"
  /\ LET c == conn[k].client IN
       /\ csid' = [csid EXCEPT ![c] = conn[k].sid]
       /\ mem' = [mem EXCEPT !.deliv =
            [a \in Alerts |->
               [mem.deliv[a] EXCEPT ![c] = AfterBatch(@, a, Kept(conn[k].events))]]]
  /\ conn' = [conn EXCEPT ![k].stage = "look", ![k].events = <<>>]
  /\ UNCHANGED <<disk, issued, expired, pollVars, screenVars, userVars, boundVars>>

\* The two answers of pendingFor.  The session is the one in the client
\* record, whichever request wrote it.
ToSend(c) ==
  {a \in (mem.posted \ mem.recalled) \ expired :
     c \in Audience[a] /\ Wanted(mem.deliv[a][c], a, csid[c])}
ToRecall(c) ==
  {a \in (mem.posted \cap mem.recalled) \ mem.tooOld :
     RecallDue(mem.deliv[a][c])}

\* writeJSON: an answer nobody reads is as good as none.
Answer(k, s, r) ==
  conn' = [conn EXCEPT ![k] =
    IF Abandoned(k) THEN FreeConn
    ELSE [@ EXCEPT !.stage = "reply", !.alerts = s, !.recalls = r]]

\* pendingFor: what is returned is marked before it has left.  With nothing
\* to say the handler goes to sleep.
Look(k) ==
  /\ conn[k].stage = "look"
  /\ LET c == conn[k].client
         s == ToSend(c)
         r == ToRecall(c)
     IN /\ mem' = [mem EXCEPT !.deliv =
             [a \in Alerts |->
                [mem.deliv[a] EXCEPT ![c] =
                   IF a \in s THEN AfterSend(@, csid[c])
                   ELSE IF a \in r THEN AfterRecallSent(@) ELSE @]]]
        /\ IF s \cup r = {} THEN conn' = [conn EXCEPT ![k].stage = "asleep"]
                            ELSE Answer(k, s, r)
  /\ UNCHANGED <<disk, issued, expired, csid, pollVars, screenVars, userVars,
                 boundVars>>

\* The hold timer: an empty answer.
HoldOver(k) ==
  /\ conn[k].stage = "asleep"
  /\ Answer(k, {}, {})
  /\ UNCHANGED <<serverVars, pollVars, screenVars, userVars, boundVars>>

\* A request nobody waits for ends before it is answered: it is never read,
\* or cancelled in the select (r.Context().Done()).
Vanish(k) ==
  /\ conn[k].stage # "free"
  /\ Abandoned(k)
  /\ conn' = [conn EXCEPT ![k] = FreeConn]
  /\ UNCHANGED <<serverVars, pollVars, screenVars, userVars, boundVars>>

-----------------------------------------------------------------------------
(* The server's process *)

\* Store.flush, taken as one step (Store.tla opens it); kept track of only
\* while a crash can still come.
Flush ==
  /\ crashes < MaxCrash
  /\ disk # mem
  /\ disk' = mem
  /\ UNCHANGED <<mem, issued, expired, csid, conn, pollVars, screenVars,
                 userVars, boundVars>>

\* The process dies and starts again from the files.  The session in a client
\* record is written by the next request before anything reads it.
Crash ==
  /\ crashes < MaxCrash
  /\ crashes' = crashes + 1
  /\ mem' = disk
  /\ csid' = [c \in Clients |-> 0]
  /\ conn' = [k \in Conns |->
                IF conn[k].stage = "free" \/ Abandoned(k) THEN FreeConn
                ELSE [conn[k] EXCEPT !.stage = "dead"]]
  /\ UNCHANGED <<disk, issued, expired, pollVars, screenVars, userVars, faults>>

-----------------------------------------------------------------------------
(* The poller's thread: Loop and Send *)

\* Take what is pending (the lock at the head of the loop).
Take(c) ==
  /\ up[c]
  /\ poller[c] = "rest"
  /\ sending' = [sending EXCEPT ![c] = pending[c]]
  /\ pending' = [pending EXCEPT ![c] = <<>>]
  /\ aborted' = [aborted EXCEPT ![c] = FALSE]
  /\ poller' = [poller EXCEPT ![c] = "built"]
  /\ UNCHANGED <<serverVars, conn, current, screenVars, userVars, boundVars>>

\* The client lets go of connection k: an answer on its way is lost with it,
\* a request the server has not answered stays where it is.
LetGo(k) ==
  conn' = IF conn[k].stage \in {"reply", "dead"}
            THEN [conn EXCEPT ![k] = FreeConn] ELSE conn

\* Mutant of PutBack: what was being sent is dropped.
PutBackNothing(c) ==
  /\ sending' = [sending EXCEPT ![c] = <<>>]
  /\ current' = [current EXCEPT ![c] = None]
  /\ poller' = [poller EXCEPT ![c] = "rest"]
  /\ UNCHANGED pending

\* The catch block of Loop: what was being sent goes back in front.
PutBack(c) ==
  /\ pending' = [pending EXCEPT ![c] = sending[c] \o @]
  /\ sending' = [sending EXCEPT ![c] = <<>>]
  /\ current' = [current EXCEPT ![c] = None]
  /\ poller' = [poller EXCEPT ![c] = "rest"]

\* The check under the lock of Send: news since the request was built sends
\* the loop round again.
NotYet(c) ==
  /\ poller[c] = "built"
  /\ pending[c] # <<>>
  /\ PutBack(c)
  /\ aborted' = [aborted EXCEPT ![c] = TRUE]
  /\ UNCHANGED <<serverVars, conn, screenVars, userVars, boundVars>>

\* The request goes out.
Submit(c, k) ==
  /\ poller[c] = "built"
  /\ pending[c] = <<>>
  /\ conn[k].stage = "free"
  /\ Abandoned(k)
  /\ conn' = [conn EXCEPT ![k] =
       [stage |-> "request", client |-> c, sid |-> session[c],
        events |-> sending[c], alerts |-> {}, recalls |-> {}]]
  /\ current' = [current EXCEPT ![c] = k]
  /\ poller' = [poller EXCEPT ![c] = "sending"]
  /\ UNCHANGED <<serverVars, pending, sending, aborted, screenVars, userVars,
                 boundVars>>

\* Mutant of Receive: an answer clears the list, and with it the reports
\* made while it was on its way.
ReceiveClears(c, k) ==
  /\ current[c] = k
  /\ conn[k].stage = "reply"
  /\ LET r == [alerts |-> conn[k].alerts, recalls |-> conn[k].recalls] IN
       IF r = EmptyBatch THEN UNCHANGED inbox
       ELSE /\ Len(inbox[c]) < MaxInbox
            /\ inbox' = [inbox EXCEPT ![c] = Append(@, r)]
  /\ conn' = [conn EXCEPT ![k] = FreeConn]
  /\ current' = [current EXCEPT ![c] = None]
  /\ sending' = [sending EXCEPT ![c] = <<>>]
  /\ pending' = [pending EXCEPT ![c] = <<>>]
  /\ poller' = [poller EXCEPT ![c] = "rest"]
  /\ UNCHANGED <<serverVars, aborted, batch, ui, said, downed, userVars, boundVars>>

\* The answer has been read, even if an abort came too late to stop it, and
\* Deliver posts what it says to the UI thread.
Receive(c, k) ==
  /\ current[c] = k
  /\ conn[k].stage = "reply"
  /\ LET r == [alerts |-> conn[k].alerts, recalls |-> conn[k].recalls] IN
       IF r = EmptyBatch THEN UNCHANGED inbox
       ELSE /\ Len(inbox[c]) < MaxInbox
            /\ inbox' = [inbox EXCEPT ![c] = Append(@, r)]
  /\ conn' = [conn EXCEPT ![k] = FreeConn]
  /\ current' = [current EXCEPT ![c] = None]
  /\ sending' = [sending EXCEPT ![c] = <<>>]
  /\ poller' = [poller EXCEPT ![c] = "rest"]
  /\ UNCHANGED <<serverVars, pending, aborted, batch, ui, said, downed,
                 userVars, boundVars>>

\* The request throws: QueueEvent has aborted it, or the server has died.
\* What the server does with the request is another matter.
Fail(c, k) ==
  /\ current[c] = k
  /\ aborted[c] \/ conn[k].stage = "dead"
  /\ PutBack(c)
  /\ LetGo(k)
  /\ UNCHANGED <<serverVars, aborted, screenVars, userVars, boundVars>>

\* The request throws: the network, or the 45-second timeout.
Fault(c, k) ==
  /\ current[c] = k
  /\ faults < MaxFault
  /\ faults' = faults + 1
  /\ PutBack(c)
  /\ LetGo(k)
  /\ UNCHANGED <<serverVars, aborted, screenVars, userVars, crashes>>

-----------------------------------------------------------------------------
(* The UI thread *)

\* QueueEvent: into the list, and the current request is aborted.
Report(c, r) ==
  /\ pending' = [pending EXCEPT ![c] = @ \o r]
  /\ aborted' = [aborted EXCEPT ![c] = @ \/ (r # <<>> /\ current[c] # None)]
  /\ said' = said \cup {<<c, session[c], r[i][1], r[i][2]>> : i \in DOMAIN r}

\* The windows and the reports are what these steps change.
UIFrame == UNCHANGED <<serverVars, conn, poller, current, sending, userVars,
                       boundVars>>

\* BeginInvoke runs the delegate of the oldest reply.
TakeBatch(c) ==
  /\ ~ui[c].opening
  /\ batch[c] = EmptyBatch
  /\ inbox[c] # <<>>
  /\ batch' = [batch EXCEPT ![c] = Head(inbox[c])]
  /\ inbox' = [inbox EXCEPT ![c] = Tail(@)]
  /\ UNCHANGED <<pollVars, ui, said, downed>>
  /\ UIFrame

\* It takes the recalls first ...
HandleRecall(c, a) ==
  /\ ~ui[c].opening
  /\ a \in batch[c].recalls
  /\ batch' = [batch EXCEPT ![c].recalls = @ \ {a}]
  /\ ui' = [ui EXCEPT ![c] = AfterRecall(@, a)]
  /\ downed' = [downed EXCEPT ![c] = @ \cup {a}]
  /\ Report(c, RecallReport(ui[c], a))
  /\ UNCHANGED inbox
  /\ UIFrame

\* ... and then the alerts.
HandleAlert(c, a) ==
  /\ ~ui[c].opening
  /\ batch[c].recalls = {}
  /\ a \in batch[c].alerts
  /\ batch' = [batch EXCEPT ![c].alerts = @ \ {a}]
  /\ ui' = [ui EXCEPT ![c] = AfterShow(@, a)]
  /\ Report(c, ShowReport(ui[c], a))
  /\ UNCHANGED <<inbox, downed>>
  /\ UIFrame

\* The loop of OnFinished, one waiting alert at a time.
OpenNext(c) ==
  /\ ui[c].opening
  /\ \E i \in DOMAIN ui[c].waiting :
       /\ IsNext(ui[c], i)
       /\ ui' = [ui EXCEPT ![c] = AfterOpenNext(@, i)]
       /\ Report(c, OpenReport(ui[c].waiting[i]))
  /\ UNCHANGED <<inbox, batch, downed>>
  /\ UIFrame

LoopEnds(c) ==
  /\ ui[c].opening
  /\ \A i \in DOMAIN ui[c].waiting : ~IsNext(ui[c], i)
  /\ ui' = [ui EXCEPT ![c] = AfterLoop(@)]
  /\ UNCHANGED <<pollVars, inbox, batch, said, downed>>
  /\ UIFrame

\* The UI thread is free, so a window can be closed.
Close(c, a, reason) ==
  /\ ~ui[c].opening
  /\ batch[c] = EmptyBatch
  /\ a \in ui[c].open
  /\ ui' = [ui EXCEPT ![c] = AfterFinish(@, a)]
  /\ Report(c, <<<<a, reason>>>>)
  /\ UNCHANGED <<inbox, batch, downed>>
  /\ UIFrame

\* CloseByButton, or Alt+F4 where no confirmation is needed.
Press(c, a) ==
  Close(c, a, IF a \in RequireAck THEN "acknowledged" ELSE "dismissed")

\* TickLife.
LifeOver(c, a) == a \in Timed /\ Close(c, a, "timeout")

-----------------------------------------------------------------------------
(* The user's session: one client process each *)

Logon(c) ==
  /\ ~up[c]
  /\ session[c] < MaxSession
  /\ up' = [up EXCEPT ![c] = TRUE]
  /\ session' = [session EXCEPT ![c] = @ + 1]
  /\ UNCHANGED <<serverVars, conn, pollVars, screenVars, boundVars>>

\* Everything the process held is gone; its request may still be served.
Logoff(c) ==
  /\ up[c]
  /\ up' = [up EXCEPT ![c] = FALSE]
  /\ poller' = [poller EXCEPT ![c] = "rest"]
  /\ current' = [current EXCEPT ![c] = None]
  /\ pending' = [pending EXCEPT ![c] = <<>>]
  /\ sending' = [sending EXCEPT ![c] = <<>>]
  /\ aborted' = [aborted EXCEPT ![c] = FALSE]
  /\ inbox' = [inbox EXCEPT ![c] = <<>>]
  /\ batch' = [batch EXCEPT ![c] = EmptyBatch]
  /\ ui' = [ui EXCEPT ![c] = EmptyScreen]
  /\ downed' = [downed EXCEPT ![c] = {}]
  /\ IF current[c] = None THEN UNCHANGED conn ELSE LetGo(current[c])
  /\ UNCHANGED <<serverVars, session, said, boundVars>>

-----------------------------------------------------------------------------
ServerStep(k) == Arrive(k) \/ Look(k) \/ HoldOver(k)
PollerStep(c) ==
  \/ Take(c) \/ NotYet(c)
  \/ \E k \in Conns : Submit(c, k) \/ Receive(c, k) \/ Fail(c, k)
UIStep(c) ==
  \/ TakeBatch(c) \/ OpenNext(c) \/ LoopEnds(c)
  \/ \E a \in Alerts : HandleRecall(c, a) \/ HandleAlert(c, a)

Next ==
  \/ \E a \in Alerts : Post(a) \/ Recall(a) \/ Expire(a) \/ RecallAges(a)
  \/ \E a \in Alerts, c \in Clients :
       SendAges(a, c) \/ Press(c, a) \/ LifeOver(c, a)
  \/ \E k \in Conns : ServerStep(k) \/ Vanish(k)
  \/ \E c \in Clients : PollerStep(c) \/ UIStep(c) \/ Logon(c) \/ Logoff(c)
  \/ \E c \in Clients, k \in Conns : Fault(c, k)
  \/ Flush \/ Crash

Spec == Init /\ [][Next]_vars

\* Threads run, handlers run, time passes, dead connections are noticed.
\* Staff and users owe nothing: nobody has to send, recall, press or log on.
Fairness ==
  /\ \A k \in Conns : WF_vars(ServerStep(k)) /\ WF_vars(Vanish(k))
  /\ \A c \in Clients : WF_vars(PollerStep(c)) /\ WF_vars(UIStep(c))
  /\ \A a \in Alerts, c \in Clients : WF_vars(SendAges(a, c))

FairSpec == Spec /\ Fairness

-----------------------------------------------------------------------------
MemType ==
  [posted : SUBSET Alerts, recalled : SUBSET Alerts, tooOld : SUBSET Alerts,
   deliv : [Alerts -> [Clients -> DeliveryType]]]
BatchType == [alerts : SUBSET Alerts, recalls : SUBSET Alerts]
ConnType ==
  [stage : {"free", "request", "look", "asleep", "reply", "dead"},
   client : Clients \cup {None}, sid : Nat, events : Seq(Reports),
   alerts : SUBSET Alerts, recalls : SUBSET Alerts]

\* The variables have their types, and the bounds are kept.
TypeOK ==
  /\ mem \in MemType /\ disk \in MemType
  /\ issued \in SUBSET Alerts /\ expired \in SUBSET Alerts
  /\ csid \in [Clients -> Nat]
  /\ conn \in [Conns -> ConnType]
  /\ up \in [Clients -> BOOLEAN] /\ session \in [Clients -> Nat]
  /\ poller \in [Clients -> {"rest", "built", "sending"}]
  /\ current \in [Clients -> Conns \cup {None}]
  /\ pending \in [Clients -> Seq(Reports)]
  /\ sending \in [Clients -> Seq(Reports)]
  /\ aborted \in [Clients -> BOOLEAN]
  /\ inbox \in [Clients -> Seq(BatchType)]
  /\ batch \in [Clients -> BatchType]
  /\ ui \in [Clients -> ScreenType]
  /\ said \in SUBSET (Clients \X Nat \X Alerts \X Kinds)
  /\ downed \in [Clients -> SUBSET Alerts]
  /\ crashes \in 0..MaxCrash /\ faults \in 0..MaxFault

-----------------------------------------------------------------------------
(* Safety *)

\* What happened on a screen: client c has made report k about alert a.
SaidBy(c, a, k) == \E r \in said : r[1] = c /\ r[3] = a /\ r[4] = k

\* What the history claims, a screen has done: each receipt of each alert
\* list, in memory or on disk, was reported by a process of that very client
\* about that alert, through aborted, repeated and overtaken requests, new
\* sessions and restarts of the server; and only clients the alert is for
\* have a record (pendingFor, applyEvents, handleGetAlert shows it).
ReceiptsTruthful ==
  \A m \in {mem, disk} : \A a \in Alerts, c \in Clients :
    LET d == m.deliv[a][c] IN
      /\ d.made => c \in Audience[a] /\ a \in m.posted
      /\ d.displayed => SaidBy(c, a, "displayed")
      /\ d.acked => SaidBy(c, a, "acknowledged")
      /\ d.closed # "" => SaidBy(c, a, d.closed)

\* The records stay coherent, whatever requests are served in what order.
RecordsCoherent ==
  \A a \in Alerts, c \in Clients : Coherent(mem.deliv[a][c])

Queued(c) == {pending[c][i] : i \in DOMAIN pending[c]}
               \cup {sending[c][i] : i \in DOMAIN sending[c]}
Recorded(d, k) ==
  CASE k = "displayed" -> d.displayed
    [] k = "acknowledged" -> d.acked
    [] OTHER -> d.closed # ""

\* "Nothing is lost" (Poller.cs, Loop): while the process that made a report
\* lives, the report is recorded on the server or still with the poller,
\* wherever aborts and failures have struck.  A server that has lost its
\* memory in a crash is another matter.
ReportsKept ==
  crashes = 0 =>
    \A r \in said :
      up[r[1]] /\ session[r[1]] = r[2] =>
        \/ Recorded(mem.deliv[r[3]][r[1]], r[4])
        \/ <<r[3], r[4]>> \in Queued(r[1])

\* A recall that reaches a screen is final there: the alert is neither on it
\* nor waiting for it for the rest of the session, and no delivery that was
\* under way brings it back (AlertManager.Recall, ClientContext).  A server
\* that forgot the recall in a crash may send the alert again.
RecallFinal ==
  crashes = 0 =>
    \A c \in Clients :
      downed[c] \cap
        (ui[c].open \cup {ui[c].waiting[i] : i \in DOMAIN ui[c].waiting}) = {}

\* No answer ever carries an alert that is recalled, is over, has been
\* confirmed, or has been displayed and needs no confirmation
\* (foghorn_test.go: "acknowledged alert must never come back").  The branch
\* of pendingFor for the same session does not look at AckedAt at all.
HandedOutRight ==
  [][\A k \in Conns : \A a \in conn'[k].alerts \ conn[k].alerts :
       LET d == mem.deliv[a][conn[k].client] IN
         /\ a \in mem.posted /\ a \notin mem.recalled \cup expired
         /\ ~d.acked
         /\ d.displayed => a \in RequireAck]_vars

-----------------------------------------------------------------------------
(* Liveness *)

\* The alert is being delivered to the session of c, which has not had it.
Due(a, c) ==
  /\ a \in mem.posted \ (mem.recalled \cup expired)
  /\ c \in Audience[a]
  /\ up[c]
  /\ a \notin ui[c].seen

\* An alert nobody on that client has seen yet reaches the session, as long
\* as it is delivered and the session lasts.  Abandoned requests that were
\* served, also those of an earlier session, only delay it; in one session so
\* does a lost answer, or a server that restarts from an older alert list.
AlertReachesScreen ==
  \A a \in Alerts, c \in Clients :
    (Due(a, c) /\ ~mem.deliv[a][c].displayed)
      ~> ~(Due(a, c) /\ ~mem.deliv[a][c].displayed)

\* The server has every report made in the session of c that is going on.
CaughtUp(c) ==
  \A r \in said : r[1] = c /\ up[c] /\ session[c] = r[2] =>
    Recorded(mem.deliv[r[3]][c], r[4])

\* Every report gets to the server while the session that made it lasts:
\* reports that abort the very request that carries others do not starve
\* them, nor does a failure of the network lose them (QueueEvent, Loop).  What is
\* recorded stays so while the server keeps its memory, and a session makes
\* finitely many different reports, so this is the same as each one arriving.
\* A server that crashes loses what it had recorded.
ReportsArrive == \A c \in Clients : []<>(CaughtUp(c) \/ crashes > 0)

\* docs/USER-GUIDE.md, "Recall": it vanishes from every screen still showing
\* it.  Said of a session that lasts and of the twelve hours of the window.
RecallClearsScreens ==
  \A a \in Alerts, c \in Clients :
    (a \in mem.recalled /\ a \in ui[c].open)
      ~> (a \notin ui[c].open \/ a \in mem.tooOld)

\* docs/USER-GUIDE.md, "Make people confirm": if someone logs off without
\* pressing it, the alert comes back the next time they log on.
AckAlertComesBack ==
  \A a \in RequireAck, c \in Clients :
    (Due(a, c) /\ ~mem.deliv[a][c].acked)
      ~> ~(Due(a, c) /\ ~mem.deliv[a][c].acked)
=============================================================================
