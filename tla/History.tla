------------------------------- MODULE History -------------------------------
(***************************************************************************)
(* The list of alerts and the list of computers over time, with the polls  *)
(* that live on them: sending to a target, the check-in of a client whose  *)
(* facts change, what a poll is told, trimming (server/store.go:           *)
(* compactLocked, openStore; server/api_client.go: handlePoll, touchClient,*)
(* pendingFor; server/api_admin.go: send, recall, groups, forget).         *)
(*                                                                         *)
(* Foghorn.tla follows one alert through aborts and new sessions; here the *)
(* alerts are many and a client keeps its session.  Ids are given out in   *)
(* the order of sending, so the list, oldest first, is the set of ids in   *)
(* it.  Whose alert it is matters to nothing here: an administrator may    *)
(* recall any.  resendAfter is taken to be longer than a run.              *)
(*                                                                         *)
(* Changes are on disk some seconds after they are made, or at the next    *)
(* flush if a write fails: a crash takes back what the file does not say.  *)
(* It takes no time back, and nothing from the screens.  Groups that it    *)
(* sets back are groups edited once more.                                  *)
(***************************************************************************)
EXTENDS Delivery, Match

CONSTANTS Clients, Polls,
          Records,   \* the ClientInfo structures there can be at a time
          Groups,
          Facts,     \* bound: what a computer can say of itself
          RuleSets,  \* bound: the rules a group is saved with
          Targets,   \* bound: what the Send page is filled in with
          Events,    \* bound: the kinds of reports
          MaxOdd,    \* bound: groups changed, computers forgotten, restarts
          MaxKept,            \* maxAlertsKept
          MaxWithDeliveries,  \* maxAlertsWithDeliveries
          Nil

TargetType == [all : BOOLEAN, rules : SUBSET RuleType, groups : SUBSET Groups]
TotalsType == [sent : Nat, displayed : Nat, acked : Nat]

ASSUME HistoryAssumption ==
  /\ Alerts = 1..Cardinality(Alerts)
  /\ IsFiniteSet(Clients) /\ IsFiniteSet(Polls)
  /\ Events \subseteq Kinds /\ MaxOdd \in Nat
  /\ MaxKept \in Nat \ {0} /\ MaxWithDeliveries \in 0..MaxKept
  /\ Nil \notin Clients \cup Records \cup [Clients -> DeliveryType] \cup TotalsType
  \* what the JSON decoder and validateSpec let through
  /\ \A R \in RuleSets : \A r \in R : r.pattern \in Seq(Letters)
  /\ Targets \subseteq TargetType
  \* memory does not run out
  /\ IsFiniteSet(Records)
  /\ Cardinality(Records) >= Cardinality(Clients) + Cardinality(Polls)

VARIABLES
  list,     \* Store.Alerts, as the ids in it
  alert,    \* the alerts in it
  sent,     \* how many ids have been given out
  groups,   \* the rules of each saved group, {} for none
  clients,  \* Store.Clients: the record of each client, or Nil
  info,     \* the records, also those only a handler still points to
  poll,     \* the handlers of polls
  dirty,    \* dirtyAlerts
  saved,    \* alerts.json as the next start finds it
  odd,      \* what is used up of the bound
  \* history, read by no action
  meant,    \* the facts each target meant when its alert was sent
  handed,   \* which alerts went to which clients, with their facts then
  told,     \* which recalls went to which clients
  ended,    \* which clients have reported the end of which alerts
  lost,     \* alerts that a crash has taken from the list
  unrecorded \* which clients were handed which alerts, with the record of it
            \* taken by a crash

storeVars == <<list, alert, sent, groups, clients, info, dirty, saved>>
history == <<meant, handed, told, ended, lost, unrecorded>>
vars == <<storeVars, poll, odd, history>>

NoRecords == [c \in Clients |-> NoDelivery]
NoAlert == [all |-> FALSE, rules |-> {}, over |-> FALSE, recalled |-> FALSE,
            tooOld |-> FALSE, deliv |-> NoRecords, archived |-> Nil]
NoInfo == [client |-> Nil, facts |-> Nil, polling |-> 0, seen |-> "now"]
NoPoll == [pc |-> "idle", rec |-> Nil]

Init ==
  /\ list = {} /\ sent = 0 /\ dirty = FALSE /\ odd = 0
  /\ alert = [i \in Alerts |-> NoAlert]
  /\ groups = [g \in Groups |-> {}]
  /\ clients = [c \in Clients |-> Nil]
  /\ info = [r \in Records |-> NoInfo]
  /\ poll = [p \in Polls |-> NoPoll]
  /\ meant = [i \in Alerts |-> {}]
  /\ handed = {} /\ told = {} /\ ended = {} /\ lost = {} /\ unrecorded = {}
  /\ saved = [list |-> {}, alert |-> alert]

Active(i) == ~alert[i].recalled /\ ~alert[i].over

\* totals: what the history shows of an alert.
Totals(a) ==
  IF a.archived # Nil THEN a.archived
  ELSE [sent      |-> Cardinality({c \in Clients : a.deliv[c].made}),
        displayed |-> Cardinality({c \in Clients : a.deliv[c].displayed}),
        acked     |-> Cardinality({c \in Clients : a.deliv[c].acked})]

-----------------------------------------------------------------------------
(* Staff *)

\* hub.wake.
AllAwake ==
  [p \in Polls |-> IF poll[p].pc = "asleep" THEN [poll[p] EXCEPT !.pc = "look"]
                   ELSE poll[p]]

\* handleSaveGroup; alerts already sent keep the rules they were sent with.
SaveGroup(g, rules) ==
  /\ CleanRules(rules, 256) # {}
  /\ groups' = [groups EXCEPT ![g] = CleanRules(rules, 256)]
  /\ odd < MaxOdd /\ odd' = odd + 1
  /\ UNCHANGED <<list, alert, sent, clients, info, dirty, saved, poll, history>>

DeleteGroup(g) ==
  /\ groups[g] # {}
  /\ groups' = [groups EXCEPT ![g] = {}]
  /\ odd < MaxOdd /\ odd' = odd + 1
  /\ UNCHANGED <<list, alert, sent, clients, info, dirty, saved, poll, history>>

\* The computers a target means: all, those that match one of its rules and
\* those that match a rule of one of its groups.
Means(target) ==
  {f \in Facts :
     \/ target.all
     \/ \E r \in target.rules : RuleMatches(r, f)
     \/ \E g \in target.groups : \E r \in groups[g] : RuleMatches(r, f)}

\* handleSendAlert, of a target that validateSpec and checkAllowed pass.
Send(target) ==
  /\ sent + 1 \in Alerts
  /\ \A g \in target.groups : groups[g] # {}
  /\ sent' = sent + 1
  /\ list' = list \cup {sent + 1}
  /\ alert' = [alert EXCEPT ![sent + 1] =
       [NoAlert EXCEPT !.all = target.all,
                       !.rules = FlattenTarget(target, groups)]]
  /\ meant' = [meant EXCEPT ![sent + 1] = Means(target)]
  /\ dirty' = TRUE
  /\ poll' = AllAwake
  /\ UNCHANGED <<groups, clients, info, saved, handed, told, ended, lost,
                 unrecorded, odd>>

\* handleRecallAlert; of an alert that is recalled already it changes nothing.
Recall(i) ==
  /\ i \in list /\ ~alert[i].recalled
  /\ alert' = [alert EXCEPT ![i].recalled = TRUE]
  /\ dirty' = TRUE
  /\ poll' = AllAwake
  /\ UNCHANGED <<list, sent, groups, clients, info, saved, history, odd>>

\* handleForgetClient; a handler may still point to the record.
Forget(c) ==
  /\ clients[c] # Nil
  /\ clients' = [clients EXCEPT ![c] = Nil]
  /\ odd < MaxOdd /\ odd' = odd + 1
  /\ UNCHANGED <<list, alert, sent, groups, info, dirty, saved, poll, history>>

-----------------------------------------------------------------------------
(* Time *)

\* ExpiresAt is not looked at once an alert is recalled.
Expire(i) ==
  /\ i \in list /\ ~alert[i].over /\ ~alert[i].recalled
  /\ alert' = [alert EXCEPT ![i].over = TRUE]
  /\ saved' = IF i \in saved.list THEN [saved EXCEPT !.alert[i].over = TRUE]
              ELSE saved
  /\ UNCHANGED <<list, sent, groups, clients, info, dirty, poll, history, odd>>

\* recallWindow after RecalledAt.
RecallAges(i) ==
  /\ i \in list /\ alert[i].recalled /\ ~alert[i].tooOld
  /\ alert' = [alert EXCEPT ![i].tooOld = TRUE]
  /\ saved' = IF saved.alert[i].recalled
                THEN [saved EXCEPT !.alert[i].tooOld = TRUE] ELSE saved
  /\ UNCHANGED <<list, sent, groups, clients, info, dirty, poll, history, odd>>

\* clientForgetAfter after LastSeen; no poll is held that long.
SeenAges(c) ==
  /\ clients[c] # Nil
  /\ LET r == clients[c] IN
       /\ info[r].polling = 0 /\ info[r].seen = "now"
       /\ info' = [info EXCEPT ![r].seen = "long ago"]
  /\ UNCHANGED <<list, alert, sent, groups, clients, dirty, saved, poll, history,
                 odd>>

-----------------------------------------------------------------------------
(* handlePoll *)

\* A structure nobody points to.
FreeRecord ==
  CHOOSE r \in Records :
    /\ \A c \in Clients : clients[c] # r
    /\ \A p \in Polls : poll[p].rec # r

\* What a client can report: things about alerts it was handed.
Batches(c) ==
  {<<>>} \cup {<<<<x.alert, k>>>> : x \in {y \in handed : y.client = c},
                                    k \in Events}

\* touchClient: the record takes what the client says of itself.
Touched(r, c, f) == [info[r] EXCEPT !.client = c, !.facts = f, !.seen = "now"]

\* touchClient, polling++ and applyEvents: one critical section.  Alerts that
\* are archived or gone take no more reports.
CheckIn(p, c, f, batch) ==
  /\ poll[p].pc = "idle"
  /\ batch \in Batches(c)
  /\ LET r == IF clients[c] = Nil THEN FreeRecord ELSE clients[c]
         seen == [info EXCEPT ![r] = Touched(r, c, f)]
     IN /\ clients' = [clients EXCEPT ![c] = r]
        /\ info' = [seen EXCEPT ![r].polling =
                      IF clients[c] = Nil THEN 1 ELSE @ + 1]
        /\ poll' = [poll EXCEPT ![p] = [pc |-> "look", rec |-> r]]
  /\ alert' = [i \in Alerts |->
                 IF alert[i].deliv = Nil THEN alert[i]
                 ELSE [alert[i] EXCEPT !.deliv[c] = AfterBatch(@, i, batch)]]
  /\ dirty' = (dirty \/ alert' # alert)
  /\ ended' = ended \cup
       {<<batch[j][1], c>> : j \in {x \in DOMAIN batch :
                                      batch[x][2] # "displayed"}}
  /\ UNCHANGED <<list, sent, groups, saved, meant, handed, told, lost, unrecorded,
                 odd>>

\* The two answers of pendingFor.  All there is has one session.
ToSend(r) ==
  {i \in list :
     /\ alert[i].deliv # Nil
     /\ Active(i) /\ AlertMatches(alert[i], info[r].facts)
     /\ Wanted(alert[i].deliv[info[r].client], i, 1)}
ToRecall(r) ==
  {i \in list :
     /\ alert[i].deliv # Nil
     /\ alert[i].recalled /\ ~alert[i].tooOld
     /\ RecallDue(alert[i].deliv[info[r].client])}

Pairs(S, c) == {<<i, c>> : i \in S}

\* pendingFor: with something to say the handler answers and ends.  What the
\* history says of an alert and a client starts anew when it is handed out.
Look(p) ==
  /\ poll[p].pc = "look"
  /\ LET r == poll[p].rec
         c == info[r].client
         S == ToSend(r)
         R == ToRecall(r)
     IN /\ alert' = [i \in Alerts |->
             IF i \in S THEN [alert[i] EXCEPT !.deliv[c] = AfterSend(@, 1)]
             ELSE IF i \in R THEN [alert[i] EXCEPT !.deliv[c] = AfterRecallSent(@)]
             ELSE alert[i]]
        /\ dirty' = (dirty \/ S \cup R # {})
        /\ poll' = [poll EXCEPT ![p].pc = IF S \cup R = {} THEN "asleep" ELSE "end"]
        /\ handed' = handed \cup
             {[alert |-> i, client |-> c, facts |-> info[r].facts] : i \in S}
        /\ told' = (told \ Pairs(S, c)) \cup Pairs(R, c)
        /\ ended' = ended \ Pairs(S, c)
        /\ unrecorded' = unrecorded \ Pairs(S, c)
  /\ UNCHANGED <<list, sent, groups, clients, info, saved, meant, lost, odd>>

\* The hold timer, or the client has gone.
HoldOver(p) ==
  /\ poll[p].pc = "asleep"
  /\ poll' = [poll EXCEPT ![p].pc = "end"]
  /\ UNCHANGED <<storeVars, odd, history>>

\* Mutant of EndPoll: the record is looked up again.
EndPollByName(p) ==
  /\ poll[p].pc = "end"
  /\ LET r == clients[info[poll[p].rec].client] IN
       info' = IF r = Nil THEN info
               ELSE [info EXCEPT ![r].polling = @ - 1, ![r].seen = "now"]
  /\ poll' = [poll EXCEPT ![p] = NoPoll]
  /\ UNCHANGED <<list, alert, sent, groups, clients, dirty, saved, history, odd>>

\* The deferred end, on the record of the check-in; one that nobody points to
\* any more is garbage.
EndPoll(p) ==
  /\ poll[p].pc = "end"
  /\ LET r == poll[p].rec
         kept == \/ \E c \in Clients : clients[c] = r
                 \/ \E q \in Polls \ {p} : poll[q].rec = r
     IN info' = [info EXCEPT ![r] =
          IF kept THEN [info[r] EXCEPT !.polling = @ - 1, !.seen = "now"]
                  ELSE NoInfo]
  /\ poll' = [poll EXCEPT ![p] = NoPoll]
  /\ UNCHANGED <<list, alert, sent, groups, clients, dirty, saved, history, odd>>

-----------------------------------------------------------------------------
(* Trimming, and restarts *)

Newest(S, n) == {i \in S : Cardinality({j \in S : j > i}) < n}

Archive(a) == [a EXCEPT !.archived = Totals(a), !.deliv = Nil]

\* Mutant of Archivable: one more keeps only its totals.
ArchivableEarly(i, S) ==
  /\ i \in S \ Newest(S, MaxWithDeliveries - 1)
  /\ alert[i].archived = Nil /\ ~Active(i)

\* Mutant of Archivable: whether it is still delivered.
ArchivableActive(i, S) ==
  /\ i \in S \ Newest(S, MaxWithDeliveries)
  /\ alert[i].archived = Nil

\* Of the alerts S that stay, i keeps only its totals.
Archivable(i, S) ==
  /\ i \in S \ Newest(S, MaxWithDeliveries)
  /\ alert[i].archived = Nil /\ ~Active(i)

\* The history variables say nothing of alerts S that have left for good.
Forgotten(S) ==
  /\ meant' = [i \in Alerts |-> IF i \in S THEN {} ELSE meant[i]]
  /\ handed' = {x \in handed : x.alert \notin S}
  /\ ended' = {x \in ended : x[1] \notin S}

\* flush with dirtyAlerts set: compactLocked, and the file is written.  lands
\* says whether a start finds this file from now on: the crash can come before
\* the rename, the write can fail, the power can take the rename back.
Compact ==
  /\ dirty
  /\ dirty' = FALSE
  /\ LET S == Newest(list, MaxKept) IN
       /\ list' = S
       /\ alert' = [i \in Alerts |->
            IF i \notin S THEN NoAlert
            ELSE IF Archivable(i, S) THEN Archive(alert[i]) ELSE alert[i]]
  /\ \E lands \in BOOLEAN :
       saved' = IF lands THEN [list |-> list', alert |-> alert'] ELSE saved
  /\ clients' = [c \in Clients |->
       IF clients[c] # Nil /\ info[clients[c]].polling = 0
            /\ info[clients[c]].seen = "long ago"
         THEN Nil ELSE clients[c]]
  /\ LET S == Alerts \ (list' \cup saved'.list) IN
       /\ Forgotten(S)
       /\ told' = {x \in told : x[1] \notin S}
       /\ unrecorded' = {x \in unrecorded : x[1] \notin S}
  /\ UNCHANGED <<sent, groups, info, poll, odd, lost>>

\* Mutant of Loaded: all is made anew.
LoadedEmpty(a) == [a EXCEPT !.deliv = IF a.archived = Nil THEN NoRecords ELSE @]

\* An alert without deliveries is written without the field (omitempty) and
\* read without it; openStore makes it anew where nothing is archived.
Loaded(a) ==
  LET read == IF a.deliv = NoRecords THEN Nil ELSE a.deliv IN
    [a EXCEPT !.deliv = IF read = Nil /\ a.archived = Nil THEN NoRecords ELSE read]

\* The end of the process, orderly or not, and openStore.  Any computer may be
\* unknown, for clients.json is a file of its own.
Restart ==
  /\ list' = saved.list
  /\ alert' = [i \in Alerts |->
                 IF i \in saved.list THEN Loaded(saved.alert[i]) ELSE NoAlert]
  /\ dirty' = FALSE
  /\ \E known \in SUBSET Clients :
       clients' = [c \in Clients |-> IF c \in known THEN clients[c] ELSE Nil]
  /\ info' = [r \in Records |->
                IF \E c \in Clients : clients'[c] = r
                  THEN [info[r] EXCEPT !.polling = 0] ELSE NoInfo]
  /\ poll' = [p \in Polls |-> NoPoll]
  /\ Forgotten(Alerts \ saved.list)
  /\ told' = {x \in told : alert'[x[1]].recalled}
  /\ lost' = lost \cup (list \ saved.list)
  /\ unrecorded' =
       {x \in {<<y.alert, y.client>> : y \in handed'} :
          alert'[x[1]].deliv # Nil /\ ~alert'[x[1]].deliv[x[2]].made}
  /\ odd < MaxOdd /\ odd' = odd + 1
  /\ UNCHANGED <<sent, groups, saved>>

-----------------------------------------------------------------------------
StaffStep ==
  \/ \E g \in Groups, R \in RuleSets : SaveGroup(g, R)
  \/ \E g \in Groups : DeleteGroup(g)
  \/ \E t \in Targets : Send(t)
  \/ \E i \in Alerts : Recall(i)
  \/ \E c \in Clients : Forget(c)

PollStep(p) ==
  \/ \E c \in Clients, f \in Facts : \E batch \in Batches(c) : CheckIn(p, c, f, batch)
  \/ Look(p) \/ HoldOver(p) \/ EndPoll(p)

Next ==
  \/ StaffStep
  \/ \E p \in Polls : PollStep(p)
  \/ \E i \in Alerts : Expire(i) \/ RecallAges(i)
  \/ \E c \in Clients : SeenAges(c)
  \/ Compact \/ Restart

Spec == Init /\ [][Next]_vars

-----------------------------------------------------------------------------
AlertType ==
  [all : BOOLEAN, rules : SUBSET RuleType, over : BOOLEAN, recalled : BOOLEAN,
   tooOld : BOOLEAN, deliv : [Clients -> DeliveryType] \cup {Nil},
   archived : TotalsType \cup {Nil}]
InfoType == [client : Clients \cup {Nil}, facts : Facts \cup {Nil},
             polling : Nat, seen : {"now", "long ago"}]

\* The variables have their types.
TypeOK ==
  /\ list \subseteq Alerts /\ sent \in Nat /\ dirty \in BOOLEAN
  /\ alert \in [Alerts -> AlertType]
  /\ groups \in [Groups -> SUBSET RuleType]
  /\ clients \in [Clients -> Records \cup {Nil}]
  /\ info \in [Records -> InfoType]
  /\ poll \in [Polls -> [pc : {"idle", "look", "asleep", "end"},
                         rec : Records \cup {Nil}]]
  /\ meant \in [Alerts -> SUBSET Facts]
  /\ handed \subseteq [alert : Alerts, client : Clients, facts : Facts]
  /\ told \subseteq Alerts \X Clients /\ ended \subseteq Alerts \X Clients
  /\ saved \in [list : SUBSET Alerts, alert : [Alerts -> AlertType]]
  /\ lost \subseteq Alerts /\ unrecorded \subseteq Alerts \X Clients

AtMost(t, u) == \A k \in DOMAIN t : t[k] <= u[k]

\* Fewer than n alerts have been sent since.
Within(i, n) == i <= sent /\ i + n > sent

\* What trimming may do: the newest alerts stay but for those a crash has
\* taken, an alert that keeps only its totals is finished and old, and every
\* other one has delivery records to work with, also after it has been to disk
\* without any (compactLocked, openStore).
HistoryKept ==
  /\ \A i \in Alerts : Within(i, MaxKept) => i \in list \cup lost
  /\ \A i \in list :
       /\ alert[i].archived = Nil <=> alert[i].deliv # Nil
       /\ alert[i].archived # Nil => ~Active(i) /\ ~Within(i, MaxWithDeliveries)

\* The totals of an alert go down in one way only: a restart takes back the
\* receipts its file does not have.  No step, a restart neither, leaves less
\* than the file had; receipts, trimming and another flush only add
\* (totals, compactLocked, openStore).
TotalsKept ==
  [][/\ \A i \in list \cap list' :
          Restart \/ AtMost(Totals(alert[i]), Totals(alert'[i]))
     /\ \A i \in saved.list \cap list' :
          AtMost(Totals(saved.alert[i]), Totals(alert'[i]))]_vars

\* All the polls on a record have looked since it or the list last changed.
Settled(r) ==
  /\ \E p \in Polls : poll[p].rec = r /\ poll[p].pc = "asleep"
  /\ \A p \in Polls : poll[p].rec = r => poll[p].pc # "look"

\* An alert goes to the computers its target meant when it was sent, by what
\* they say of themselves when it is handed out: to no other, however groups
\* are edited and deleted since, and to all of those that have a poll held,
\* again to those whose record a crash has taken (flattenTarget, alertMatches,
\* touchClient, hub.wake).
DeliveredAsMeant ==
  /\ \A x \in handed : x.facts \in meant[x.alert]
  /\ \A r \in Records : Settled(r) =>
       \A i \in list : Active(i) /\ info[r].facts \in meant[i] =>
         /\ \E x \in handed : x.alert = i /\ x.client = info[r].client
         /\ <<i, info[r].client>> \notin unrecorded

\* The clients with a poll held that were handed the alert, have not reported
\* its end and have not been answered with its recall, while that is not too
\* old.
Unaware(i) ==
  {c \in Clients :
     /\ \E r \in Records : info[r].client = c /\ Settled(r)
     /\ \E x \in handed : x.alert = i /\ x.client = c
     /\ <<i, c>> \notin told \cup ended}

\* A recall is in the answer to a poll of every client that was handed the
\* alert, has not reported its end and has a poll held, while the recall is not
\* too old.  Whether that answer arrives is another matter.  Two kinds of
\* clients are not answered: those whose record a crash has taken before they
\* were handed the alert again, and those of alerts that are not among the
\* newest, whose records the flush of the recall itself takes away
\* (handleRecallAlert, pendingFor, compactLocked).
RecallIsTold ==
  \A i \in list :
    alert[i].recalled /\ ~alert[i].tooOld /\ Within(i, MaxWithDeliveries) =>
      \A c \in Unaware(i) : <<i, c>> \in unrecorded

\* A record counts the polls that checked in on it, also when it has been
\* forgotten or another record has taken its place: never below zero, so no
\* computer is shown as connected for ever or counted as offline while it is
\* (handlePoll, handleForgetClient).
PollingIsHeld ==
  \A r \in Records :
    (\E p \in Polls : poll[p].rec = r) \/ (\E c \in Clients : clients[c] = r) =>
      info[r].polling = Cardinality({p \in Polls : poll[p].rec = r})
=============================================================================
