------------------------------- MODULE Screen -------------------------------
(***************************************************************************)
(* One screen and its user: AlertManager driven by whatever the poller may *)
(* deliver (an alert, again or for the first time, a recall, known or not) *)
(* and by a user or a timer that closes windows.  Foghorn.tla composes the *)
(* same operations with the poller and the server; here the deliveries are *)
(* arbitrary, so that the properties do not lean on what the server does.  *)
(***************************************************************************)
EXTENDS AlertManager

VARIABLES ui,      \* the screen
          gone     \* history: the alerts finished, recalled or unbuildable

vars == <<ui, gone>>

Init == ui = EmptyScreen /\ gone = {}

\* The UI thread is free: no window is being opened or closed.
Idle == ~ui.opening

Show(a) ==
  /\ Idle
  /\ ui' = AfterShow(ui, a)
  /\ gone' = gone \cup (IF HasRoom(ui, a) /\ a \notin ui.seen
                          THEN {a} \cap Unbuildable ELSE {})

Recall(a) ==
  /\ Idle
  /\ ui' = AfterRecall(ui, a)
  /\ gone' = gone \cup (IF a \in ui.seen THEN {a} ELSE {})

\* CloseByButton, Alt+F4 of an alert that needs no confirmation, TickLife.
Close(a) ==
  /\ Idle
  /\ a \in ui.open
  /\ ui' = AfterFinish(ui, a)
  /\ gone' = gone \cup {a}

\* The loop of OnFinished.
OpenNext ==
  /\ ui.opening
  /\ \E i \in DOMAIN ui.waiting :
       /\ IsNext(ui, i)
       /\ ui' = AfterOpenNext(ui, i)
       /\ gone' = gone \cup ({ui.waiting[i]} \cap Unbuildable)

LoopEnds ==
  /\ ui.opening
  /\ \A i \in DOMAIN ui.waiting : ~IsNext(ui, i)
  /\ ui' = AfterLoop(ui)
  /\ UNCHANGED gone

Next ==
  \/ \E a \in Alerts : Show(a) \/ Recall(a) \/ Close(a)
  \/ OpenNext
  \/ LoopEnds

Spec == Init /\ [][Next]_vars

\* The UI thread runs, and every window is closed some day.  The second half
\* is an assumption about people, made only for NobodyWaitsForEver.
Fairness == WF_vars(OpenNext \/ LoopEnds) /\ \A a \in Alerts : SF_vars(Close(a))

FairSpec == Spec /\ Fairness

-----------------------------------------------------------------------------
Waiting == {ui.waiting[i] : i \in DOMAIN ui.waiting}

\* The screen keeps its type (AlertForm.cs, fields of AlertManager), and the
\* waiting list does not grow with what is delivered again.
TypeOK ==
  /\ ui \in ScreenType /\ gone \subseteq Alerts
  /\ Len(ui.waiting) <= Cardinality(Alerts)

\* The places are used, and no more than there are: at most MaxCards cards
\* and one full-screen alert are on screen, and whenever the UI thread is
\* free an alert waits only because its own kind of place is taken, through
\* every order of deliveries, recalls and closes (HasRoom, OnFinished).
PlacesWellUsed ==
  /\ Cardinality(ui.open \ FullScreen) <= MaxCards
  /\ Cardinality(ui.open \cap FullScreen) <= 1
  /\ Idle => \A a \in Waiting : ~HasRoom(ui, a)

\* No alert the client was handed is forgotten or in two places: it is on
\* screen, waiting once, or gone for a reason (seen grows before the window
\* exists, so an alert lost here would never come back in this session).
EveryAlertAccountedFor ==
  /\ ui.seen = ui.open \cup Waiting \cup gone
  /\ ui.open \cap Waiting = {}
  /\ Cardinality(Waiting) = Len(ui.waiting)
  /\ (ui.open \cup Waiting) \cap gone = {}

\* An alert that has left the screen or the waiting list never opens again
\* in this session: not through a repeated delivery, and not through the
\* waiting list after a recall (Show, Recall, OnFinished).
GoneForGood == [][gone \cap ui'.open = {}]_vars

\* If people close their windows, every waiting alert gets its turn.
NobodyWaitsForEver == \A a \in Alerts : (a \in Waiting) ~> (a \notin Waiting)
=============================================================================
