---------------------------- MODULE AlertManager ----------------------------
(***************************************************************************)
(* The class AlertManager of client/src/AlertForm.cs, which decides what   *)
(* is on one screen.  Everything runs on the UI thread; a screen state is  *)
(* a record, an operation maps it to the next one and to the report it     *)
(* makes (the event given to the poller), if any.                          *)
(*                                                                         *)
(* Corner and centre cards share MaxCards places, full-screen alerts have  *)
(* one.  An alert without a place waits.  When a window has finished, the  *)
(* loop of OnFinished opens the waiting alerts that have a place now: one  *)
(* pass of the loop is one operation, for each of them makes a report, and *)
(* the poller's thread may run in between.                                 *)
(***************************************************************************)
EXTENDS AlertSpecs, Sequences

CONSTANTS Unbuildable,  \* the alerts whose window cannot be built here
          MaxCards

ASSUME AlertManagerAssumption ==
  /\ Unbuildable \subseteq Alerts
  /\ MaxCards \in Nat \ {0}

ScreenType ==
  [seen     : SUBSET Alerts,   \* every alert this process was handed
   open     : SUBSET Alerts,   \* the windows on screen
   waiting  : Seq(Alerts),
   opening  : BOOLEAN]         \* the UI thread is in the loop of OnFinished

EmptyScreen == [seen |-> {}, open |-> {}, waiting |-> <<>>, opening |-> FALSE]

\* Mutant of HasRoom: one card too many.
HasRoomAtMost(ui, a) ==
  IF a \in FullScreen THEN ui.open \cap FullScreen = {}
                      ELSE Cardinality(ui.open \ FullScreen) <= MaxCards

HasRoom(ui, a) ==
  IF a \in FullScreen THEN ui.open \cap FullScreen = {}
                      ELSE Cardinality(ui.open \ FullScreen) < MaxCards

Displayed(a) == <<a, "displayed">>

\* Without the entry at position i: List.RemoveAt.
Without(s, i) == SubSeq(s, 1, i - 1) \o SubSeq(s, i + 1, Len(s))

\* The positions of the waiting list that hold alert a.
PlacesOf(ui, a) == {i \in DOMAIN ui.waiting : ui.waiting[i] = a}

-----------------------------------------------------------------------------
\* Open: a window that cannot be built is logged and forgotten.
AfterOpen(ui, a) ==
  IF a \in Unbuildable THEN ui ELSE [ui EXCEPT !.open = @ \cup {a}]
OpenReport(a) == IF a \in Unbuildable THEN <<>> ELSE <<Displayed(a)>>

\* Mutant of AfterShow: only an alert that has a place is remembered.
AfterShowForgets(ui, a) ==
  IF a \in ui.seen THEN ui
  ELSE IF HasRoom(ui, a)
    THEN AfterOpen([ui EXCEPT !.seen = @ \cup {a}], a)
    ELSE [ui EXCEPT !.waiting = Append(@, a)]

\* Mutant of AfterShow: an alert without a place is dropped.
AfterShowDrops(ui, a) ==
  IF a \in ui.seen THEN ui
  ELSE LET known == [ui EXCEPT !.seen = @ \cup {a}]
       IN IF HasRoom(ui, a) THEN AfterOpen(known, a) ELSE known

\* Show: an alert handed over again only has its receipt repeated.
AfterShow(ui, a) ==
  IF a \in ui.seen THEN ui
  ELSE LET known == [ui EXCEPT !.seen = @ \cup {a}]
       IN IF HasRoom(ui, a)
            THEN AfterOpen(known, a)
            ELSE [known EXCEPT !.waiting = Append(@, a)]
ShowReport(ui, a) ==
  IF a \in ui.seen THEN (IF a \in ui.open THEN <<Displayed(a)>> ELSE <<>>)
  ELSE (IF HasRoom(ui, a) THEN OpenReport(a) ELSE <<>>)

\* Mutant of AfterFinish: nobody looks at the waiting alerts.
AfterFinishOnly(ui, a) == [ui EXCEPT !.open = @ \ {a}]

\* Finish and the first half of OnFinished: the window goes, its reason is
\* reported, and the loop over the waiting alerts begins.
AfterFinish(ui, a) == [ui EXCEPT !.open = @ \ {a}, !.opening = TRUE]

\* Mutant of AfterRecall: a recalled alert stays in the waiting list.
AfterRecallWaiting(ui, a) ==
  IF a \in ui.open THEN AfterFinish(ui, a) ELSE ui

\* Recall: out of the waiting list without a report, off the screen with one.
AfterRecall(ui, a) ==
  LET dropped == IF PlacesOf(ui, a) = {} THEN ui
                 ELSE [ui EXCEPT !.waiting =
                         Without(@, CHOOSE i \in PlacesOf(ui, a) : TRUE)]
  IN IF a \in ui.open THEN AfterFinish(dropped, a) ELSE dropped
RecallReport(ui, a) == IF a \in ui.open THEN <<<<a, "recalled">>>> ELSE <<>>

\* The waiting alert the loop of OnFinished opens next: it goes through the
\* list from the front, and room it has passed over does not come back.
IsNext(ui, i) ==
  /\ i \in DOMAIN ui.waiting
  /\ HasRoom(ui, ui.waiting[i])
  /\ \A j \in 1..(i - 1) : ~HasRoom(ui, ui.waiting[j])

\* One pass of that loop, and its end.
AfterOpenNext(ui, i) ==
  AfterOpen([ui EXCEPT !.waiting = Without(@, i)], ui.waiting[i])
AfterLoop(ui) == [ui EXCEPT !.opening = FALSE]
=============================================================================
