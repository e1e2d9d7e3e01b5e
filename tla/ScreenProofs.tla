---------------------------- MODULE ScreenProofs ----------------------------
(***************************************************************************)
(* Proofs about Screen, for any alerts and any number of card places, and  *)
(* for whatever the poller delivers: no alert is lost or shown twice, and  *)
(* the places are neither overdrawn nor left empty.                        *)
(***************************************************************************)
EXTENDS Screen, EngineProofs

\* TypeOK without the length of the waiting list, which follows from Placed.
Typed == ui \in ScreenType /\ gone \subseteq Alerts

\* The waiting list holds each alert once, and every alert that was handed
\* over is in one place.
Placed ==
  /\ NoneTwice(ui.waiting)
  /\ ui.seen = ui.open \cup Waiting \cup gone
  /\ ui.open \cap Waiting = {}
  /\ (ui.open \cup Waiting) \cap gone = {}

IInv == Typed /\ Placed /\ PlacesWellUsed

LEMMA WaitingIsEntries == Waiting = Entries(ui.waiting)
  BY DEF Waiting, Entries

-----------------------------------------------------------------------------
(* The places *)

\* How many windows there are is a number.
LEMMA OpenFinite ==
  ASSUME NEW O \in SUBSET Alerts
  PROVE  /\ IsFiniteSet(O \ FullScreen) /\ Cardinality(O \ FullScreen) \in Nat
         /\ IsFiniteSet(O \cap FullScreen) /\ Cardinality(O \cap FullScreen) \in Nat
<1>1. IsFiniteSet(Alerts) /\ O \ FullScreen \in SUBSET Alerts
      /\ O \cap FullScreen \in SUBSET Alerts
  BY AlertSpecsAssumption
<1>2. QED
  BY <1>1, FS_Subset, FS_CardinalityType

Fits(O) ==
  /\ Cardinality(O \ FullScreen) <= MaxCards
  /\ Cardinality(O \cap FullScreen) <= 1

\* A window for which there is room does not overdraw the places,
LEMMA RoomForOne ==
  ASSUME NEW u \in ScreenType, NEW a \in Alerts, Fits(u.open), HasRoom(u, a)
  PROVE  Fits(u.open \cup {a})
<1> DEFINE O == u.open
<1>0. O \in SUBSET Alerts
  BY DEF ScreenType
<1>1. /\ IsFiniteSet(O \ FullScreen) /\ Cardinality(O \ FullScreen) \in Nat
      /\ IsFiniteSet(O \cap FullScreen) /\ Cardinality(O \cap FullScreen) \in Nat
      /\ MaxCards \in Nat
  BY <1>0, OpenFinite, AlertManagerAssumption
<1>2. CASE a \in FullScreen
  <2>1. (O \cup {a}) \ FullScreen = O \ FullScreen /\ (O \cup {a}) \cap FullScreen = {a}
    BY <1>2 DEF HasRoom
  <2>2. Cardinality({a}) = 1 /\ Cardinality(O \ FullScreen) <= MaxCards
    BY FS_Singleton DEF Fits
  <2>3. QED
    BY <2>1, <2>2 DEF Fits
<1>3. CASE a \notin FullScreen
  <2> DEFINE C == O \ FullScreen
             n == Cardinality(C)
             m == Cardinality(C \cup {a})
  <2>1. (O \cup {a}) \ FullScreen = C \cup {a} /\ (O \cup {a}) \cap FullScreen = O \cap FullScreen
    BY <1>3
  <2>2. n < MaxCards
    BY <1>3 DEF HasRoom
  <2>3. IsFiniteSet(C) /\ n \in Nat
    BY <1>1
  <2> HIDE DEF C
  <2>4. m \in {n, n + 1}
    BY <2>3, FS_AddElement
  <2>5. m <= MaxCards
    BY <1>1, <2>2, <2>3, <2>4
  <2>6. QED
    BY <2>1, <2>5 DEF Fits
<1>4. QED
  BY <1>2, <1>3

\* and one that goes does not either.
LEMMA OneLessFits ==
  ASSUME NEW O \in SUBSET Alerts, NEW P \in SUBSET O, Fits(O)
  PROVE  Fits(P)
<1>1. P \ FullScreen \in SUBSET (O \ FullScreen) /\ P \cap FullScreen \in SUBSET (O \cap FullScreen)
  OBVIOUS
<1>2. /\ Cardinality(P \ FullScreen) <= Cardinality(O \ FullScreen)
      /\ Cardinality(P \cap FullScreen) <= Cardinality(O \cap FullScreen)
  BY <1>1, OpenFinite, FS_Subset
<1>3. /\ Cardinality(P \ FullScreen) \in Nat /\ Cardinality(O \ FullScreen) \in Nat
      /\ Cardinality(P \cap FullScreen) \in Nat /\ Cardinality(O \cap FullScreen) \in Nat
      /\ MaxCards \in Nat
  BY OpenFinite, AlertManagerAssumption
<1>4. QED
  BY <1>2, <1>3 DEF Fits

\* Another window leaves no room where there was none.
LEMMA RoomOnlyShrinks ==
  ASSUME NEW u \in ScreenType, NEW v \in ScreenType, u.open \subseteq v.open,
         NEW b, HasRoom(v, b)
  PROVE  HasRoom(u, b)
<1>1. u.open \in SUBSET Alerts /\ v.open \in SUBSET Alerts
  BY DEF ScreenType
<1>2. u.open \ FullScreen \in SUBSET (v.open \ FullScreen)
  OBVIOUS
<1>3. Cardinality(u.open \ FullScreen) <= Cardinality(v.open \ FullScreen)
  BY <1>1, <1>2, OpenFinite, FS_Subset
<1>4. /\ Cardinality(u.open \ FullScreen) \in Nat
      /\ Cardinality(v.open \ FullScreen) \in Nat /\ MaxCards \in Nat
  BY <1>1, OpenFinite, AlertManagerAssumption
<1>5. QED
  BY <1>3, <1>4 DEF HasRoom

\* When no entry of the list is next, there is room for none of them: the
\* first for which there was some would be next.
LEMMA NoneNext ==
  ASSUME NEW u \in ScreenType, \A i \in DOMAIN u.waiting : ~IsNext(u, i)
  PROVE  \A i \in DOMAIN u.waiting : ~HasRoom(u, u.waiting[i])
<1> DEFINE I == {i \in DOMAIN u.waiting : HasRoom(u, u.waiting[i])}
<1>1. /\ DOMAIN u.waiting = 1..Len(u.waiting) /\ Len(u.waiting) \in Nat
      /\ I \in SUBSET (1..Len(u.waiting))
  BY DEF ScreenType
<1>2. ASSUME I # {}
      PROVE  FALSE
  <2>1. PICK x \in I : \A y \in I : x <= y
    <3> HIDE DEF I
    <3>1. QED
      BY <1>1, <1>2, FirstOf
  <2>2. \A j \in 1..(x - 1) : j \in DOMAIN u.waiting /\ ~(x <= j)
    BY <1>1
  <2>3. IsNext(u, x)
    BY <2>1, <2>2 DEF IsNext
  <2>4. QED
    BY <2>3
<1>3. QED
  BY <1>2

-----------------------------------------------------------------------------
(* The steps *)

LEMMA InitOK == Init => IInv
<1> SUFFICES ASSUME Init PROVE IInv
  OBVIOUS
<1>1. /\ ui = EmptyScreen /\ gone = {} /\ ui.waiting = <<>> /\ ui.open = {}
      /\ ui.seen = {} /\ Waiting = {}
  BY DEF Init, EmptyScreen, Waiting
<1>2. Typed
  BY <1>1 DEF Typed, EmptyScreen, ScreenType
<1>3. Placed
  BY <1>1 DEF Placed, NoneTwice
<1>4. PlacesWellUsed
  <2>1. ui.open \ FullScreen = {} /\ ui.open \cap FullScreen = {}
    BY <1>1
  <2>2. QED
    BY <1>1, <2>1, FS_EmptySet, AlertManagerAssumption DEF PlacesWellUsed
<1>5. QED
  BY <1>2, <1>3, <1>4 DEF IInv

\* An alert that is new gets a place if there is one, or waits.
LEMMA ShowKeeps ==
  ASSUME IInv, NEW a \in Alerts, Show(a)
  PROVE  Placed' /\ PlacesWellUsed' /\ gone \cap ui'.open = {}
<1> DEFINE W == Entries(ui.waiting)
<1>0. /\ ui \in ScreenType /\ gone \subseteq Alerts /\ ui.waiting \in Seq(Alerts)
      /\ ui' \in ScreenType
      /\ NoneTwice(ui.waiting) /\ ui.seen = ui.open \cup W \cup gone
      /\ ui.open \cap W = {} /\ (ui.open \cup W) \cap gone = {}
      /\ Fits(ui.open) /\ \A b \in W : ~HasRoom(ui, b)
      /\ ~ui.opening
  BY WaitingIsEntries, ScreenTypes
  DEF IInv, Typed, Placed, PlacesWellUsed, Fits, ScreenType, Show, Idle
<1>1. CASE a \in ui.seen
  <2>1. ui' = ui /\ gone' = gone
    BY <1>1 DEF Show, AfterShow
  <2>2. QED
    BY <1>0, <2>1 DEF IInv, Placed, PlacesWellUsed, Waiting, Idle
<1>2. CASE a \notin ui.seen /\ HasRoom(ui, a) /\ a \notin Unbuildable
  <2>1. /\ ui'.seen = ui.seen \cup {a} /\ ui'.open = ui.open \cup {a}
        /\ ui'.waiting = ui.waiting /\ gone' = gone
    BY <1>0, <1>2 DEF Show, AfterShow, AfterOpen, ScreenType
  <2>2. Placed'
    BY <1>0, <1>2, <2>1, WaitingIsEntries DEF Placed, Waiting, Entries
  <2>3. Fits(ui'.open) /\ \A b \in W : ~HasRoom(ui', b)
    BY <1>0, <1>2, <2>1, RoomForOne, RoomOnlyShrinks
  <2>4. QED
    BY <1>0, <1>2, <2>1, <2>2, <2>3 DEF PlacesWellUsed, Fits, Waiting, Entries
<1>3. CASE a \notin ui.seen /\ HasRoom(ui, a) /\ a \in Unbuildable
  <2>1. /\ ui'.seen = ui.seen \cup {a} /\ ui'.open = ui.open
        /\ ui'.waiting = ui.waiting /\ gone' = gone \cup {a}
    BY <1>0, <1>3 DEF Show, AfterShow, AfterOpen, ScreenType
  <2>2. Placed'
    BY <1>0, <1>3, <2>1 DEF Placed, Waiting, Entries
  <2>3. \A b \in W : ~HasRoom(ui', b)
    BY <1>0, <2>1 DEF HasRoom
  <2>4. QED
    BY <1>0, <2>1, <2>2, <2>3 DEF PlacesWellUsed, Fits, Waiting, Entries
<1>4. CASE a \notin ui.seen /\ ~HasRoom(ui, a)
  <2>1. /\ ui'.seen = ui.seen \cup {a} /\ ui'.open = ui.open
        /\ ui'.waiting = Append(ui.waiting, a) /\ gone' = gone
    BY <1>0, <1>4 DEF Show, AfterShow, ScreenType
  <2>2. NoneTwice(ui'.waiting) /\ Entries(ui'.waiting) = W \cup {a}
    BY <1>0, <1>4, <2>1, EntriesAppended
  <2>3. Waiting' = W \cup {a}
    BY <2>2 DEF Waiting, Entries
  <2>4. Placed'
    BY <1>0, <1>4, <2>1, <2>2, <2>3 DEF Placed
  <2>5. \A b \in W \cup {a} : ~HasRoom(ui', b)
    BY <1>0, <1>4, <2>1 DEF HasRoom
  <2>6. QED
    BY <1>0, <2>1, <2>3, <2>4, <2>5 DEF PlacesWellUsed, Fits
<1>5. QED
  BY <1>1, <1>2, <1>3, <1>4

\* What the places of a screen in good order say, for the steps below.
LEMMA InGoodOrder ==
  ASSUME IInv
  PROVE  /\ ui \in ScreenType /\ gone \subseteq Alerts /\ ui.waiting \in Seq(Alerts)
         /\ ui.open \in SUBSET Alerts /\ Entries(ui.waiting) \subseteq Alerts
         /\ NoneTwice(ui.waiting)
         /\ ui.seen = ui.open \cup Entries(ui.waiting) \cup gone
         /\ ui.open \cap Entries(ui.waiting) = {}
         /\ (ui.open \cup Entries(ui.waiting)) \cap gone = {}
         /\ Fits(ui.open)
         /\ ~ui.opening => \A b \in Entries(ui.waiting) : ~HasRoom(ui, b)
  BY WaitingIsEntries
  DEF IInv, Typed, Placed, PlacesWellUsed, Fits, ScreenType, Idle, Entries

\* The same after a step is what the step has to leave behind.
LEMMA GoodOrderAfter ==
  ASSUME /\ NoneTwice(ui'.waiting)
         /\ ui'.seen = ui'.open \cup Entries(ui'.waiting) \cup gone'
         /\ ui'.open \cap Entries(ui'.waiting) = {}
         /\ (ui'.open \cup Entries(ui'.waiting)) \cap gone' = {}
         /\ Fits(ui'.open)
         /\ ~ui'.opening => \A b \in Entries(ui'.waiting) : ~HasRoom(ui', b)
  PROVE  Placed' /\ PlacesWellUsed'
<1>1. Waiting' = Entries(ui'.waiting)
  BY DEF Waiting, Entries
<1>2. QED
  BY <1>1 DEF Placed, PlacesWellUsed, Fits, Idle

\* A recalled alert leaves the waiting list or the screen, and neither makes
\* room for an alert that waits unless the loop is to run.
LEMMA RecallKeeps ==
  ASSUME IInv, NEW a \in Alerts, Recall(a)
  PROVE  Placed' /\ PlacesWellUsed' /\ gone \cap ui'.open = {}
<1> DEFINE W == Entries(ui.waiting)
           P == PlacesOf(ui, a)
<1>0. /\ ui \in ScreenType /\ ui.waiting \in Seq(Alerts) /\ ui.open \in SUBSET Alerts
      /\ NoneTwice(ui.waiting) /\ ui.seen = ui.open \cup W \cup gone
      /\ ui.open \cap W = {} /\ (ui.open \cup W) \cap gone = {}
      /\ Fits(ui.open) /\ \A b \in W : ~HasRoom(ui, b)
      /\ ~ui.opening
  BY InGoodOrder DEF Recall, Idle
<1>1. CASE a \in W
  <2>1. PICK i \in P : i = CHOOSE j \in P : TRUE
    BY <1>1 DEF Entries, PlacesOf
  <2>2. i \in DOMAIN ui.waiting /\ ui.waiting[i] = a /\ P # {}
    BY <2>1 DEF PlacesOf
  <2>3. ui' = [ui EXCEPT !.waiting = Without(@, i)] /\ gone' = gone \cup {a}
    BY <1>0, <1>1, <2>1, <2>2 DEF Recall, AfterRecall
  <2>4. /\ ui'.waiting = Without(ui.waiting, i) /\ ui'.open = ui.open
        /\ ui'.seen = ui.seen
    BY <1>0, <2>3 DEF ScreenType
  <2>5. Entries(ui'.waiting) = W \ {a} /\ NoneTwice(ui'.waiting)
    BY <1>0, <2>2, <2>4, EntriesWithout
  <2>6. \A b \in W : ~HasRoom(ui', b)
    BY <1>0, <2>4 DEF HasRoom
  <2> HIDE DEF W
  <2>7. QED
    BY <1>0, <1>1, <2>3, <2>4, <2>5, <2>6, GoodOrderAfter
<1>2. CASE a \notin W /\ a \in ui.open
  <2>1. P = {}
    BY <1>2 DEF Entries, PlacesOf
  <2>2. ui' = AfterFinish(ui, a) /\ gone' = gone \cup {a}
    BY <1>0, <1>2, <2>1 DEF Recall, AfterRecall
  <2>3. /\ ui'.waiting = ui.waiting /\ ui'.open = ui.open \ {a}
        /\ ui'.seen = ui.seen /\ ui'.opening
    BY <1>0, <2>2 DEF AfterFinish, ScreenType
  <2>4. Fits(ui'.open)
    BY <1>0, <2>3, OneLessFits
  <2> HIDE DEF W
  <2>5. QED
    BY <1>0, <1>2, <2>2, <2>3, <2>4, GoodOrderAfter DEF W
<1>3. CASE a \notin W /\ a \notin ui.open
  <2>1. P = {}
    BY <1>3 DEF Entries, PlacesOf
  <2>2. ui' = ui /\ gone' = gone
    BY <1>0, <1>3, <2>1 DEF Recall, AfterRecall
  <2>3. QED
    BY <1>0, <2>2, GoodOrderAfter
<1>4. QED
  BY <1>1, <1>2, <1>3

\* A window that closes starts the loop.
LEMMA CloseKeeps ==
  ASSUME IInv, NEW a \in Alerts, Close(a)
  PROVE  Placed' /\ PlacesWellUsed' /\ gone \cap ui'.open = {}
<1> DEFINE W == Entries(ui.waiting)
<1>0. /\ ui \in ScreenType /\ ui.open \in SUBSET Alerts
      /\ NoneTwice(ui.waiting) /\ ui.seen = ui.open \cup W \cup gone
      /\ ui.open \cap W = {} /\ (ui.open \cup W) \cap gone = {}
      /\ Fits(ui.open) /\ a \in ui.open
  BY InGoodOrder DEF Close
<1>1. /\ ui'.waiting = ui.waiting /\ ui'.open = ui.open \ {a}
      /\ ui'.seen = ui.seen /\ ui'.opening /\ gone' = gone \cup {a}
  BY <1>0 DEF Close, AfterFinish, ScreenType
<1>2. Fits(ui'.open)
  BY <1>0, <1>1, OneLessFits
<1>3. Entries(ui'.waiting) = W
  BY <1>1
<1> HIDE DEF W
<1>4. QED
  BY <1>0, <1>1, <1>2, <1>3, GoodOrderAfter

\* The loop takes an alert off the list and opens it where there is room.
LEMMA OpenNextKeeps ==
  ASSUME IInv, OpenNext
  PROVE  Typed' /\ Placed' /\ PlacesWellUsed' /\ gone \cap ui'.open = {}
<1> DEFINE W == Entries(ui.waiting)
<1>0. /\ ui \in ScreenType /\ gone \subseteq Alerts /\ ui.waiting \in Seq(Alerts)
      /\ ui.open \in SUBSET Alerts
      /\ NoneTwice(ui.waiting) /\ ui.seen = ui.open \cup W \cup gone
      /\ ui.open \cap W = {} /\ (ui.open \cup W) \cap gone = {}
      /\ Fits(ui.open) /\ ui.opening
  BY InGoodOrder DEF OpenNext
<1>1. PICK i \in DOMAIN ui.waiting :
        /\ IsNext(ui, i)
        /\ ui' = AfterOpenNext(ui, i)
        /\ gone' = gone \cup ({ui.waiting[i]} \cap Unbuildable)
  BY DEF OpenNext
<1>2. PICK a \in Alerts : a = ui.waiting[i]
  BY <1>0
<1>3. a \in W /\ HasRoom(ui, a)
  BY <1>1, <1>2 DEF Entries, IsNext
<1>4. Entries(Without(ui.waiting, i)) = W \ {a} /\ NoneTwice(Without(ui.waiting, i))
  BY <1>0, <1>2, EntriesWithout
<1>5. Typed'
  BY <1>0, <1>1, <1>2, ScreenTypes DEF Typed
<1>6. /\ ui'.waiting = Without(ui.waiting, i) /\ ui'.seen = ui.seen /\ ui'.opening
      /\ ui'.open = IF a \in Unbuildable THEN ui.open ELSE ui.open \cup {a}
  BY <1>0, <1>1, <1>2 DEF AfterOpenNext, AfterOpen, ScreenType
<1>7. Fits(ui'.open)
  BY <1>0, <1>3, <1>6, RoomForOne
<1> HIDE DEF W
<1>8. QED
  BY <1>0, <1>1, <1>2, <1>3, <1>4, <1>5, <1>6, <1>7, GoodOrderAfter

\* It ends when there is room for none that waits.
LEMMA LoopEndsKeeps ==
  ASSUME IInv, LoopEnds
  PROVE  Placed' /\ PlacesWellUsed' /\ gone \cap ui'.open = {}
<1> DEFINE W == Entries(ui.waiting)
<1>0. /\ ui \in ScreenType
      /\ NoneTwice(ui.waiting) /\ ui.seen = ui.open \cup W \cup gone
      /\ ui.open \cap W = {} /\ (ui.open \cup W) \cap gone = {}
      /\ Fits(ui.open)
  BY InGoodOrder
<1>1. \A b \in W : ~HasRoom(ui, b)
  BY <1>0, NoneNext DEF LoopEnds, Entries
<1>2. /\ ui'.waiting = ui.waiting /\ ui'.open = ui.open /\ ui'.seen = ui.seen
      /\ gone' = gone
  BY <1>0 DEF LoopEnds, AfterLoop, ScreenType
<1>3. Entries(ui'.waiting) = W /\ \A b \in W : ~HasRoom(ui', b)
  BY <1>1, <1>2 DEF HasRoom
<1> HIDE DEF W
<1>4. QED
  BY <1>0, <1>2, <1>3, GoodOrderAfter

\* Every step keeps the screen in order, and opens nothing that is gone.
LEMMA StepKeeps == IInv /\ [Next]_vars => IInv' /\ (vars' # vars => gone \cap ui'.open = {})
<1> SUFFICES ASSUME IInv, [Next]_vars
             PROVE  IInv' /\ (vars' # vars => gone \cap ui'.open = {})
  OBVIOUS
<1>0. ui \in ScreenType /\ gone \subseteq Alerts
  BY InGoodOrder
<1>1. ASSUME NEW a \in Alerts, Show(a)
      PROVE  IInv' /\ gone \cap ui'.open = {}
  <2>1. Typed'
    BY <1>0, <1>1, ScreenTypes DEF Typed, Show
  <2>2. QED
    BY <1>1, <2>1, ShowKeeps DEF IInv
<1>2. ASSUME NEW a \in Alerts, Recall(a)
      PROVE  IInv' /\ gone \cap ui'.open = {}
  <2>1. Typed'
    BY <1>0, <1>2, ScreenTypes DEF Typed, Recall
  <2>2. QED
    BY <1>2, <2>1, RecallKeeps DEF IInv
<1>3. ASSUME NEW a \in Alerts, Close(a)
      PROVE  IInv' /\ gone \cap ui'.open = {}
  <2>1. Typed'
    BY <1>0, <1>3, ScreenTypes DEF Typed, Close
  <2>2. QED
    BY <1>3, <2>1, CloseKeeps DEF IInv
<1>4. CASE OpenNext
  BY <1>4, OpenNextKeeps DEF IInv
<1>5. CASE LoopEnds
  <2>1. AfterLoop(ui) \in ScreenType
    BY <1>0 DEF AfterLoop, ScreenType
  <2>2. Typed'
    BY <1>0, <1>5, <2>1 DEF Typed, LoopEnds
  <2>3. QED
    BY <1>5, <2>2, LoopEndsKeeps DEF IInv
<1>6. CASE UNCHANGED vars
  BY <1>6 DEF vars, IInv, Typed, Placed, PlacesWellUsed, Waiting, Idle
<1>7. QED
  BY <1>1, <1>2, <1>3, <1>4, <1>5, <1>6 DEF Next

\* Nobody is in two places, so there are as many waiting as the list is long.
LEMMA PlacedTells == IInv => EveryAlertAccountedFor
<1> SUFFICES ASSUME IInv PROVE EveryAlertAccountedFor
  OBVIOUS
<1>1. ui.waiting \in Seq(Alerts) /\ NoneTwice(ui.waiting)
  BY InGoodOrder
<1>2. Cardinality(Waiting) = Len(ui.waiting)
  BY <1>1, EntriesCounted, WaitingIsEntries
<1>3. QED
  BY <1>2 DEF IInv, Placed, EveryAlertAccountedFor

LEMMA Order == Spec => []IInv
<1>1. IInv /\ [Next]_vars => IInv'
  BY StepKeeps
<1>2. QED
  BY InitOK, <1>1, PTL DEF Spec

-----------------------------------------------------------------------------
(* What follows *)

\* The screen keeps its type (AlertForm.cs, the fields of AlertManager), and
\* its waiting list is no longer than there are alerts.
THEOREM ScreenIsTyped == Spec => []TypeOK
<1>1. ASSUME IInv PROVE TypeOK
  <2>1. Typed /\ Waiting \in SUBSET Alerts
    BY <1>1, InGoodOrder, WaitingIsEntries DEF Entries, Typed
  <2>2. Cardinality(Waiting) <= Cardinality(Alerts)
    BY <2>1, AlertSpecsAssumption, FS_Subset
  <2>3. Cardinality(Waiting) = Len(ui.waiting)
    BY <1>1, PlacedTells DEF EveryAlertAccountedFor
  <2>4. QED
    BY <2>1, <2>2, <2>3 DEF Typed, TypeOK
<1>2. QED
  BY Order, <1>1, PTL

\* There are never more windows than places, and whenever the UI thread is
\* free nobody waits for a place that is free, in whatever order alerts come,
\* are recalled and are closed (HasRoom, OnFinished).
THEOREM PlacesAreUsed == Spec => []PlacesWellUsed
<1>1. IInv => PlacesWellUsed
  BY DEF IInv
<1>2. QED
  BY Order, <1>1, PTL

\* Every alert the client was handed is on screen, waiting once or gone, and
\* in one of these places only (Show, Recall, Finish, OnFinished).
THEOREM NoAlertIsLost == Spec => []EveryAlertAccountedFor
  BY Order, PlacedTells, PTL

\* What has left the screen or the list never opens again (Show, Recall,
\* OnFinished).
THEOREM NoAlertComesBack == Spec => GoneForGood
<1>1. IInv /\ [Next]_vars => [gone \cap ui'.open = {}]_vars
  BY StepKeeps
<1>2. QED
  BY Order, <1>1, PTL DEF Spec, GoneForGood
=============================================================================
