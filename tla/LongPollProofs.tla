--------------------------- MODULE LongPollProofs ---------------------------
(***************************************************************************)
(* Proofs about LongPoll for every number of clients, polls and staff      *)
(* requests, and for every audience.                                       *)
(***************************************************************************)
EXTENDS LongPoll, TLAPS

\* A poll holds a channel that the hub has handed out.
ChannelOld == \A p \in Polls : ch[p] <= gen

\* What NoLostWakeup says of a sleeping poll already holds of a poll that has
\* looked, found nothing and not yet gone to sleep.
LookedInVain(p) == pc[p] = "decide" /\ got[p] = {}
NewsIsAnnounced ==
  \A p \in Polls :
    (LookedInVain(p) \/ pc[p] = "select") /\ ch[p] = gen =>
      \A w \in Pending(ClientOf[p]) : wpc[w] = "stored"

\* A poll that sleeps although closing is set has taken its channel before
\* the wake-up of the shutdown.
ClosingIsAnnounced ==
  /\ spc # "serving" => closing
  /\ \A p \in Polls : Asleep(p) /\ closing => spc = "waking"

IInv == TypeOK /\ ChannelOld /\ NewsIsAnnounced /\ ClosingIsAnnounced

LEMMA InitInv == Init => IInv
<1> SUFFICES ASSUME Init PROVE IInv
  OBVIOUS
<1> USE LongPollAssumption DEF Init
<1>1. TypeOK
  BY DEF TypeOK
<1>2. ChannelOld
  BY DEF ChannelOld
<1>3. NewsIsAnnounced
  BY DEF NewsIsAnnounced, LookedInVain, Pending
<1>4. ClosingIsAnnounced
  BY DEF ClosingIsAnnounced, Asleep
<1>5. QED
  BY <1>1, <1>2, <1>3, <1>4 DEF IInv

LEMMA StepInv == IInv /\ [Next]_vars => IInv'
<1> SUFFICES ASSUME IInv, [Next]_vars PROVE IInv'
  OBVIOUS
<1> USE LongPollAssumption
    DEF IInv, TypeOK, ChannelOld, NewsIsAnnounced, ClosingIsAnnounced,
        LookedInVain, Asleep, Pending
<1>1. ASSUME NEW p \in Polls, Arrive(p) PROVE IInv'
  BY <1>1 DEF Arrive
<1>2. ASSUME NEW p \in Polls, Grab(p) PROVE IInv'
  BY <1>2 DEF Grab
<1>3. ASSUME NEW p \in Polls, Look(p) PROVE IInv'
  BY <1>3 DEF Look
<1>4. ASSUME NEW p \in Polls, Decide(p) PROVE IInv'
  BY <1>4 DEF Decide, Leave
<1>5. ASSUME NEW p \in Polls, WakeUp(p) PROVE IInv'
  BY <1>5 DEF WakeUp
<1>6. ASSUME NEW p \in Polls, GiveUp(p) PROVE IInv'
  BY <1>6 DEF GiveUp, Leave
<1>7. ASSUME NEW w \in Writers, Store(w) PROVE IInv'
  BY <1>7 DEF Store
<1>8. ASSUME NEW w \in Writers, Wake(w) PROVE IInv'
  BY <1>8 DEF Wake
<1>9. CASE Close
  BY <1>9 DEF Close
<1>10. CASE Release
  BY <1>10 DEF Release
<1>11. CASE Drained
  BY <1>11 DEF Drained
<1>12. CASE UNCHANGED vars
  BY <1>12 DEF vars
<1>13. QED
  BY <1>1, <1>2, <1>3, <1>4, <1>5, <1>6, <1>7, <1>8, <1>9, <1>10, <1>11, <1>12
  DEF Next, Poll

\* The invariant the three theorems below rest on.
LEMMA InvHolds == Spec => []IInv
<1>1. QED
  BY InitInv, StepInv, PTL DEF Spec

\* The variables of the rendezvous keep their types, for any number of polls
\* and staff requests (handlePoll, hub, runServer).
THEOREM TypeCorrect == Spec => []TypeOK
<1>1. IInv => TypeOK
  BY DEF IInv
<1>2. QED
  BY <1>1, InvHolds, PTL

\* The order "take the channel, look, sleep" of handlePoll and "store, wake"
\* of the staff handlers loses no wake-up, for any number of either.
THEOREM NoWakeupIsLost == Spec => []NoLostWakeup
<1>1. IInv => NoLostWakeup
  BY DEF IInv, NewsIsAnnounced, NoLostWakeup, Asleep
<1>2. QED
  BY <1>1, InvHolds, PTL

\* The order "closing, wake" of runServer leaves no poll asleep once the hub
\* has been woken, for any number of polls.
THEOREM ShutdownReleasesEveryPoll == Spec => []ShutdownReleases
<1>1. IInv => ShutdownReleases
  BY DEF IInv, ClosingIsAnnounced, ShutdownReleases, Asleep
<1>2. QED
  BY <1>1, InvHolds, PTL
=============================================================================
