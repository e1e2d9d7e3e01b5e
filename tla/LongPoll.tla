------------------------------ MODULE LongPoll ------------------------------
(***************************************************************************)
(* The long-poll rendezvous of the server: the hub (server/api_client.go,  *)
(* type hub), the loop of handlePoll that waits on it, the staff requests  *)
(* that change the alert list and then wake it (handleSendAlert,           *)
(* handleRecallAlert), and the shutdown of runServer (server/main.go).     *)
(*                                                                         *)
(* Each goroutine has a program counter; a step is one critical section of *)
(* the store lock or of the hub lock, one atomic load or store, or one arm *)
(* of the select.  The channel the hub holds is the number of the times it *)
(* has been replaced: channel g is closed exactly when g < gen.            *)
(*                                                                         *)
(* What an alert says, and whether a delivery is a first one or a repeat,  *)
(* is the subject of Foghorn.tla: here a staff request w is a piece of     *)
(* news for the clients in Audience[w], handed over once per client.       *)
(***************************************************************************)
EXTENDS Naturals

CONSTANTS Clients,   \* the client records of the store
          Polls,     \* the goroutines that serve /api/client/poll
          ClientOf,  \* the client a goroutine serves: several may serve one
          Holding,   \* the polls whose request says wait = true
          Writers,   \* the goroutines that serve one send or one recall
          Audience   \* the clients the news of a writer is for

ASSUME LongPollAssumption ==
  /\ ClientOf \in [Polls -> Clients]
  /\ Holding \subseteq Polls
  /\ Audience \in [Writers -> SUBSET Clients]

VARIABLES gen,      \* hub.ch: how often wake has replaced the channel
          pc,       \* where each poll is in handlePoll
          ch,       \* the channel each poll took with hub.wait
          got,      \* what the last pendingFor of each poll returned
          stored,   \* the news in the store (s.Alerts)
          told,     \* the news each client has been handed (Delivery marks)
          wpc,      \* where each staff request is
          closing,  \* App.closing
          spc       \* where runServer is in its shutdown

vars == <<gen, pc, ch, got, stored, told, wpc, closing, spc>>

\* What pendingFor would return for client c.
Pending(c) == {w \in stored : c \in Audience[w]} \ told[c]

Init ==
  /\ gen = 0
  /\ pc = [p \in Polls |-> "idle"]
  /\ ch = [p \in Polls |-> 0]
  /\ got = [p \in Polls |-> {}]
  /\ stored = {}
  /\ told = [c \in Clients |-> {}]
  /\ wpc = [w \in Writers |-> "idle"]
  /\ closing = FALSE
  /\ spc = "serving"

-----------------------------------------------------------------------------
(* handlePoll *)

\* A request comes in: possible until Shutdown has closed the listener and
\* the connections kept alive.
Arrive(p) ==
  /\ pc[p] = "idle"
  /\ spc # "down"
  /\ pc' = [pc EXCEPT ![p] = "grab"]
  /\ UNCHANGED <<gen, ch, got, stored, told, wpc, closing, spc>>

\* wakeCh := a.hub.wait()
Grab(p) ==
  /\ pc[p] = "grab"
  /\ ch' = [ch EXCEPT ![p] = gen]
  /\ pc' = [pc EXCEPT ![p] = "look"]
  /\ UNCHANGED <<gen, got, stored, told, wpc, closing, spc>>

\* Mutant of Look: marks the client, not the news, as handed over.
LookMarksClient(p) ==
  /\ pc[p] = "look"
  /\ got' = [got EXCEPT ![p] = Pending(ClientOf[p])]
  /\ told' = [told EXCEPT ![ClientOf[p]] = @ \cup {ClientOf[p]}]
  /\ pc' = [pc EXCEPT ![p] = "decide"]
  /\ UNCHANGED <<gen, ch, stored, wpc, closing, spc>>

\* pendingFor under the store lock: what it returns is marked as sent.
Look(p) ==
  /\ pc[p] = "look"
  /\ got' = [got EXCEPT ![p] = Pending(ClientOf[p])]
  /\ told' = [told EXCEPT ![ClientOf[p]] = @ \cup Pending(ClientOf[p])]
  /\ pc' = [pc EXCEPT ![p] = "decide"]
  /\ UNCHANGED <<gen, ch, stored, wpc, closing, spc>>

\* The goroutine ends, and its local variables with it.
Leave(p) ==
  /\ pc' = [pc EXCEPT ![p] = "idle"]
  /\ ch' = [ch EXCEPT ![p] = 0]
  /\ got' = [got EXCEPT ![p] = {}]

\* Mutant of Decide: takes the channel after the look, not before it.
DecideThenGrab(p) ==
  /\ pc[p] = "decide"
  /\ IF got[p] # {} \/ p \notin Holding \/ closing
       THEN Leave(p)
       ELSE /\ pc' = [pc EXCEPT ![p] = "select"]
            /\ ch' = [ch EXCEPT ![p] = gen]
            /\ UNCHANGED got
  /\ UNCHANGED <<gen, stored, told, wpc, closing, spc>>

\* Mutant of Decide: does not look at closing.
DecideDeaf(p) ==
  /\ pc[p] = "decide"
  /\ IF got[p] # {} \/ p \notin Holding
       THEN Leave(p)
       ELSE pc' = [pc EXCEPT ![p] = "select"] /\ UNCHANGED <<ch, got>>
  /\ UNCHANGED <<gen, stored, told, wpc, closing, spc>>

\* Answer when there is news, when the caller does not wait, or when the
\* server is going down; otherwise go to sleep.
Decide(p) ==
  /\ pc[p] = "decide"
  /\ IF got[p] # {} \/ p \notin Holding \/ closing
       THEN Leave(p)
       ELSE pc' = [pc EXCEPT ![p] = "select"] /\ UNCHANGED <<ch, got>>
  /\ UNCHANGED <<gen, stored, told, wpc, closing, spc>>

\* case <-wakeCh
WakeUp(p) ==
  /\ pc[p] = "select"
  /\ ch[p] < gen
  /\ pc' = [pc EXCEPT ![p] = "grab"]
  /\ UNCHANGED <<gen, ch, got, stored, told, wpc, closing, spc>>

\* case <-deadline.C (an empty answer) and case <-r.Context().Done().
GiveUp(p) ==
  /\ pc[p] = "select"
  /\ Leave(p)
  /\ UNCHANGED <<gen, stored, told, wpc, closing, spc>>

-----------------------------------------------------------------------------
(* handleSendAlert and handleRecallAlert *)

\* The critical section that changes the alert list.
Store(w) ==
  /\ wpc[w] = "idle"
  /\ stored' = stored \cup {w}
  /\ wpc' = [wpc EXCEPT ![w] = "stored"]
  /\ UNCHANGED <<gen, pc, ch, got, told, closing, spc>>

\* Mutant of Wake: the staff request forgets a.hub.wake().
WakeNobody(w) ==
  /\ wpc[w] = "stored"
  /\ wpc' = [wpc EXCEPT ![w] = "woken"]
  /\ UNCHANGED <<gen, pc, ch, got, stored, told, closing, spc>>

\* a.hub.wake(), after the store lock has been released.
Wake(w) ==
  /\ wpc[w] = "stored"
  /\ gen' = gen + 1
  /\ wpc' = [wpc EXCEPT ![w] = "woken"]
  /\ UNCHANGED <<pc, ch, got, stored, told, closing, spc>>

-----------------------------------------------------------------------------
(* runServer *)

\* a.closing.Store(true)
Close ==
  /\ spc = "serving"
  /\ closing' = TRUE
  /\ spc' = "waking"
  /\ UNCHANGED <<gen, pc, ch, got, stored, told, wpc>>

\* Mutant of Release: the shutdown does not wake the hub.
ReleaseNobody ==
  /\ spc = "waking"
  /\ spc' = "draining"
  /\ UNCHANGED <<gen, pc, ch, got, stored, told, wpc, closing>>

\* a.hub.wake(), and then Shutdown, which closes the listener.
Release ==
  /\ spc = "waking"
  /\ gen' = gen + 1
  /\ spc' = "draining"
  /\ UNCHANGED <<pc, ch, got, stored, told, wpc, closing>>

\* Shutdown returns: every request is over, or its four seconds are.
Drained ==
  /\ spc = "draining"
  /\ spc' = "down"
  /\ UNCHANGED <<gen, pc, ch, got, stored, told, wpc, closing>>

-----------------------------------------------------------------------------
Poll(p) == Grab(p) \/ Look(p) \/ Decide(p) \/ WakeUp(p)

Next ==
  \/ \E p \in Polls : Arrive(p) \/ Poll(p) \/ GiveUp(p)
  \/ \E w \in Writers : Store(w) \/ Wake(w)
  \/ Close \/ Release \/ Drained

Spec == Init /\ [][Next]_vars

\* A goroutine that can run does run.  No fairness for GiveUp: what follows
\* must not lean on the 25-second timer or on the client hanging up.
Fairness ==
  /\ \A p \in Polls : WF_vars(Poll(p))
  /\ \A w \in Writers : WF_vars(Wake(w))
  /\ WF_vars(Release)

FairSpec == Spec /\ Fairness

-----------------------------------------------------------------------------
\* The variables have their types: no poll, channel or piece of news ever
\* takes a value the program has no name for (handlePoll, hub).
TypeOK ==
  /\ gen \in Nat
  /\ pc \in [Polls -> {"idle", "grab", "look", "decide", "select"}]
  /\ ch \in [Polls -> Nat]
  /\ got \in [Polls -> SUBSET Writers]
  /\ stored \in SUBSET Writers
  /\ told \in [Clients -> SUBSET Writers]
  /\ wpc \in [Writers -> {"idle", "stored", "woken"}]
  /\ closing \in BOOLEAN
  /\ spc \in {"serving", "waking", "draining", "down"}

\* Poll p is blocked in the select and nothing has closed its channel yet.
Asleep(p) == pc[p] = "select" /\ ch[p] = gen

\* No wake-up is lost (the comment in handlePoll: "a send that lands between
\* look and wait still wakes us"): when a poll sleeps while there is news
\* for its client, each piece of that news has a staff request that has
\* stored it and is still about to wake the hub.
NoLostWakeup ==
  \A p \in Polls : Asleep(p) =>
    \A w \in Pending(ClientOf[p]) : wpc[w] = "stored"

\* Shutdown releases every held poll (runServer: "release every held
\* long-poll"): once the hub has been woken with closing set, no poll sleeps
\* again, whatever it was doing when closing was set.
ShutdownReleases ==
  spc \in {"draining", "down"} => \A p \in Polls : ~Asleep(p)

\* A piece of news in the store reaches a client that has a poll held, or
\* that poll ends, without help from the hold timer.
NewsReachesHeldPoll ==
  \A p \in Polls : \A w \in Writers :
    (pc[p] = "select" /\ w \in Pending(ClientOf[p]))
      ~> (w \in told[ClientOf[p]] \/ pc[p] = "idle")

\* After the server starts to shut down, every held poll comes back.
ShutdownDrains ==
  \A p \in Polls : (closing /\ pc[p] = "select") ~> (pc[p] = "idle")
=============================================================================
