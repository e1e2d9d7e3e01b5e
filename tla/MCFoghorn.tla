------------------------------ MODULE MCFoghorn -----------------------------
(* The instances of Foghorn.  Two connections let a request of a client be *)
(* served while the handler of one it has abandoned still runs; the run    *)
(* with two alerts makes do with one.                                      *)
EXTENDS FoghornLedger, TLC

CONSTANTS a1, a2, c1, k1, k2

\* Every alert is for everybody.
Everyone == [a \in Alerts |-> Clients]

\* Two instances in one: two sessions with a failure and an alert that runs
\* out, and one session with a recall and a crash.
OneFailure ==
  crashes > 0 \/ disk # EmptyMem \/ mem.recalled # {} =>
    /\ faults = 0 /\ expired = {} /\ mem.tooOld = {}
    /\ \A c \in Clients : session[c] <= 1

\* Three instances in one: two sessions, one session with a failure, and one
\* with a crash.  Steps that are fair change nothing this speaks of, so they are
\* never held back.
OneTrouble ==
  LET crash == crashes > 0 \/ disk # EmptyMem IN
    /\ ~(crash /\ faults > 0)
    /\ crash \/ faults > 0 => \A c \in Clients : up[c] /\ session[c] = 1
LiveSpec == Init /\ [][Next /\ OneTrouble']_vars /\ Fairness

Symmetry == Permutations({k1, k2})
=============================================================================
