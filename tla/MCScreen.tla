------------------------------ MODULE MCScreen ------------------------------
(* Four cards, one of which cannot be built, for two card places, and two  *)
(* full-screen alerts for the one full-screen place: cards and full-screen *)
(* alerts can wait at the same time and in any order.                      *)
EXTENDS Screen

CONSTANTS a1, a2, a3, f1, f2, u1
=============================================================================
