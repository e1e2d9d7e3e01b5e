----------------------------- MODULE MCLongPoll -----------------------------
(* Three polls, two of them of one client (the second as left behind by a   *)
(* request the client has abandoned) and one of these not waiting, and two  *)
(* staff requests, one of which is for both clients.                        *)
EXTENDS LongPoll

CONSTANTS c1, c2, p1, p2, p3, w1, w2

WidePolls    == {p1, p2, p3}
WideClientOf == [p \in WidePolls |-> IF p = p3 THEN c2 ELSE c1]
WideHolding  == {p1, p3}
WideAudience == [w \in {w1, w2} |-> IF w = w1 THEN {c1} ELSE {c1, c2}]
=============================================================================
