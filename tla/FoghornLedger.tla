--------------------------- MODULE FoghornLedger ----------------------------
(***************************************************************************)
(* Foghorn implements Ledger: the history page is read off the delivery    *)
(* records (viewAlert and status), and what happened on the screens is     *)
(* what their processes have reported.                                     *)
(***************************************************************************)
EXTENDS Foghorn

\* The part of a delivery record the history shows.
Shown(d) == [displayed |-> d.displayed, acked |-> d.acked, closed |-> d.closed]

L == INSTANCE Ledger WITH
       posted   <- mem.posted,
       recalled <- mem.recalled,
       happened <- {<<r[1], r[3], r[4]>> : r \in said},
       record   <- [a \in Alerts |-> [c \in Clients |-> Shown(mem.deliv[a][c])]]

\* Every step of the server, the pollers and the screens is a step of the
\* ledger or leaves it alone.
ImplementsLedger == L!Spec
=============================================================================
