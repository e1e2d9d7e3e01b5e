------------------------------- MODULE Ledger -------------------------------
(***************************************************************************)
(* What Foghorn promises the sender of an alert, seen from the history     *)
(* page: the records of an alert follow what happened on the screens it is *)
(* for.  A record may lag behind the screens, never run ahead of them, and *)
(* never takes back a display or a confirmation; a confirmation stands     *)
(* whatever else is reported.  There are no sessions, requests, replies or *)
(* queues here: Foghorn.tla implements this specification as long as the   *)
(* server does not lose its memory.                                        *)
(***************************************************************************)
EXTENDS AlertSpecs

CONSTANTS Clients, Audience

VARIABLES posted, recalled,
          happened,  \* what happened on the screens: <<client, alert, kind>>
          record     \* what the history says of each alert on each client

vars == <<posted, recalled, happened, record>>

Record ==
  [displayed : BOOLEAN, acked : BOOLEAN,
   closed : Closings \cup {"", "acknowledged"}]

Blank == [displayed |-> FALSE, acked |-> FALSE, closed |-> ""]

Init ==
  /\ posted = {} /\ recalled = {} /\ happened = {}
  /\ record = [a \in Alerts |-> [c \in Clients |-> Blank]]

Post(a) ==
  /\ posted' = posted \cup {a}
  /\ UNCHANGED <<recalled, happened, record>>

Recall(a) ==
  /\ a \in posted
  /\ recalled' = recalled \cup {a}
  /\ UNCHANGED <<posted, happened, record>>

\* What a screen may do with an alert: show one that was posted for it, and
\* end one it has shown, in a way that alert allows.
May(c, a, k) ==
  /\ a \in posted
  /\ c \in Audience[a]
  /\ k # "displayed" => <<c, a, "displayed">> \in happened
  /\ k = "acknowledged" => a \in RequireAck
  /\ k = "dismissed" => a \notin RequireAck
  /\ k = "timeout" => a \in Timed
  /\ k = "recalled" => a \in recalled

Happen(c, a, k) ==
  /\ May(c, a, k)
  /\ happened' = happened \cup {<<c, a, k>>}
  /\ UNCHANGED <<posted, recalled, record>>

\* A record for client c and alert a that what happened justifies.
Justified(r, c, a) ==
  /\ r.displayed => <<c, a, "displayed">> \in happened
  /\ r.closed # "" => <<c, a, r.closed>> \in happened
  /\ r.acked <=> r.closed = "acknowledged"
  /\ r.acked => r.displayed

\* Nothing once recorded is taken back: only a confirmation may replace
\* another reason.
Extends(r, old) ==
  /\ old.displayed => r.displayed
  /\ old.acked => r.acked
  /\ old.closed # "" => r.closed \in {old.closed, "acknowledged"}

\* The server catches up with one client, about any number of alerts.
Learn(c) ==
  /\ record' \in [Alerts -> [Clients -> Record]]
  /\ \A a \in Alerts :
       /\ Justified(record'[a][c], c, a)
       /\ Extends(record'[a][c], record[a][c])
       /\ \A x \in Clients \ {c} : record'[a][x] = record[a][x]
  /\ UNCHANGED <<posted, recalled, happened>>

Next ==
  \/ \E a \in Alerts : Post(a) \/ Recall(a)
  \/ \E c \in Clients, a \in Alerts, k \in Kinds : Happen(c, a, k)
  \/ \E c \in Clients : Learn(c)

Spec == Init /\ [][Next]_vars
=============================================================================
