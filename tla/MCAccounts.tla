----------------------------- MODULE MCAccounts -----------------------------
(* Two accounts, two requests at a time: every pair of critical sections,  *)
(* an administrator who is made and one who is unmade.                     *)
EXTENDS Accounts, TLC

CONSTANTS u1, u2, n1, n2, m1, m2, p1, p2, s1, s2, s3, g1, ip1

Form(role, disabled, allowed, reset) ==
  [role |-> role, disabled |-> disabled, allowed |-> allowed, reset |-> reset]

\* Each account is found under two names.
HolderOf == n1 :> u1 @@ m1 :> u1 @@ n2 :> u2 @@ m2 :> u2

\* Promoted, demoted, disabled, reset, limited.
SomeForms ==
  {Form("admin", FALSE, {}, FALSE), Form("sender", FALSE, {}, FALSE),
   Form("admin", TRUE, {}, FALSE), Form("sender", FALSE, {g1}, TRUE)}

Working(role, password, allowed) ==
  [NoUser EXCEPT !.state = "in", !.role = role, !.hash = password,
                 !.allowed = allowed]

\* A server in use, as the actions of the module reach it: account a was made
\* by bootstrap, has chosen a password and is signed in, a group exists, and b
\* is new, a sender limited to the group, or another administrator.  It saves
\* the requests it takes to get there.
InUse(a, b) ==
  /\ running = TRUE
  /\ \E r \in {NoUser, Working("sender", 4, {g1}), Working("admin", 4, {})} :
       /\ users = [u \in Accounts |->
                     IF u = a THEN Working("admin", 2, {}) ELSE r]
       /\ given = [u \in Accounts |->
                     IF u = a THEN [limit |-> {}, password |-> 1]
                     ELSE [limit |-> r.allowed,
                           password |-> IF r.hash = 0 THEN 0 ELSE 3]]
       /\ passwords = IF r.hash = 0 THEN 2 ELSE 4
  /\ groups = [g \in Groups |-> "in"]
  /\ sessions = [s \in Sids |-> IF s = s1 THEN [state |-> "live", user |-> a]
                                ELSE NoSession]
  /\ throttle = [k \in Keys |-> NoAttempts]
  /\ req = [p \in Requests |-> Rest]
  /\ requests = 0 /\ stops = 0
  /\ opened = [s \in Sids |-> [with |-> IF s = s1 THEN 1 ELSE 0, raced |-> FALSE]]
  /\ cut = {} /\ strayed = {}
  /\ late = [k \in Keys |-> {}]

MCInit == Init \/ \E a, b \in Accounts : a # b /\ InUse(a, b)

\* A stop uses up one of the requests there may be, and so does a failure.
OneBudget ==
  /\ requests + stops <= MaxRequest
  /\ (\E k \in Keys : throttle[k] # NoAttempts) => requests + stops < MaxRequest

MCSpec == MCInit /\ [][Next]_vars

\* Accounts are alike together with their names, and so are the names of one.
Swap ==
  u1 :> u2 @@ u2 :> u1 @@ n1 :> n2 @@ n2 :> n1 @@ m1 :> m2 @@ m2 :> m1

Symmetry ==
  {Swap} \cup Permutations({n1, m1}) \cup Permutations({n2, m2})
    \cup Permutations({p1, p2}) \cup Permutations({s2, s3})
=============================================================================
