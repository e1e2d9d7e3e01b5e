------------------------------ MODULE Accounts ------------------------------
(***************************************************************************)
(* Who may use the web console: accounts, saved groups as limits of        *)
(* senders, sign-in sessions and the lock-out (server/auth.go, the account *)
(* and group handlers of server/api_admin.go, bootstrap and resetPassword  *)
(* of server/main.go).                                                     *)
(*                                                                         *)
(* Every HTTP request is a process.  One step is one critical section of   *)
(* the store, the sessions or the throttle, with the computation after it. *)
(* Between its steps a request carries copies: of a password hash while it *)
(* is verified, of the whole account while its handler runs.               *)
(*                                                                         *)
(* An account or group keeps its id for ever, and its name with it; a name *)
(* at sign-in is one as typed, in lower case, and several can find one     *)
(* account.  A password is the number of the hash made of it; 0 is the     *)
(* empty hash, which no password fits.  A restart reads what the memory    *)
(* held at the last flush: requests, sessions and the throttle do not      *)
(* outlive the server, so what it lost of the accounts counts as not done. *)
(***************************************************************************)
EXTENDS Naturals, Sequences, FiniteSets

CONSTANTS Accounts,     \* the ids there can be
          Groups,       \* the ids of saved groups there can be
          Requests,     \* the goroutines of requests
          Sids,         \* the session cookies there can be
          Addresses,    \* the network addresses requests come from
          Names,        \* the names typed at sign-in, in lower case
          Holder,       \* the account each name finds, trimmed and folded
          Nobody,       \* no account
          Forms,        \* bound: what administrators fill in
          MaxFails,     \* wrong passwords before a lock-out (5 in the code)
          MaxPassword,  \* bound: passwords ever made
          MaxRequest,   \* bound: requests
          MaxStop       \* bound: stops of the server

FormType == [role : {"admin", "sender"}, disabled : BOOLEAN,
             allowed : SUBSET Groups, reset : BOOLEAN]

ASSUME AccountsAssumption ==
  /\ IsFiniteSet(Accounts)
  /\ Nobody \notin Accounts
  /\ Names \cap Addresses = {}
  /\ Holder \in [Names -> Accounts]
  /\ Forms \subseteq FormType
  /\ MaxFails \in Nat \ {0} /\ MaxPassword \in Nat
  /\ MaxRequest \in Nat /\ MaxStop \in Nat

Keys == Names \cup Addresses  \* "user:..." and "ip:..." of the throttle

VARIABLES
  running,    \* the server serves
  users,      \* State.Users, and the records it has let go of
  groups,     \* State.Groups: each id new, in the list or gone
  passwords,  \* how many passwords have been made
  sessions,   \* sessionStore.m: each cookie new, live or gone
  throttle,   \* throttle.m
  req,        \* where each request is, and what it carries
  requests, stops,  \* what is used up of the bounds
  \* history, read by no action
  given,      \* the limit and the password others last gave an account
  opened,     \* how each session was opened
  cut,        \* accounts whose first password a stop has prevented
  late,       \* requests that were past the check of a key when it locked
  strayed     \* how alerts have left the limits of their senders

history == <<given, opened, cut, late, strayed>>
vars == <<running, users, groups, passwords, sessions, throttle, req, requests,
          stops, history>>

NoUser == [state |-> "new", role |-> "sender", disabled |-> FALSE, hash |-> 0,
           must |-> FALSE, allowed |-> {}]
NoAttempts == [fails |-> 0, locked |-> FALSE, old |-> FALSE]
NoSession == [state |-> "new", user |-> Nobody]
\* who: the account it signs in to or acts for; me: the copy of it (identity);
\* tried against hash: the password given; on: the account its handler is
\* about; keys: its keys of the throttle, and todo what a loop over them has
\* left.
Rest == [pc |-> "idle", who |-> Nobody, me |-> NoUser, tried |-> 0,
         hash |-> 0, on |-> Nobody, keys |-> <<>>, todo |-> <<>>]

Init ==
  /\ running = FALSE
  /\ users = [u \in Accounts |-> NoUser]
  /\ groups = [g \in Groups |-> "new"]
  /\ passwords = 0
  /\ sessions = [s \in Sids |-> NoSession]
  /\ throttle = [k \in Keys |-> NoAttempts]
  /\ req = [p \in Requests |-> Rest]
  /\ requests = 0 /\ stops = 0
  /\ given = [u \in Accounts |-> [limit |-> {}, password |-> 0]]
  /\ opened = [s \in Sids |-> [with |-> 0, raced |-> FALSE]]
  /\ cut = {} /\ strayed = {}
  /\ late = [k \in Keys |-> {}]

In(u) == users[u].state = "in"
Admins ==
  {u \in Accounts : In(u) /\ users[u].role = "admin" /\ ~users[u].disabled}
Existing(G) == {g \in G : groups[g] = "in"}

At(p, l) == req[p].pc = l
Goto(p, l) == req' = [req EXCEPT ![p].pc = l]
Answer(p) == req' = [req EXCEPT ![p] = Rest]

\* A request arrives.
Begin(p, r) ==
  /\ running
  /\ At(p, "idle")
  /\ requests < MaxRequest
  /\ requests' = requests + 1
  /\ req' = [req EXCEPT ![p] = r]
  /\ late' = [k \in Keys |-> late[k] \ {p}]

-----------------------------------------------------------------------------
(* handleLogin *)

\* The key is the name as typed, the account the one the trimmed name finds.
\* A name no account has, or a wrong password, is a password that fits
\* nothing: the throw-away hash is verified in its place.  The password tried
\* is a wrong one or the right one of the moment the request arrives.
SignIn(p, ip, n, password) ==
  /\ Begin(p, [Rest EXCEPT !.pc = "check", !.who = Holder[n],
                           !.tried = password,
                           !.keys = <<ip, n>>, !.todo = <<ip, n>>])
  /\ UNCHANGED <<running, users, groups, passwords, sessions, throttle, stops,
                 given, opened, cut, strayed>>

\* On to the next key, or past the loop.
NextKey(p, l) ==
  req' = [req EXCEPT ![p].todo = Tail(@),
                     ![p].pc = IF Len(req[p].todo) = 1 THEN l ELSE @]

\* Mutant of CheckKey: only the lock of an address ends the request.
CheckAddressOnly(p) ==
  /\ At(p, "check")
  /\ IF Head(req[p].todo) \in Addresses /\ throttle[Head(req[p].todo)].locked
       THEN Answer(p) ELSE NextKey(p, "read")
  /\ UNCHANGED <<running, users, groups, passwords, sessions, throttle,
                 requests, stops, history>>

\* throttle.blocked, once per key; a locked one ends the request.
CheckKey(p) ==
  /\ At(p, "check")
  /\ IF throttle[Head(req[p].todo)].locked THEN Answer(p) ELSE NextKey(p, "read")
  /\ UNCHANGED <<running, users, groups, passwords, sessions, throttle,
                 requests, stops, history>>

\* The hash is read under the lock and verified outside it.
ReadHash(p) ==
  /\ At(p, "read")
  /\ LET u == req[p].who IN
       req' = [req EXCEPT ![p].pc = "verify",
                          ![p].hash = IF In(u) THEN users[u].hash ELSE 0]
  /\ UNCHANGED <<running, users, groups, passwords, sessions, throttle,
                 requests, stops, history>>

\* Under the lock again: the account must not be disabled by now.
Verify(p) ==
  /\ At(p, "verify")
  /\ LET fits == /\ req[p].hash # 0 /\ req[p].tried = req[p].hash
                 /\ ~users[req[p].who].disabled
     IN req' = [req EXCEPT ![p].pc = IF fits THEN "clear" ELSE "fail",
                           ![p].todo = req[p].keys]
  /\ UNCHANGED <<running, users, groups, passwords, sessions, throttle,
                 requests, stops, history>>

Has(keys, k) == \E i \in DOMAIN keys : keys[i] = k

\* The requests that will try, or have tried and pass, a password for key k.
Trying(k) ==
  {p \in Requests :
     /\ Has(req[p].keys, k)
     /\ req[p].pc \in {"read", "verify"} \/ (At(p, "check") /\ ~Has(req[p].todo, k))}

\* Mutant of CountFailure: one failure more before the lock.
CountFailureLate(p) ==
  /\ At(p, "fail")
  /\ LET k == Head(req[p].todo)
         a == IF throttle[k].old THEN NoAttempts ELSE throttle[k]
         locks == a.fails >= MaxFails
     IN /\ throttle' = [throttle EXCEPT ![k] =
             IF locks THEN [fails |-> 0, locked |-> TRUE, old |-> FALSE]
                      ELSE [a EXCEPT !.fails = @ + 1]]
        /\ late' = IF locks THEN [late EXCEPT ![k] = Trying(k)] ELSE late
        /\ IF Len(req[p].todo) = 1 THEN Answer(p) ELSE NextKey(p, "fail")
  /\ UNCHANGED <<running, users, groups, passwords, sessions, requests, stops,
                 given, opened, cut, strayed>>

\* throttle.fail, once per key: a count older than ten minutes starts anew.
CountFailure(p) ==
  /\ At(p, "fail")
  /\ LET k == Head(req[p].todo)
         a == IF throttle[k].old THEN NoAttempts ELSE throttle[k]
         locks == a.fails + 1 >= MaxFails
     IN /\ throttle' = [throttle EXCEPT ![k] =
             IF locks THEN [fails |-> 0, locked |-> TRUE, old |-> FALSE]
                      ELSE [a EXCEPT !.fails = @ + 1]]
        /\ late' = IF locks THEN [late EXCEPT ![k] = Trying(k)] ELSE late
        /\ IF Len(req[p].todo) = 1 THEN Answer(p) ELSE NextKey(p, "fail")
  /\ UNCHANGED <<running, users, groups, passwords, sessions, requests, stops,
                 given, opened, cut, strayed>>

\* throttle.reset, once per key, also of a lock that was set meanwhile.
ClearKey(p) ==
  /\ At(p, "clear")
  /\ throttle' = [throttle EXCEPT ![Head(req[p].todo)] = NoAttempts]
  /\ NextKey(p, "create")
  /\ UNCHANGED <<running, users, groups, passwords, sessions, requests, stops,
                 history>>

\* Whether a session of u opened with a password is what the account allows.
Fit(u, password) ==
  In(u) /\ ~users[u].disabled /\ password >= given[u].password

\* sessions.create, whatever has become of the account.
CreateSession(p, s) ==
  /\ At(p, "create")
  /\ sessions[s].state = "new"
  /\ sessions' = [sessions EXCEPT ![s] = [state |-> "live", user |-> req[p].who]]
  /\ opened' = [opened EXCEPT ![s] =
       [with |-> req[p].tried, raced |-> ~Fit(req[p].who, req[p].tried)]]
  /\ Answer(p)
  /\ UNCHANGED <<running, users, groups, passwords, throttle, requests, stops,
                 given, cut, late, strayed>>

\* Five minutes after a lock, ten after the first failure.
Unlock(k) ==
  /\ throttle[k].locked
  /\ throttle' = [throttle EXCEPT ![k].locked = FALSE]
  /\ UNCHANGED <<running, users, groups, passwords, sessions, req, requests,
                 stops, history>>

CountAges(k) ==
  /\ throttle[k].fails > 0 /\ ~throttle[k].locked /\ ~throttle[k].old
  /\ throttle' = [throttle EXCEPT ![k].old = TRUE]
  /\ UNCHANGED <<running, users, groups, passwords, sessions, req, requests,
                 stops, history>>

-----------------------------------------------------------------------------
(* authenticate and guard *)

\* sessions.lookup; a cookie without a live session is turned away.
Lookup(p, s) ==
  /\ sessions[s].state = "live"
  /\ Begin(p, [Rest EXCEPT !.pc = "copy", !.who = sessions[s].user])
  /\ UNCHANGED <<running, users, groups, passwords, sessions, throttle, stops,
                 given, opened, cut, strayed>>

\* The handler gets a copy of the account.  (The copy shares its list of groups
\* with the account, and a handler of DeleteGroup may write to it meanwhile;
\* the model copies the list.)
CopyUser(p) ==
  /\ At(p, "copy")
  /\ LET u == req[p].who IN
       IF In(u) /\ ~users[u].disabled
         THEN req' = [req EXCEPT ![p].pc = "act", ![p].me = users[u]]
         ELSE Answer(p)
  /\ UNCHANGED <<running, users, groups, passwords, sessions, throttle,
                 requests, stops, history>>

\* What guard lets through, by the copy.
MayAct(p) == At(p, "act") /\ ~req[p].me.must
MayManage(p) == MayAct(p) /\ req[p].me.role = "admin"

\* A request that changes nothing: refused by guard, not valid, or a read.
Decline(p) ==
  /\ At(p, "act")
  /\ Answer(p)
  /\ UNCHANGED <<running, users, groups, passwords, sessions, throttle,
                 requests, stops, history>>

Gone(s) == [sessions[s] EXCEPT !.state = "gone"]
Live(s) == sessions[s].state = "live"

\* handleLogout, and the end of the twelve hours.
EndSession(s) ==
  /\ Live(s)
  /\ sessions' = [sessions EXCEPT ![s] = Gone(s)]
  /\ UNCHANGED <<running, users, groups, passwords, throttle, req, requests,
                 stops, history>>

-----------------------------------------------------------------------------
(* handleSaveUser, handleDeleteUser, handleChangeOwnPassword *)

\* The fields of the form go into the record; unknown groups are left out.
Filled(r, form) ==
  [r EXCEPT !.state = "in", !.role = form.role, !.disabled = form.disabled,
            !.allowed = Existing(form.allowed)]

Asked(u, form) ==
  given' = [given EXCEPT ![u].limit = {g \in form.allowed : groups[g] # "new"}]

\* Mutant of CreateUser: a password is made only if the form asks for it.
CreateUserBare(p, u, form) ==
  /\ MayManage(p)
  /\ users[u].state = "new"
  /\ users' = [users EXCEPT ![u] = Filled(NoUser, form)]
  /\ Asked(u, form)
  /\ IF form.reset THEN req' = [req EXCEPT ![p].pc = "hashing", ![p].on = u]
     ELSE Answer(p)
  /\ UNCHANGED <<running, groups, passwords, sessions, throttle, requests,
                 stops, opened, cut, late, strayed>>

\* A new account is in the list before it has a password.
CreateUser(p, u, form) ==
  /\ MayManage(p)
  /\ users[u].state = "new"
  /\ users' = [users EXCEPT ![u] = Filled(NoUser, form)]
  /\ Asked(u, form)
  /\ req' = [req EXCEPT ![p].pc = "hashing", ![p].on = u]
  /\ UNCHANGED <<running, groups, passwords, sessions, throttle, requests,
                 stops, opened, cut, late, strayed>>

\* "Never let the last working administrator be demoted or disabled."
LastAdmin(u, form) ==
  /\ u \in Admins /\ (form.role # "admin" \/ form.disabled)
  /\ Cardinality(Admins) <= 1

\* Mutant of EditUser: only a reset signs the account out.
EditUserQuietly(p, u, form) ==
  /\ MayManage(p)
  /\ In(u)
  /\ ~LastAdmin(u, form)
  /\ users' = [users EXCEPT ![u] = Filled(@, form)]
  /\ Asked(u, form)
  /\ IF form.reset THEN req' = [req EXCEPT ![p].pc = "hashing", ![p].on = u]
     ELSE Answer(p)
  /\ UNCHANGED <<running, groups, passwords, sessions, throttle, requests,
                 stops, opened, cut, late, strayed>>

EditUser(p, u, form) ==
  /\ MayManage(p)
  /\ In(u)
  /\ ~LastAdmin(u, form)
  /\ users' = [users EXCEPT ![u] = Filled(@, form)]
  /\ Asked(u, form)
  /\ CASE form.reset -> req' = [req EXCEPT ![p].pc = "hashing", ![p].on = u]
       [] ~form.reset /\ form.disabled ->
            req' = [req EXCEPT ![p].pc = "drop", ![p].on = u]
       [] OTHER -> Answer(p)
  /\ UNCHANGED <<running, groups, passwords, sessions, throttle, requests,
                 stops, opened, cut, late, strayed>>

\* The temporary password was hashed outside the lock; it goes into the
\* record the request has kept, also when that is no longer in the list.
StoreHash(p) ==
  /\ At(p, "hashing")
  /\ passwords < MaxPassword
  /\ passwords' = passwords + 1
  /\ LET u == req[p].on IN
       /\ users' = [users EXCEPT ![u].hash = passwords + 1, ![u].must = TRUE]
       /\ given' = [given EXCEPT ![u].password = passwords + 1]
  /\ Goto(p, "drop")
  /\ UNCHANGED <<running, groups, sessions, throttle, requests, stops, opened,
                 cut, late, strayed>>

\* sessions.dropUser.
DropUser(p) ==
  /\ At(p, "drop")
  /\ sessions' = [s \in Sids |-> IF Live(s) /\ sessions[s].user = req[p].on
                                   THEN Gone(s) ELSE sessions[s]]
  /\ Answer(p)
  /\ UNCHANGED <<running, users, groups, passwords, throttle, requests, stops,
                 history>>

\* Mutant of DeleteUser: without the check for the last administrator.
DeleteAnyUser(p, u) ==
  /\ MayManage(p)
  /\ In(u) /\ u # req[p].who
  /\ users' = [users EXCEPT ![u].state = "gone"]
  /\ req' = [req EXCEPT ![p].pc = "drop", ![p].on = u]
  /\ UNCHANGED <<running, groups, passwords, sessions, throttle, requests,
                 stops, history>>

DeleteUser(p, u) ==
  /\ MayManage(p)
  /\ In(u) /\ u # req[p].who
  /\ ~(u \in Admins /\ Cardinality(Admins) <= 1)
  /\ users' = [users EXCEPT ![u].state = "gone"]
  /\ req' = [req EXCEPT ![p].pc = "drop", ![p].on = u]
  /\ UNCHANGED <<running, groups, passwords, sessions, throttle, requests,
                 stops, history>>

\* The current password is verified against the copy, the new one hashed
\* outside the lock; the other sessions of the account stay.
ProveOwn(p) ==
  /\ At(p, "act")
  /\ Goto(p, "rehash")
  /\ UNCHANGED <<running, users, groups, passwords, sessions, throttle,
                 requests, stops, history>>

ChangeOwn(p) ==
  /\ At(p, "rehash")
  /\ passwords < MaxPassword
  /\ passwords' = passwords + 1
  /\ LET u == req[p].who IN
       users' = IF In(u) THEN [users EXCEPT ![u].hash = passwords + 1,
                                            ![u].must = FALSE]
                ELSE users
  /\ Answer(p)
  /\ UNCHANGED <<running, groups, sessions, throttle, requests, stops, history>>

-----------------------------------------------------------------------------
(* Groups, and alerts to them *)

\* handleSaveGroup of a new group; the rules are the business of Match.
CreateGroup(p, g) ==
  /\ MayManage(p)
  /\ groups[g] = "new"
  /\ groups' = [groups EXCEPT ![g] = "in"]
  /\ Answer(p)
  /\ UNCHANGED <<running, users, passwords, sessions, throttle, requests, stops,
                 history>>

\* Mutant of DeleteGroup: the accounts are not looked at.
DeleteGroupOnly(p, g) ==
  /\ MayManage(p)
  /\ groups[g] = "in"
  /\ groups' = [groups EXCEPT ![g] = "gone"]
  /\ Answer(p)
  /\ UNCHANGED <<running, users, passwords, sessions, throttle, requests, stops,
                 history>>

\* handleDeleteGroup takes the group out of every list of the accounts.
DeleteGroup(p, g) ==
  /\ MayManage(p)
  /\ groups[g] = "in"
  /\ groups' = [groups EXCEPT ![g] = "gone"]
  /\ users' = [u \in Accounts |->
                 IF In(u) THEN [users[u] EXCEPT !.allowed = @ \ {g}] ELSE users[u]]
  /\ Answer(p)
  /\ UNCHANGED <<running, passwords, sessions, throttle, requests, stops, history>>

\* Mutant of CheckAllowed: all or rules are not looked at.
CheckAllowedGroups(r, beyond, G) ==
  r.role = "admin" \/ r.allowed = {} \/ G \subseteq r.allowed

\* checkAllowed: beyond says that the target is everybody or has rules.
CheckAllowed(r, beyond, G) ==
  r.role = "admin" \/ r.allowed = {} \/ (~beyond /\ G \subseteq r.allowed)

\* handleSendAlert, as far as it asks who sends: by the copy, to groups that
\* exist.  An alert that is not within what the sender was last limited to is
\* noted, with whether the copy was old and whether a group of them is left.
Send(p, beyond, G) ==
  /\ MayAct(p)
  /\ CheckAllowed(req[p].me, beyond, G)
  /\ G = Existing(G) /\ (beyond \/ G # {})
  /\ LET u == req[p].who
         strays == /\ users[u].role = "sender" /\ given[u].limit # {}
                   /\ beyond \/ ~(G \subseteq given[u].limit)
     IN strayed' = strayed \cup
          IF strays THEN {[stale |-> req[p].me # users[u],
                           freed |-> Existing(given[u].limit) = {}]}
          ELSE {}
  /\ Answer(p)
  /\ UNCHANGED <<running, users, groups, passwords, sessions, throttle,
                 requests, stops, given, opened, cut, late>>

-----------------------------------------------------------------------------
(* Starts and stops *)

\* bootstrap: a store without accounts gets an administrator.
Start ==
  /\ ~running
  /\ running' = TRUE
  /\ IF \E u \in Accounts : In(u)
       THEN UNCHANGED <<users, passwords, given>>
       ELSE /\ passwords < MaxPassword
            /\ passwords' = passwords + 1
            /\ \E u \in Accounts :
                 /\ users[u].state = "new"
                 /\ users' = [users EXCEPT ![u] =
                      [NoUser EXCEPT !.state = "in", !.role = "admin",
                                     !.hash = passwords + 1, !.must = TRUE]]
                 /\ given' = [given EXCEPT ![u].password = passwords + 1]
  /\ UNCHANGED <<groups, sessions, throttle, req, requests, stops, opened, cut,
                 late, strayed>>

\* The end of the process, orderly or not: requests, sessions and the
\* throttle go with it.
Stop ==
  /\ running
  /\ stops < MaxStop
  /\ stops' = stops + 1
  /\ running' = FALSE
  /\ sessions' = [s \in Sids |-> IF Live(s) THEN Gone(s) ELSE sessions[s]]
  /\ throttle' = [k \in Keys |-> NoAttempts]
  /\ req' = [p \in Requests |-> Rest]
  /\ cut' = cut \cup {req[p].on : p \in {q \in Requests : At(q, "hashing")}}
  /\ late' = [k \in Keys |-> {}]
  /\ UNCHANGED <<users, groups, passwords, requests, given, opened, strayed>>

\* foghorn-server reset-password.  It refuses while a server answers on the
\* port: ~running stands for that.
ResetPassword(u) ==
  /\ ~running
  /\ In(u)
  /\ passwords < MaxPassword
  /\ passwords' = passwords + 1
  /\ users' = [users EXCEPT ![u].hash = passwords + 1, ![u].must = TRUE,
                            ![u].disabled = FALSE]
  /\ given' = [given EXCEPT ![u].password = passwords + 1]
  /\ UNCHANGED <<running, groups, sessions, throttle, req, requests, stops,
                 opened, cut, late, strayed>>

-----------------------------------------------------------------------------
LoginStep(p) ==
  \/ \E ip \in Addresses, n \in Names :
       SignIn(p, ip, n, 0) \/ SignIn(p, ip, n, users[Holder[n]].hash)
  \/ CheckKey(p) \/ ReadHash(p) \/ Verify(p) \/ CountFailure(p) \/ ClearKey(p)
  \/ \E s \in Sids : CreateSession(p, s)

AccountStep(p) ==
  \/ \E u \in Accounts, form \in Forms :
       CreateUser(p, u, form) \/ EditUser(p, u, form)
  \/ \E u \in Accounts : DeleteUser(p, u)
  \/ StoreHash(p) \/ DropUser(p) \/ ProveOwn(p) \/ ChangeOwn(p)

GroupStep(p) ==
  \/ \E g \in Groups : CreateGroup(p, g) \/ DeleteGroup(p, g)
  \/ \E beyond \in BOOLEAN, G \in SUBSET Groups : Send(p, beyond, G)

Next ==
  \/ \E p \in Requests :
       \/ LoginStep(p) \/ AccountStep(p) \/ GroupStep(p)
       \/ \E s \in Sids : Lookup(p, s)
       \/ CopyUser(p) \/ Decline(p)
  \/ \E s \in Sids : EndSession(s)
  \/ \E k \in Keys : Unlock(k) \/ CountAges(k)
  \/ Start \/ Stop
  \/ \E u \in Accounts : ResetPassword(u)

Spec == Init /\ [][Next]_vars

-----------------------------------------------------------------------------
UserType == [state : {"new", "in", "gone"}, role : {"admin", "sender"},
             disabled : BOOLEAN, hash : Nat, must : BOOLEAN,
             allowed : SUBSET Groups]
Stages == {"idle", "check", "read", "verify", "fail", "clear", "create", "copy",
           "act", "hashing", "drop", "rehash"}
SomeUser == Accounts \cup {Nobody}
RequestType ==
  [pc : Stages, who : SomeUser, me : UserType, tried : Nat, hash : Nat,
   on : SomeUser, keys : Seq(Keys), todo : Seq(Keys)]

\* The variables have their types, and the bounds are kept.
TypeOK ==
  /\ running \in BOOLEAN
  /\ users \in [Accounts -> UserType]
  /\ groups \in [Groups -> {"new", "in", "gone"}]
  /\ passwords \in 0..MaxPassword
  /\ sessions \in [Sids -> [state : {"new", "live", "gone"}, user : SomeUser]]
  /\ throttle \in
       [Keys -> [fails : 0..(MaxFails - 1), locked : BOOLEAN, old : BOOLEAN]]
  /\ req \in [Requests -> RequestType]
  /\ requests \in 0..MaxRequest /\ stops \in 0..MaxStop
  /\ given \in [Accounts -> [limit : SUBSET Groups, password : Nat]]
  /\ opened \in [Sids -> [with : Nat, raced : BOOLEAN]]
  /\ cut \subseteq SomeUser
  /\ late \in [Keys -> SUBSET Requests]
  /\ strayed \subseteq [stale : BOOLEAN, freed : BOOLEAN]

\* A server that serves has an administrator who is not disabled, whatever
\* requests demote, disable and delete beside each other on copies of
\* accounts that are no longer administrators, and through restarts
\* (handleSaveUser, handleDeleteUser, bootstrap).
AdminRemains == running => Admins # {}

\* The account is being given its first password.
BeingHashed(u) == \E p \in Requests : At(p, "hashing") /\ req[p].on = u

\* "The last working administrator" (handleSaveUser) can also sign in: one of
\* the administrators has a password, or a request is about to give it one.
\* Only a stop in that moment leaves none, for the new account counts as an
\* administrator as soon as it is in the list.
AdminHasPassword ==
  running => \E u \in Admins : users[u].hash # 0 \/ BeingHashed(u) \/ u \in cut

\* Limits follow groups: an account is limited to those of the groups asked
\* for on the form that still exist, and refers to no other (handleSaveUser,
\* handleDeleteGroup).
LimitsFollowGroups ==
  \A u \in Accounts : In(u) => users[u].allowed = Existing(given[u].limit)

\* An alert leaves the limit of its sender only where the limit was set while
\* the request ran on its copy of the account, or where all the groups of the
\* limit are gone: an empty list is no limit (handleSendAlert, checkAllowed).
StraysAreExplained == \A x \in strayed : x.stale \/ x.freed

\* A request that will sign the account out.
SignOutComes(u) ==
  \E p \in Requests : req[p].pc \in {"drop", "hashing"} /\ req[p].on = u

\* Sessions do not outlive what opened them: when an account has been
\* deleted, disabled or given another password, its sessions are gone once
\* that request is through, but for sign-ins that were under way
\* (handleSaveUser, handleDeleteUser, handleLogin).
SignedOut ==
  \A s \in Sids : Live(s) =>
    LET u == sessions[s].user IN
      Fit(u, opened[s].with) \/ SignOutComes(u) \/ opened[s].raced

\* A lock holds: while a name as typed or an address is locked out, no password
\* is tried with it but by requests that were past its check when it was
\* locked, in whatever order requests check, fail and clear their two keys
\* (handleLogin, throttle).  It says nothing of the account: another spelling
\* that finds the same account is a key of its own, for handleLogin trims the
\* name it looks up and not the name it locks.
LockKeepsOut == \A k \in Keys : throttle[k].locked => Trying(k) \subseteq late[k]
=============================================================================
